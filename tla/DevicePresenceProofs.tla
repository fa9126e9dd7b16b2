------------------------ MODULE DevicePresenceProofs ------------------------
(***************************************************************************)
(* Theorems about DevicePresence, for any agents, polls and reports, and   *)
(* for any threshold.                                                      *)
(***************************************************************************)
EXTENDS DevicePresence, TLAPS

USE PresenceAssumption, NoEventAssumption

(* At the start every device has just been seen and nobody holds a row. *)
LEMMA InitPresenceInv == Init => PresenceInv
<1> SUFFICES ASSUME Init PROVE PresenceInv
  OBVIOUS
<1>1. SignalingTypeOK
  BY DEF Init, SignalingTypeOK, SignalingInit
<1>2. now \in 0..MaxTime /\ 0 \in 0..now
  BY DEF Init
<1>3. TypeOK
  BY <1>1, <1>2 DEF Init, TypeOK, DeviceStatus
<1>4. ReportsHoldRows /\ SweepKnowsRows
  BY DEF Init, ReportsHoldRows, SweepKnowsRows
<1>5. QED
  BY <1>3, <1>4 DEF PresenceInv

(* Every step keeps the variables in their types. *)
LEMMA NextTypeOK == TypeOK /\ ReportsHoldRows /\ [Next]_vars => TypeOK'
<1> SUFFICES ASSUME TypeOK, ReportsHoldRows, [Next]_vars PROVE TypeOK'
  OBVIOUS
<1> USE DEF TypeOK, SignalingTypeOK, ReportsHoldRows, DeviceStatus,
            pollVars, reportVars, sweepVars, signalingVars
<1>0. ASSUME EndSweep, now' = now
      PROVE  /\ sweep' = "idle" /\ asOf' \in 0..now'
             /\ excluded' \subseteq Agents /\ spared' \subseteq Agents
             /\ todo' \subseteq Agents /\ marked' \subseteq Agents
             /\ readSeen' \in [Agents -> 0..now']
  <2>1. readSeen' = [a \in Agents |-> 0] /\ 0 \in 0..now'
    BY <1>0 DEF EndSweep
  <2>2. readSeen' \in [Agents -> 0..now']
    BY <2>1
  <2>3. QED
    BY <1>0, <2>2 DEF EndSweep
<1>1. CASE Tick
  BY <1>1 DEF Tick
<1>2. ASSUME NEW p \in Polls, StartPoll(p) PROVE TypeOK'
  BY <1>2 DEF StartPoll, RegisterPoll
<1>3. ASSUME NEW p \in Polls, EndPoll(p) PROVE TypeOK'
  BY <1>3 DEF EndPoll, UnregisterPoll
<1>4. ASSUME NEW r \in Reports, NEW a \in Agents, NEW s \in DeviceStatus, StampReport(r, a, s)
      PROVE  TypeOK'
  BY <1>4 DEF StampReport
<1>5. ASSUME NEW r \in Reports, UpdateReport(r) PROVE TypeOK'
  BY <1>5 DEF UpdateReport
<1>6. ASSUME NEW r \in Reports, CommitReport(r) PROVE TypeOK'
  BY <1>6 DEF CommitReport, CloseReport
<1>7. ASSUME NEW r \in Reports, DropReport(r) PROVE TypeOK'
  BY <1>7 DEF DropReport, CloseReport
<1>8. CASE BeginSweep
  BY <1>8 DEF BeginSweep, ActivePollAgents
<1>9. CASE FindStale
  BY <1>9 DEF FindStale, Stale
<1>10. CASE CommitSweep
  <2>1. /\ status' \in [Agents -> {"ONLINE", "OFFLINE"}]
        /\ lastSeen' \in [Agents -> 0..now']
    BY <1>10 DEF CommitSweep
  <2>2. QED
    BY <1>0, <1>10, <2>1 DEF CommitSweep
<1>11. CASE AbortSweep
  BY <1>0, <1>11 DEF AbortSweep
<1>12. ASSUME NEW a \in Agents, MarkOffline(a) PROVE TypeOK'
  BY <1>12 DEF MarkOffline
<1>13. CASE UNCHANGED vars
  BY <1>13 DEF vars
<1>14. QED
  BY <1>1, <1>2, <1>3, <1>4, <1>5, <1>6, <1>7, <1>8, <1>9, <1>10, <1>11, <1>12, <1>13 DEF Next

(* Every step of a report or of the sweep keeps what the holders of row    *)
(* locks know of their rows.                                               *)
LEMMA NextPresenceInv == PresenceInv /\ [Next]_vars => PresenceInv'
<1> SUFFICES ASSUME PresenceInv, [Next]_vars PROVE PresenceInv'
  OBVIOUS
<1>0. TypeOK'
  BY NextTypeOK DEF PresenceInv
<1> SUFFICES ReportsHoldRows' /\ SweepKnowsRows'
  BY <1>0 DEF PresenceInv
<1> USE DEF PresenceInv, TypeOK, SignalingTypeOK, ReportsHoldRows, SweepKnowsRows,
            pollVars, reportVars, sweepVars
<1>1. CASE Tick
  BY <1>1 DEF Tick
<1>2. ASSUME NEW p \in Polls, StartPoll(p) PROVE ReportsHoldRows' /\ SweepKnowsRows'
  BY <1>2 DEF StartPoll
<1>3. ASSUME NEW p \in Polls, EndPoll(p) PROVE ReportsHoldRows' /\ SweepKnowsRows'
  BY <1>3 DEF EndPoll
<1>4. ASSUME NEW r \in Reports, NEW a \in Agents, NEW s \in DeviceStatus, StampReport(r, a, s)
      PROVE  ReportsHoldRows' /\ SweepKnowsRows'
  BY <1>4 DEF StampReport
<1>5. ASSUME NEW r \in Reports, UpdateReport(r) PROVE ReportsHoldRows' /\ SweepKnowsRows'
  BY <1>5 DEF UpdateReport, Locked, LockedByReport, Matches
<1>6. ASSUME NEW r \in Reports, CommitReport(r) PROVE ReportsHoldRows' /\ SweepKnowsRows'
  BY <1>6 DEF CommitReport, CloseReport
<1>7. ASSUME NEW r \in Reports, DropReport(r) PROVE ReportsHoldRows' /\ SweepKnowsRows'
  BY <1>7 DEF DropReport, CloseReport
<1>8. CASE BeginSweep
  BY <1>8 DEF BeginSweep
<1>9. CASE FindStale
  BY <1>9 DEF FindStale, Stale
<1>10. CASE CommitSweep
  BY <1>10 DEF CommitSweep, EndSweep
<1>11. CASE AbortSweep
  BY <1>11 DEF AbortSweep, EndSweep
<1>12. ASSUME NEW a \in Agents, MarkOffline(a) PROVE ReportsHoldRows' /\ SweepKnowsRows'
  BY <1>12 DEF MarkOffline, LockedByReport, Matches
<1>13. CASE UNCHANGED vars
  BY <1>13 DEF vars
<1>14. QED
  BY <1>1, <1>2, <1>3, <1>4, <1>5, <1>6, <1>7, <1>8, <1>9, <1>10, <1>11, <1>12, <1>13 DEF Next

(* PresenceInv is inductive: a row that a report or the sweep has updated  *)
(* is written by nobody else before that transaction ends.                 *)
THEOREM PresenceInvariant == Spec => []PresenceInv
  BY InitPresenceInv, NextPresenceInv, PTL DEF Spec

(* Every reachable state is well typed. *)
THEOREM TypeCorrect == Spec => []TypeOK
<1>1. PresenceInv => TypeOK
  BY DEF PresenceInv
<1>2. QED
  BY <1>1, PresenceInvariant, PTL

-----------------------------------------------------------------------------
(* Only the commit of a report and the commit of a sweep write last_seen_at, *)
(* and both find it where their WHERE clause compared it.                    *)
LEMMA NextLastSeen ==
  ASSUME PresenceInv, [Next]_vars
  PROVE  \/ UNCHANGED lastSeen
         \/ \E r \in Reports :
              /\ pc[r] = "updated"
              /\ lastSeen' = [lastSeen EXCEPT ![agent[r]] = stamp[r]]
              /\ UNCHANGED sweep
<1> USE DEF pollVars, reportVars, sweepVars
<1>1. ASSUME NEW r \in Reports, CommitReport(r)
      PROVE  /\ pc[r] = "updated"
             /\ lastSeen' = [lastSeen EXCEPT ![agent[r]] = stamp[r]]
             /\ UNCHANGED sweep
  BY <1>1 DEF CommitReport
<1>2. CASE CommitSweep
  BY <1>2 DEF CommitSweep, PresenceInv, TypeOK, SweepKnowsRows
<1>3. CASE ~CommitSweep /\ ~(\E r \in Reports : CommitReport(r))
  BY <1>3 DEF Next, vars, Tick, StartPoll, EndPoll, StampReport, UpdateReport, DropReport,
              BeginSweep, FindStale, AbortSweep, MarkOffline
<1>4. QED
  BY <1>1, <1>2, <1>3

(* Reports and sweeps that overlap never move last_seen_at back. *)
THEOREM SeenMovesForward == Spec => LastSeenOnlyGrows
<1>1. PresenceInv /\ [Next]_vars => [\A a \in Agents : lastSeen[a] <= lastSeen'[a]]_lastSeen
  <2> SUFFICES ASSUME PresenceInv, [Next]_vars, NEW a \in Agents, lastSeen' # lastSeen
               PROVE  lastSeen[a] <= lastSeen'[a]
    OBVIOUS
  <2>1. PICK r \in Reports : /\ pc[r] = "updated"
                             /\ lastSeen' = [lastSeen EXCEPT ![agent[r]] = stamp[r]]
    BY NextLastSeen
  <2>2. QED
    BY <2>1 DEF PresenceInv, TypeOK, ReportsHoldRows
<1>2. QED
  BY <1>1, PresenceInvariant, PTL DEF Spec, LastSeenOnlyGrows

(* The sweep takes a device OFFLINE only if its last report is too old in  *)
(* the row it overwrites.                                                  *)
THEOREM FreshDevicesStayOnline == Spec => SweepSparesFreshDevices
<1>1. PresenceInv /\ [Next]_vars =>
        [CommitSweep => \A a \in Agents :
           status'[a] # status[a] => lastSeen[a] + Threshold < now]_vars
  <2> SUFFICES ASSUME PresenceInv, CommitSweep, NEW a \in Agents, status'[a] # status[a]
               PROVE  lastSeen[a] + Threshold < now
    OBVIOUS
  <2>1. a \in marked
    BY DEF CommitSweep, PresenceInv, TypeOK
  <2>2. lastSeen[a] + Threshold < asOf
    BY <2>1 DEF PresenceInv, SweepKnowsRows
  <2>3. asOf \in 0..now /\ lastSeen[a] \in 0..now
    BY DEF PresenceInv, TypeOK
  <2>4. QED
    BY <2>2, <2>3, PresenceAssumption DEF PresenceInv, TypeOK
<1>2. QED
  BY <1>1, PresenceInvariant, PTL DEF Spec, SweepSparesFreshDevices

(* The sweep writes back the last_seen_at of the row it overwrites,        *)
(* whatever was committed since it read it.                                *)
THEOREM SweepKeepsLastSeen == Spec => SweepPreservesLastSeen
<1>1. PresenceInv /\ [Next]_vars => [sweep # "idle" /\ sweep' = "idle" => UNCHANGED lastSeen]_vars
  BY NextLastSeen
<1>2. QED
  BY <1>1, PresenceInvariant, PTL DEF Spec, SweepPreservesLastSeen

-----------------------------------------------------------------------------
(* A poll that starts or ends leaves the registry right for every agent    *)
(* whose polls have not met.                                               *)
LEMMA NextRegistry == PresenceInv /\ RegistryKnowsPolls /\ [Next]_vars => RegistryKnowsPolls'
<1> SUFFICES ASSUME PresenceInv, RegistryKnowsPolls, [Next]_vars,
                    NEW a \in Agents, InPoll(a)', a \notin overlapped'
             PROVE  \E p \in held' : /\ pollEvents'[a] = p
                                     /\ \A q \in held' : PollAgent[q] = a => q = p
  BY DEF RegistryKnowsPolls
<1> USE DEF PresenceInv, TypeOK, SignalingTypeOK, InPoll, pollVars, signalingVars
<1>1. ASSUME NEW p \in Polls, StartPoll(p)
      PROVE  \E x \in held' : pollEvents'[a] = x /\ \A q \in held' : PollAgent[q] = a => q = x
  <2>1. CASE PollAgent[p] = a
    <3>1. ~InPoll(a)
      BY <1>1, <2>1 DEF StartPoll
    <3>2. QED
      BY <1>1, <2>1, <3>1 DEF StartPoll, RegisterPoll
  <2>2. CASE PollAgent[p] # a
    BY <1>1, <2>2 DEF StartPoll, RegisterPoll, RegistryKnowsPolls
  <2>3. QED
    BY <2>1, <2>2
<1>2. ASSUME NEW p \in Polls, EndPoll(p)
      PROVE  \E x \in held' : pollEvents'[a] = x /\ \A q \in held' : PollAgent[q] = a => q = x
  <2>1. InPoll(a) /\ a \notin overlapped
    BY <1>2 DEF EndPoll
  <2>2. PICK x \in held : pollEvents[a] = x /\ \A q \in held : PollAgent[q] = a => q = x
    BY <2>1 DEF RegistryKnowsPolls
  <2>3. x # p /\ PollAgent[p] # a
    BY <1>2, <2>2 DEF EndPoll
  <2>4. QED
    BY <1>2, <2>2, <2>3 DEF EndPoll, UnregisterPoll
<1>3. CASE UNCHANGED <<held, pollEvents, overlapped>>
  BY <1>3 DEF RegistryKnowsPolls
<1>4. QED
  BY <1>1, <1>2, <1>3
     DEF Next, vars, Tick, StampReport, UpdateReport, CommitReport, DropReport,
         BeginSweep, FindStale, CommitSweep, AbortSweep, MarkOffline

(* The registry knows every poll that has met no other of its agent. *)
THEOREM RegistryInvariant == Spec => []RegistryKnowsPolls
<1>1. Init => RegistryKnowsPolls
  BY DEF Init, RegistryKnowsPolls, InPoll
<1>2. QED
  BY <1>1, NextRegistry, PresenceInvariant, PTL DEF Spec

(* An agent in a poll that has met no other is registered, so a sweep that *)
(* begins leaves it out; the sweep keeps its list until it ends.           *)
LEMMA NextSpared ==
  PresenceInv /\ RegistryKnowsPolls /\ SparedAreExcluded /\ [Next]_vars => SparedAreExcluded'
<1> SUFFICES ASSUME PresenceInv, RegistryKnowsPolls, SparedAreExcluded, [Next]_vars
             PROVE  spared' \subseteq excluded'
  BY DEF SparedAreExcluded
<1> USE DEF sweepVars
<1>1. CASE BeginSweep
  <2>1. ASSUME NEW a \in Agents, InPoll(a), a \notin overlapped PROVE a \in ActivePollAgents
    BY <2>1 DEF RegistryKnowsPolls, ActivePollAgents, PresenceInv, TypeOK
  <2>2. QED
    BY <1>1, <2>1 DEF BeginSweep
<1>2. CASE EndSweep
  BY <1>2 DEF EndSweep
<1>3. CASE UNCHANGED <<spared, excluded>>
  BY <1>3 DEF SparedAreExcluded
<1>4. QED
  BY <1>1, <1>2, <1>3
     DEF Next, vars, Tick, StartPoll, EndPoll, StampReport, UpdateReport, CommitReport,
         DropReport, FindStale, CommitSweep, AbortSweep, MarkOffline

(* The sweep takes no device OFFLINE whose agent was, when the sweep       *)
(* looked at the registry, in a poll that had met no other.                *)
THEOREM PollersAreSpared == Spec => SweepSparesPollers
<1>1. Init => SparedAreExcluded
  BY DEF Init, SparedAreExcluded
<1>2. Spec => []SparedAreExcluded
  BY <1>1, NextSpared, PresenceInvariant, RegistryInvariant, PTL DEF Spec
<1>3. PresenceInv /\ SparedAreExcluded /\ [Next]_vars =>
        [CommitSweep => \A a \in spared : status'[a] = status[a]]_vars
  <2> SUFFICES ASSUME PresenceInv, SparedAreExcluded, CommitSweep, NEW a \in spared
               PROVE  status'[a] = status[a]
    OBVIOUS
  <2>1. a \in Agents /\ a \notin marked
    BY DEF SparedAreExcluded, PresenceInv, SweepKnowsRows, TypeOK
  <2>2. QED
    BY <2>1 DEF CommitSweep
<1>4. QED
  BY <1>2, <1>3, PresenceInvariant, PTL DEF Spec, SweepSparesPollers
=============================================================================

---------------------------- MODULE DevicePresence ----------------------------
(***************************************************************************)
(* Whether a device is ONLINE: state reports and the stale sweep of        *)
(* SignalingService.check_stale_agents over the devices table (READ        *)
(* COMMITTED), with the registry of held polls the sweep consults.  Both   *)
(* write through DeviceRepository.update_status, whose WHERE clause        *)
(* compares timestamps, and leave the commit to their caller; the state    *)
(* route makes none.                                                       *)
(***************************************************************************)
EXTENDS SignalingService, Naturals

CONSTANTS
  PollAgent,  \* the agent whose requests use a poll slot
  Reports,    \* slots for report transactions
  Threshold,  \* 110 seconds, in ticks
  NoAgent,
  MaxTime     \* bound on the clock

ASSUME PresenceAssumption ==
  /\ PollAgent \in [Polls -> Agents]
  /\ NoAgent \notin Agents
  /\ Threshold \in Nat
  /\ MaxTime \in Nat

VARIABLES
  now,
  status,     \* committed status of each device
  lastSeen,   \* committed last_seen_at
  held,       \* polls inside hold_poll's wait
  lastPoll,   \* history: when an agent last was in a poll
  overlapped, \* history: agents with a poll held that has met another
  pc,         \* "idle", "stamped" (last_seen computed), "updated", "missed"
  route,      \* the reports made by POST /edge/state
  agent,      \* the device a report is about
  stamp,      \* its last_seen
  report,     \* its status
  sweep,      \* the stale sweep: "idle", "reading" (its SELECT is awaited), "marking"
  asOf,       \* the time it computed the cutoff from
  excluded,   \* the agents it leaves out
  spared,     \* history: those in a poll at that moment which had met no other
  todo,       \* the stale devices it has not updated yet
  readSeen,   \* the last_seen_at it read of each device
  marked      \* the devices whose row it has updated

pollVars == <<signalingVars, held, lastPoll, overlapped>>
reportVars == <<pc, route, agent, stamp, report>>
sweepVars == <<sweep, asOf, excluded, spared, todo, readSeen, marked>>
vars == <<now, status, lastSeen, pollVars, reportVars, sweepVars>>

DeviceStatus == {"ONLINE", "OFFLINE"}

TypeOK ==
  /\ SignalingTypeOK
  /\ now \in 0..MaxTime
  /\ status \in [Agents -> DeviceStatus]
  /\ lastSeen \in [Agents -> 0..now]
  /\ held \subseteq Polls
  /\ lastPoll \in [Agents -> 0..now]
  /\ overlapped \subseteq Agents
  /\ pc \in [Reports -> {"idle", "stamped", "updated", "missed"}]
  /\ route \subseteq Reports
  /\ agent \in [Reports -> Agents \union {NoAgent}]
  /\ stamp \in [Reports -> 0..now]
  /\ report \in [Reports -> DeviceStatus]
  /\ sweep \in {"idle", "reading", "marking"}
  /\ asOf \in 0..now
  /\ excluded \subseteq Agents
  /\ spared \subseteq Agents
  /\ todo \subseteq Agents
  /\ readSeen \in [Agents -> 0..now]
  /\ marked \subseteq Agents

(* Every device has just been linked: ONLINE, last seen now. *)
Init ==
  /\ SignalingInit
  /\ now = 0
  /\ status = [a \in Agents |-> "ONLINE"]
  /\ lastSeen = [a \in Agents |-> 0]
  /\ held = {}
  /\ lastPoll = [a \in Agents |-> 0]
  /\ overlapped = {}
  /\ pc = [r \in Reports |-> "idle"]
  /\ route = {}
  /\ agent = [r \in Reports |-> NoAgent]
  /\ stamp = [r \in Reports |-> 0]
  /\ report = [r \in Reports |-> "ONLINE"]
  /\ sweep = "idle"
  /\ asOf = 0
  /\ excluded = {}
  /\ spared = {}
  /\ todo = {}
  /\ readSeen = [a \in Agents |-> 0]
  /\ marked = {}

-----------------------------------------------------------------------------
(* The agent has a poll inside hold_poll's wait. *)
InPoll(a) == \E p \in held : PollAgent[p] = a

(* A tick of the clock; an agent inside hold_poll is polling at that time. *)
Tick ==
  /\ now < MaxTime
  /\ now' = now + 1
  /\ lastPoll' = [a \in Agents |-> IF InPoll(a) THEN now + 1 ELSE lastPoll[a]]
  /\ UNCHANGED <<status, lastSeen, signalingVars, held, overlapped, reportVars, sweepVars>>

(* hold_poll registers and, in its finally block, unregisters.  A poll     *)
(* leaves last_seen_at alone.                                              *)
StartPoll(p) ==
  /\ p \notin held
  /\ RegisterPoll(PollAgent[p], p)
  /\ held' = held \union {p}
  /\ lastPoll' = [lastPoll EXCEPT ![PollAgent[p]] = now]
  /\ overlapped' = overlapped \union {a \in {PollAgent[p]} : InPoll(a)}
  /\ UNCHANGED <<now, status, lastSeen, reportVars, sweepVars>>

EndPoll(p) ==
  /\ p \in held
  /\ UnregisterPoll(PollAgent[p], p)
  /\ held' = held \ {p}
  /\ overlapped' = {a \in overlapped : InPoll(a)'}
  /\ UNCHANGED <<now, status, lastSeen, lastPoll, reportVars, sweepVars>>

-----------------------------------------------------------------------------
(* update_status *)

LockedByReport(a) == \E r \in Reports : pc[r] = "updated" /\ agent[r] = a

Locked(a) == LockedByReport(a) \/ a \in marked

(* Mutant of Matches: no optimistic locking. *)
MutantMatches(a, seen) == TRUE

(* The WHERE clause, evaluated on the committed row once its lock is free. *)
Matches(a, seen) == lastSeen[a] <= seen

(* report_state or another caller of update_device_status: last_seen       *)
(* defaults to the time before the UPDATE.                                 *)
StampReport(r, a, s) ==
  /\ pc[r] = "idle"
  /\ pc' = [pc EXCEPT ![r] = "stamped"]
  /\ agent' = [agent EXCEPT ![r] = a]
  /\ stamp' = [stamp EXCEPT ![r] = now]
  /\ report' = [report EXCEPT ![r] = s]
  /\ route' \in {route, route \union {r}}
  /\ UNCHANGED <<now, status, lastSeen, pollVars, sweepVars>>

UpdateReport(r) ==
  /\ pc[r] = "stamped"
  /\ ~Locked(agent[r])
  /\ pc' = [pc EXCEPT ![r] = IF Matches(agent[r], stamp[r]) THEN "updated" ELSE "missed"]
  /\ UNCHANGED <<now, status, lastSeen, pollVars, route, agent, stamp, report, sweepVars>>

CloseReport(r) ==
  /\ pc' = [pc EXCEPT ![r] = "idle"]
  /\ route' = route \ {r}
  /\ agent' = [agent EXCEPT ![r] = NoAgent]
  /\ stamp' = [stamp EXCEPT ![r] = 0]
  /\ report' = [report EXCEPT ![r] = "ONLINE"]

(* Mutant of CommitReport: the row keeps the time at which it goes stale.  *)
MutantCommitReport(r) ==
  /\ pc[r] = "updated"
  /\ r \notin route
  /\ status' = [status EXCEPT ![agent[r]] = report[r]]
  /\ lastSeen' = [lastSeen EXCEPT ![agent[r]] = stamp[r] + Threshold]
  /\ CloseReport(r)
  /\ UNCHANGED <<now, pollVars, sweepVars>>

(* A caller that commits. *)
CommitReport(r) ==
  /\ pc[r] = "updated"
  /\ r \notin route
  /\ status' = [status EXCEPT ![agent[r]] = report[r]]
  /\ lastSeen' = [lastSeen EXCEPT ![agent[r]] = stamp[r]]
  /\ CloseReport(r)
  /\ UNCHANGED <<now, pollVars, sweepVars>>

(* The route acknowledges and its session is closed without a commit; or   *)
(* the UPDATE matched nothing; or the request died.                        *)
DropReport(r) ==
  /\ pc[r] # "idle"
  /\ CloseReport(r)
  /\ UNCHANGED <<now, status, lastSeen, pollVars, sweepVars>>

-----------------------------------------------------------------------------
(* check_stale_agents *)

(* The sweep reads the registry and the clock and builds its SELECT, with  *)
(* the agents registered at that moment as a list ...                      *)
BeginSweep ==
  /\ sweep = "idle"
  /\ sweep' = "reading"
  /\ asOf' = now
  /\ excluded' = ActivePollAgents
  /\ spared' = {a \in Agents : InPoll(a)} \ overlapped
  /\ UNCHANGED <<now, status, lastSeen, pollVars, reportVars, todo, readSeen, marked>>

(* Mutant of Stale: the age of the report is not looked at. *)
MutantStale == {a \in Agents : status[a] = "ONLINE"} \ excluded

(* Mutant of Stale: the agents registered in a poll are not left out. *)
MutantStaleAll ==
  {a \in Agents : status[a] = "ONLINE" /\ lastSeen[a] + Threshold < asOf}

(* The rows the SELECT matches, by the cutoff and the list it was built with. *)
Stale ==
  {a \in Agents : status[a] = "ONLINE" /\ lastSeen[a] + Threshold < asOf} \ excluded

(* ... and has its rows later: polls and reports go on while it is awaited. *)
FindStale ==
  /\ sweep = "reading"
  /\ sweep' = "marking"
  /\ todo' = Stale
  /\ readSeen' = lastSeen
  /\ UNCHANGED <<now, status, lastSeen, pollVars, reportVars, asOf, excluded, spared, marked>>

(* update_status(OFFLINE, last_seen as read) for one of them; the count is *)
(* not part of the state.                                                  *)
MarkOffline(a) ==
  /\ a \in todo
  /\ ~LockedByReport(a)
  /\ todo' = todo \ {a}
  /\ marked' = IF Matches(a, readSeen[a]) THEN marked \union {a} ELSE marked
  /\ UNCHANGED <<now, status, lastSeen, pollVars, reportVars, sweep, asOf, excluded, spared, readSeen>>

EndSweep ==
  /\ sweep' = "idle"
  /\ asOf' = 0
  /\ excluded' = {}
  /\ spared' = {}
  /\ todo' = {}
  /\ readSeen' = [a \in Agents |-> 0]
  /\ marked' = {}

(* Mutant of CommitSweep: last_seen is left to its default, the time now.  *)
MutantCommitSweep ==
  /\ sweep = "marking"
  /\ todo = {}
  /\ status' = [a \in Agents |-> IF a \in marked THEN "OFFLINE" ELSE status[a]]
  /\ lastSeen' = [a \in Agents |-> IF a \in marked THEN now ELSE lastSeen[a]]
  /\ EndSweep
  /\ UNCHANGED <<now, pollVars, reportVars>>

(* Its caller commits. *)
CommitSweep ==
  /\ sweep = "marking"
  /\ todo = {}
  /\ status' = [a \in Agents |-> IF a \in marked THEN "OFFLINE" ELSE status[a]]
  /\ lastSeen' = [a \in Agents |-> IF a \in marked THEN readSeen[a] ELSE lastSeen[a]]
  /\ EndSweep
  /\ UNCHANGED <<now, pollVars, reportVars>>

AbortSweep ==
  /\ sweep # "idle"
  /\ EndSweep
  /\ UNCHANGED <<now, status, lastSeen, pollVars, reportVars>>

-----------------------------------------------------------------------------

Next ==
  \/ Tick
  \/ \E p \in Polls : StartPoll(p) \/ EndPoll(p)
  \/ \E r \in Reports :
       \/ \E a \in Agents, s \in DeviceStatus : StampReport(r, a, s)
       \/ UpdateReport(r) \/ CommitReport(r) \/ DropReport(r)
  \/ BeginSweep \/ FindStale \/ CommitSweep \/ AbortSweep
  \/ \E a \in Agents : MarkOffline(a)

Spec == Init /\ [][Next]_vars

-----------------------------------------------------------------------------
(* Properties *)

(* Reports and sweeps that overlap never move last_seen_at back: a report  *)
(* that waited for another's lock does not overwrite a later one.          *)
LastSeenOnlyGrows == [][\A a \in Agents : lastSeen[a] <= lastSeen'[a]]_lastSeen

(* The sweep takes a device OFFLINE only if its last report is too old in  *)
(* the row it overwrites, not merely in the one it read.                   *)
SweepSparesFreshDevices ==
  [][CommitSweep => \A a \in Agents :
       status'[a] # status[a] => lastSeen[a] + Threshold < now]_vars

(* And it preserves the time of that report.                               *)
SweepPreservesLastSeen ==
  [][sweep # "idle" /\ sweep' = "idle" => UNCHANGED lastSeen]_vars

(* The sweep takes no device OFFLINE whose agent was in a poll when the    *)
(* sweep looked at the registry, whatever polls had come and gone before   *)
(* and do so until it commits; unless that poll had overlapped another,    *)
(* whose end has then taken the entry away.                                *)
SweepSparesPollers ==
  [][CommitSweep => \A a \in spared : status'[a] = status[a]]_vars

(* The devices the sweep takes OFFLINE have missed polls for as long as    *)
(* the threshold; in particular no agent is in a poll at that moment.      *)
OfflineMeansMissedPolls ==
  [][CommitSweep => \A a \in Agents :
       status'[a] # status[a] => lastPoll[a] + Threshold < now]_vars

-----------------------------------------------------------------------------
(* Inductive invariants, for the proofs *)

(* A report that has updated its row holds it alone, and the row it is to  *)
(* overwrite is no later than its stamp.                                   *)
ReportsHoldRows ==
  /\ \A r \in Reports : pc[r] # "idle" => agent[r] \in Agents
  /\ \A r \in Reports : pc[r] = "updated" =>
       lastSeen[agent[r]] <= stamp[r] /\ agent[r] \notin marked
  /\ \A q, r \in Reports :
       pc[q] = "updated" /\ pc[r] = "updated" /\ agent[q] = agent[r] => q = r

(* What the sweep read of a device is no later than its row, and equal to  *)
(* it once the row is marked; it has found none of the agents it left out. *)
SweepKnowsRows ==
  /\ sweep # "marking" => todo = {} /\ marked = {}
  /\ sweep = "marking" => \A a \in Agents : readSeen[a] <= lastSeen[a]
  /\ \A a \in todo \union marked : readSeen[a] + Threshold < asOf /\ a \notin excluded
  /\ \A a \in marked : lastSeen[a] = readSeen[a]

PresenceInv == TypeOK /\ ReportsHoldRows /\ SweepKnowsRows

(* The registry holds the only poll of an agent whose polls have not met.  *)
RegistryKnowsPolls ==
  \A a \in Agents : InPoll(a) /\ a \notin overlapped =>
    \E p \in held : /\ pollEvents[a] = p
                    /\ \A q \in held : PollAgent[q] = a => q = p

(* The agents in such a poll when the sweep began are among those it left  *)
(* out.                                                                    *)
SparedAreExcluded == spared \subseteq excluded
=============================================================================

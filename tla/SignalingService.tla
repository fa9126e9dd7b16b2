-------------------------- MODULE SignalingService --------------------------
(***************************************************************************)
(* The in-memory half of the long-poll mechanism: the registry in which a  *)
(* held poll leaves an asyncio.Event for its agent, and the calls that     *)
(* read and write it.                                                      *)
(*                                                                         *)
(* The process runs one event loop, and no critical section of             *)
(* _events_lock contains an await, so each operation is one atomic step.   *)
(* _poll_events and active_poll_agent_ids are always written together, in  *)
(* the same critical sections, so one variable stands for both.            *)
(***************************************************************************)

CONSTANTS
  Agents,     \* agents that poll
  Polls,      \* slots for poll requests; a slot also names its Event object
  NoEvent     \* the agent has no entry in _poll_events

VARIABLES
  pollEvents, \* _poll_events: agent -> the poll whose Event is registered
  signalled   \* the polls whose Event has been set

ASSUME NoEventAssumption == NoEvent \notin Polls

signalingVars == <<pollEvents, signalled>>

SignalingTypeOK ==
  /\ pollEvents \in [Agents -> Polls \union {NoEvent}]
  /\ signalled \subseteq Polls

SignalingInit ==
  /\ pollEvents = [a \in Agents |-> NoEvent]
  /\ signalled = {}

(* The agents the stale sweep must leave alone: active_poll_agent_ids. *)
ActivePollAgents == {a \in Agents : pollEvents[a] # NoEvent}

(***************************************************************************)
(* hold_poll, before its wait: a fresh Event replaces whatever entry the   *)
(* agent had.                                                              *)
(***************************************************************************)
RegisterPoll(a, p) ==
  /\ pollEvents' = [pollEvents EXCEPT ![a] = p]
  /\ signalled' = signalled \ {p}

(***************************************************************************)
(* The finally block of hold_poll.  It removes the entry of the AGENT,     *)
(* whichever poll put it there.                                            *)
(***************************************************************************)
UnregisterPoll(a, p) ==
  /\ pollEvents' = [pollEvents EXCEPT ![a] = NoEvent]
  /\ signalled' = signalled \ {p}

(* dispatch_command: set the Event registered for the agent, if any. *)
WakePoll(a) ==
  /\ signalled' = signalled \union ({pollEvents[a]} \ {NoEvent})
  /\ UNCHANGED pollEvents

(* close_all_connections: set every registered Event. *)
WakeAllPolls ==
  /\ signalled' = signalled \union ({pollEvents[a] : a \in Agents} \ {NoEvent})
  /\ UNCHANGED pollEvents

=============================================================================

-------------------------- MODULE JobStateMachine --------------------------
(***************************************************************************)
(* The pure job state machine: TRANSITION_MAP, TERMINAL_STATES and the     *)
(* class methods over them.                                                *)
(***************************************************************************)

TerminalStates == {"DENIED", "COMPLETED", "PARTIALLY_FAILED", "FAILED", "CANCELLED"}

(* OFFLINE, which JobStatus also has, is in no entry of the map. *)
Statuses == TerminalStates \union
  {"PRE_REGISTERING", "WAITING_FOR_AGENT", "IN_PROGRESS", "PAUSED_USER", "TIMEOUT"}

(* TRANSITION_MAP as the set of its entries <<state, action, next state>>. *)
TransitionMap ==
  { <<"PRE_REGISTERING",   "complete_registration", "WAITING_FOR_AGENT">>,
    <<"PRE_REGISTERING",   "fail",                  "FAILED">>,
    <<"WAITING_FOR_AGENT", "consent",               "IN_PROGRESS">>,
    <<"WAITING_FOR_AGENT", "deny",                  "DENIED">>,
    <<"WAITING_FOR_AGENT", "cancel",                "CANCELLED">>,
    <<"WAITING_FOR_AGENT", "timeout",               "TIMEOUT">>,
    <<"IN_PROGRESS",       "pause",                 "PAUSED_USER">>,
    <<"IN_PROGRESS",       "cancel",                "CANCELLED">>,
    <<"IN_PROGRESS",       "complete",              "COMPLETED">>,
    <<"IN_PROGRESS",       "partial_fail",          "PARTIALLY_FAILED">>,
    <<"IN_PROGRESS",       "fail",                  "FAILED">>,
    <<"PAUSED_USER",       "resume",                "IN_PROGRESS">>,
    <<"PAUSED_USER",       "cancel",                "CANCELLED">>,
    <<"TIMEOUT",           "resend",                "WAITING_FOR_AGENT">> }

Actions == {t[2] : t \in TransitionMap}

(* What the request schema of the web API lets through. *)
WebActions == Actions \ {"resend"}

CanTransition(s, a) ==
  /\ s \notin TerminalStates
  /\ \E t \in TransitionMap : t[1] = s /\ t[2] = a

GetNextState(s, a) == (CHOOSE t \in TransitionMap : t[1] = s /\ t[2] = a)[3]

GetValidActions(s) == {a \in Actions : CanTransition(s, a)}

(* Some action leads from s to u in one step. *)
Leads(s, u) == \E a \in GetValidActions(s) : GetNextState(s, a) = u
=============================================================================

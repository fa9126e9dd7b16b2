---------------------------- MODULE JobContract ----------------------------
(***************************************************************************)
(* What the state machine promises about the jobs table: a job that exists *)
(* moves along TRANSITION_MAP only.  Several jobs may move at once.        *)
(***************************************************************************)
EXTENDS JobStateMachine

CONSTANTS Jobs

VARIABLE status  \* the committed status, "NONE" before the job exists

ContractInit == status = [j \in Jobs |-> "NONE"]

ContractStep(j) ==
  \/ status'[j] = status[j]
  \/ status[j] = "NONE" /\ status'[j] = "PRE_REGISTERING"
  \/ Leads(status[j], status'[j])

ContractNext ==
  /\ status' \in [Jobs -> Statuses \union {"NONE"}]
  /\ \A j \in Jobs : ContractStep(j)
=============================================================================

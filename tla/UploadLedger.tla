---------------------------- MODULE UploadLedger ----------------------------
(***************************************************************************)
(* What the job_files table promises the agents that report to it: a       *)
(* report takes effect as a whole, at one instant between the arrival of   *)
(* its request and its answer, and at most once.  Nothing else touches the *)
(* counters of a file; statuses administration may write at any time.      *)
(***************************************************************************)
CONSTANTS
  Files, Slots,
  Absent,       \* the record of a file that has not been created
  Created,      \* the records a file may be created with
  Statuses      \* the statuses of a file

VARIABLES
  ledger,       \* the record of each file
  phase,        \* of each request: "none", "pending", "applied"
  file,         \* the file it is about
  report        \* the record it wants to leave

LedgerInit ==
  /\ ledger = [f \in Files |-> Absent]
  /\ phase = [s \in Slots |-> "none"]

(* A request arrives with any file and report. *)
Accept(s) ==
  /\ phase[s] = "none"
  /\ phase' = [phase EXCEPT ![s] = "pending"]
  /\ \A q \in Slots \ {s} : file'[q] = file[q] /\ report'[q] = report[q]
  /\ UNCHANGED ledger

(* It takes effect. *)
Apply(s) ==
  /\ phase[s] = "pending"
  /\ phase' = [phase EXCEPT ![s] = "applied"]
  /\ ledger' = [ledger EXCEPT ![file[s]] = report[s]]
  /\ UNCHANGED <<file, report>>

(* It is answered, or its answer is lost; or it is refused without effect. *)
Close(s) ==
  /\ phase[s] # "none"
  /\ phase' = [phase EXCEPT ![s] = "none"]
  /\ \A q \in Slots \ {s} : file'[q] = file[q] /\ report'[q] = report[q]
  /\ UNCHANGED ledger

(* Files are created, or get a status from somebody who does not report. *)
Administer ==
  /\ \A f \in Files :
       \/ ledger'[f] = ledger[f]
       \/ ledger[f] = Absent /\ ledger'[f] \in Created
       \/ /\ ledger[f] # Absent
          /\ \E st \in Statuses :
               ledger'[f] = [ledger[f] EXCEPT !.status = st]
  /\ DOMAIN ledger' = Files
  /\ UNCHANGED <<phase, file, report>>

LedgerNext == Administer \/ \E s \in Slots : Accept(s) \/ Apply(s) \/ Close(s)

LedgerSpec == LedgerInit /\ [][LedgerNext]_<<ledger, phase, file, report>>
=============================================================================

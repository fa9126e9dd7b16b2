---------------------------- MODULE DeviceLinking ----------------------------
(***************************************************************************)
(* Linking a device with a setup code: DeviceService.link_device.  The     *)
(* code's row is read FOR UPDATE, and the device, its first refresh token, *)
(* the used_at of the code and the audit row are committed together.  A    *)
(* refusal is rolled back and then audited in a transaction of its own,    *)
(* which locks the code's row again.                                       *)
(***************************************************************************)
EXTENDS FiniteSets, Naturals

CONSTANTS
  Codes,      \* rows of setup_codes
  Unknown,    \* a code no row has
  Devices,    \* uuid4 agent ids
  Requests,   \* slots for link requests
  NoCode, NoDevice

ASSUME LinkAssumption ==
  /\ Unknown \notin Codes
  /\ NoCode \notin Codes \union {Unknown}
  /\ NoDevice \notin Devices

VARIABLES
  used,       \* codes with used_at set
  expired,    \* codes whose expires_at has passed
  linkedBy,   \* the code each committed device was linked with
  token,      \* devices with a committed sequence 1 refresh token
  audit,      \* devices with a committed DEVICE_LINKED row
  failures,   \* codes with a committed LINK_CODE_FAILED row
  pc,         \* "idle", "found", "created", "refused" (rolled back),
              \* "logging" (audit row not committed), "audited"
  code,       \* the code of a request
  device      \* the device it creates

db == <<used, linkedBy, token, audit, failures>>
vars == <<db, expired, pc, code, device>>

Linked == {d \in Devices : linkedBy[d] # NoCode}

TypeOK ==
  /\ used \subseteq Codes
  /\ expired \subseteq Codes
  /\ linkedBy \in [Devices -> Codes \union {NoCode}]
  /\ token \subseteq Devices
  /\ audit \subseteq Devices
  /\ failures \subseteq Codes \union {Unknown}
  /\ pc \in [Requests -> {"idle", "found", "created", "refused", "logging", "audited"}]
  /\ code \in [Requests -> Codes \union {Unknown, NoCode}]
  /\ device \in [Requests -> Devices \union {NoDevice}]

Init ==
  /\ used = {}
  /\ expired = {}
  /\ linkedBy = [d \in Devices |-> NoCode]
  /\ token = {}
  /\ audit = {}
  /\ failures = {}
  /\ pc = [q \in Requests |-> "idle"]
  /\ code = [q \in Requests |-> NoCode]
  /\ device = [q \in Requests |-> NoDevice]

-----------------------------------------------------------------------------

(* Mutant of Locked: the audit is written through a session of its own,    *)
(* before the refused request has rolled back.                             *)
MutantLocked(c) ==
  c \in Codes /\ \E q \in Requests :
                     code[q] = c /\ pc[q] \in {"found", "created", "refused", "logging"}

(* The transactions that hold the row lock of a code. *)
Locked(c) ==
  c \in Codes /\ \E q \in Requests : code[q] = c /\ pc[q] \in {"found", "created", "logging"}

Close(q) ==
  /\ pc' = [pc EXCEPT ![q] = "idle"]
  /\ code' = [code EXCEPT ![q] = NoCode]
  /\ device' = [device EXCEPT ![q] = NoDevice]

(* expires_at passes. *)
Expire(c) ==
  /\ c \notin expired
  /\ expired' = expired \union {c}
  /\ UNCHANGED <<db, pc, code, device>>

(* Mutant of Valid: used_at is not checked. *)
MutantValid(c) == c \in Codes /\ c \notin expired

Valid(c) == c \in Codes /\ c \notin expired /\ c \notin used

(* Mutant of FindSetupCode: SELECT without FOR UPDATE. *)
MutantFindSetupCode(q, c) ==
  /\ pc[q] = "idle"
  /\ pc' = [pc EXCEPT ![q] = IF Valid(c) THEN "found" ELSE "refused"]
  /\ code' = [code EXCEPT ![q] = c]
  /\ UNCHANGED <<db, expired, device>>

(* Mutant of FindSetupCode: FOR UPDATE SKIP LOCKED. *)
MutantSkipLocked(q, c) ==
  /\ pc[q] = "idle"
  /\ pc' = [pc EXCEPT ![q] = IF Valid(c) /\ ~Locked(c) THEN "found" ELSE "refused"]
  /\ code' = [code EXCEPT ![q] = c]
  /\ UNCHANGED <<db, expired, device>>

(* _validate_and_mark_used: SELECT ... FOR UPDATE waits for the row and    *)
(* reads what is committed by then.  A refusal rolls back at once, which   *)
(* releases the lock.                                                      *)
FindSetupCode(q, c) ==
  /\ pc[q] = "idle"
  /\ ~Locked(c)
  /\ pc' = [pc EXCEPT ![q] = IF Valid(c) THEN "found" ELSE "refused"]
  /\ code' = [code EXCEPT ![q] = c]
  /\ UNCHANGED <<db, expired, device>>

(* _create_device, _create_refresh_token and _log_success, flushed by the  *)
(* commit.                                                                 *)
CreateDevice(q, d) ==
  /\ pc[q] = "found"
  /\ d \notin Linked /\ \A p \in Requests : device[p] # d
  /\ pc' = [pc EXCEPT ![q] = "created"]
  /\ device' = [device EXCEPT ![q] = d]
  /\ UNCHANGED <<db, expired, code>>

(* Mutant of CommitLink: the audit row is left to a later transaction. *)
MutantCommitLink(q) ==
  /\ pc[q] = "created"
  /\ used' = used \union {code[q]}
  /\ linkedBy' = [linkedBy EXCEPT ![device[q]] = code[q]]
  /\ token' = token \union {device[q]}
  /\ Close(q)
  /\ UNCHANGED <<audit, failures, expired>>

CommitLink(q) ==
  /\ pc[q] = "created"
  /\ used' = used \union {code[q]}
  /\ linkedBy' = [linkedBy EXCEPT ![device[q]] = code[q]]
  /\ token' = token \union {device[q]}
  /\ audit' = audit \union {device[q]}
  /\ Close(q)
  /\ UNCHANGED <<failures, expired>>

(* _log_failure looks for the code again, FOR UPDATE. *)
LogFailure(q) ==
  /\ pc[q] = "refused"
  /\ ~Locked(code[q])
  /\ pc' = [pc EXCEPT ![q] = "logging"]
  /\ UNCHANGED <<db, expired, code, device>>

(* Mutant of CommitFailure: a refusal spends the code. *)
MutantCommitFailure(q) ==
  /\ pc[q] = "logging"
  /\ pc' = [pc EXCEPT ![q] = "audited"]
  /\ used' = used \union {code[q]}
  /\ failures' = failures \union {code[q]}
  /\ UNCHANGED <<linkedBy, token, audit, expired, code, device>>

(* The audit row is committed ... *)
CommitFailure(q) ==
  /\ pc[q] = "logging"
  /\ pc' = [pc EXCEPT ![q] = "audited"]
  /\ failures' = failures \union {code[q]}
  /\ UNCHANGED <<used, linkedBy, token, audit, expired, code, device>>

(* ... and then the refusal is raised (401). *)
Refuse(q) ==
  /\ pc[q] = "audited"
  /\ Close(q)
  /\ UNCHANGED <<db, expired>>

(* Mutant of Abort: the code is marked used in a transaction of its own. *)
MutantAbort(q) ==
  /\ pc[q] # "idle"
  /\ used' = IF pc[q] = "created" THEN used \union {code[q]} ELSE used
  /\ Close(q)
  /\ UNCHANGED <<linkedBy, token, audit, failures, expired>>

(* Any other exception, or the death of the server: rollback, 500. *)
Abort(q) ==
  /\ pc[q] # "idle"
  /\ Close(q)
  /\ UNCHANGED <<db, expired>>

Next ==
  \/ \E c \in Codes : Expire(c)
  \/ \E q \in Requests :
       \/ \E c \in Codes \union {Unknown} : FindSetupCode(q, c)
       \/ \E d \in Devices : CreateDevice(q, d)
       \/ CommitLink(q) \/ LogFailure(q) \/ CommitFailure(q) \/ Refuse(q)
       \/ Abort(q)

Spec == Init /\ [][Next]_vars

(* Statements return, and PostgreSQL grants a row lock to those that wait  *)
(* for it in their order.  Nobody has to present a code.                   *)
Fairness ==
  \A q \in Requests :
    /\ WF_vars(\E d \in Devices : CreateDevice(q, d)) /\ WF_vars(CommitLink(q))
    /\ SF_vars(LogFailure(q)) /\ WF_vars(CommitFailure(q)) /\ WF_vars(Refuse(q))

FairSpec == Spec /\ Fairness

-----------------------------------------------------------------------------
(* Properties *)

(* A setup code links one device, however many requests present it at once *)
(* and however they fail.                                                  *)
OneDevicePerCode ==
  \A d, e \in Linked : linkedBy[d] = linkedBy[e] => d = e

(* A code is spent exactly when a device has been linked with it, and that *)
(* device has its first token and its audit row: no failure leaves a code  *)
(* spent for nothing, or a device nobody can log in as.                    *)
SpentMeansLinked ==
  /\ used = {linkedBy[d] : d \in Linked}
  /\ token = Linked
  /\ audit = Linked

(* Why: the row lock.  A code that a request has found valid stays unused  *)
(* until that request ends, for no other request has found it.             *)
InTxn(q) == code[q] \in Codes /\ pc[q] \in {"found", "created", "logging"}

LinkInv ==
  /\ TypeOK
  /\ SpentMeansLinked
  /\ OneDevicePerCode
  /\ \A p, q \in Requests : InTxn(p) /\ InTxn(q) /\ code[p] = code[q] => p = q
  /\ \A p, q \in Requests : device[p] = device[q] /\ device[p] # NoDevice => p = q
  /\ \A q \in Requests :
       /\ pc[q] \in {"found", "created"} => code[q] \in Codes \ used
       /\ pc[q] = "created" => device[q] \in Devices \ Linked
       /\ pc[q] # "idle" => code[q] # NoCode

(* Whoever is refused a code is refused it for good reason, and on the     *)
(* record: the code is unknown, expired or spent, and never merely in the  *)
(* hands of another request, which may yet fail and leave it unused.       *)
Justified(q) == code[q] \in failures /\ code[q] \notin Codes \ (used \union expired)

RefusalsJustified == [][\A q \in Requests : Refuse(q) => Justified(q)]_vars

(* Why: what a refused request knows of its code stays true until it       *)
(* answers.                                                                *)
RefusalInv ==
  \A q \in Requests :
    /\ pc[q] \in {"refused", "logging", "audited"} => code[q] \notin Codes \ (used \union expired)
    /\ pc[q] = "audited" => code[q] \in failures

(* Every request that has got the row lock of its code ends, although the  *)
(* audit of a refusal waits for that lock again.  (One that waits for the  *)
(* first FOR UPDATE is still idle here.)                                   *)
EveryRequestEnds == \A q \in Requests : pc[q] # "idle" ~> pc[q] = "idle"
=============================================================================

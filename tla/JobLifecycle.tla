---------------------------- MODULE JobLifecycle ----------------------------
(***************************************************************************)
(* Jobs under concurrent transactions: JobService.transition_state, the    *)
(* web route that calls it, and JobService.check_timeouts, over the jobs   *)
(* table (READ COMMITTED).  The service reads the status, decides, and     *)
(* writes WHERE id = ..., in three statements of one transaction that its  *)
(* caller commits or, like the web route, does not.                        *)
(***************************************************************************)
EXTENDS JobStateMachine

CONSTANTS
  Jobs,       \* jobs that may exist
  Txns,       \* slots for transition_state transactions
  Sweeps,     \* slots for check_timeouts transactions
  NoJob       \* an idle slot works on no job

ASSUME JobAssumption == NoJob \notin Jobs

VARIABLES
  status,     \* committed status of each job, "NONE" before it exists
  expired,    \* jobs whose expires_at has passed
  pc,         \* "idle", "read" (status read, UPDATE next), "updated"
  web,        \* the transactions opened by the web route
  job,        \* the job a transaction works on
  seen,       \* the status it read
  new,        \* the status it writes
  sweepPc,    \* "idle", "running", "broken" (a statement has failed)
  todo,       \* jobs the sweep has selected and not yet updated
  ids,        \* transitioned_ids: what check_timeouts will return
  serial      \* whether writers take turns in this behaviour

vars == <<status, expired, pc, web, job, seen, new, sweepPc, todo, ids, serial>>
txnVars == <<pc, web, job, seen, new>>
sweepVars == <<sweepPc, todo, ids>>

AllStatuses == Statuses \union {"NONE"}

TypeOK ==
  /\ status \in [Jobs -> AllStatuses]
  /\ expired \subseteq Jobs
  /\ pc \in [Txns -> {"idle", "read", "updated"}]
  /\ web \subseteq Txns
  /\ job \in [Txns -> Jobs \union {NoJob}]
  /\ seen \in [Txns -> AllStatuses]
  /\ new \in [Txns -> AllStatuses]
  /\ sweepPc \in [Sweeps -> {"idle", "running", "broken"}]
  /\ todo \in [Sweeps -> SUBSET Jobs]
  /\ ids \in [Sweeps -> SUBSET Jobs]
  /\ serial \in BOOLEAN

Init ==
  /\ status = [j \in Jobs |-> "NONE"]
  /\ expired = {}
  /\ pc = [t \in Txns |-> "idle"]
  /\ web = {}
  /\ job = [t \in Txns |-> NoJob]
  /\ seen = [t \in Txns |-> "NONE"]
  /\ new = [t \in Txns |-> "NONE"]
  /\ sweepPc = [s \in Sweeps |-> "idle"]
  /\ todo = [s \in Sweeps |-> {}]
  /\ ids = [s \in Sweeps |-> {}]
  /\ serial \in BOOLEAN

-----------------------------------------------------------------------------
(* Row locks and turns *)

UpdatedBy(t, j) == pc[t] = "updated" /\ job[t] = j

(* A sweep whose statement failed has lost its locks. *)
SweptBy(s, j) == sweepPc[s] = "running" /\ j \in ids[s]

Locked(j) == (\E t \in Txns : UpdatedBy(t, j)) \/ (\E s \in Sweeps : SweptBy(s, j))

(* The discipline the service leaves to its callers: a transaction that    *)
(* will commit starts on j when no other such transaction has j open.      *)
MayWrite(j) ==
  serial => /\ \A t \in Txns \ web : job[t] # j
            /\ \A s \in Sweeps : sweepPc[s] = "idle"

MaySweep ==
  serial => /\ \A t \in Txns \ web : pc[t] = "idle"
            /\ \A s \in Sweeps : sweepPc[s] = "idle"

-----------------------------------------------------------------------------
(* Jobs *)

(* JobRepository.create, committed by its caller. *)
CreateJob(j) ==
  /\ status[j] = "NONE"
  /\ status' = [status EXCEPT ![j] = "PRE_REGISTERING"]
  /\ UNCHANGED <<expired, txnVars, sweepVars, serial>>

(* Time passes expires_at, which nothing moves afterwards, not even a      *)
(* resend.  Only the sweep reads it, and only of waiting jobs.             *)
PassExpiry(j) ==
  /\ status[j] = "WAITING_FOR_AGENT"
  /\ j \notin expired
  /\ expired' = expired \union {j}
  /\ UNCHANGED <<status, txnVars, sweepVars, serial>>

-----------------------------------------------------------------------------
(* transition_state *)

(* Mutant of ReadJob: the state machine is not asked. *)
MutantReadJob(t, j, a) ==
  /\ pc[t] = "idle"
  /\ \/ a \in WebActions /\ web' = web \union {t}
     \/ MayWrite(j) /\ UNCHANGED web
  /\ status[j] # "NONE"
  /\ pc' = [pc EXCEPT ![t] = "read"]
  /\ job' = [job EXCEPT ![t] = j]
  /\ seen' = [seen EXCEPT ![t] = status[j]]
  /\ new' = [new EXCEPT ![t] = (CHOOSE e \in TransitionMap : e[2] = a)[3]]
  /\ UNCHANGED <<status, expired, sweepVars, serial>>

(* find_by_id and get_next_state.  A job that is missing or a transition   *)
(* the state machine refuses ends the request (404, 409) with nothing      *)
(* changed.                                                                *)
ReadJob(t, j, a) ==
  /\ pc[t] = "idle"
  /\ \/ a \in WebActions /\ web' = web \union {t}
     \/ MayWrite(j) /\ UNCHANGED web
  /\ status[j] # "NONE"
  /\ CanTransition(status[j], a)
  /\ pc' = [pc EXCEPT ![t] = "read"]
  /\ job' = [job EXCEPT ![t] = j]
  /\ seen' = [seen EXCEPT ![t] = status[j]]
  /\ new' = [new EXCEPT ![t] = GetNextState(status[j], a)]
  /\ UNCHANGED <<status, expired, sweepVars, serial>>

(* update_state: UPDATE ... WHERE id, after any other writer of the row.   *)
UpdateState(t) ==
  /\ pc[t] = "read"
  /\ ~Locked(job[t])
  /\ pc' = [pc EXCEPT ![t] = "updated"]
  /\ UNCHANGED <<status, expired, web, job, seen, new, sweepVars, serial>>

CloseTxn(t) ==
  /\ web' = web \ {t}
  /\ pc' = [pc EXCEPT ![t] = "idle"]
  /\ job' = [job EXCEPT ![t] = NoJob]
  /\ seen' = [seen EXCEPT ![t] = "NONE"]
  /\ new' = [new EXCEPT ![t] = "NONE"]

(* A caller that commits. *)
CommitTxn(t) ==
  /\ pc[t] = "updated"
  /\ t \notin web
  /\ status' = [status EXCEPT ![job[t]] = new[t]]
  /\ CloseTxn(t)
  /\ UNCHANGED <<expired, sweepVars, serial>>

(* The web route answers 200 with the new status; its session is closed    *)
(* without a commit.                                                       *)
AnswerWeb(t) ==
  /\ pc[t] = "updated"
  /\ t \in web
  /\ CloseTxn(t)
  /\ UNCHANGED <<status, expired, sweepVars, serial>>

(* The request dies: rollback. *)
AbortTxn(t) ==
  /\ pc[t] # "idle"
  /\ CloseTxn(t)
  /\ UNCHANGED <<status, expired, sweepVars, serial>>

-----------------------------------------------------------------------------
(* check_timeouts *)

(* Mutant of ExpiredJobs: every job past its deadline. *)
MutantExpiredJobs == expired

(* find_expired_jobs *)
ExpiredJobs == {j \in expired : status[j] = "WAITING_FOR_AGENT"}

SelectExpired(s) ==
  /\ sweepPc[s] = "idle"
  /\ MaySweep
  /\ ExpiredJobs # {}
  /\ sweepPc' = [sweepPc EXCEPT ![s] = "running"]
  /\ todo' = [todo EXCEPT ![s] = ExpiredJobs]
  /\ UNCHANGED <<status, expired, txnVars, ids, serial>>

(* update_state(TIMEOUT) for one of them; the SELECT fixes no order, and   *)
(* the status is not looked at again.                                      *)
TimeOutJob(s, j) ==
  /\ sweepPc[s] = "running"
  /\ j \in todo[s]
  /\ ~Locked(j)
  /\ todo' = [todo EXCEPT ![s] = @ \ {j}]
  /\ ids' = [ids EXCEPT ![s] = @ \union {j}]
  /\ UNCHANGED <<status, expired, txnVars, sweepPc, serial>>

(* A statement fails, as the victim of a deadlock or for another reason.   *)
(* PostgreSQL aborts the transaction, every later statement fails too, and *)
(* each exception is swallowed.                                            *)
FailStatement(s) ==
  /\ sweepPc[s] = "running"
  /\ todo[s] # {}
  /\ sweepPc' = [sweepPc EXCEPT ![s] = "broken"]
  /\ todo' = [todo EXCEPT ![s] = {}]
  /\ UNCHANGED <<status, expired, txnVars, ids, serial>>

(* Mutant of EndSweep: the jobs get a status the table does not know. *)
MutantEndSweep(s) ==
  /\ sweepPc[s] # "idle"
  /\ todo[s] = {}
  /\ status' = IF sweepPc[s] = "broken" THEN status
               ELSE [j \in Jobs |-> IF j \in ids[s] THEN "EXPIRED" ELSE status[j]]
  /\ sweepPc' = [sweepPc EXCEPT ![s] = "idle"]
  /\ ids' = [ids EXCEPT ![s] = {}]
  /\ UNCHANGED <<expired, txnVars, todo, serial>>

(* check_timeouts returns ids and its caller commits; the COMMIT of an     *)
(* aborted transaction rolls back.                                         *)
EndSweep(s) ==
  /\ sweepPc[s] # "idle"
  /\ todo[s] = {}
  /\ status' = IF sweepPc[s] = "broken" THEN status
               ELSE [j \in Jobs |-> IF j \in ids[s] THEN "TIMEOUT" ELSE status[j]]
  /\ sweepPc' = [sweepPc EXCEPT ![s] = "idle"]
  /\ ids' = [ids EXCEPT ![s] = {}]
  /\ UNCHANGED <<expired, txnVars, todo, serial>>

-----------------------------------------------------------------------------

Next ==
  \/ \E j \in Jobs : CreateJob(j) \/ PassExpiry(j)
  \/ \E t \in Txns, j \in Jobs, a \in Actions : ReadJob(t, j, a)
  \/ \E t \in Txns : UpdateState(t) \/ CommitTxn(t) \/ AnswerWeb(t) \/ AbortTxn(t)
  \/ \E s \in Sweeps : \/ SelectExpired(s) \/ FailStatement(s) \/ EndSweep(s)
                       \/ \E j \in Jobs : TimeOutJob(s, j)

Spec == Init /\ [][Next]_vars

-----------------------------------------------------------------------------
(* Properties *)

(* When writers take turns, the committed statuses move along              *)
(* TRANSITION_MAP only: neither rollbacks, nor the web route's lost        *)
(* updates, nor the sweep's unchecked TIMEOUT break the state machine.     *)
Contract == INSTANCE JobContract

ContractWhenSerial == [][serial => Contract!ContractNext]_status

(* Whether writers take turns or not, a terminal status is left only by a  *)
(* transaction that read the job before it became terminal; once those are *)
(* gone the status is final.                                               *)
StaleWriter(j) ==
  \/ \E t \in Txns \ web : job[t] = j /\ seen[t] # status[j]
  \/ \E s \in Sweeps : j \in ids[s]

TerminalLeftByStaleWriterOnly ==
  [][\A j \in Jobs : status[j] \in TerminalStates /\ ~StaleWriter(j)
                      => status'[j] = status[j]]_status

(* The status with which the web route answers is the one in the database. *)
WebAnswerIsDurable ==
  [][\A t \in Txns : AnswerWeb(t) => status'[job[t]] = new[t]]_vars

-----------------------------------------------------------------------------
(* Inductive invariants, for the proofs *)

(* What a transaction is about to write follows in the map from what it    *)
(* read, whatever the row has become since; idle slots hold nothing.       *)
WritersFollowMap ==
  /\ \A t \in Txns : IF pc[t] = "idle" THEN job[t] = NoJob /\ t \notin web
                     ELSE job[t] \in Jobs /\ Leads(seen[t], new[t])
  /\ \A s \in Sweeps : sweepPc[s] = "idle" => ids[s] = {} /\ todo[s] = {}

JobInv == TypeOK /\ WritersFollowMap

(* When writers take turns, those that will commit know the rows: nothing  *)
(* else that commits is open on their job.                                 *)
WritersTakeTurns ==
  /\ \A t \in Txns \ web : pc[t] # "idle" => seen[t] = status[job[t]]
  /\ \A t, u \in Txns \ web : job[t] = job[u] /\ job[t] # NoJob => t = u
  /\ \A s \in Sweeps : sweepPc[s] # "idle" =>
       /\ \A t \in Txns \ web : pc[t] = "idle"
       /\ \A r \in Sweeps \ {s} : sweepPc[r] = "idle"
       /\ \A j \in todo[s] \union ids[s] : status[j] = "WAITING_FOR_AGENT"

SerialInv == serial => WritersTakeTurns
=============================================================================

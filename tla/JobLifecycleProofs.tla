------------------------- MODULE JobLifecycleProofs -------------------------
(***************************************************************************)
(* Theorems about JobLifecycle, for any jobs, transactions and sweeps, and *)
(* about the state machine it follows.                                     *)
(***************************************************************************)
EXTENDS JobLifecycle, TLAPS

USE JobAssumption

(* get_next_state, where it does not raise, gives a status of the map.     *)
LEMMA NextStateIsStatus ==
  ASSUME NEW s, NEW a, CanTransition(s, a)
  PROVE  GetNextState(s, a) \in Statuses
<1>1. \A t \in TransitionMap : t[3] \in Statuses
  BY DEF TransitionMap, Statuses, TerminalStates
<1>2. (CHOOSE t \in TransitionMap : t[1] = s /\ t[2] = a) \in TransitionMap
  BY DEF CanTransition
<1>3. QED
  BY <1>1, <1>2 DEF GetNextState

(* One step of the state machine starts at a status that is not terminal   *)
(* and ends at a status of the map.                                        *)
LEMMA LeadsBetweenStatuses ==
  ASSUME NEW s, NEW u, Leads(s, u)
  PROVE  s \in Statuses \ TerminalStates /\ u \in Statuses
<1>1. PICK a \in Actions : CanTransition(s, a) /\ GetNextState(s, a) = u
  BY DEF Leads, GetValidActions
<1>2. \A t \in TransitionMap : t[1] \in Statuses
  BY DEF TransitionMap, Statuses, TerminalStates
<1>3. QED
  BY <1>1, <1>2, NextStateIsStatus DEF CanTransition

(* A waiting job may time out.                                             *)
LEMMA WaitingMayTimeOut == Leads("WAITING_FOR_AGENT", "TIMEOUT")
<1> DEFINE e == <<"WAITING_FOR_AGENT", "timeout", "TIMEOUT">>
<1>1. e \in TransitionMap /\ e[1] = "WAITING_FOR_AGENT" /\ e[2] = "timeout" /\ e[3] = "TIMEOUT"
  BY DEF TransitionMap
<1>2. \A t \in TransitionMap : t[1] = "WAITING_FOR_AGENT" /\ t[2] = "timeout" => t[3] = "TIMEOUT"
  BY DEF TransitionMap
<1>3. "timeout" \in Actions
  BY <1>1 DEF Actions
<1>4. CanTransition("WAITING_FOR_AGENT", "timeout")
  BY <1>1 DEF CanTransition, TerminalStates
<1>5. GetNextState("WAITING_FOR_AGENT", "timeout") = "TIMEOUT"
  <2> DEFINE c == CHOOSE t \in TransitionMap : t[1] = "WAITING_FOR_AGENT" /\ t[2] = "timeout"
  <2>1. c \in TransitionMap /\ c[1] = "WAITING_FOR_AGENT" /\ c[2] = "timeout"
    BY <1>1
  <2>2. c[3] = "TIMEOUT"
    BY <1>2, <2>1
  <2>3. QED
    BY <2>2 DEF GetNextState
<1>6. QED
  BY <1>3, <1>4, <1>5 DEF Leads, GetValidActions

-----------------------------------------------------------------------------
(* At the start no job exists and every slot is idle. *)
LEMMA InitJobInv == Init => JobInv /\ SerialInv
  BY DEF Init, JobInv, TypeOK, WritersFollowMap, SerialInv, WritersTakeTurns, AllStatuses

(* Every step keeps the types, and the writers within the map. *)
LEMMA NextJobInv == JobInv /\ [Next]_vars => JobInv'
<1> SUFFICES ASSUME JobInv, [Next]_vars PROVE JobInv'
  OBVIOUS
<1> USE DEF JobInv, TypeOK, WritersFollowMap, AllStatuses, txnVars, sweepVars
<1>1. ASSUME NEW j \in Jobs, CreateJob(j) PROVE JobInv'
  BY <1>1 DEF CreateJob, Statuses
<1>2. ASSUME NEW j \in Jobs, PassExpiry(j) PROVE JobInv'
  BY <1>2 DEF PassExpiry
<1>3. ASSUME NEW t \in Txns, NEW j \in Jobs, NEW a \in Actions, ReadJob(t, j, a)
      PROVE  JobInv'
  <2>1. GetNextState(status[j], a) \in Statuses /\ Leads(status[j], GetNextState(status[j], a))
    BY <1>3, NextStateIsStatus DEF ReadJob, Leads, GetValidActions
  <2>2. web' \subseteq Txns /\ \A u \in Txns \ {t} : u \in web' => u \in web
    BY <1>3 DEF ReadJob
  <2>3. QED
    BY <1>3, <2>1, <2>2 DEF ReadJob
<1>4. ASSUME NEW t \in Txns, UpdateState(t) PROVE JobInv'
  BY <1>4 DEF UpdateState
<1>5. ASSUME NEW t \in Txns, CommitTxn(t) PROVE JobInv'
  BY <1>5 DEF CommitTxn, CloseTxn
<1>6. ASSUME NEW t \in Txns, AnswerWeb(t) PROVE JobInv'
  BY <1>6 DEF AnswerWeb, CloseTxn
<1>7. ASSUME NEW t \in Txns, AbortTxn(t) PROVE JobInv'
  BY <1>7 DEF AbortTxn, CloseTxn
<1>8. ASSUME NEW s \in Sweeps, SelectExpired(s) PROVE JobInv'
  BY <1>8 DEF SelectExpired, ExpiredJobs
<1>9. ASSUME NEW s \in Sweeps, FailStatement(s) PROVE JobInv'
  BY <1>9 DEF FailStatement
<1>10. ASSUME NEW s \in Sweeps, EndSweep(s) PROVE JobInv'
  BY <1>10 DEF EndSweep, Statuses
<1>11. ASSUME NEW s \in Sweeps, NEW j \in Jobs, TimeOutJob(s, j) PROVE JobInv'
  BY <1>11 DEF TimeOutJob
<1>12. CASE UNCHANGED vars
  BY <1>12 DEF vars
<1>13. QED
  BY <1>1, <1>2, <1>3, <1>4, <1>5, <1>6, <1>7, <1>8, <1>9, <1>10, <1>11, <1>12 DEF Next

(* JobInv is inductive. *)
THEOREM JobInvariant == Spec => []JobInv
  BY InitJobInv, NextJobInv, PTL DEF Spec

(* Every reachable state is well typed. *)
THEOREM TypeCorrect == Spec => []TypeOK
<1>1. JobInv => TypeOK
  BY DEF JobInv
<1>2. QED
  BY <1>1, JobInvariant, PTL

-----------------------------------------------------------------------------
(* What writes a status: the creation of a job, the commit of a            *)
(* transition, and the commit of a sweep.                                  *)
LEMMA NextStatus ==
  ASSUME JobInv, [Next]_vars
  PROVE  \/ UNCHANGED status
         \/ \E j \in Jobs : CreateJob(j)
         \/ \E t \in Txns : CommitTxn(t)
         \/ \E s \in Sweeps : EndSweep(s)
BY DEF Next, vars, PassExpiry, ReadJob, UpdateState, AnswerWeb, AbortTxn, SelectExpired,
       FailStatement, TimeOutJob

(* A terminal status is left only by a transaction that read the job       *)
(* before it became terminal, or by a sweep that selected it before.       *)
THEOREM TerminalIsFinal == Spec => TerminalLeftByStaleWriterOnly
<1>1. ASSUME JobInv, [Next]_vars, NEW j \in Jobs, status[j] \in TerminalStates, ~StaleWriter(j)
      PROVE  status'[j] = status[j]
  <2> USE DEF JobInv, TypeOK
  <2>1. ASSUME NEW k \in Jobs, CreateJob(k) PROVE status'[j] = status[j]
    BY <1>1, <2>1 DEF CreateJob, TerminalStates
  <2>2. ASSUME NEW t \in Txns, CommitTxn(t) PROVE status'[j] = status[j]
    <3>1. job[t] = j => seen[t] = status[j]
      BY <1>1, <2>2 DEF StaleWriter, CommitTxn
    <3>2. seen[t] \notin TerminalStates
      BY <2>2, <1>1, LeadsBetweenStatuses DEF CommitTxn, WritersFollowMap
    <3>3. QED
      BY <1>1, <2>2, <3>1, <3>2 DEF CommitTxn
  <2>3. ASSUME NEW s \in Sweeps, EndSweep(s) PROVE status'[j] = status[j]
    BY <1>1, <2>3 DEF EndSweep, StaleWriter
  <2>4. QED
    BY <1>1, <2>1, <2>2, <2>3, NextStatus
<1>2. JobInv /\ [Next]_vars =>
        [\A j \in Jobs : status[j] \in TerminalStates /\ ~StaleWriter(j)
                          => status'[j] = status[j]]_status
  BY <1>1
<1>3. QED
  BY <1>2, JobInvariant, PTL DEF Spec, TerminalLeftByStaleWriterOnly

-----------------------------------------------------------------------------
(* A transaction that closes leaves the others as they were. *)
LEMMA ClosedTxnKeepsTurns ==
  ASSUME JobInv, WritersTakeTurns, NEW t \in Txns, CloseTxn(t),
         UNCHANGED <<status, sweepPc, todo, ids>>
  PROVE  WritersTakeTurns'
<1>1. \A u \in Txns' \ web' : u = t \/ u \in Txns \ web
  BY DEF CloseTxn
<1>2. pc'[t] = "idle" /\ job'[t] = NoJob
  BY DEF CloseTxn, JobInv, TypeOK
<1>3. \A u \in Txns \ {t} : pc'[u] = pc[u] /\ job'[u] = job[u] /\ seen'[u] = seen[u]
  BY DEF CloseTxn, JobInv, TypeOK
<1>4. QED
  BY <1>1, <1>2, <1>3 DEF WritersTakeTurns

(* When writers take turns, every step keeps what they know of their rows: *)
(* MayWrite and MaySweep keep the others out, and a web transaction, which *)
(* they do not look at, never commits.                                     *)
LEMMA NextSerialInv == JobInv /\ SerialInv /\ [Next]_vars => SerialInv'
<1> SUFFICES ASSUME JobInv, serial, WritersTakeTurns, [Next]_vars PROVE WritersTakeTurns'
  BY DEF SerialInv, Next, vars, CreateJob, PassExpiry, ReadJob, UpdateState, CommitTxn, AnswerWeb,
         AbortTxn, SelectExpired, FailStatement, EndSweep, TimeOutJob
<1> USE DEF JobInv, TypeOK, WritersFollowMap, txnVars, sweepVars
<1>1. ASSUME NEW j \in Jobs, CreateJob(j) PROVE WritersTakeTurns'
  <2>1. \A t \in Txns \ web : pc[t] # "idle" => job[t] # j
    BY <1>1, LeadsBetweenStatuses DEF CreateJob, WritersTakeTurns, Statuses, TerminalStates
  <2>2. QED
    BY <1>1, <2>1 DEF CreateJob, WritersTakeTurns
<1>2. ASSUME NEW j \in Jobs, PassExpiry(j) PROVE WritersTakeTurns'
  BY <1>2 DEF PassExpiry, WritersTakeTurns
<1>3. ASSUME NEW t \in Txns, NEW j \in Jobs, NEW a \in Actions, ReadJob(t, j, a)
      PROVE  WritersTakeTurns'
  <2>1. /\ \A u \in Txns \ {t} : pc'[u] = pc[u] /\ job'[u] = job[u] /\ seen'[u] = seen[u]
        /\ pc'[t] # "idle" /\ job'[t] = j /\ seen'[t] = status[j]
        /\ UNCHANGED <<status, sweepPc, todo, ids>>
    BY <1>3 DEF ReadJob
  <2>2. CASE t \in web'
    <3>1. \A u \in Txns \ web' : u # t /\ u \in Txns \ web
      BY <1>3, <2>2 DEF ReadJob
    <3>2. QED
      BY <2>1, <3>1 DEF WritersTakeTurns
  <2>3. CASE t \notin web'
    <3>1. web' = web /\ MayWrite(j)
      BY <1>3, <2>3 DEF ReadJob
    <3>2. /\ \A u \in Txns \ web : job[u] # j
          /\ \A s \in Sweeps : sweepPc[s] = "idle"
      BY <3>1 DEF MayWrite
    <3>3. QED
      BY <2>1, <3>1, <3>2 DEF WritersTakeTurns
  <2>4. QED
    BY <2>2, <2>3
<1>4. ASSUME NEW t \in Txns, UpdateState(t) PROVE WritersTakeTurns'
  BY <1>4 DEF UpdateState, WritersTakeTurns
<1>5. ASSUME NEW t \in Txns, CommitTxn(t) PROVE WritersTakeTurns'
  <2>1. \A s \in Sweeps : sweepPc[s] = "idle"
    BY <1>5 DEF CommitTxn, WritersTakeTurns
  <2>2. \A u \in Txns \ web' : u = t \/ (u \in Txns \ web /\ job[u] # job[t])
    BY <1>5 DEF CommitTxn, CloseTxn, WritersTakeTurns
  <2>3. /\ pc'[t] = "idle" /\ job'[t] = NoJob
        /\ \A u \in Txns \ {t} : pc'[u] = pc[u] /\ job'[u] = job[u] /\ seen'[u] = seen[u]
        /\ \A j \in Jobs \ {job[t]} : status'[j] = status[j]
        /\ sweepPc' = sweepPc
    BY <1>5 DEF CommitTxn, CloseTxn
  <2>4. QED
    BY <2>1, <2>2, <2>3 DEF WritersTakeTurns
<1>6. ASSUME NEW t \in Txns, AnswerWeb(t) PROVE WritersTakeTurns'
  BY <1>6, ClosedTxnKeepsTurns DEF AnswerWeb
<1>7. ASSUME NEW t \in Txns, AbortTxn(t) PROVE WritersTakeTurns'
  BY <1>7, ClosedTxnKeepsTurns DEF AbortTxn
<1>8. ASSUME NEW s \in Sweeps, SelectExpired(s) PROVE WritersTakeTurns'
  BY <1>8 DEF SelectExpired, MaySweep, ExpiredJobs, WritersTakeTurns
<1>9. ASSUME NEW s \in Sweeps, FailStatement(s) PROVE WritersTakeTurns'
  BY <1>9 DEF FailStatement, WritersTakeTurns
<1>10. ASSUME NEW s \in Sweeps, EndSweep(s) PROVE WritersTakeTurns'
  <2>1. /\ \A t \in Txns \ web : pc[t] = "idle"
        /\ \A r \in Sweeps : sweepPc'[r] = "idle"
    BY <1>10 DEF EndSweep, WritersTakeTurns
  <2>2. QED
    BY <1>10, <2>1 DEF EndSweep, WritersTakeTurns
<1>11. ASSUME NEW s \in Sweeps, NEW j \in Jobs, TimeOutJob(s, j) PROVE WritersTakeTurns'
  <2>1. todo'[s] \union ids'[s] = todo[s] \union ids[s]
    BY <1>11 DEF TimeOutJob
  <2>2. \A r \in Sweeps \ {s} : todo'[r] = todo[r] /\ ids'[r] = ids[r]
    BY <1>11 DEF TimeOutJob
  <2>3. UNCHANGED <<status, pc, web, job, seen, sweepPc>>
    BY <1>11 DEF TimeOutJob
  <2>4. QED
    BY <2>1, <2>2, <2>3 DEF WritersTakeTurns
<1>12. CASE UNCHANGED vars
  BY <1>12 DEF vars, WritersTakeTurns
<1>13. QED
  BY <1>1, <1>2, <1>3, <1>4, <1>5, <1>6, <1>7, <1>8, <1>9, <1>10, <1>11, <1>12 DEF Next

(* When writers take turns they write from what is committed. *)
THEOREM SerialInvariant == Spec => []SerialInv
  BY InitJobInv, NextSerialInv, JobInvariant, PTL DEF Spec

(* The contract speaks of the same state machine. *)
LEMMA ContractLeads == ASSUME NEW s, NEW u, Leads(s, u) PROVE Contract!Leads(s, u)
  BY DEF Leads, GetValidActions, CanTransition, GetNextState, Actions, TransitionMap, TerminalStates,
         Contract!Leads, Contract!GetValidActions, Contract!CanTransition,
         Contract!GetNextState, Contract!Actions, Contract!TransitionMap,
         Contract!TerminalStates

(* When writers take turns, the committed statuses move along              *)
(* TRANSITION_MAP only: every step of the transactions and sweeps is a     *)
(* step of the contract.                                                   *)
THEOREM SerialJobsFollowMap == Spec => ContractWhenSerial
<1>1. ASSUME JobInv, SerialInv, [Next]_vars, serial, NEW j \in Jobs
      PROVE  \/ status'[j] = status[j]
             \/ status[j] = "NONE" /\ status'[j] = "PRE_REGISTERING"
             \/ Leads(status[j], status'[j])
  <2> USE DEF JobInv, TypeOK, SerialInv, WritersTakeTurns
  <2>1. ASSUME NEW k \in Jobs, CreateJob(k)
        PROVE  status'[j] = status[j] \/ (status[j] = "NONE" /\ status'[j] = "PRE_REGISTERING")
    BY <2>1 DEF CreateJob
  <2>2. ASSUME NEW t \in Txns, CommitTxn(t)
        PROVE  status'[j] = status[j] \/ Leads(status[j], status'[j])
    <3>1. seen[t] = status[job[t]] /\ Leads(seen[t], new[t])
      BY <1>1, <2>2 DEF CommitTxn, WritersFollowMap
    <3>2. status'[j] = IF j = job[t] THEN new[t] ELSE status[j]
      BY <1>1, <2>2 DEF CommitTxn
    <3>3. QED
      BY <3>1, <3>2
  <2>3. ASSUME NEW s \in Sweeps, EndSweep(s)
        PROVE  status'[j] = status[j] \/ Leads(status[j], status'[j])
    <3>1. CASE j \in ids[s] /\ sweepPc[s] # "broken"
      <4>1. status[j] = "WAITING_FOR_AGENT" /\ status'[j] = "TIMEOUT"
        BY <1>1, <2>3, <3>1 DEF EndSweep
      <4>2. QED
        BY <4>1, WaitingMayTimeOut
    <3>2. CASE ~(j \in ids[s] /\ sweepPc[s] # "broken")
      BY <1>1, <2>3, <3>2 DEF EndSweep
    <3>3. QED
      BY <3>1, <3>2
  <2>4. QED
    BY <1>1, <2>1, <2>2, <2>3, NextStatus
<1>2. JobInv /\ SerialInv /\ JobInv' /\ [Next]_vars => [serial => Contract!ContractNext]_status
  <2> SUFFICES ASSUME JobInv, SerialInv, JobInv', [Next]_vars, serial
               PROVE  Contract!ContractNext
    OBVIOUS
  <2>1. status' \in [Jobs -> Contract!Statuses \union {"NONE"}]
    BY DEF JobInv, TypeOK, AllStatuses, Statuses, TerminalStates,
           Contract!Statuses, Contract!TerminalStates
  <2>2. \A j \in Jobs : Contract!ContractStep(j)
    BY <1>1, ContractLeads DEF Contract!ContractStep
  <2>3. QED
    BY <2>1, <2>2 DEF Contract!ContractNext
<1>3. QED
  BY <1>2, JobInvariant, SerialInvariant, PTL DEF Spec, ContractWhenSerial
=============================================================================

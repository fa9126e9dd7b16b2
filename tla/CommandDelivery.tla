-------------------------- MODULE CommandDelivery --------------------------
(***************************************************************************)
(* How a command travels from the web API to an edge agent: the            *)
(* create-command request, the agent's long poll, the expiry sweep, and    *)
(* the PostgreSQL table between them (READ COMMITTED, one transaction per  *)
(* request).  Each database statement, commit and registry call is a step  *)
(* of its own, so requests interleave wherever the code awaits.  A request *)
(* keeps a connection of the engine's pool from its first statement to the *)
(* end of its transaction, a held poll throughout its wait.                *)
(*                                                                         *)
(* A poll slot p runs one request at a time for agent PollAgent[p].  An    *)
(* agent that retries while the server still holds its previous request is *)
(* an agent with two slots.                                                *)
(***************************************************************************)
EXTENDS SignalingService, Naturals, Sequences, FiniteSets

CONSTANTS
  Cmds,        \* commands the web API may create
  PollAgent,   \* the agent whose requests run in a poll slot
  CmdAgent,    \* the agent a command is addressed to
  NoCmd,       \* a poll that has selected no command
  Sweeps,      \* whether somebody runs expire_stale_commands
  PoolSize,    \* connections of the engine, pool_size + max_overflow
  MaxFaults    \* bound on crashes, failed requests and lost replies

ASSUME DeliveryAssumption ==
  /\ PollAgent \in [Polls -> Agents]
  /\ CmdAgent \in [Cmds -> Agents]
  /\ NoCmd \notin Cmds
  /\ Sweeps \in BOOLEAN
  /\ PoolSize \in Nat \ {0}
  /\ MaxFaults \in Nat

VARIABLES
  row,         \* each command's row, as a new transaction would see it;
               \* "inserted" and "dispatched" are not committed yet
  created,     \* commands in the order of their created_at
  published,   \* commands in the order in which their inserts committed
  pc,          \* where each poll request is
  pick,        \* the command the request's SELECT returned
  sweep,       \* rows the open expiry transaction has updated and locked
  received,    \* how often the agent has been handed each command
  server,      \* "up", or "closing" once close_all_connections has run
  faults       \* faults so far

vars == <<pollEvents, signalled, row, created, published, pc, pick, sweep,
          received, server, faults>>

pollVars == <<pollEvents, signalled, pc, pick>>
rowVars  == <<row, created, published>>

RowStates == {"absent", "inserted", "dispatched", "aborted",
              "PENDING", "DELIVERED", "EXPIRED"}

(***************************************************************************)
(* idle      no request in the slot                                        *)
(* missed    first SELECT found nothing, Event not yet registered          *)
(* waiting   Event registered, inside wait_for                             *)
(* woken     wait_for is over, second SELECT not yet run                   *)
(* claim1/2  first/second SELECT returned pick, UPDATE not yet granted     *)
(* holding   UPDATE done, row locked, not committed                        *)
(* replying  committed, the response is on its way                         *)
(***************************************************************************)
PollStates == {"idle", "missed", "waiting", "woken", "claim1", "claim2",
               "holding", "replying"}

TypeOK ==
  /\ SignalingTypeOK
  /\ row \in [Cmds -> RowStates]
  /\ created \in Seq(Cmds)
  /\ published \in Seq(Cmds)
  /\ pc \in [Polls -> PollStates]
  /\ pick \in [Polls -> Cmds \union {NoCmd}]
  /\ sweep \subseteq Cmds
  /\ received \in [Cmds -> Nat]
  /\ server \in {"up", "closing"}
  /\ faults \in 0..MaxFaults

Init ==
  /\ SignalingInit
  /\ row = [c \in Cmds |-> "absent"]
  /\ created = <<>>
  /\ published = <<>>
  /\ pc = [p \in Polls |-> "idle"]
  /\ pick = [p \in Polls |-> NoCmd]
  /\ sweep = {}
  /\ received = [c \in Cmds |-> 0]
  /\ server = "up"
  /\ faults = 0

-----------------------------------------------------------------------------
(* The connection pool *)

(* The requests that have a connection: those whose transaction is open.   *)
(* A poll's first SELECT opens one, which its wait does not end.           *)
ConnectedPolls == {p \in Polls : pc[p] \notin {"idle", "replying"}}
ConnectedCreates == {c \in Cmds : row[c] \in {"inserted", "dispatched"}}

InUse == Cardinality(ConnectedPolls) + Cardinality(ConnectedCreates)
           + (IF sweep = {} THEN 0 ELSE 1)

(* A request whose first statement finds no free connection waits for one, *)
(* or is refused by the pool's timeout before it has done anything.        *)
FreeConnection == InUse < PoolSize

-----------------------------------------------------------------------------
(* Creating a command: POST /commands *)

(* The INSERT; created_at was taken just before it. *)
InsertCommand(c) ==
  /\ server = "up"
  /\ row[c] = "absent"
  /\ FreeConnection
  /\ row' = [row EXCEPT ![c] = "inserted"]
  /\ created' = Append(created, c)
  /\ UNCHANGED <<pollVars, published, sweep, received, server, faults>>

(* The service wakes the held poll while the INSERT is still uncommitted. *)
DispatchCommand(c) ==
  /\ row[c] = "inserted"
  /\ row' = [row EXCEPT ![c] = "dispatched"]
  /\ WakePoll(CmdAgent[c])
  /\ UNCHANGED <<pc, pick, created, published, sweep, received, server, faults>>

(* The route commits after the service has returned. *)
CommitCommand(c) ==
  /\ row[c] = "dispatched"
  /\ row' = [row EXCEPT ![c] = "PENDING"]
  /\ published' = Append(published, c)
  /\ UNCHANGED <<pollVars, created, sweep, received, server, faults>>

(* The request fails before its commit: the session rolls the INSERT back. *)
AbortCommand(c) ==
  /\ row[c] \in {"inserted", "dispatched"}
  /\ row' = [row EXCEPT ![c] = "aborted"]
  /\ UNCHANGED <<pollVars, created, published, sweep, received, server, faults>>

-----------------------------------------------------------------------------
(* The long poll: GET /poll *)

(* Mutant of PendingFor: the SELECT forgets DELIVERED rows are done. *)
MutantPendingFor(a) ==
  {c \in Cmds : row[c] \in {"PENDING", "DELIVERED"} /\ CmdAgent[c] = a}

(* The rows the SELECT of pop_pending sees: committed, PENDING, for a. *)
PendingFor(a) == {c \in Cmds : row[c] = "PENDING" /\ CmdAgent[c] = a}

CreatedBefore(c, d) ==
  \E i, j \in DOMAIN created : i < j /\ created[i] = c /\ created[j] = d

(* Mutant of OldestPending: no ORDER BY. *)
MutantOldestPending(a) == PendingFor(a)

(* The possible results of that SELECT: ORDER BY created_at LIMIT 1. *)
OldestPending(a) ==
  {c \in PendingFor(a) : \A d \in PendingFor(a) : ~CreatedBefore(d, c)}

(* A poll request arrives and its first pop_pending runs the SELECT. *)
FirstSelect(p) ==
  /\ server = "up"
  /\ pc[p] = "idle"
  /\ FreeConnection
  /\ \/ /\ PendingFor(PollAgent[p]) = {}
        /\ pc' = [pc EXCEPT ![p] = "missed"]
        /\ UNCHANGED pick
     \/ \E c \in OldestPending(PollAgent[p]) :
          /\ pick' = [pick EXCEPT ![p] = c]
          /\ pc' = [pc EXCEPT ![p] = "claim1"]
  /\ UNCHANGED <<signalingVars, rowVars, sweep, received, server, faults>>

(* Nothing was found: create the Event and register it. *)
Register(p) ==
  /\ pc[p] = "missed"
  /\ pc' = [pc EXCEPT ![p] = "waiting"]
  /\ RegisterPoll(PollAgent[p], p)
  /\ UNCHANGED <<pick, rowVars, sweep, received, server, faults>>

(* wait_for returns because the Event was set. *)
Wake(p) ==
  /\ pc[p] = "waiting"
  /\ p \in signalled
  /\ pc' = [pc EXCEPT ![p] = "woken"]
  /\ UNCHANGED <<signalingVars, pick, rowVars, sweep, received, server, faults>>

(* Mutant of Timeout: event.wait() without wait_for. *)
MutantTimeout(p) ==
  /\ pc[p] = "waiting"
  /\ p \in signalled
  /\ pc' = [pc EXCEPT ![p] = "woken"]
  /\ UNCHANGED <<signalingVars, pick, rowVars, sweep, received, server, faults>>

(* wait_for raises TimeoutError or CancelledError; both are swallowed. *)
Timeout(p) ==
  /\ pc[p] = "waiting"
  /\ pc' = [pc EXCEPT ![p] = "woken"]
  /\ UNCHANGED <<signalingVars, pick, rowVars, sweep, received, server, faults>>

(* The second pop_pending.  With nothing found the finally block runs and  *)
(* the route answers {"action": "none"}; the session closes.               *)
SecondSelect(p) ==
  /\ pc[p] = "woken"
  /\ \/ /\ PendingFor(PollAgent[p]) = {}
        /\ pc' = [pc EXCEPT ![p] = "idle"]
        /\ UnregisterPoll(PollAgent[p], p)
        /\ UNCHANGED pick
     \/ \E c \in OldestPending(PollAgent[p]) :
          /\ pick' = [pick EXCEPT ![p] = c]
          /\ pc' = [pc EXCEPT ![p] = "claim2"]
          /\ UNCHANGED signalingVars
  /\ UNCHANGED <<rowVars, sweep, received, server, faults>>

(* The row is locked by another transaction that has updated it. *)
LockedByOther(c, p) ==
  \/ c \in sweep
  \/ \E q \in Polls \ {p} : pc[q] = "holding" /\ pick[q] = c

(* The flush: UPDATE ... WHERE id = pick.  It waits for the row lock and   *)
(* does not look at the status again.  The second pop_pending is followed  *)
(* by the finally block.                                                   *)
Claim(p) ==
  /\ pc[p] \in {"claim1", "claim2"}
  /\ ~LockedByOther(pick[p], p)
  /\ pc' = [pc EXCEPT ![p] = "holding"]
  /\ IF pc[p] = "claim2" THEN UnregisterPoll(PollAgent[p], p)
                         ELSE UNCHANGED signalingVars
  /\ UNCHANGED <<pick, rowVars, sweep, received, server, faults>>

(* Mutant of CommitPoll: the route replies without committing. *)
MutantCommitPoll(p) ==
  /\ pc[p] = "holding"
  /\ pc' = [pc EXCEPT ![p] = "replying"]
  /\ UNCHANGED <<signalingVars, pick, rowVars, sweep, received, server, faults>>

(* The route commits the DELIVERED status ... *)
CommitPoll(p) ==
  /\ pc[p] = "holding"
  /\ row' = [row EXCEPT ![pick[p]] = "DELIVERED"]
  /\ pc' = [pc EXCEPT ![p] = "replying"]
  /\ UNCHANGED <<signalingVars, pick, created, published, sweep, received,
                 server, faults>>

(* ... and returns the command, which the agent gets ... *)
Reply(p) ==
  /\ pc[p] = "replying"
  /\ received' = [received EXCEPT ![pick[p]] = @ + 1]
  /\ pc' = [pc EXCEPT ![p] = "idle"]
  /\ pick' = [pick EXCEPT ![p] = NoCmd]
  /\ UNCHANGED <<signalingVars, rowVars, sweep, server, faults>>

(* ... or does not get: there is no acknowledgement and no redelivery. *)
LoseReply(p) ==
  /\ pc[p] = "replying"
  /\ faults < MaxFaults
  /\ faults' = faults + 1
  /\ pc' = [pc EXCEPT ![p] = "idle"]
  /\ pick' = [pick EXCEPT ![p] = NoCmd]
  /\ UNCHANGED <<signalingVars, rowVars, sweep, received, server>>

(* Mutant of FailPoll: the clean-up is not in a finally block. *)
MutantFailPoll(p) ==
  /\ pc[p] \notin {"idle", "replying"}
  /\ faults < MaxFaults
  /\ faults' = faults + 1
  /\ pc' = [pc EXCEPT ![p] = "idle"]
  /\ pick' = [pick EXCEPT ![p] = NoCmd]
  /\ UNCHANGED <<signalingVars, rowVars, sweep, received, server>>

(* An exception ends the request before its commit: rollback, and the      *)
(* finally block if the request had entered the try.                       *)
FailPoll(p) ==
  /\ pc[p] \notin {"idle", "replying"}
  /\ faults < MaxFaults
  /\ faults' = faults + 1
  /\ pc' = [pc EXCEPT ![p] = "idle"]
  /\ pick' = [pick EXCEPT ![p] = NoCmd]
  /\ IF pc[p] \in {"waiting", "woken", "claim2"}
       THEN UnregisterPoll(PollAgent[p], p)
       ELSE UNCHANGED signalingVars
  /\ UNCHANGED <<rowVars, sweep, received, server>>

-----------------------------------------------------------------------------
(* The expiry sweep: expire_stale_commands *)

(* created_at < threshold holds of a prefix of the creation order. *)
CreatedAmongFirst(n) == {created[i] : i \in 1..n}

(* Mutant of Expirable: the UPDATE has no condition on the status. *)
MutantExpirable(n) ==
  {c \in CreatedAmongFirst(n) : row[c] \in {"PENDING", "DELIVERED", "EXPIRED"}}

(* The rows the UPDATE matches. *)
Expirable(n) == {c \in CreatedAmongFirst(n) : row[c] = "PENDING"}

(* One UPDATE.  It waits for rows a poll has locked and looks at their     *)
(* status again afterwards.                                                *)
SweepUpdate(n) ==
  /\ Sweeps
  /\ server = "up"
  /\ sweep = {}
  /\ FreeConnection
  /\ Expirable(n) # {}
  /\ \A p \in Polls : pc[p] = "holding" => pick[p] \notin Expirable(n)
  /\ sweep' = Expirable(n)
  /\ UNCHANGED <<pollVars, rowVars, received, server, faults>>

(* Mutant of SweepCommit: a status the CHECK constraint does not know. *)
MutantSweepCommit ==
  /\ sweep # {}
  /\ row' = [c \in Cmds |-> IF c \in sweep THEN "CANCELLED" ELSE row[c]]
  /\ sweep' = {}
  /\ UNCHANGED <<pollVars, created, published, received, server, faults>>

SweepCommit ==
  /\ sweep # {}
  /\ row' = [c \in Cmds |-> IF c \in sweep THEN "EXPIRED" ELSE row[c]]
  /\ sweep' = {}
  /\ UNCHANGED <<pollVars, created, published, received, server, faults>>

SweepAbort ==
  /\ sweep # {}
  /\ faults < MaxFaults
  /\ faults' = faults + 1
  /\ sweep' = {}
  /\ UNCHANGED <<pollVars, rowVars, received, server>>

-----------------------------------------------------------------------------
(* The process *)

(* Lifespan shutdown: every held poll is woken. *)
CloseAllConnections ==
  /\ server = "up"
  /\ faults < MaxFaults
  /\ faults' = faults + 1
  /\ server' = "closing"
  /\ WakeAllPolls
  /\ UNCHANGED <<pc, pick, rowVars, sweep, received>>

(* The process ends: the registry, the requests and their uncommitted      *)
(* transactions are gone.  Then it is started again.                       *)
Restart ==
  /\ pollEvents' = [a \in Agents |-> NoEvent]
  /\ signalled' = {}
  /\ pc' = [p \in Polls |-> "idle"]
  /\ pick' = [p \in Polls |-> NoCmd]
  /\ row' = [c \in Cmds |-> IF row[c] \in {"inserted", "dispatched"}
                              THEN "aborted" ELSE row[c]]
  /\ sweep' = {}
  /\ server' = "up"
  /\ UNCHANGED <<created, published, received>>

Crash ==
  /\ server = "up"
  /\ faults < MaxFaults
  /\ faults' = faults + 1
  /\ Restart

Exit ==
  /\ server = "closing"
  /\ Restart
  /\ UNCHANGED faults

-----------------------------------------------------------------------------

PollStep(p) ==
  \/ Register(p) \/ Wake(p) \/ Timeout(p) \/ SecondSelect(p) \/ Claim(p)
  \/ CommitPoll(p) \/ Reply(p)

Next ==
  \/ \E c \in Cmds : \/ InsertCommand(c) \/ DispatchCommand(c)
                     \/ CommitCommand(c) \/ AbortCommand(c)
  \/ \E p \in Polls : \/ FirstSelect(p) \/ Register(p) \/ Wake(p)
                      \/ Timeout(p) \/ SecondSelect(p) \/ Claim(p)
                      \/ CommitPoll(p) \/ Reply(p) \/ LoseReply(p)
                      \/ FailPoll(p)
  \/ \E n \in DOMAIN created : SweepUpdate(n)
  \/ SweepCommit \/ SweepAbort
  \/ CloseAllConnections \/ Crash \/ Exit

Spec == Init /\ [][Next]_vars

(***************************************************************************)
(* The event loop runs what is ready, timers fire, statements return and   *)
(* transactions end, agents poll again, and a process that stops is        *)
(* started again.  A connection that is returned goes to the request that  *)
(* has waited longest for one, and an agent refused by the pool's timeout  *)
(* asks again: strong fairness of FirstSelect.  Nobody has to create       *)
(* commands or to run the sweep.                                           *)
(***************************************************************************)
Fairness ==
  /\ \A c \in Cmds : WF_vars(DispatchCommand(c)) /\ WF_vars(CommitCommand(c))
  /\ \A p \in Polls :
       /\ SF_vars(FirstSelect(p)) /\ WF_vars(Register(p)) /\ WF_vars(Wake(p))
       /\ WF_vars(Timeout(p)) /\ WF_vars(SecondSelect(p)) /\ WF_vars(Claim(p))
       /\ WF_vars(CommitPoll(p)) /\ WF_vars(Reply(p))
  /\ WF_vars(SweepCommit) /\ WF_vars(Exit)

FairSpec == Spec /\ Fairness

-----------------------------------------------------------------------------
(* Properties *)

(* No agent has two requests in the server at once. *)
OnePollPerAgent == \A p, q \in Polls : PollAgent[p] = PollAgent[q] => p = q

(* A command reaches its agent at most once (pop_pending marks what it     *)
(* hands out, and commits before the reply).                               *)
AtMostOnce == \A c \in Cmds : received[c] <= 1

(* What an agent got is durably DELIVERED: no rollback, crash or sweep     *)
(* takes back the status of a command the agent acts on.                   *)
ReceivedIsDelivered == \A c \in Cmds : received[c] > 0 => row[c] = "DELIVERED"

(* A request inside hold_poll's try owns its agent's registry entry, so    *)
(* dispatch_command can wake it and the stale sweep leaves the agent alone;*)
(* and no entry outlives its request, whichever way the request ends.      *)
RegistryMatchesPolls ==
  /\ \A p \in Polls : pc[p] \in {"waiting", "woken", "claim2"}
                         => pollEvents[PollAgent[p]] = p
  /\ \A a \in ActivePollAgents :
       /\ PollAgent[pollEvents[a]] = a
       /\ pc[pollEvents[a]] \in {"waiting", "woken", "claim2"}

(* Commands of one agent leave in order: when d is DELIVERED, no command   *)
(* is still PENDING that is older than d and was committed before d.  A    *)
(* command committed late may be overtaken (created_at is taken before the *)
(* insert), and nothing else may, through claims, failures and overlaps.   *)
InOrder ==
  \A i, j \in DOMAIN published :
    LET c == published[i]  d == published[j] IN
      /\ i < j /\ CmdAgent[c] = CmdAgent[d] /\ CreatedBefore(c, d)
      /\ row[d] = "DELIVERED"
      => row[c] # "PENDING"

(* Neither the sweep nor another poll changes a row that has been handed   *)
(* out.                                                                    *)
DeliveredIsFinal ==
  [][\A c \in Cmds : row[c] = "DELIVERED" => row'[c] = "DELIVERED"]_row

(* Every command the API accepted is eventually handed out or expires,     *)
(* although its wake-up can be lost: the timeout of the held poll and the  *)
(* next poll's first SELECT make up for it.                                *)
EventuallyHandled ==
  \A c \in Cmds : row[c] = "PENDING" ~> row[c] # "PENDING"

(* Held polls that take up the whole pool give it back, although the       *)
(* request that would wake them cannot get a connection to do it.          *)
ExhaustionEnds == []<>FreeConnection

(* Every poll request ends, whether it finds a command at once, is held or *)
(* is held and woken, and whatever row locks it waits for on the way.      *)
EveryPollEnds == \A p \in Polls : pc[p] # "idle" ~> pc[p] = "idle"

(***************************************************************************)
(* Command delivery implements CommandQueue.  A command is taken when the  *)
(* DELIVERED status commits.  One that expires while a poll has already    *)
(* selected it counts as queued until the poll takes it or gives up,       *)
(* because the claim does not look at the status again.                    *)
(***************************************************************************)
Claimed(c) ==
  \E p \in Polls : pick[p] = c /\ pc[p] \in {"claim1", "claim2", "holding"}

AbstractState(c) ==
  CASE row[c] = "PENDING" -> "queued"
    [] row[c] = "EXPIRED" -> IF Claimed(c) THEN "queued" ELSE "expired"
    [] row[c] = "DELIVERED" ->
         IF received[c] > 0 THEN "received"
         ELSE IF \E p \in Polls : pick[p] = c /\ pc[p] = "replying"
                THEN "taken" ELSE "lost"
    [] OTHER -> "absent"

QueueState == [c \in Cmds |-> AbstractState(c)]

Queue == INSTANCE CommandQueue WITH state <- QueueState

ImplementsQueue == Queue!QueueSpec

-----------------------------------------------------------------------------
(* Inductive invariants, for the proofs *)

ClaimStates == {"claim1", "claim2", "holding"}

(* What holds however many requests an agent has: a request between its    *)
(* SELECT and its reply has a committed command in hand, a reply on its    *)
(* way is of a DELIVERED one, and the sweep's locked rows are PENDING and  *)
(* no poll's.                                                              *)
DeliveryInv ==
  /\ \A p \in Polls : pick[p] \in Cmds <=> pc[p] \in ClaimStates \union {"replying"}
  /\ \A p \in Polls : pc[p] \in ClaimStates =>
                        row[pick[p]] \in {"PENDING", "DELIVERED", "EXPIRED"}
  /\ \A p \in Polls : pc[p] = "replying" => row[pick[p]] = "DELIVERED"
  /\ \A p \in Polls : pc[p] = "holding" => pick[p] \notin sweep
  /\ \A c \in sweep : row[c] = "PENDING"
  /\ ReceivedIsDelivered

(* What keeps commands in order, however many requests an agent has: a     *)
(* command that is handed out, or that a request has selected to hand out, *)
(* leaves no older one PENDING that was committed before it.               *)
HandedOut(c) == row[c] = "DELIVERED" \/ Claimed(c)

OrderInv ==
  /\ \A i \in DOMAIN published :
       row[published[i]] \in {"PENDING", "DELIVERED", "EXPIRED"}
  /\ \A i, j \in DOMAIN published :
       LET c == published[i]  d == published[j] IN
         /\ i < j /\ CmdAgent[c] = CmdAgent[d] /\ CreatedBefore(c, d)
         /\ HandedOut(d)
         => row[c] # "PENDING"

(* What holds besides when an agent has one request at a time: what a      *)
(* request has in hand is its agent's, and was neither DELIVERED before    *)
(* nor received.                                                           *)
SingleInv ==
  /\ \A p \in Polls : pick[p] \in Cmds =>
        CmdAgent[pick[p]] = PollAgent[p] /\ received[pick[p]] = 0
  /\ \A p \in Polls : pc[p] \in ClaimStates =>
        row[pick[p]] \in {"PENDING", "EXPIRED"}
  /\ AtMostOnce
=============================================================================

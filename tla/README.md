# UniFlow Cloud API: TLA+ models and proofs

The UniFlow cloud API (`src/app`) is a FastAPI service on one asyncio event loop over
PostgreSQL. Edge agents link themselves with a setup code, keep a session alive with rotating
refresh tokens, hold a long poll for commands and report state and upload progress. The web
portal moves upload jobs through a state machine and creates commands. This directory models
the parts whose correctness depends on how concurrent requests, transactions, timers and
failures interleave; TLC checks them on small instances, and TLAPS proves, for
every value of the constants, each safety property and refinement that passes those checks.
Liveness is only checked.

## 1. Inventory

| Component | State | Operations | Talks to | Hard behaviour | Correct means |
|---|---|---|---|---|---|
| Long-poll signaling, `services/signaling_service.py` | in memory: `_poll_events`, `active_poll_agent_ids` | `hold_poll`, `dispatch_command`, `close_all_connections` | poll route, command service, stale sweep | registry entry per agent, not per request; gaps at each `await`; lost on restart | the registry follows the requests; every request ends; a lost wake-up delays a command, no more |
| Command queue, `services/command_service.py`, `repositories/command_repository.py`, `routers/web.py`, `routers/edge.py` | table `commands` | create, pop (claim), deliver, expire | signaling | dispatch before commit; SELECT then UPDATE; reply after commit; no acknowledgement | delivered at most once, in order, DELIVERED is durable and final, nothing stays PENDING |
| Job lifecycle, `services/job_service.py`, `services/state_machine.py`, `repositories/job_repository.py` | table `jobs` | `transition_state`, `check_timeouts`, create | web route | read, decide, write by id; swallowed exceptions; route without commit | the status moves along `TRANSITION_MAP`; terminal is final |
| Token rotation, `DeviceService.refresh_tokens`, `repositories/refresh_token_repository.py` | table `refresh_tokens`, audit log | rotate, detect reuse, revoke chain | JWT service, audit service | concurrent refreshes; lost replies; chain UPDATE misses uncommitted rows | one usable token per chain; reuse ends the chain; failures never lock a device out |
| Device linking, `DeviceService.link_device` | `setup_codes`, `devices`, `refresh_tokens`, audit log | link, refuse | audit service | one code, many requests; failure at each statement; audit in a second transaction, which locks the code again | one device per code; all or nothing; refusals audited and for a lasting cause; every request ends |
| Device presence, `check_stale_agents`, `update_device_status`, `repositories/device_repository.py` | `devices.status`, `last_seen_at` | report, sweep | registry of polls | sweep works on rows it read; late reports | `last_seen_at` never goes back; the sweep overwrites no fresh report and spares agents in a poll when it begins |
| Rate limiter, `middleware/rate_limiter.py` | in memory: a deque of times per key | `check_limit`, `cleanup_expired_keys` | route dependencies | window boundary, rounding, cleanup | exactly a sliding window; Retry-After suffices |
| Upload progress, `repositories/file_repository.py`, `routers/edge.py` | table `job_files` | `bulk_create`, `update_status`, `bulk_update_status`, `update_file_status` | STS, the agent | an UPDATE without a condition, open to any client; commit before the answer; repeated and late reports | an acknowledged report is stored; a report is applied whole and at most once; uploads end |
| STS credentials, `services/sts_service.py`, `routers/edge.py` | none | check ownership and status, issue | `job_files` | statuses are read before the answer; no re-issue after the first report | only for files that exist and are the agent's |
| Connection pool, `database.py` | 10 + 5 connections | check-out at a transaction's first statement, return at its end | everything | held polls keep a connection; what would wake them needs one | exhaustion ends |
| OpenAsset client, upload service stub, TLS enforcement, rate-limit keys, PII scrubber, status helpers, health, configuration, migrations, other tables | none at run time | pure functions, stubs, declarations | | none | not modelled: no state and no interleaving |

How they interact: the web route creates a command (row in `commands`), the command service
calls the registry to wake the agent's held poll, and the poll claims the row and commits it
before replying. The stale sweep reads the same registry once, before its SELECT, to spare agents in a poll.
Linking creates the first refresh token of a chain, which rotation then carries on.
`POST /upload/sts` reads the statuses that `POST /upload/progress` and administration write.
Everything else meets only in the database and in its connection pool.

## 2. Modules

| Module | Models | Extends / refines |
|---|---|---|
| `SignalingService` | the registry of held polls, one operator per registry operation | |
| `CommandQueue` | abstract: a command is queued, taken at most once, received or lost, or expired | |
| `CommandDelivery` | create-command request, poll request, expiry sweep, shutdown, crash, connection pool | extends `SignalingService`, implements `CommandQueue` |
| `CommandDeliveryProofs` | theorems | extends `CommandDelivery` |
| `JobStateMachine` | `TRANSITION_MAP` and the functions over it | |
| `JobContract` | abstract: a job's status moves along the map | extends `JobStateMachine` |
| `JobLifecycle` | `transition_state`, its web route, `check_timeouts` | instantiates `JobContract` |
| `JobLifecycleProofs` | theorems | extends `JobLifecycle` |
| `TokenChain` | abstract: a chain has one usable token until a reuse kills it | |
| `TokenRotation` | `refresh_tokens` | instantiates `TokenChain` |
| `TokenRotationProofs` | theorems | extends `TokenRotation` |
| `SlidingWindow` | abstract: the ideal limiter | |
| `RateLimiter` | `check_limit`, `cleanup_expired_keys`, restart | implements `SlidingWindow` |
| `RateLimiterProofs` | theorems | extends `RateLimiter` |
| `DevicePresence` | state reports and the stale sweep | extends `SignalingService` |
| `DevicePresenceProofs` | theorems | extends `DevicePresence` |
| `DeviceLinking` | `link_device` | |
| `DeviceLinkingProofs` | theorems | extends `DeviceLinking` |
| `UploadLedger` | abstract: a report takes effect as a whole, at most once, between its arrival and its answer | |
| `UploadProgress` | `job_files`: administration, `POST /upload/sts`, `POST /upload/progress`, and the agent that drives them | implements `UploadLedger` |
| `UploadProgressProofs` | theorems | extends `UploadProgress` |
| `MC*` | constant values and symmetry for TLC | |

### How state and actions correspond to the code

**Steps.** A request is a program counter (`pc`). The code between two awaits is one step,
because the process has one event loop. A database statement, a commit and a registry call are
steps of their own. Pure computation is folded into the step that uses it.

**Database.** The variables hold what a new transaction would see: PostgreSQL's default
isolation, READ COMMITTED. A SELECT reads the committed value when it runs. An UPDATE takes
row locks that last until its transaction ends, and another writer of the row waits for them
(`LockedByOther`, `Locked`). After the wait its WHERE clause is evaluated on the new row, which
is why `Claim`, whose WHERE names the id only, overwrites whatever has happened, and why
`Matches`, which compares timestamps, does not. What a transaction has written and not
committed is in the request's own variables. An ended session without a commit is a rollback
(`get_db` never commits).

**CommandDelivery.** `row` is the command's life: `inserted` and `dispatched` are the two
uncommitted states of the create request, on either side of the wake-up. `FirstSelect`,
`Register`, `Wake`/`Timeout`, `SecondSelect`, `Claim`, `CommitPoll` and `Reply` are `hold_poll`
and the poll route in order; `FailPoll` leaves at any point through the `finally` block. A
cancelled wait behaves as a timeout, since `hold_poll` swallows `CancelledError`. A request has
a connection of the pool from its first statement until its transaction ends, which for a poll is
the whole wait: `FreeConnection` guards the three actions that begin a transaction. A poll
slot is a server-side request of one agent: an agent that gives up on a request and retries
while the server still holds the first has two slots.

**JobLifecycle.** `seen` and `new` are what `transition_state` read and computed.
Transactions in `web` belong to the web route and end in `AnswerWeb`, which commits nothing;
others have a caller that commits. The repository contains no such caller outside its tests;
`JobService` is written for one. `FailStatement` is the failure that `check_timeouts` swallows.

**TokenRotation.** A token is a row and the JWT whose hash is in it; two rows have the same
hash when chain, sequence number and whole second of issue agree (`SameJWT`), and then the
lookup raises. `held` are the tokens that reached an agent: only those are presented.

**DevicePresence.** Reports come from the route, which does not commit, or from another caller
of `update_device_status`, which does. The sweep reads the registry and the clock and builds its
SELECT in one step (`BeginSweep`), awaits the rows (`FindStale`), updates them one by one
(`MarkOffline`) and commits. `lastPoll`, `overlapped` and `spared` are history variables: when an
agent last was in a poll, whether its present polls have overlapped, and which agents were in a
poll that had met no other when the sweep began.

**RateLimiter.** Time is in ticks, `PerSecond` to a second, so that truncation matters;
`admitted` and `until` are the abstract variables, updated along with the deque.

**DeviceLinking.** `FindSetupCode` waits for the lock of the code's row, which the
transaction keeps until it ends; the refusal's second transaction takes it again (`LogFailure`),
commits the audit row (`CommitFailure`), and only then is the refusal raised (`Refuse`). The model
takes the placeholder `user_id=org_id` of `_create_device` to satisfy its foreign key; where
it does not, every link ends in `Abort`.

**UploadProgress.** A report is `sent`, then its UPDATE has the row lock (`updated`), then it is
committed and its answer is on the way (`committed`). `Written` is the SET of
`update_file_status`, whose WHERE names the id only: the row's status is not looked at. Callers of
the other repository operations commit, so each of those is one step, after the locks of reports
in progress; they write any status over any other. The STS
request goes through ownership (`OwnsAll` counts rows as the query does, so a repeated id is
refused), the status of each file (`ReadFiles`) and the answer (`ReplySTS`). The agent is not in this
repository; it is modelled as the routes expect it: it uploads with its credentials, reports its
chunks, repeats what was not acknowledged, and begins again after a failure (`Report`). Since the
route compares neither agent nor job with the file's, any other authenticated client, or the agent
out of its order, may report any status and any count up to `Total` about a file that exists
(`StrangerReport`; a count above `Total` would be stored like any other). `overlapped` are the files
for which two reports of the agent have been in the server at once, `touched` those whose row
administration or a stranger has written since the agent's last report of it took effect. The
server treats PAUSED as UPLOADING and PAUSED_USER as CANCELLED, so each pair is one status of the
model.

### Turns

Two components read, decide and write without locking the row they read, and rely on their
callers not to overlap. `JobLifecycle` and `TokenRotation` have a constant-per-behaviour
variable `serial`: when it is true, transactions on one job or one chain take turns. The
properties that need turns say so (`...WhenSerial`), the others are checked with and
without. `serial` is a statement about the environment, not a mechanism of the code.

## 3. Runs

| Run | Instance | Checks | Shows |
|---|---|---|---|
| `delivery_single` | 2 agents with 1 slot and 1 command each, sweep, 2 faults, pool of 2, fair | `TypeOK`, `AtMostOnce`, `RegistryMatchesPolls`, `EventuallyHandled`, `ExhaustionEnds`, `ImplementsQueue` | with one request per agent the protocol keeps its promise, including every lost wake-up and an exhausted pool |
| `delivery_overlap` | 1 agent with 2 slots, 2 commands, sweep, 2 faults, pool of 3, fair | `ReceivedIsDelivered`, `InOrder`, `DeliveredIsFinal`, `EveryPollEnds` | what survives overlapping requests |
| `delivery_double` | 1 agent, 2 slots, pool of 3 | `AtMostOnce` is violated | finding 1 |
| `jobs` | 2 jobs, 2 transactions, 2 sweeps | `TypeOK`, `ContractWhenSerial`, `TerminalLeftByStaleWriterOnly` | the table obeys the map under turns; only a stale writer leaves a terminal status without |
| `jobs_route` | the same | `WebAnswerIsDurable` is violated | finding 2 |
| `tokens` | 2 chains, 4 tokens, 2 requests, seconds 0..1 | `TypeOK`, `ParentRevoked`, `RevokedChainWasAudited`, `JWTsDistinctWhenSerial`, `RotatesWhenSerial` | rotation is atomic; under turns it implements `TokenChain` |
| `tokens_reuse` | 1 chain, 3 tokens, 2 requests | `ReuseRevokesChain` is violated | finding 3 |
| `limiter` | 2 keys, limit 2, window 2 ticks = 1 second, time 0..8 | `TypeOK`, `LimitHolds`, `RetryAfterSuffices`, `ImplementsSlidingWindow` | the limiter is an exact sliding window |
| `presence` | 1 device, 2 reports, 2 polls, threshold 1, time 0..4 | `TypeOK`, `LastSeenOnlyGrows`, `SweepSparesFreshDevices`, `SweepSparesPollers`, `SweepPreservesLastSeen` | the optimistic lock does its work, and so does the registry for polls that the sweep can know of |
| `presence_polls` | 1 device, 1 report, 1 poll | `OfflineMeansMissedPolls` is violated | finding 4 |
| `linking` | 2 codes, 2 devices, 3 requests, fair | `TypeOK`, `OneDevicePerCode`, `SpentMeansLinked`, `RefusalsJustified`, `EveryRequestEnds` | linking is atomic and one-time; refusals have a cause, and come |
| `uploads` | 1 file of 2 chunks, a foreign id, 2 progress requests of which a stranger's 1, 1 STS request, 1 fault, fair | `TypeOK`, `ToldIsStored`, `ImplementsLedger`, `UploadsEnd` | reports are atomic under any overlap and whoever sends them; what was acknowledged stays until somebody else writes it; uploads end |

**Why the bounds are enough.** The interesting cases are pairs: two requests for one row, a
request and a sweep, a rotation and a reuse. Two slots give every pair; a second agent, key,
chain or code shows that nothing leaks across. Three requests in `linking` let one be refused
while one holds the lock and another is being audited. A pool of two in
`delivery_single` is exhausted by the two held polls, which is what fifteen polls do to fifteen
connections; in the other delivery runs it is large enough for every overlap. Two reports in
`uploads` can both be the agent's, or one a stranger's (`MaxStrangers = 1`), and meet
administration and an STS request; two chunks have a report before, in the middle of and after the
upload. One file is enough there because reports name one file each: what creation, administration
and STS do with several at once is the same write or check for each, and the foreign id completes
the lists of an STS request. `MaxFaults = 2` allows a failure, and
another one while the first is being recovered from; liveness is checked for what follows the
last fault. `MaxTime` covers four windows of the limiter, so that a request can expire, be
cleaned up after twice the window, and be followed by full windows; for presence it covers a
report, its expiry and a late writer. `MaxFaults = 1` in `uploads` is a lost answer, a failed
request, a failed upload or lost credentials, at any point. `MaxSecond = 1` has rotations in the same and in
different seconds. `MaxFaults`,
`MaxTime`, `MaxSecond` and `MaxStrangers` are the only bounds in guards.

**Deadlock** is checked except in the job runs, where every job may end in a terminal status
and the system has nothing left to do.

**Fairness.** Nothing obliges anybody to create a command or a file, to present a code, to run a
sweep, to crash or to fail; every fairness condition is about a step that the event loop,
PostgreSQL, the pool or an agent takes by itself.

- `CommandDelivery`: weak fairness of ready tasks, statements, commits and the timer of
  `wait_for` (`Timeout`); a process that is shutting down exits and is started again. Strong
  fairness of `FirstSelect`: agents poll again, and SQLAlchemy's pool serves those who wait for a
  connection in their order, so an agent is not passed over for ever although a connection is
  free only now and then. (A wait that exceeds the pool's own timeout is refused, and the agent
  polls again.)
- `DeviceLinking`: weak fairness of statements and commits; strong fairness of `LogFailure`,
  because PostgreSQL's queue for a row lock is first come, first served. `Abort` needs none.
- `UploadProgress`: weak fairness of the server's steps and of the agent's work; strong fairness
  of `UpdateReport`, for the same reason as `LogFailure`, since strangers may report for ever; and
  strong fairness of the agent's requests, which need a free slot (`Report`), or an STS request that is not busy with
  other files (`RequestSTS` for each file alone). The agent is external: `UploadsEnd` says that
  the server lets such an agent finish.

`JobLifecycle`, `TokenRotation`, `RateLimiter` and `DevicePresence` promise nothing that must
happen: their sweeps have no caller in the repository, and a request for which nothing waits
ends by itself.

**What the restricted properties leave out.** `ContractWhenSerial`, `RotatesWhenSerial` and
`JWTsDistinctWhenSerial` are about turns, so they say nothing of the interleavings without: a job
overwritten by a stale writer, a chain forked by two refreshes, two rotations of one token within
a second. `ToldIsStored` and `UploadsEnd` except files whose reports overlapped. `RegistryMatchesPolls`
and `AtMostOnce` are checked with one request per agent. `RefusalsJustified` has the failures on
record as a set of codes: of several refusals of one code it shows that one is recorded, and for
each that the cause lasts. `EveryRequestEnds` speaks of requests that have the code's row, or had
it: one that waits for the first `FOR UPDATE` is not told from one that was never sent.

## 4. Findings

1. `delivery_double`: `pop_pending` is documented as atomic and is not. Two overlapping polls
   of one agent receive the same command. (`SingleDelivery` proves overlap is the only way.)
2. `jobs_route`: the web route for job transitions never commits.
3. `tokens_reuse`: the chain of a detected reuse keeps the token of a rotation that was in
   flight.
4. `presence_polls`: the sweep takes agents OFFLINE that poll. It makes the list of agents to
   leave out before it awaits its SELECT, so a poll that registers meanwhile does not count; and it
   measures staleness from the last committed state report, which polls do not touch, so neither
   does a poll that has ended.

Met on the way, without a run:

- The wake-up of a command precedes its commit, and the registration of a poll's Event follows
  its first SELECT, so a poll can miss a command and hold on until its timer fires;
  `EventuallyHandled` shows that the command waits no longer than that.
- An EXPIRED command that a poll has already selected is delivered. `ImplementsQueue` counts it
  as queued until then, so it allows this; no property says that expiry wins. Without turns a job leaves a terminal status. `report_state`
  never commits either. A resent job keeps its old `expires_at`.
- `report_progress` documents 400 for an "illegal status transition" (`edge.py:223`) and
  `update_file_status` a ValueError (`file_repository.py:199`), and
  `tests/api/edge/test_upload_progress.py:79-97` gets the 400 from a mocked repository that raises
  "Invalid transition: SYNCED -> UPLOADING". Neither checks: a report of any client, in any order,
  takes a file out of SYNCED or CANCELLED (`StrangerReport`, or a late duplicate of the agent's own).
  The model does what the code does, and no property claims the refusal. `update_file_status` ends in `scalar_one`, so a file that does
  not exist is answered with 500, not with the documented 404; the `job_id` of the request is not
  used; and an `error_message` survives a later SYNCED, because None is not written.
- Credentials are answered from statuses read before: a file may be cancelled, or have reported,
  by the time the agent gets them (`ReadFiles`, `ReplySTS`). STS refuses files that have left PRE_REGISTERED, so an agent that loses its credentials after
  its first report cannot renew them; `UploadsEnd` has to exclude that (`Stranded`).
- `streaming_hash` of `job_files` and `device_metadata` of `devices` are in the models and not in
  the migrations; `UploadService()` fails, since it creates `OAClientService` without arguments.

## 5. Proofs

TLAPS proves, for all sets of agents, slots, commands, jobs, tokens, requests, keys, codes and
files and all bounds, under the named assumptions on constants (types, and null values that are
outside the sets they complete), one theorem for each safety property, action property and
refinement of the passing runs:

| Module | Inductive invariants | Properties that follow |
|---|---|---|
| `CommandDeliveryProofs` | `TypeCorrect` (`TypeOK`), `DeliveryInvariant` (`DeliveryInv`), `OrderInvariant` (`OrderInv`) | `ReceivedSafe` (`ReceivedIsDelivered`), `DeliveredFinal` (`DeliveredIsFinal`), `DeliveredInOrder` (`InOrder`) |
| the same, `OnePollPerAgent =>` | `SingleInvariant` (`SingleInv`), `RegistrySound` (`RegistryMatchesPolls`) | `SingleDelivery` (`AtMostOnce`), `DeliveryRefinesQueue` (`ImplementsQueue`) |
| `JobLifecycleProofs` | `JobInvariant` (`JobInv`), `SerialInvariant` (`SerialInv`) | `TypeCorrect`, `TerminalIsFinal` (`TerminalLeftByStaleWriterOnly`), `SerialJobsFollowMap` (`ContractWhenSerial`) |
| `TokenRotationProofs` | `RotationInvariant` (`RotationInv`), `SerialInvariant` (`SerialInv`) | `TypeCorrect`, `RotationRevokesParent` (`ParentRevoked`), `RevocationIsAudited` (`RevokedChainWasAudited`), `SerialJWTsAreDistinct` (`JWTsDistinctWhenSerial`), `SerialRotationKeepsPromise` (`RotatesWhenSerial`) |
| `RateLimiterProofs` | `LimiterInvariant` (`LimiterInv`), `PromiseInvariant` (`PromiseInv`) | `TypeCorrect`, `LimitIsKept` (`LimitHolds`), `WaitingIsEnough` (`RetryAfterSuffices`), `LimiterRefinesWindow` (`ImplementsSlidingWindow`) |
| `DevicePresenceProofs` | `PresenceInvariant` (`PresenceInv`), `RegistryInvariant` (`RegistryKnowsPolls`) | `TypeCorrect`, `SeenMovesForward` (`LastSeenOnlyGrows`), `FreshDevicesStayOnline` (`SweepSparesFreshDevices`), `SweepKeepsLastSeen` (`SweepPreservesLastSeen`), `PollersAreSpared` (`SweepSparesPollers`) |
| `DeviceLinkingProofs` | `LinkInvariant` (`LinkInv`) | `TypeCorrect`, `CodeLinksOneDevice` (`OneDevicePerCode`), `LinkIsAtomic` (`SpentMeansLinked`), `RefusalsHaveCause` (`RefusalsJustified`) |
| `UploadProgressProofs` | `UploadInvariant` (`UploadInv`), `OneReportInvariant` (`OneReportPerFile`) | `TypeCorrect`, `AcknowledgedIsStored` (`ToldIsStored`), `UploadsRefineLedger` (`ImplementsLedger`) |

`OnePollPerAgent` is a hypothesis about the constants, not about the code: it says that agents
wait for an answer before they ask again. `delivery_double` shows what happens otherwise, and
`delivery_single` and `delivery_overlap` are instances with and without it.

The arguments, in short:

- **Delivery.** `ReceivedIsDelivered` is not inductive: a reply could be of a row that is not
  DELIVERED, and a sweep could hold a delivered row. `DeliveryInv` adds what a request has in
  hand at each point and that the sweep's locked rows are PENDING and nobody else's.
  `SingleInv` adds, for one request per agent, that the command in hand was never received:
  a second request would be needed to deliver it in between.
- **Order.** Between the SELECT and the commit, other commands commit and expire. `OrderInv`
  therefore says of a selected command what `InOrder` says of a delivered one: nothing older that
  was committed before it is PENDING. The SELECT establishes it (`SelectKeepsOrder`), a command
  committed later is later in `published`, and no row becomes PENDING again. It needs neither
  turns nor a lock, so it holds of overlapping requests too.
- **Queue.** `NextQueue` maps each action to a step of `CommandQueue`. Because a command has one
  holder (`OneHolder`), a step of a request moves only the command in its hand; a crash moves
  several at once, which is why `LoseAndExpire` takes sets. An expired command that is in hand
  counts as queued, and expires when its request fails.
- **Jobs.** `WritersFollowMap`: a transaction's target follows from what it read, whatever the
  row is now. A commit leaves a terminal status only where the row is not what was read, since
  the map leads nowhere from a terminal status. Under turns the row is what was read
  (`WritersTakeTurns`), also for the rows of a sweep, so the commit is a move of the map.
- **Rotation.** `RotationInv` adds that the row a request will insert is not in the table and
  belongs to no other request, and that a chain UPDATE holds rows of that chain only.
  A chain then loses its last live token only when a reuse commits, together with its audit row.
  Under turns (`OneRequestPerChain`, `ChainIsLinear`) the token presented is still live when the
  rotation commits and carries the highest number of its chain, so the new row is the only live
  one and its number is new; a sweep's snapshot is the whole chain when it commits.
- **Limiter.** The deque is always the tail of the admitted times, and what is missing at the
  front has expired (`KeyInv`); so when there is room in the deque, the request `Limit` places back
  is either missing, hence expired, or there are not that many. For `Retry-After` the deque is full
  when a request is refused, its head is the blocking request, and rounding down and adding one
  second gives a time after that request has left and less than a second late (`PromiseInv`).
- **Presence.** The comparison in the sweep's WHERE is evaluated under the row lock, so what it
  read is still so at its commit (`SweepKnowsRows`), and a report that has its row will not move
  it back (`ReportsHoldRows`). `RegistryKnowsPolls`: only an overlap of polls removes or replaces
  an entry whose poll is still held, so an agent whose one poll is held when the sweep begins is on
  its list (`SparedAreExcluded`), and the sweep marks nobody on its list (`SweepKnowsRows`). About
  polls that start after that the theorem says nothing; finding 4 is about them.
- **Linking.** While a request is between finding a code and its commit, no other has found it
  (`LinkInv`), because finding takes the lock. What makes a refusal justified never stops holding
  (`RefusalInv`): a spent code stays spent and an expired one expired.
- **Uploads.** The agent's reports about a file that never met are one at a time, so what one
  of them commits stays in the row until the next, or until somebody else writes it
  (`OneReportPerFile`); strangers' requests may be in the server beside it. Requests are about
  files that exist, which needs `OwnedFilesExist`: a count of rows equal to the number of requested
  ids means that every id exists.

A proof attempt corrected one definition: `SlidingWindow` had excluded the answer 0 from `Refuse`,
which a limiter with limit 0 and an empty window gives at time 0. No place is ever free there,
and the abstract limiter now allows any time.

Only model-checked: liveness under fairness (`EventuallyHandled`, `ExhaustionEnds`,
`EveryPollEnds`, `EveryRequestEnds`, `UploadsEnd`), which is out of the prover's reach, as is
ENABLED; and the properties of the violation runs, which are false.

## 6. Order of the work

The components were taken in the order of how much depends on them: delivery with its pool, jobs,
tokens, limiter, presence, linking, uploads. All of them are modelled, and the safety of each is
proved. What could still be added:

1. The progress arguments behind the liveness properties, as far as they are steps: that a held
   poll, a claim or an upload in progress always has an action that does not wait for another
   request of the same kind.
2. Contracts of the components that two models share (the registry), as lemmas about
   `SignalingService` alone.

## 7. Not modelled, and why

Command types and payloads, JWT contents and signatures, device metadata, HTTP wording: no
property tells them apart. Refresh token expiry (90 days): an expired token is refused before
anything is read, with nothing changed, as `Present` may also not happen. Clock steps of the
host: times are monotonic in every model. Several server processes: the registry and the limiter
are in the memory of one, and the code has no provision for a second. PostgreSQL's own
correctness. The pool in components other than delivery: their transactions are short, and a
request that waits for a connection has done nothing yet. A database deadlock between two timeout
sweeps: PostgreSQL resolves it by failing a statement of one, which `FailStatement` is. The
OpenAsset client and the upload service: a placeholder whose calls contain no await, and a stub. The
other components listed without a module in section 1.

---------------------------- MODULE TokenRotation ----------------------------
(***************************************************************************)
(* Refresh token rotation with reuse detection: DeviceService              *)
(* .refresh_tokens over the refresh_tokens table (READ COMMITTED), one     *)
(* transaction per request.  The presented token is read without a lock;   *)
(* whether it was revoked is decided from that read.                       *)
(***************************************************************************)
EXTENDS Naturals

CONSTANTS
  Chains,     \* chain ids, one per linked device
  Tokens,     \* rows of refresh_tokens
  Requests,   \* slots for requests in flight
  NoToken,
  MaxSecond   \* bound on the clock, in the whole seconds a JWT carries

ASSUME TokenAssumption == NoToken \notin Tokens /\ MaxSecond \in Nat

VARIABLES
  state,      \* "none" (no such row), "live", "revoked" (revoked_at is set)
  chain,      \* chain_id of each row
  seq,        \* sequence_num of each row
  iat,        \* iat of the JWT whose hash is in the row
  parent,     \* history: the row a row was rotated from
  now,        \* the clock
  held,       \* tokens that reached an agent
  detected,   \* chains with a committed REFRESH_REUSE_DETECTED audit row
  pc,         \* where a request stands
  old,        \* old_token of a request
  new,        \* its new_refresh_token_record, once inserted
  newIat,     \* and the iat of that token
  targets,    \* rows its UPDATE ... WHERE chain_id has in its snapshot
  serial      \* whether the requests for a chain take turns

rows == <<state, chain, seq, iat, parent>>
reqVars == <<pc, old, new, newIat, targets>>
vars == <<rows, now, held, detected, reqVars, serial>>

Committed == {t \in Tokens : state[t] # "none"}

TypeOK ==
  /\ state \in [Tokens -> {"none", "live", "revoked"}]
  /\ chain \in [Tokens -> Chains]
  /\ seq \in [Tokens -> Nat]
  /\ iat \in [Tokens -> Nat]
  /\ parent \in [Tokens -> Tokens \union {NoToken}]
  /\ now \in 0..MaxSecond
  /\ held \subseteq Committed
  /\ detected \subseteq Chains
  /\ pc \in [Requests -> {"idle", "valid", "revoked", "created", "committed",
                          "reused", "sweeping", "swept"}]
  /\ old \in [Requests -> Tokens \union {NoToken}]
  /\ new \in [Requests -> Tokens \union {NoToken}]
  /\ newIat \in [Requests -> Nat]
  /\ targets \in [Requests -> SUBSET Tokens]
  /\ serial \in BOOLEAN

Init ==
  /\ state = [t \in Tokens |-> "none"]
  /\ chain \in {[t \in Tokens |-> c] : c \in Chains}
  /\ seq = [t \in Tokens |-> 0]
  /\ iat = [t \in Tokens |-> 0]
  /\ parent = [t \in Tokens |-> NoToken]
  /\ now = 0
  /\ held = {}
  /\ detected = {}
  /\ pc = [q \in Requests |-> "idle"]
  /\ old = [q \in Requests |-> NoToken]
  /\ new = [q \in Requests |-> NoToken]
  /\ newIat = [q \in Requests |-> 0]
  /\ targets = [q \in Requests |-> {}]
  /\ serial \in BOOLEAN

-----------------------------------------------------------------------------
(* Helpers *)

InTxn(q) == pc[q] \notin {"idle", "committed"}

RowsOf(c) == {t \in Committed : chain[t] = c}

Fresh == {t \in Tokens : state[t] = "none" /\ \A q \in Requests : new[q] # t}

(* Two rows hold the hash of one JWT: same claims, issued in one second.   *)
SameJWT(t, u) == chain[t] = chain[u] /\ seq[t] = seq[u] /\ iat[t] = iat[u]

(* Row locks: a row updated by a transaction that has not ended.           *)
LockedBy(q, t) ==
  \/ pc[q] \in {"revoked", "created"} /\ old[q] = t
  \/ pc[q] = "swept" /\ t \in targets[q]

LockedByOther(q, t) == \E p \in Requests \ {q} : LockedBy(p, t)

(* Turns, which the code does not enforce: the agent has one request in    *)
(* flight, nobody else has its token.                                      *)
MyTurn(c) == serial => \A q \in Requests : InTxn(q) => chain[old[q]] # c

AddRow(t, c, n, at, p) ==
  /\ chain' = [chain EXCEPT ![t] = c]
  /\ seq' = [seq EXCEPT ![t] = n]
  /\ iat' = [iat EXCEPT ![t] = at]
  /\ parent' = [parent EXCEPT ![t] = p]

Close(q) ==
  /\ pc' = [pc EXCEPT ![q] = "idle"]
  /\ old' = [old EXCEPT ![q] = NoToken]
  /\ new' = [new EXCEPT ![q] = NoToken]
  /\ newIat' = [newIat EXCEPT ![q] = 0]
  /\ targets' = [targets EXCEPT ![q] = {}]

Goto(q, label) == pc' = [pc EXCEPT ![q] = label]

-----------------------------------------------------------------------------
(* link_device commits the first token of a new chain (uuid4).             *)
IssueFirst(c, t) ==
  /\ RowsOf(c) = {}
  /\ t \in Fresh
  /\ state' = [state EXCEPT ![t] = "live"]
  /\ AddRow(t, c, 1, now, NoToken)
  /\ held' = held \union {t}
  /\ UNCHANGED <<now, detected, reqVars, serial>>

(* A second passes. *)
Tick ==
  /\ now < MaxSecond
  /\ now' = now + 1
  /\ UNCHANGED <<rows, held, detected, reqVars, serial>>

-----------------------------------------------------------------------------
(* refresh_tokens *)

(* Mutant of Lookup: revoked tokens are accepted. *)
MutantLookup(t) == "valid"

(* Steps 2 and 3: what the row read says of the token. *)
Lookup(t) == IF state[t] = "live" THEN "valid" ELSE "reused"

(* An agent presents a token it has been given, its newest or, after a     *)
(* lost reply, an older one.  scalar_one_or_none raises when two rows have *)
(* the hash: the request ends, as with an expired JWT, with nothing        *)
(* changed.                                                                *)
Present(q, t) ==
  /\ pc[q] = "idle"
  /\ t \in held
  /\ \A u \in Committed \ {t} : ~SameJWT(t, u)
  /\ MyTurn(chain[t])
  /\ Goto(q, Lookup(t))
  /\ old' = [old EXCEPT ![q] = t]
  /\ UNCHANGED <<rows, now, held, detected, new, newIat, targets, serial>>

(* Mutant of RevokeOld: the token is revoked in a transaction of its own.  *)
MutantRevokeOld(q) ==
  /\ pc[q] = "valid"
  /\ ~LockedByOther(q, old[q])
  /\ Goto(q, "revoked")
  /\ state' = [state EXCEPT ![old[q]] = "revoked"]
  /\ UNCHANGED <<chain, seq, iat, parent, now, held, detected, old, new, newIat,
                 targets, serial>>

(* Step 4, revoke: UPDATE ... WHERE id, revoked since or not, after any    *)
(* other writer of the row.                                                *)
RevokeOld(q) ==
  /\ pc[q] = "valid"
  /\ ~LockedByOther(q, old[q])
  /\ Goto(q, "revoked")
  /\ UNCHANGED <<rows, now, held, detected, old, new, newIat, targets, serial>>

(* Steps 5 to 7: new JWTs, and create flushes the row. *)
CreateNew(q, t) ==
  /\ pc[q] = "revoked"
  /\ t \in Fresh
  /\ Goto(q, "created")
  /\ new' = [new EXCEPT ![q] = t]
  /\ newIat' = [newIat EXCEPT ![q] = now]
  /\ UNCHANGED <<rows, now, held, detected, old, targets, serial>>

(* Mutant of CommitRotation: the old row is not revoked. *)
MutantCommitRotation(q) ==
  /\ pc[q] = "created"
  /\ state' = [state EXCEPT ![new[q]] = "live"]
  /\ AddRow(new[q], chain[old[q]], seq[old[q]] + 1, newIat[q], old[q])
  /\ Goto(q, "committed")
  /\ UNCHANGED <<now, held, detected, old, new, newIat, targets, serial>>

(* One commit revokes the old row and adds the new one. *)
CommitRotation(q) ==
  /\ pc[q] = "created"
  /\ state' = [state EXCEPT ![old[q]] = "revoked", ![new[q]] = "live"]
  /\ AddRow(new[q], chain[old[q]], seq[old[q]] + 1, newIat[q], old[q])
  /\ Goto(q, "committed")
  /\ UNCHANGED <<now, held, detected, old, new, newIat, targets, serial>>

(* Mutant of Reply: the tokens are answered before the commit. *)
MutantReply(q) ==
  /\ pc[q] = "created"
  /\ held' = held \union {new[q]}
  /\ Close(q)
  /\ UNCHANGED <<rows, now, detected, serial>>

(* The reply reaches the agent, or is lost and the agent will retry with   *)
(* the token it has.                                                       *)
Reply(q) ==
  /\ pc[q] = "committed"
  /\ held' = held \union {new[q]}
  /\ Close(q)
  /\ UNCHANGED <<rows, now, detected, serial>>

LoseReply(q) ==
  /\ pc[q] = "committed"
  /\ Close(q)
  /\ UNCHANGED <<rows, now, held, detected, serial>>

-----------------------------------------------------------------------------
(* Reuse detected *)

(* revoke_chain: the rows the UPDATE sees are those committed when it      *)
(* starts.                                                                 *)
SnapshotChain(q) ==
  /\ pc[q] = "reused"
  /\ targets' = [targets EXCEPT ![q] = RowsOf(chain[old[q]])]
  /\ Goto(q, "sweeping")
  /\ UNCHANGED <<rows, now, held, detected, old, new, newIat, serial>>

(* It waits for the writers of those rows. *)
RevokeChain(q) ==
  /\ pc[q] = "sweeping"
  /\ \A t \in targets[q] : ~LockedByOther(q, t)
  /\ Goto(q, "swept")
  /\ UNCHANGED <<rows, now, held, detected, old, new, newIat, targets, serial>>

(* Mutant of CommitReuse: only the presented token is revoked. *)
MutantCommitReuse(q) ==
  /\ pc[q] = "swept"
  /\ state' = [state EXCEPT ![old[q]] = "revoked"]
  /\ detected' = detected \union {chain[old[q]]}
  /\ Close(q)
  /\ UNCHANGED <<chain, seq, iat, parent, now, held, serial>>

(* log_event, commit, RevokedTokenError. *)
CommitReuse(q) ==
  /\ pc[q] = "swept"
  /\ state' = [t \in Tokens |-> IF t \in targets[q] THEN "revoked" ELSE state[t]]
  /\ detected' = detected \union {chain[old[q]]}
  /\ Close(q)
  /\ UNCHANGED <<chain, seq, iat, parent, now, held, serial>>

(* A statement or the commit fails, or the server dies: rollback. *)
Rollback(q) ==
  /\ InTxn(q)
  /\ Close(q)
  /\ UNCHANGED <<rows, now, held, detected, serial>>

-----------------------------------------------------------------------------

Next ==
  \/ Tick
  \/ \E c \in Chains, t \in Tokens : IssueFirst(c, t)
  \/ \E q \in Requests :
       \/ \E t \in Tokens : Present(q, t) \/ CreateNew(q, t)
       \/ RevokeOld(q) \/ CommitRotation(q) \/ Reply(q) \/ LoseReply(q)
       \/ SnapshotChain(q) \/ RevokeChain(q) \/ CommitReuse(q) \/ Rollback(q)

Spec == Init /\ [][Next]_vars

-----------------------------------------------------------------------------
(* Properties *)

Live(c) == {t \in RowsOf(c) : state[t] = "live"}

(* The old token is revoked before the new one is issued, whatever the     *)
(* requests interleave with: no row is rotated from a live one, and each   *)
(* is the successor of its parent in the parent's chain.                   *)
ParentRevoked ==
  \A t \in Committed : parent[t] # NoToken =>
    /\ state[parent[t]] = "revoked"
    /\ chain[t] = chain[parent[t]]
    /\ seq[t] = seq[parent[t]] + 1

(* A failed or interrupted refresh never leaves a device without a valid   *)
(* token: a chain whose tokens are all revoked is one where a reuse was    *)
(* detected, and audited.                                                  *)
RevokedChainWasAudited ==
  \A c \in Chains : RowsOf(c) # {} /\ Live(c) = {} => c \in detected

(* The inductive invariant behind both: a request in its transaction works *)
(* on a committed row; the row it inserts is its own and not committed; an *)
(* UPDATE of a chain only has rows of that chain.                          *)
RequestInv(q) ==
  /\ InTxn(q) => old[q] \in Committed
  /\ pc[q] = "created" => new[q] \in Tokens \ Committed
  /\ pc[q] = "committed" => new[q] \in Committed
  /\ pc[q] \notin {"created", "committed"} => new[q] = NoToken
  /\ \A t \in targets[q] : t \in Committed /\ chain[t] = chain[old[q]]
  /\ pc[q] \notin {"sweeping", "swept"} => targets[q] = {}

OwnRows ==
  \A p, q \in Requests :
    pc[p] = "created" /\ pc[q] = "created" /\ new[p] = new[q] => p = q

RotationInv ==
  /\ TypeOK
  /\ ParentRevoked
  /\ RevokedChainWasAudited
  /\ \A q \in Requests : RequestInv(q)
  /\ OwnRows

(* When requests for a chain take turns, rotation keeps its promise: one   *)
(* usable token per chain, replaced by its successor, and none after a     *)
(* reuse.                                                                  *)
Usable == [c \in Chains |-> {<<t, seq[t]>> : t \in Live(c)}]

Promise == INSTANCE TokenChain WITH usable <- Usable, dead <- detected

RotatesWhenSerial ==
  [][serial => Promise!ChainNext \/ UNCHANGED <<Usable, detected>>]_<<rows, detected>>

(* And the lookup by hash never meets two rows with one JWT. *)
JWTsDistinctWhenSerial ==
  serial => \A t, u \in Committed : SameJWT(t, u) => t = u

(* The inductive invariant behind both.  A chain has one request in its    *)
(* transaction at a time, so what that request read of the old token is    *)
(* still so, and its sweep sees the whole chain.                           *)
OneRequestPerChain ==
  /\ \A p, q \in Requests : InTxn(p) /\ InTxn(q) /\ chain[old[p]] = chain[old[q]] => p = q
  /\ \A q \in Requests :
       /\ pc[q] \in {"valid", "revoked", "created"} => state[old[q]] = "live"
       /\ pc[q] \in {"sweeping", "swept"} => RowsOf(chain[old[q]]) \subseteq targets[q]

(* Its rows are numbered one after the other, and only the last is live.   *)
ChainIsLinear ==
  /\ \A t, u \in Committed : chain[t] = chain[u] /\ seq[t] = seq[u] => t = u
  /\ \A t, u \in Committed : chain[t] = chain[u] /\ state[u] = "live" => seq[t] <= seq[u]
  /\ \A c \in detected : RowsOf(c) # {} /\ Live(c) = {}

SerialInv == serial => OneRequestPerChain /\ ChainIsLinear

(* Once a reuse of a chain is detected, its entire chain is revoked.       *)
ReuseRevokesChain == \A c \in detected : Live(c) = {}
=============================================================================

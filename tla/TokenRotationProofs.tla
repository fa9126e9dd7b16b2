------------------------ MODULE TokenRotationProofs ------------------------
(***************************************************************************)
(* Theorems about TokenRotation, for any number of chains, rows and        *)
(* requests, whether or not requests take turns.                           *)
(***************************************************************************)
EXTENDS TokenRotation, TLAPS

USE TokenAssumption

(* Every step keeps the variables in their types. *)
LEMMA NextTypeOK == RotationInv /\ [Next]_vars => TypeOK'
<1> SUFFICES ASSUME RotationInv, [Next]_vars PROVE TypeOK'
  OBVIOUS
<1> USE DEF RotationInv, TypeOK, RequestInv, Committed, InTxn, rows, reqVars
<1>1. CASE Tick
  BY <1>1 DEF Tick
<1>2. ASSUME NEW c \in Chains, NEW t \in Tokens, IssueFirst(c, t) PROVE TypeOK'
  BY <1>2 DEF IssueFirst, AddRow, Fresh, RowsOf
<1>3. ASSUME NEW q \in Requests, NEW t \in Tokens, Present(q, t) PROVE TypeOK'
  BY <1>3 DEF Present, Lookup, Goto
<1>4. ASSUME NEW q \in Requests, NEW t \in Tokens, CreateNew(q, t) PROVE TypeOK'
  BY <1>4 DEF CreateNew, Fresh, Goto
<1>5. ASSUME NEW q \in Requests, RevokeOld(q) PROVE TypeOK'
  BY <1>5 DEF RevokeOld, Goto
<1>6. ASSUME NEW q \in Requests, CommitRotation(q) PROVE TypeOK'
  <2>1. old[q] \in Committed /\ new[q] \in Tokens
    BY <1>6 DEF CommitRotation, InTxn
  <2>2. /\ chain' \in [Tokens -> Chains]
        /\ seq' \in [Tokens -> Nat]
        /\ iat' \in [Tokens -> Nat]
        /\ parent' \in [Tokens -> Tokens \union {NoToken}]
    BY <1>6, <2>1 DEF CommitRotation, AddRow
  <2>3. /\ state' \in [Tokens -> {"none", "live", "revoked"}]
        /\ held' \subseteq Committed'
    BY <1>6, <2>1 DEF CommitRotation
  <2>4. QED
    BY <1>6, <2>2, <2>3 DEF CommitRotation, Goto
<1>7. ASSUME NEW q \in Requests, Reply(q) PROVE TypeOK'
  BY <1>7 DEF Reply, Close
<1>8. ASSUME NEW q \in Requests, LoseReply(q) PROVE TypeOK'
  BY <1>8 DEF LoseReply, Close
<1>9. ASSUME NEW q \in Requests, SnapshotChain(q) PROVE TypeOK'
  BY <1>9 DEF SnapshotChain, RowsOf, Goto
<1>10. ASSUME NEW q \in Requests, RevokeChain(q) PROVE TypeOK'
  BY <1>10 DEF RevokeChain, Goto
<1>11. ASSUME NEW q \in Requests, CommitReuse(q) PROVE TypeOK'
  <2>1. old[q] \in Tokens
    BY <1>11 DEF CommitReuse, InTxn
  <2>2. /\ state' \in [Tokens -> {"none", "live", "revoked"}]
        /\ held' \subseteq Committed'
        /\ detected' \subseteq Chains
    BY <1>11, <2>1 DEF CommitReuse
  <2>3. QED
    BY <1>11, <2>2 DEF CommitReuse, Close
<1>12. ASSUME NEW q \in Requests, Rollback(q) PROVE TypeOK'
  BY <1>12 DEF Rollback, Close, InTxn
<1>13. CASE UNCHANGED vars
  BY <1>13 DEF vars
<1>14. QED
  BY <1>1, <1>2, <1>3, <1>4, <1>5, <1>6, <1>7, <1>8, <1>9, <1>10,
     <1>11, <1>12, <1>13 DEF Next

(* Every request keeps working on committed rows, or on a row of its own. *)
LEMMA NextRequests == RotationInv /\ [Next]_vars => (\A r \in Requests : RequestInv(r))'
<1> SUFFICES ASSUME RotationInv, [Next]_vars PROVE (\A r \in Requests : RequestInv(r))'
  OBVIOUS
<1> USE DEF RotationInv, TypeOK, RequestInv, Committed, rows, reqVars, InTxn
<1>1. CASE Tick
  BY <1>1 DEF Tick
<1>2. ASSUME NEW c \in Chains, NEW t \in Tokens, IssueFirst(c, t)
      PROVE  (\A r \in Requests : RequestInv(r))'
  BY <1>2 DEF IssueFirst, AddRow, Fresh, RowsOf
<1>3. ASSUME NEW q \in Requests, NEW t \in Tokens, Present(q, t)
      PROVE  (\A r \in Requests : RequestInv(r))'
  BY <1>3 DEF Present, Lookup, Goto
<1>4. ASSUME NEW q \in Requests, NEW t \in Tokens, CreateNew(q, t)
      PROVE  (\A r \in Requests : RequestInv(r))'
  BY <1>4 DEF CreateNew, Fresh, Goto
<1>5. ASSUME NEW q \in Requests, RevokeOld(q)
      PROVE  (\A r \in Requests : RequestInv(r))'
  BY <1>5 DEF RevokeOld, Goto
<1>6. ASSUME NEW q \in Requests, CommitRotation(q)
      PROVE  (\A r \in Requests : RequestInv(r))'
  <2> SUFFICES ASSUME NEW r \in Requests PROVE RequestInv(r)'
    OBVIOUS
  <2>1. /\ old[q] \in Committed
        /\ new[q] \in Tokens \ Committed
    BY <1>6 DEF CommitRotation
  <2>2. /\ Committed' = Committed \union {new[q]}
        /\ \A t \in Committed : chain'[t] = chain[t]
    BY <1>6, <2>1 DEF CommitRotation, AddRow
  <2>3. new[r] = new[q] /\ pc[r] = "created" => r = q
    BY <1>6 DEF CommitRotation, OwnRows
  <2>4. /\ UNCHANGED <<old, new, targets>>
        /\ r # q => pc'[r] = pc[r]
        /\ pc[q] = "created" /\ pc'[q] = "committed"
    BY <1>6 DEF CommitRotation, Goto
  <2>5. CASE r = q
    BY <2>1, <2>2, <2>4, <2>5
  <2>6. CASE r # q
    <3>1. pc[r] = "created" => new[r] \notin Committed'
      BY <2>2, <2>3, <2>6
    <3>2. Committed \subseteq Committed'
      BY <2>2
    <3>3. /\ InTxn(r) => old[r] \in Committed
          /\ \A t \in targets[r] : t \in Committed /\ chain[t] = chain[old[r]]
          /\ targets[r] # {} => InTxn(r)
      OBVIOUS
    <3>4. \A t \in targets[r] : t \in Committed' /\ chain'[t] = chain'[old[r]]
      BY <2>2, <3>2, <3>3
    <3>5. QED
      BY <2>4, <2>6, <3>1, <3>2, <3>4
  <2>7. QED
    BY <2>5, <2>6
<1>7. ASSUME NEW q \in Requests, Reply(q)
      PROVE  (\A r \in Requests : RequestInv(r))'
  BY <1>7 DEF Reply, Close
<1>8. ASSUME NEW q \in Requests, LoseReply(q)
      PROVE  (\A r \in Requests : RequestInv(r))'
  BY <1>8 DEF LoseReply, Close
<1>9. ASSUME NEW q \in Requests, SnapshotChain(q)
      PROVE  (\A r \in Requests : RequestInv(r))'
  BY <1>9 DEF SnapshotChain, RowsOf, Goto
<1>10. ASSUME NEW q \in Requests, RevokeChain(q) PROVE (\A r \in Requests : RequestInv(r))'
  BY <1>10 DEF RevokeChain, Goto
<1>11. ASSUME NEW q \in Requests, CommitReuse(q) PROVE (\A r \in Requests : RequestInv(r))'
  BY <1>11 DEF CommitReuse, Close
<1>12. ASSUME NEW q \in Requests, Rollback(q) PROVE (\A r \in Requests : RequestInv(r))'
  BY <1>12 DEF Rollback, Close, InTxn
<1>13. CASE UNCHANGED vars
  BY <1>13 DEF vars
<1>14. QED
  BY <1>1, <1>2, <1>3, <1>4, <1>5, <1>6, <1>7, <1>8, <1>9, <1>10,
     <1>11, <1>12, <1>13 DEF Next

(* Two requests never insert the same row. *)
LEMMA NextOwnRows == RotationInv /\ [Next]_vars => OwnRows'
<1> SUFFICES ASSUME RotationInv, [Next]_vars PROVE OwnRows'
  OBVIOUS
<1> USE DEF RotationInv, TypeOK, OwnRows, RequestInv, Committed, rows, reqVars
<1>1. CASE Tick
  BY <1>1 DEF Tick
<1>2. ASSUME NEW c \in Chains, NEW t \in Tokens, IssueFirst(c, t) PROVE OwnRows'
  BY <1>2 DEF IssueFirst, AddRow, Fresh, RowsOf
<1>3. ASSUME NEW q \in Requests, NEW t \in Tokens, Present(q, t) PROVE OwnRows'
  BY <1>3 DEF Present, Lookup, Goto
<1>4. ASSUME NEW q \in Requests, NEW t \in Tokens, CreateNew(q, t) PROVE OwnRows'
  BY <1>4 DEF CreateNew, Fresh, Goto
<1>5. ASSUME NEW q \in Requests, RevokeOld(q) PROVE OwnRows'
  BY <1>5 DEF RevokeOld, Goto
<1>6. ASSUME NEW q \in Requests, CommitRotation(q) PROVE OwnRows'
  BY <1>6 DEF CommitRotation, AddRow, Goto
<1>7. ASSUME NEW q \in Requests, Reply(q) PROVE OwnRows'
  BY <1>7 DEF Reply, Close
<1>8. ASSUME NEW q \in Requests, LoseReply(q) PROVE OwnRows'
  BY <1>8 DEF LoseReply, Close
<1>9. ASSUME NEW q \in Requests, SnapshotChain(q) PROVE OwnRows'
  BY <1>9 DEF SnapshotChain, RowsOf, Goto
<1>10. ASSUME NEW q \in Requests, RevokeChain(q) PROVE OwnRows'
  BY <1>10 DEF RevokeChain, Goto
<1>11. ASSUME NEW q \in Requests, CommitReuse(q) PROVE OwnRows'
  BY <1>11 DEF CommitReuse, Close
<1>12. ASSUME NEW q \in Requests, Rollback(q) PROVE OwnRows'
  BY <1>12 DEF Rollback, Close, InTxn
<1>13. CASE UNCHANGED vars
  BY <1>13 DEF vars
<1>14. QED
  BY <1>1, <1>2, <1>3, <1>4, <1>5, <1>6, <1>7, <1>8, <1>9, <1>10,
     <1>11, <1>12, <1>13 DEF Next

(* No step makes a rotated token live again. *)
LEMMA NextParent == RotationInv /\ [Next]_vars => ParentRevoked'
<1> SUFFICES ASSUME RotationInv, [Next]_vars PROVE ParentRevoked'
  OBVIOUS
<1> USE DEF RotationInv, TypeOK, ParentRevoked, RequestInv, Committed, rows, reqVars, InTxn
<1>1. CASE Tick
  BY <1>1 DEF Tick
<1>2. ASSUME NEW c \in Chains, NEW t \in Tokens, IssueFirst(c, t) PROVE ParentRevoked'
  BY <1>2 DEF IssueFirst, AddRow, Fresh, RowsOf
<1>3. ASSUME NEW q \in Requests, NEW t \in Tokens, Present(q, t) PROVE ParentRevoked'
  BY <1>3 DEF Present, Lookup, Goto
<1>4. ASSUME NEW q \in Requests, NEW t \in Tokens, CreateNew(q, t) PROVE ParentRevoked'
  BY <1>4 DEF CreateNew, Fresh, Goto
<1>5. ASSUME NEW q \in Requests, RevokeOld(q) PROVE ParentRevoked'
  BY <1>5 DEF RevokeOld, Goto
<1>6. ASSUME NEW q \in Requests, CommitRotation(q) PROVE ParentRevoked'
  BY <1>6 DEF CommitRotation, AddRow, Goto
<1>7. ASSUME NEW q \in Requests, Reply(q) PROVE ParentRevoked'
  BY <1>7 DEF Reply, Close
<1>8. ASSUME NEW q \in Requests, LoseReply(q) PROVE ParentRevoked'
  BY <1>8 DEF LoseReply, Close
<1>9. ASSUME NEW q \in Requests, SnapshotChain(q) PROVE ParentRevoked'
  BY <1>9 DEF SnapshotChain, RowsOf, Goto
<1>10. ASSUME NEW q \in Requests, RevokeChain(q) PROVE ParentRevoked'
  BY <1>10 DEF RevokeChain, Goto
<1>11. ASSUME NEW q \in Requests, CommitReuse(q) PROVE ParentRevoked'
  BY <1>11 DEF CommitReuse, Close
<1>12. ASSUME NEW q \in Requests, Rollback(q) PROVE ParentRevoked'
  BY <1>12 DEF Rollback, Close, InTxn
<1>13. CASE UNCHANGED vars
  BY <1>13 DEF vars
<1>14. QED
  BY <1>1, <1>2, <1>3, <1>4, <1>5, <1>6, <1>7, <1>8, <1>9, <1>10,
     <1>11, <1>12, <1>13 DEF Next

(* Only a committed reuse leaves a chain without a live token. *)
LEMMA NextAudited == RotationInv /\ [Next]_vars => RevokedChainWasAudited'
<1> SUFFICES ASSUME RotationInv, [Next]_vars PROVE RevokedChainWasAudited'
  OBVIOUS
<1> USE DEF RotationInv, TypeOK, RevokedChainWasAudited, RequestInv, Committed,
            rows, reqVars, RowsOf, Live, InTxn
<1>1. CASE Tick
  BY <1>1 DEF Tick
<1>2. ASSUME NEW c \in Chains, NEW t \in Tokens, IssueFirst(c, t) PROVE RevokedChainWasAudited'
  BY <1>2 DEF IssueFirst, AddRow, Fresh, RowsOf
<1>3. ASSUME NEW q \in Requests, NEW t \in Tokens, Present(q, t) PROVE RevokedChainWasAudited'
  BY <1>3 DEF Present, Lookup, Goto
<1>4. ASSUME NEW q \in Requests, NEW t \in Tokens, CreateNew(q, t) PROVE RevokedChainWasAudited'
  BY <1>4 DEF CreateNew, Fresh, Goto
<1>5. ASSUME NEW q \in Requests, RevokeOld(q) PROVE RevokedChainWasAudited'
  BY <1>5 DEF RevokeOld, Goto
<1>6. ASSUME NEW q \in Requests, CommitRotation(q) PROVE RevokedChainWasAudited'
  BY <1>6 DEF CommitRotation, AddRow, Goto
<1>7. ASSUME NEW q \in Requests, Reply(q) PROVE RevokedChainWasAudited'
  BY <1>7 DEF Reply, Close
<1>8. ASSUME NEW q \in Requests, LoseReply(q) PROVE RevokedChainWasAudited'
  BY <1>8 DEF LoseReply, Close
<1>9. ASSUME NEW q \in Requests, SnapshotChain(q) PROVE RevokedChainWasAudited'
  BY <1>9 DEF SnapshotChain, RowsOf, Goto
<1>10. ASSUME NEW q \in Requests, RevokeChain(q) PROVE RevokedChainWasAudited'
  BY <1>10 DEF RevokeChain, Goto
<1>11. ASSUME NEW q \in Requests, CommitReuse(q) PROVE RevokedChainWasAudited'
  <2> SUFFICES ASSUME NEW c \in Chains, c \notin detected', RowsOf(c)' # {}
               PROVE  Live(c)' # {}
    OBVIOUS
  <2>1. /\ old[q] \in Tokens
        /\ c # chain[old[q]]
        /\ c \notin detected
        /\ \A t \in targets[q] : t \in Tokens /\ chain[t] = chain[old[q]]
    BY <1>11 DEF CommitReuse
  <2>2. \A t \in Tokens : chain[t] = c => state'[t] = state[t]
    BY <1>11, <2>1 DEF CommitReuse
  <2>3. RowsOf(c) # {}
    BY <1>11, <2>2 DEF CommitReuse
  <2>4. PICK t \in Tokens : chain[t] = c /\ state[t] = "live"
    BY <2>1, <2>3
  <2>5. state'[t] = "live" /\ chain'[t] = c
    BY <1>11, <2>2, <2>4 DEF CommitReuse
  <2>6. QED
    BY <2>5
<1>12. ASSUME NEW q \in Requests, Rollback(q) PROVE RevokedChainWasAudited'
  BY <1>12 DEF Rollback, Close, InTxn
<1>13. CASE UNCHANGED vars
  BY <1>13 DEF vars
<1>14. QED
  BY <1>1, <1>2, <1>3, <1>4, <1>5, <1>6, <1>7, <1>8, <1>9, <1>10,
     <1>11, <1>12, <1>13 DEF Next

(* The table starts empty. *)
LEMMA InitRotationInv == Init => RotationInv
  BY DEF Init, RotationInv, TypeOK, ParentRevoked, RevokedChainWasAudited, RequestInv,
         OwnRows, Committed, InTxn, RowsOf

(* RotationInv is inductive: what refresh_tokens keeps true at each of its *)
(* awaits, whatever the other requests do meanwhile.                       *)
THEOREM RotationInvariant == Spec => []RotationInv
<1>1. RotationInv /\ [Next]_vars => RotationInv'
  BY NextTypeOK, NextRequests, NextOwnRows, NextParent, NextAudited DEF RotationInv
<1>2. QED
  BY <1>1, InitRotationInv, PTL DEF Spec

(* Every reachable state is well typed; an agent only ever holds tokens    *)
(* that are in the table.                                                  *)
THEOREM TypeCorrect == Spec => []TypeOK
<1>1. RotationInv => TypeOK
  BY DEF RotationInv
<1>2. QED
  BY <1>1, RotationInvariant, PTL

(* The old token is revoked before the new one is issued, in every         *)
(* interleaving of refresh_tokens.                                         *)
THEOREM RotationRevokesParent == Spec => []ParentRevoked
<1>1. RotationInv => ParentRevoked
  BY DEF RotationInv
<1>2. QED
  BY <1>1, RotationInvariant, PTL

(* No failure of refresh_tokens takes a chain's last valid token away      *)
(* without a reuse having been detected and audited.                       *)
THEOREM RevocationIsAudited == Spec => []RevokedChainWasAudited
<1>1. RotationInv => RevokedChainWasAudited
  BY DEF RotationInv
<1>2. QED
  BY <1>1, RotationInvariant, PTL

-----------------------------------------------------------------------------
(* What becomes of the other requests in a step of q. *)
LEMMA OthersStay ==
  ASSUME TypeOK, NEW q \in Requests, NEW r \in Requests \ {q},
         \/ \E t \in Tokens : Present(q, t) \/ CreateNew(q, t)
         \/ RevokeOld(q) \/ CommitRotation(q) \/ Reply(q) \/ LoseReply(q)
         \/ SnapshotChain(q) \/ RevokeChain(q) \/ CommitReuse(q) \/ Rollback(q)
  PROVE  pc'[r] = pc[r] /\ old'[r] = old[r] /\ targets'[r] = targets[r]
BY DEF TypeOK, Present, CreateNew, RevokeOld, CommitRotation, Reply, LoseReply, SnapshotChain,
       RevokeChain, CommitReuse, Rollback, Close, Goto

(* A step that leaves the table alone and only takes a request forward     *)
(* within its transaction, or out of it, keeps the turns.                  *)
LEMMA MoveKeepsTurns ==
  ASSUME RotationInv, OneRequestPerChain, UNCHANGED rows, NEW q \in Requests,
         \A r \in Requests \ {q} : pc'[r] = pc[r] /\ old'[r] = old[r] /\ targets'[r] = targets[r],
         InTxn(q)' => /\ InTxn(q) /\ old'[q] = old[q]
                      /\ pc'[q] \in {"valid", "revoked", "created"} =>
                           pc[q] \in {"valid", "revoked", "created"}
                      /\ pc'[q] \in {"sweeping", "swept"} =>
                           RowsOf(chain[old[q]]) \subseteq targets'[q]
  PROVE  OneRequestPerChain'
<1> USE DEF RotationInv, OneRequestPerChain, rows
<1>1. \A r \in Requests : InTxn(r)' => InTxn(r) /\ old'[r] = old[r]
  BY DEF InTxn
<1>2. \A c : RowsOf(c)' = RowsOf(c)
  BY DEF RowsOf, Committed
<1>3. (\A p, r \in Requests : InTxn(p) /\ InTxn(r) /\ chain[old[p]] = chain[old[r]] => p = r)'
  BY <1>1
<1>4. (\A r \in Requests : pc[r] \in {"valid", "revoked", "created"} => state[old[r]] = "live")'
  BY DEF InTxn
<1>5. (\A r \in Requests :
         pc[r] \in {"sweeping", "swept"} => RowsOf(chain[old[r]]) \subseteq targets[r])'
  BY <1>2 DEF InTxn
<1>6. QED
  BY <1>3, <1>4, <1>5

(* When the requests for a chain take turns, every step keeps the turns.   *)
LEMMA NextTurns ==
  ASSUME RotationInv, serial, OneRequestPerChain, ChainIsLinear, [Next]_vars
  PROVE  OneRequestPerChain'
<1> USE DEF RotationInv, TypeOK, reqVars
<1>1. CASE Tick
  BY <1>1 DEF Tick, OneRequestPerChain, InTxn, rows, RowsOf, Committed
<1>2. ASSUME NEW c \in Chains, NEW t \in Tokens, IssueFirst(c, t) PROVE OneRequestPerChain'
  <2>1. /\ UNCHANGED <<pc, old, targets>> /\ t \notin Committed
        /\ chain' = [chain EXCEPT ![t] = c] /\ state' = [state EXCEPT ![t] = "live"]
    BY <1>2 DEF IssueFirst, Fresh, AddRow, Committed
  <2>2. \A q \in Requests : InTxn(q) => /\ old[q] \in Committed /\ chain[old[q]] # c
                                        /\ old[q] \in Tokens /\ old[q] # t
    BY <1>2, <2>1 DEF RequestInv, IssueFirst, RowsOf, Committed
  <2>3. \A q \in Requests : InTxn(q) => /\ chain'[old[q]] = chain[old[q]]
                                        /\ state'[old[q]] = state[old[q]]
                                        /\ RowsOf(chain[old[q]])' = RowsOf(chain[old[q]])
    BY <2>1, <2>2 DEF RowsOf, Committed
  <2>4. \A q \in Requests : InTxn(q)' <=> InTxn(q)
    BY <2>1 DEF InTxn
  <2>5. QED
    BY <2>1, <2>3, <2>4 DEF OneRequestPerChain, InTxn
<1>3. ASSUME NEW q \in Requests, NEW t \in Tokens, Present(q, t) PROVE OneRequestPerChain'
  <2>1. /\ UNCHANGED rows /\ old'[q] = t
        /\ pc'[q] = Lookup(t) /\ \A r \in Requests : InTxn(r) => chain[old[r]] # chain[t]
    BY <1>3 DEF Present, MyTurn, Goto
  <2>2. \A r \in Requests \ {q} :
          pc'[r] = pc[r] /\ old'[r] = old[r] /\ targets'[r] = targets[r]
    BY <1>3, OthersStay
  <2>3. \A r \in Requests \ {q} : InTxn(r)' => InTxn(r) /\ chain'[old'[r]] # chain'[t]
    BY <2>1, <2>2 DEF InTxn, rows
  <2>4. pc'[q] \in {"valid", "reused"} /\ (pc'[q] = "valid" => state[t] = "live")
    BY <2>1 DEF Lookup
  <2>5. (\A p, r \in Requests : InTxn(p) /\ InTxn(r) /\ chain[old[p]] = chain[old[r]] => p = r)'
    <3>1. SUFFICES ASSUME NEW p \in Requests, NEW r \in Requests, InTxn(p)', InTxn(r)',
                          chain'[old'[p]] = chain'[old'[r]], p # r
                   PROVE  FALSE
      OBVIOUS
    <3>2. p # q /\ r # q
      BY <2>1, <2>3, <3>1
    <3>3. QED
      BY <2>1, <2>2, <2>3, <3>1, <3>2 DEF OneRequestPerChain, rows
  <2>6. (\A r \in Requests :
           /\ pc[r] \in {"valid", "revoked", "created"} => state[old[r]] = "live"
           /\ pc[r] \in {"sweeping", "swept"} => RowsOf(chain[old[r]]) \subseteq targets[r])'
    BY <2>1, <2>2, <2>4 DEF OneRequestPerChain, rows, RowsOf, Committed
  <2>7. QED
    BY <2>5, <2>6 DEF OneRequestPerChain
<1>4. ASSUME NEW q \in Requests, NEW t \in Tokens, CreateNew(q, t) PROVE OneRequestPerChain'
  BY <1>4, OthersStay, MoveKeepsTurns DEF CreateNew, Goto, InTxn
<1>5. ASSUME NEW q \in Requests, RevokeOld(q) PROVE OneRequestPerChain'
  BY <1>5, OthersStay, MoveKeepsTurns DEF RevokeOld, Goto, InTxn
<1>6. ASSUME NEW q \in Requests, CommitRotation(q) PROVE OneRequestPerChain'
  <2> DEFINE c == chain[old[q]]
  <2>1. /\ InTxn(q) /\ old[q] \in Committed /\ new[q] \in Tokens \ Committed /\ old' = old
    BY <1>6 DEF CommitRotation, RequestInv, InTxn
  <2>2. ~InTxn(q)'
    BY <1>6 DEF CommitRotation, Goto, InTxn
  <2>3. \A r \in Requests \ {q} :
          /\ InTxn(r)' <=> InTxn(r)
          /\ pc'[r] = pc[r] /\ targets'[r] = targets[r]
          /\ InTxn(r) => old[r] \in Committed /\ chain[old[r]] # c
    BY <1>6, <2>1, OthersStay DEF InTxn, OneRequestPerChain, RequestInv
  <2>4. /\ Committed' = Committed \union {new[q]}
        /\ chain' = [chain EXCEPT ![new[q]] = c]
        /\ state' = [state EXCEPT ![old[q]] = "revoked", ![new[q]] = "live"]
    BY <1>6, <2>1 DEF CommitRotation, AddRow, Committed
  <2>5. \A r \in Requests \ {q} : InTxn(r) =>
          /\ chain'[old[r]] = chain[old[r]]
          /\ state'[old[r]] = state[old[r]]
          /\ RowsOf(chain[old[r]])' = RowsOf(chain[old[r]])
    BY <2>1, <2>3, <2>4 DEF RowsOf, Committed
  <2>6. QED
    BY <2>1, <2>2, <2>3, <2>5 DEF OneRequestPerChain, InTxn
<1>7. ASSUME NEW q \in Requests, Reply(q) PROVE OneRequestPerChain'
  BY <1>7, OthersStay, MoveKeepsTurns DEF Reply, Close, InTxn
<1>8. ASSUME NEW q \in Requests, LoseReply(q) PROVE OneRequestPerChain'
  BY <1>8, OthersStay, MoveKeepsTurns DEF LoseReply, Close, InTxn
<1>9. ASSUME NEW q \in Requests, SnapshotChain(q) PROVE OneRequestPerChain'
  BY <1>9, OthersStay, MoveKeepsTurns DEF SnapshotChain, Goto, InTxn
<1>10. ASSUME NEW q \in Requests, RevokeChain(q) PROVE OneRequestPerChain'
  BY <1>10, OthersStay, MoveKeepsTurns DEF RevokeChain, Goto, InTxn, OneRequestPerChain
<1>11. ASSUME NEW q \in Requests, CommitReuse(q) PROVE OneRequestPerChain'
  <2>1. InTxn(q) /\ chain' = chain /\ ~InTxn(q)'
    BY <1>11 DEF CommitReuse, Close, InTxn
  <2>2. \A r \in Requests \ {q} :
          /\ InTxn(r)' <=> InTxn(r)
          /\ pc'[r] = pc[r] /\ targets'[r] = targets[r] /\ old'[r] = old[r]
          /\ InTxn(r) => chain[old[r]] # chain[old[q]] /\ old[r] \in Tokens
    BY <1>11, <2>1, OthersStay DEF InTxn, OneRequestPerChain, RequestInv, Committed
  <2>3. \A t \in targets[q] : t \in Committed /\ chain[t] = chain[old[q]]
    BY DEF RequestInv
  <2>4. state' = [t \in Tokens |-> IF t \in targets[q] THEN "revoked" ELSE state[t]]
    BY <1>11 DEF CommitReuse
  <2>5. \A r \in Requests \ {q} : InTxn(r) => state'[old[r]] = state[old[r]]
    BY <2>2, <2>3, <2>4
  <2>6. \A d : RowsOf(d)' = RowsOf(d)
    BY <2>1, <2>3, <2>4 DEF RowsOf, Committed
  <2>7. QED
    BY <2>1, <2>2, <2>5, <2>6 DEF OneRequestPerChain, InTxn
<1>12. ASSUME NEW q \in Requests, Rollback(q) PROVE OneRequestPerChain'
  BY <1>12, OthersStay, MoveKeepsTurns DEF Rollback, Close, InTxn
<1>13. CASE UNCHANGED vars
  BY <1>13 DEF vars, OneRequestPerChain, InTxn, rows, RowsOf, Committed
<1>14. QED
  BY <1>1, <1>2, <1>3, <1>4, <1>5, <1>6, <1>7, <1>8, <1>9, <1>10,
     <1>11, <1>12, <1>13 DEF Next

(* When the requests for a chain take turns, every step keeps its rows in  *)
(* a line.                                                                 *)
LEMMA NextLinear ==
  ASSUME RotationInv, serial, OneRequestPerChain, ChainIsLinear, [Next]_vars
  PROVE  ChainIsLinear'
<1> USE DEF RotationInv, TypeOK, ChainIsLinear, Committed, RowsOf, Live
<1>1. CASE UNCHANGED <<state, chain, seq, detected>>
  BY <1>1
<1>2. ASSUME NEW c \in Chains, NEW t \in Tokens, IssueFirst(c, t) PROVE ChainIsLinear'
  BY <1>2 DEF IssueFirst, Fresh, AddRow
<1>3. ASSUME NEW q \in Requests, CommitRotation(q) PROVE ChainIsLinear'
  <2> DEFINE o == old[q]
             n == new[q]
  <2>1. /\ o \in Committed /\ n \in Tokens \ Committed /\ n # o
        /\ state[o] = "live" /\ seq[o] \in Nat
    BY <1>3 DEF CommitRotation, RequestInv, InTxn, OneRequestPerChain
  <2>2. /\ chain' = [chain EXCEPT ![n] = chain[o]]
        /\ seq' = [seq EXCEPT ![n] = seq[o] + 1]
        /\ state' = [state EXCEPT ![o] = "revoked", ![n] = "live"]
        /\ detected' = detected
    BY <1>3 DEF CommitRotation, AddRow
  <2>3. Committed' = Committed \union {n}
    BY <2>1, <2>2
  <2>4. \A t \in Committed : chain[t] = chain[o] => seq[t] <= seq[o] /\ seq[t] \in Nat
    BY <2>1
  <2>5. \A t \in Committed : chain'[t] = chain[t] /\ seq'[t] = seq[t]
    BY <2>1, <2>2
  <2>6. chain'[n] = chain[o] /\ seq'[n] = seq[o] + 1
    BY <2>1, <2>2
  <2>7. (\A t, u \in Committed : chain[t] = chain[u] /\ seq[t] = seq[u] => t = u)'
    BY <2>1, <2>3, <2>4, <2>5, <2>6
  <2>8. \A t \in Committed : chain[t] = chain[o] /\ state[t] = "live" => t = o
    <3>1. ASSUME NEW t \in Committed, chain[t] = chain[o], state[t] = "live" PROVE t = o
      <4>1. seq[t] <= seq[o] /\ seq[o] <= seq[t] /\ seq[t] \in Nat
        BY <2>1, <3>1
      <4>2. QED
        BY <2>1, <3>1, <4>1
    <3>2. QED
      BY <3>1
  <2>9. \A u \in Committed' : state'[u] = "live" => \/ u = n
                                                  \/ /\ u \in Committed /\ state[u] = "live"
                                                     /\ chain[u] # chain[o]
    BY <2>1, <2>2, <2>3, <2>8
  <2>10. (\A t, u \in Committed : chain[t] = chain[u] /\ state[u] = "live" => seq[t] <= seq[u])'
    <3> SUFFICES ASSUME NEW t \in Committed', NEW u \in Committed',
                        chain'[t] = chain'[u], state'[u] = "live"
                 PROVE  seq'[t] <= seq'[u]
      OBVIOUS
    <3>1. CASE u = n
      BY <2>1, <2>3, <2>4, <2>5, <2>6, <3>1
    <3>2. CASE u # n
      <4>1. /\ u \in Committed /\ state[u] = "live" /\ chain[u] # chain[o]
            /\ t \in Committed /\ chain[t] = chain[u]
        BY <2>3, <2>5, <2>6, <2>9, <3>2
      <4>2. QED
        BY <2>5, <4>1
    <3>3. QED
      BY <3>1, <3>2
  <2>11. (\A c \in detected : RowsOf(c) # {} /\ Live(c) = {})'
    <3>1. chain[o] \notin detected
      BY <2>1
    <3>2. ASSUME NEW c \in detected PROVE RowsOf(c)' = RowsOf(c) /\ Live(c)' = Live(c)
      BY <2>1, <2>2, <2>3, <2>5, <2>6, <3>1, <3>2
    <3>3. QED
      BY <2>2, <3>2
  <2>12. QED
    BY <2>7, <2>10, <2>11
<1>4. ASSUME NEW q \in Requests, CommitReuse(q) PROVE ChainIsLinear'
  <2>1. old[q] \in Committed /\ RowsOf(chain[old[q]]) \subseteq targets[q]
    BY <1>4 DEF CommitReuse, RequestInv, InTxn, OneRequestPerChain
  <2>2. /\ chain' = chain /\ seq' = seq /\ detected' = detected \union {chain[old[q]]}
        /\ state' = [t \in Tokens |-> IF t \in targets[q] THEN "revoked" ELSE state[t]]
    BY <1>4 DEF CommitReuse
  <2>3. \A t \in targets[q] : t \in Committed
    BY DEF RequestInv
  <2>4. Committed' = Committed /\ \A t \in Committed : state'[t] = "live" => state[t] = "live"
    <3>1. \A t \in Tokens : state'[t] = IF t \in targets[q] THEN "revoked" ELSE state[t]
      BY <2>2
    <3>2. \A t \in Tokens : state'[t] # "none" <=> state[t] # "none"
      BY <2>3, <3>1
    <3>3. Committed' = Committed
      BY <3>2
    <3>4. QED
      BY <3>1, <3>3
  <2>5. ASSUME NEW c PROVE RowsOf(c)' = RowsOf(c) /\ Live(c)' \subseteq Live(c)
    BY <2>2, <2>4
  <2>6. ASSUME NEW c, c = chain[old[q]] PROVE RowsOf(c) # {} /\ Live(c)' = {}
    <3>1. \A t \in RowsOf(c) : state'[t] = "revoked"
      BY <2>1, <2>2, <2>6
    <3>2. RowsOf(c)' = RowsOf(c)
      BY <2>5
    <3>3. Live(c)' = {}
      BY <3>1, <3>2
    <3>4. old[q] \in RowsOf(c)
      BY <2>1, <2>6
    <3>5. QED
      BY <3>3, <3>4
  <2>7. (\A c \in detected : RowsOf(c) # {} /\ Live(c) = {})'
    <3>1. ASSUME NEW c \in detected' PROVE RowsOf(c)' # {} /\ Live(c)' = {}
      <4>1. RowsOf(c)' = RowsOf(c) /\ Live(c)' \subseteq Live(c)
        BY <2>5
      <4>2. CASE c = chain[old[q]]
        <5>1. RowsOf(c) # {} /\ Live(c)' = {}
          BY <2>6, <4>2
        <5>2. QED
          BY <4>1, <5>1
      <4>3. CASE c \in detected
        <5>1. RowsOf(c) # {} /\ Live(c) = {}
          BY <4>3
        <5>2. QED
          BY <4>1, <5>1
      <4>4. QED
        BY <2>2, <3>1, <4>2, <4>3
    <3>2. QED
      BY <3>1
  <2>8. (\A t, u \in Committed : chain[t] = chain[u] /\ seq[t] = seq[u] => t = u)'
    BY <2>2, <2>4
  <2>9. (\A t, u \in Committed : chain[t] = chain[u] /\ state[u] = "live" => seq[t] <= seq[u])'
    BY <2>2, <2>4
  <2>10. QED
    BY <2>7, <2>8, <2>9
<1>5. QED
  BY <1>1, <1>2, <1>3, <1>4
     DEF Next, vars, rows, Tick, Present, CreateNew, RevokeOld, Reply, LoseReply, SnapshotChain,
         RevokeChain, Rollback

(* SerialInv is inductive: MyTurn keeps other requests out of a chain for  *)
(* as long as one of its requests is in its transaction.                   *)
THEOREM SerialInvariant == Spec => []SerialInv
<1>1. Init => SerialInv
  BY DEF Init, SerialInv, OneRequestPerChain, ChainIsLinear, InTxn, Committed
<1>2. RotationInv /\ SerialInv /\ [Next]_vars => SerialInv'
  <2>1. [Next]_vars => serial' = serial
    BY DEF Next, vars, Tick, IssueFirst, Present, CreateNew, RevokeOld, CommitRotation, Reply,
           LoseReply, SnapshotChain, RevokeChain, CommitReuse, Rollback
  <2>2. QED
    BY <2>1, NextTurns, NextLinear DEF SerialInv
<1>3. QED
  BY <1>1, <1>2, RotationInvariant, PTL DEF Spec

(* When requests take turns, the lookup by hash never meets two rows with  *)
(* one JWT, however many rotations a second holds.                         *)
THEOREM SerialJWTsAreDistinct == Spec => []JWTsDistinctWhenSerial
<1>1. SerialInv => JWTsDistinctWhenSerial
  BY DEF SerialInv, ChainIsLinear, JWTsDistinctWhenSerial, SameJWT
<1>2. QED
  BY <1>1, SerialInvariant, PTL

(* The usable tokens of the chains that a step leaves alone. *)
LEMMA UsableElsewhere ==
  ASSUME NEW c, \A d \in Chains \ {c} : Live(d)' = Live(d) /\ \A t \in Live(d) : seq'[t] = seq[t]
  PROVE  \A d \in Chains \ {c} : Usable'[d] = Usable[d]
BY DEF Usable

(* When requests take turns, every step keeps the promise of rotation: one *)
(* usable token per chain, replaced by its successor, none after a reuse.  *)
THEOREM SerialRotationKeepsPromise == Spec => RotatesWhenSerial
<1>1. RotationInv /\ SerialInv /\ [Next]_vars =>
        [serial => Promise!ChainNext \/ UNCHANGED <<Usable, detected>>]_<<rows, detected>>
  <2> SUFFICES ASSUME RotationInv, OneRequestPerChain, ChainIsLinear, [Next]_vars
               PROVE  Promise!ChainNext \/ UNCHANGED <<Usable, detected>>
    BY DEF SerialInv
  <2> USE DEF RotationInv, TypeOK, Committed, RowsOf
  <2>1. CASE UNCHANGED <<state, chain, seq, detected>>
    BY <2>1 DEF Usable, Live
  <2>2. ASSUME NEW c \in Chains, NEW t \in Tokens, IssueFirst(c, t) PROVE Promise!Link(c)
    <3>1. /\ RowsOf(c) = {} /\ t \notin Committed /\ detected' = detected
          /\ state' = [state EXCEPT ![t] = "live"]
          /\ chain' = [chain EXCEPT ![t] = c] /\ seq' = [seq EXCEPT ![t] = 1]
      BY <2>2 DEF IssueFirst, Fresh, AddRow
    <3>2. Live(c) = {} /\ Live(c)' = {t} /\ c \notin detected
      BY <3>1 DEF Live, ChainIsLinear
    <3>3. \A d \in Chains \ {c} : Live(d)' = Live(d) /\ \A u \in Live(d) : seq'[u] = seq[u]
      BY <3>1 DEF Live
    <3>4. \A d \in Chains \ {c} : Usable'[d] = Usable[d]
      BY <3>3, UsableElsewhere
    <3>5. Usable[c] = {} /\ Usable'[c] = {<<t, 1>>}
      BY <3>1, <3>2 DEF Usable
    <3>6. Usable' = [Usable EXCEPT ![c] = {<<t, 1>>}]
      BY <3>4, <3>5 DEF Usable
    <3>7. QED
      BY <3>1, <3>2, <3>5, <3>6 DEF Promise!Link
  <2>3. ASSUME NEW q \in Requests, CommitRotation(q) PROVE Promise!Rotate(chain[old[q]])
    <3> DEFINE o == old[q]
               n == new[q]
    <3>1. PICK c : c = chain[o]
      OBVIOUS
    <3>2. o \in Committed /\ n \in Tokens \ Committed /\ n # o /\ state[o] = "live"
      BY <2>3 DEF CommitRotation, RequestInv, InTxn, OneRequestPerChain
    <3>3. /\ chain' = [chain EXCEPT ![n] = c]
          /\ seq' = [seq EXCEPT ![n] = seq[o] + 1]
          /\ state' = [state EXCEPT ![o] = "revoked", ![n] = "live"]
          /\ detected' = detected
      BY <2>3, <3>1 DEF CommitRotation, AddRow
    <3>4. \A t \in Live(c) : t = o
      <4>1. ASSUME NEW t \in Live(c) PROVE t = o
        <5>1. seq[t] <= seq[o] /\ seq[o] <= seq[t] /\ seq[t] \in Nat /\ seq[o] \in Nat
          BY <3>2, <3>1 DEF ChainIsLinear, Live
        <5>2. QED
          BY <3>2, <3>1, <5>1 DEF ChainIsLinear, Live
      <4>2. QED
        BY <4>1
    <3>5. /\ chain'[n] = c /\ seq'[n] = seq[o] + 1 /\ state'[n] = "live" /\ state'[o] = "revoked"
          /\ \A t \in Tokens \ {n} : chain'[t] = chain[t] /\ seq'[t] = seq[t]
          /\ \A t \in Tokens \ {o, n} : state'[t] = state[t]
      BY <3>2, <3>3
    <3>6. \A t \in Tokens : t \in Committed' <=> t \in Committed \/ t = n
      BY <3>2, <3>5
    <3>7. o \in Live(c) /\ Live(c)' = {n} /\ seq'[n] = seq[o] + 1
      <4>1. o \in Live(c) /\ n \in Live(c)'
        BY <3>2, <3>5, <3>6, <3>1 DEF Live
      <4>2. ASSUME NEW t \in Live(c)' PROVE t = n
        <5>1. t \in Tokens /\ chain'[t] = c /\ state'[t] = "live"
          BY <3>3, <4>2 DEF Live
        <5>2. CASE t # n
          BY <3>2, <3>4, <3>5, <3>6, <5>1, <5>2 DEF Live
        <5>3. QED
          BY <5>2
      <4>3. QED
        BY <3>5, <4>1, <4>2
    <3>8. \A d \in Chains \ {c} : Live(d)' = Live(d) /\ \A u \in Live(d) : seq'[u] = seq[u]
      <4> SUFFICES ASSUME NEW d \in Chains \ {c}
                   PROVE  Live(d)' = Live(d) /\ \A u \in Live(d) : seq'[u] = seq[u]
        OBVIOUS
      <4>1. ASSUME NEW t \in Tokens
            PROVE  /\ t \in Live(d)' <=> t \in Live(d)
                   /\ t \in Live(d) => seq'[t] = seq[t]
        BY <3>2, <3>5, <3>6, <3>1 DEF Live
      <4>2. Live(d) \subseteq Tokens /\ Live(d)' \subseteq Tokens
        BY DEF Live
      <4>3. QED
        BY <4>1, <4>2
    <3>9. \A d \in Chains \ {c} : Usable'[d] = Usable[d]
      BY <3>8, UsableElsewhere
    <3>10. c \in Chains /\ <<o, seq[o]>> \in Usable[c] /\ Usable'[c] = {<<n, seq[o] + 1>>}
      BY <3>2, <3>7, <3>1 DEF Usable
    <3>11. Usable' = [Usable EXCEPT ![c] = {<<n, <<o, seq[o]>>[2] + 1>>}]
      BY <3>9, <3>10 DEF Usable
    <3>12. QED
      BY <3>2, <3>3, <3>10, <3>11, <3>1 DEF Promise!Rotate
  <2>4. ASSUME NEW q \in Requests, CommitReuse(q) PROVE Promise!Kill(chain[old[q]])
    <3>1. PICK c : c = chain[old[q]]
      OBVIOUS
    <3>2. /\ old[q] \in Committed /\ RowsOf(c) \subseteq targets[q]
          /\ \A t \in targets[q] : t \in Committed /\ chain[t] = c
      BY <2>4, <3>1 DEF CommitReuse, RequestInv, InTxn, OneRequestPerChain
    <3>3. /\ chain' = chain /\ seq' = seq /\ detected' = detected \union {c}
          /\ state' = [t \in Tokens |-> IF t \in targets[q] THEN "revoked" ELSE state[t]]
      BY <2>4, <3>1 DEF CommitReuse
    <3>4. \A t \in Tokens : state'[t] = IF t \in targets[q] THEN "revoked" ELSE state[t]
      BY <3>3
    <3>5. \A t \in Tokens : t \in Committed' <=> t \in Committed
      BY <3>2, <3>4
    <3>6. Live(c)' = {}
      <4>1. ASSUME NEW t \in Live(c)' PROVE FALSE
        <5>1. t \in Tokens /\ t \in Committed' /\ chain[t] = c /\ state'[t] = "live"
          BY <3>3, <4>1 DEF Live
        <5>2. t \in targets[q]
          BY <3>2, <3>5, <5>1
        <5>3. QED
          BY <3>4, <5>1, <5>2
      <4>2. QED
        BY <4>1
    <3>7. \A d \in Chains \ {c} : Live(d)' = Live(d) /\ \A u \in Live(d) : seq'[u] = seq[u]
      <4> SUFFICES ASSUME NEW d \in Chains \ {c}
                   PROVE  Live(d)' = Live(d) /\ \A u \in Live(d) : seq'[u] = seq[u]
        OBVIOUS
      <4>1. ASSUME NEW t \in Tokens PROVE t \in Live(d)' <=> t \in Live(d)
        BY <3>2, <3>3, <3>4, <3>5 DEF Live
      <4>2. Live(d) \subseteq Tokens /\ Live(d)' \subseteq Tokens
        BY DEF Live
      <4>3. QED
        BY <3>3, <4>1, <4>2
    <3>8. \A d \in Chains \ {c} : Usable'[d] = Usable[d]
      BY <3>7, UsableElsewhere
    <3>9. c \in Chains /\ Usable'[c] = {}
      BY <3>2, <3>6, <3>1 DEF Usable
    <3>10. Usable' = [Usable EXCEPT ![c] = {}]
      BY <3>8, <3>9 DEF Usable
    <3>11. QED
      BY <3>3, <3>10, <3>1 DEF Promise!Kill
  <2>5. \A q \in Requests : CommitRotation(q) \/ CommitReuse(q) => chain[old[q]] \in Chains
    BY DEF CommitRotation, CommitReuse, RequestInv, InTxn
  <2>6. QED
    BY <2>1, <2>2, <2>3, <2>4, <2>5
       DEF Promise!ChainNext, Next, vars, rows, Tick, Present, CreateNew, RevokeOld, Reply,
           LoseReply, SnapshotChain, RevokeChain, Rollback
<1>2. QED
  BY <1>1, RotationInvariant, SerialInvariant, PTL DEF Spec, RotatesWhenSerial
=============================================================================

------------------------ MODULE DeviceLinkingProofs ------------------------
(***************************************************************************)
(* Theorems about DeviceLinking, for any codes, devices and requests.      *)
(***************************************************************************)
EXTENDS DeviceLinking, TLAPS

USE LinkAssumption

(* Nothing is linked at the start. *)
LEMMA InitLinkInv == Init => LinkInv
  BY DEF Init, LinkInv, TypeOK, SpentMeansLinked, OneDevicePerCode, InTxn, Linked

(* The commit of a link turns one unused code and one new device into a    *)
(* spent code and its device.                                              *)
LEMMA CommitKeepsInv ==
  ASSUME LinkInv, NEW q \in Requests, CommitLink(q)
  PROVE  LinkInv'
<1> USE DEF LinkInv, TypeOK
<1> DEFINE c == code[q]
           d == device[q]
<1>1. /\ c \in Codes \ used
      /\ d \in Devices \ Linked
      /\ \A e \in Linked : linkedBy[e] \in used
  BY DEF CommitLink, SpentMeansLinked
<1>2. /\ Linked' = Linked \union {d}
      /\ linkedBy'[d] = c
      /\ \A e \in Linked : linkedBy'[e] = linkedBy[e] /\ e # d
  BY <1>1 DEF CommitLink, Linked
<1>3. TypeOK'
  BY <1>1 DEF CommitLink, Close
<1>4. OneDevicePerCode'
  BY <1>1, <1>2 DEF OneDevicePerCode
<1>5. SpentMeansLinked'
  <2>1. used' = used \union {c} /\ token' = token \union {d} /\ audit' = audit \union {d}
    BY DEF CommitLink
  <2>2. {linkedBy'[e] : e \in Linked'} = {linkedBy[e] : e \in Linked} \union {c}
    BY <1>2
  <2>3. QED
    BY <1>2, <2>1, <2>2 DEF SpentMeansLinked
<1>6. /\ pc' = [pc EXCEPT ![q] = "idle"]
      /\ code' = [code EXCEPT ![q] = NoCode]
      /\ device' = [device EXCEPT ![q] = NoDevice]
      /\ used' = used \union {c}
      /\ pc[q] = "created"
  BY DEF CommitLink, Close
<1>7. (\A p, r \in Requests : InTxn(p) /\ InTxn(r) /\ code[p] = code[r] => p = r)'
  BY <1>6 DEF InTxn
<1>8. (\A p, r \in Requests : device[p] = device[r] /\ device[p] # NoDevice => p = r)'
  BY <1>6
<1>9. ASSUME NEW r \in Requests
      PROVE  (/\ pc[r] \in {"found", "created"} => code[r] \in Codes \ used
              /\ pc[r] = "created" => device[r] \in Devices \ Linked
              /\ pc[r] # "idle" => code[r] # NoCode)'
  <2>1. CASE r = q
    BY <1>6, <2>1
  <2>2. CASE r # q
    <3>1. pc'[r] = pc[r] /\ code'[r] = code[r] /\ device'[r] = device[r]
      BY <1>6, <2>2
    <3>2. pc[r] \in {"found", "created"} => code[r] # c
      BY <1>1, <1>6, <2>2 DEF InTxn
    <3>3. pc[r] = "created" => device[r] # d
      BY <1>1, <2>2
    <3>4. QED
      BY <1>1, <1>2, <1>6, <3>1, <3>2, <3>3
  <2>3. QED
    BY <2>1, <2>2
<1>10. QED
  BY <1>3, <1>4, <1>5, <1>7, <1>8, <1>9

(* The steps that leave the spent codes and their devices alone. *)
LEMMA OthersKeepInv ==
  ASSUME LinkInv, UNCHANGED <<used, linkedBy, token, audit>>, TypeOK',
         (\A p, q \in Requests : InTxn(p) /\ InTxn(q) /\ code[p] = code[q] => p = q)',
         (\A p, q \in Requests : device[p] = device[q] /\ device[p] # NoDevice => p = q)',
         \A q \in Requests :
           (/\ pc[q] \in {"found", "created"} => code[q] \in Codes \ used
            /\ pc[q] = "created" => device[q] \in Devices \ Linked
            /\ pc[q] # "idle" => code[q] # NoCode)'
  PROVE  LinkInv'
<1>1. UNCHANGED Linked
  BY DEF Linked
<1>2. SpentMeansLinked' /\ OneDevicePerCode'
  BY <1>1 DEF LinkInv, SpentMeansLinked, OneDevicePerCode
<1>3. QED
  BY <1>2 DEF LinkInv

(* Every step of a link request keeps the invariant. *)
LEMMA NextLinkInv == LinkInv /\ [Next]_vars => LinkInv'
<1> SUFFICES ASSUME LinkInv, [Next]_vars PROVE LinkInv'
  OBVIOUS
<1> USE DEF db
<1>1. ASSUME NEW c \in Codes, Expire(c) PROVE LinkInv'
  BY <1>1, OthersKeepInv DEF LinkInv, TypeOK, Expire, InTxn, Linked
<1>2. ASSUME NEW q \in Requests, NEW c \in Codes \union {Unknown}, FindSetupCode(q, c)
      PROVE  LinkInv'
  BY <1>2, OthersKeepInv DEF LinkInv, TypeOK, FindSetupCode, Valid, Locked, InTxn, Linked
<1>3. ASSUME NEW q \in Requests, NEW d \in Devices, CreateDevice(q, d) PROVE LinkInv'
  BY <1>3, OthersKeepInv DEF LinkInv, TypeOK, CreateDevice, InTxn, Linked
<1>4. ASSUME NEW q \in Requests, CommitLink(q) PROVE LinkInv'
  BY <1>4, CommitKeepsInv
<1>5. ASSUME NEW q \in Requests, LogFailure(q) PROVE LinkInv'
  BY <1>5, OthersKeepInv DEF LinkInv, TypeOK, LogFailure, Locked, InTxn, Linked
<1>6. ASSUME NEW q \in Requests, CommitFailure(q) PROVE LinkInv'
  BY <1>6, OthersKeepInv DEF LinkInv, TypeOK, CommitFailure, InTxn, Linked
<1>7. ASSUME NEW q \in Requests, Abort(q) PROVE LinkInv'
  BY <1>7, OthersKeepInv DEF LinkInv, TypeOK, Abort, Close, InTxn, Linked
<1>8. ASSUME NEW q \in Requests, Refuse(q) PROVE LinkInv'
  BY <1>8, OthersKeepInv DEF LinkInv, TypeOK, Refuse, Close, InTxn, Linked
<1>9. CASE UNCHANGED vars
  BY <1>9, OthersKeepInv DEF LinkInv, TypeOK, vars, InTxn, Linked
<1>10. QED
  BY <1>1, <1>2, <1>3, <1>4, <1>5, <1>6, <1>7, <1>8, <1>9 DEF Next

(* LinkInv is inductive: while a request holds the row lock of a code it   *)
(* found valid, nothing spends that code.                                  *)
THEOREM LinkInvariant == Spec => []LinkInv
  BY InitLinkInv, NextLinkInv, PTL DEF Spec

(* Every reachable state is well typed. *)
THEOREM TypeCorrect == Spec => []TypeOK
<1>1. LinkInv => TypeOK
  BY DEF LinkInv
<1>2. QED
  BY <1>1, LinkInvariant, PTL

(* However many requests present a setup code at once, one device at most  *)
(* is linked with it.                                                      *)
THEOREM CodeLinksOneDevice == Spec => []OneDevicePerCode
<1>1. LinkInv => OneDevicePerCode
  BY DEF LinkInv
<1>2. QED
  BY <1>1, LinkInvariant, PTL

(* No failure of link_device spends a code for nothing, or commits a       *)
(* device without its token and its audit row.                             *)
THEOREM LinkIsAtomic == Spec => []SpentMeansLinked
<1>1. LinkInv => SpentMeansLinked
  BY DEF LinkInv
<1>2. QED
  BY <1>1, LinkInvariant, PTL

(* Every step keeps what the refused requests know: used and expired only  *)
(* grow, and a refusal is audited before it is answered.                   *)
LEMMA NextRefusalInv == LinkInv /\ RefusalInv /\ [Next]_vars => RefusalInv'
<1> SUFFICES ASSUME LinkInv, RefusalInv, [Next]_vars PROVE RefusalInv'
  OBVIOUS
<1> USE DEF LinkInv, TypeOK, RefusalInv, db
<1>1. ASSUME NEW c \in Codes, Expire(c) PROVE RefusalInv'
  BY <1>1 DEF Expire
<1>2. ASSUME NEW q \in Requests, NEW c \in Codes \union {Unknown}, FindSetupCode(q, c)
      PROVE  RefusalInv'
  BY <1>2 DEF FindSetupCode, Valid
<1>3. ASSUME NEW q \in Requests, NEW d \in Devices, CreateDevice(q, d) PROVE RefusalInv'
  BY <1>3 DEF CreateDevice
<1>4. ASSUME NEW q \in Requests, CommitLink(q) PROVE RefusalInv'
  BY <1>4 DEF CommitLink, Close
<1>5. ASSUME NEW q \in Requests, LogFailure(q) PROVE RefusalInv'
  BY <1>5 DEF LogFailure
<1>6. ASSUME NEW q \in Requests, CommitFailure(q) PROVE RefusalInv'
  BY <1>6 DEF CommitFailure
<1>7. ASSUME NEW q \in Requests, Abort(q) PROVE RefusalInv'
  BY <1>7 DEF Abort, Close
<1>8. ASSUME NEW q \in Requests, Refuse(q) PROVE RefusalInv'
  BY <1>8 DEF Refuse, Close
<1>9. CASE UNCHANGED vars
  BY <1>9 DEF vars
<1>10. QED
  BY <1>1, <1>2, <1>3, <1>4, <1>5, <1>6, <1>7, <1>8, <1>9 DEF Next

(* A code that is refused is unknown, expired or spent at the moment of    *)
(* the answer, and the refusal is in the audit log, for any number of      *)
(* requests that present it at once.                                       *)
THEOREM RefusalsHaveCause == Spec => RefusalsJustified
<1>1. Init => RefusalInv
  BY DEF Init, RefusalInv
<1>2. RefusalInv /\ [Next]_vars => [\A q \in Requests : Refuse(q) => Justified(q)]_vars
  BY DEF RefusalInv, Refuse, Justified
<1>3. QED
  BY <1>1, <1>2, LinkInvariant, NextRefusalInv, PTL DEF Spec, RefusalsJustified
=============================================================================

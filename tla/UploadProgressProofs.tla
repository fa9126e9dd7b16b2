------------------------ MODULE UploadProgressProofs ------------------------
(***************************************************************************)
(* Theorems about UploadProgress, for any files, slots and chunks.         *)
(***************************************************************************)
EXTENDS UploadProgress, FiniteSetTheorems, TLAPS

USE UploadAssumption

(* verify_agent_ownership counts rows; when the count is right each of the *)
(* one or two file ids is that of a file that exists.                      *)
LEMMA OwnedFilesExist ==
  ASSUME NEW ids \in FileLists, OwnsAll(ids)
  PROVE  /\ ids \in Seq(Files)
         /\ \A i \in DOMAIN ids : Exists(ids[i])
<1> DEFINE S == {f \in Files : Exists(f) /\ \E i \in DOMAIN ids : ids[i] = f}
<1>1. PICK n \in 1..2 : ids \in [1..n -> Files \union {Foreign}]
  BY DEF FileLists
<1>2. ids \in Seq(Files \union {Foreign}) /\ Len(ids) = n /\ DOMAIN ids = 1..n
  BY <1>1
<1>3. Cardinality(S) = n
  BY <1>2 DEF OwnsAll
<1>4. ASSUME NEW k \in 1..n, ids[k] \notin S PROVE FALSE
  <2>1. CASE n = 1
    <3>1. S = {}
      BY <1>2, <1>4, <2>1
    <3>2. QED
      BY <1>3, <2>1, <3>1, FS_EmptySet
  <2>2. CASE n = 2
    <3>1. PICK m \in 1..n : \A i \in 1..n : i = k \/ i = m
      BY <2>2
    <3>2. S \subseteq {ids[m]}
      BY <1>2, <1>4, <3>1
    <3>3. IsFiniteSet({ids[m]}) /\ Cardinality({ids[m]}) = 1
      BY FS_Singleton
    <3>4. Cardinality(S) <= 1
      BY <3>2, <3>3, FS_Subset
    <3>5. QED
      BY <1>3, <2>2, <3>4
  <2>3. QED
    BY <1>1, <2>1, <2>2
<1>5. \A i \in 1..n : ids[i] \in Files /\ Exists(ids[i])
  BY <1>4
<1>6. ids \in [1..n -> Files]
  BY <1>1, <1>5
<1>7. QED
  BY <1>2, <1>5, <1>6

(* Nothing exists at the start. *)
LEMMA InitUploadInv == Init => UploadInv
<1> SUFFICES ASSUME Init PROVE UploadInv
  OBVIOUS
<1>1. TypeOK
  BY DEF Init, TypeOK, Reports, ReportStatuses
<1>2. RequestsAreSound
  BY DEF Init, RequestsAreSound, Asking
<1>3. QED
  BY <1>1, <1>2 DEF UploadInv

(* Every step keeps the variables in their types. *)
LEMMA NextTypeOK == UploadInv /\ [Next]_vars => TypeOK'
<1> SUFFICES ASSUME UploadInv, [Next]_vars PROVE TypeOK'
  OBVIOUS
<1> USE DEF UploadInv, TypeOK, requestVars, stsVars, agentVars, historyVars
<1>0. ReportStatuses \subseteq FileStatus
  BY DEF FileStatus, ReportStatuses
<1>1. ASSUME NEW F \in SUBSET Files, NEW new \in NewRows, BulkCreate(F, new) PROVE TypeOK'
  <2>1. new \in [status : FileStatus, done : 0..Total]
    BY DEF NewRows
  <2>2. QED
    BY <1>1, <2>1 DEF BulkCreate
<1>2. ASSUME NEW F \in SUBSET Files, NEW status \in FileStatus, BulkUpdateStatus(F, status)
      PROVE  TypeOK'
  <2>1. \A f \in F : [row[f] EXCEPT !.status = status] \in [status : FileStatus, done : 0..Total]
    BY <1>2 DEF BulkUpdateStatus, Exists
  <2>2. row' \in [Files -> [status : FileStatus, done : 0..Total] \union {Absent}]
    BY <1>2, <2>1 DEF BulkUpdateStatus
  <2>3. QED
    BY <1>2, <2>2 DEF BulkUpdateStatus
<1>3. ASSUME NEW ids \in FileLists, RequestSTS(ids) PROVE TypeOK'
  BY <1>3, OwnedFilesExist DEF RequestSTS
<1>4. CASE ReadFiles
  <2>1. <<>> \in Seq(Files)
    OBVIOUS
  <2>2. (sts' = "granted" /\ asked' = asked) \/ (sts' = "idle" /\ asked' = <<>>)
    BY <1>4 DEF ReadFiles, CloseSTS
  <2>3. QED
    BY <1>4, <2>1, <2>2 DEF ReadFiles
<1>5. CASE ReplySTS
  BY <1>5 DEF ReplySTS, CloseSTS, UploadTargets
<1>6. CASE FailSTS
  BY <1>6 DEF FailSTS, CloseSTS, Fault
<1>7. ASSUME NEW f \in Files, UploadChunk(f) PROVE TypeOK'
  <2>1. work[f].done + 1 \in 0..Total
    BY <1>7 DEF UploadChunk, RequestsAreSound, Reports
  <2>2. work' \in [Files -> Reports]
    BY <1>7, <2>1 DEF UploadChunk, Proceed, Reports, ReportStatuses
  <2>3. QED
    BY <1>7, <2>2 DEF UploadChunk, Proceed
<1>8. ASSUME NEW f \in Files, FailUpload(f) PROVE TypeOK'
  BY <1>8 DEF FailUpload, Proceed, Fault, Reports, ReportStatuses
<1>9. ASSUME NEW f \in Files, RestartUpload(f) PROVE TypeOK'
  BY <1>9 DEF RestartUpload, Proceed, Reports, ReportStatuses
<1>10. ASSUME NEW f \in Files, LoseCredentials(f) PROVE TypeOK'
  BY <1>10 DEF LoseCredentials, Fault
<1>11. ASSUME NEW s \in Slots, NEW f \in Files, Report(s, f) PROVE TypeOK'
  BY <1>11 DEF Report
<1>12. ASSUME NEW s \in Slots, NEW f \in Files, NEW r \in Reports, StrangerReport(s, f, r)
       PROVE  TypeOK'
  BY <1>12 DEF StrangerReport
<1>13. ASSUME NEW s \in Slots, UpdateReport(s) PROVE TypeOK'
  BY <1>13 DEF UpdateReport
<1>14. ASSUME NEW s \in Slots, CommitReport(s) PROVE TypeOK'
  <2>1. report[s] \in [status : FileStatus, done : 0..Total]
    BY <1>0, <1>14 DEF CommitReport, RequestsAreSound, Reports
  <2>2. file[s] \in Files
    BY <1>14 DEF CommitReport, RequestsAreSound
  <2>3. QED
    BY <1>14, <2>1, <2>2 DEF CommitReport, Written
<1>15. ASSUME NEW s \in Slots, Acknowledge(s) PROVE TypeOK'
  BY <1>15 DEF Acknowledge, CloseReport, RequestsAreSound
<1>16. ASSUME NEW s \in Slots, FailReport(s) PROVE TypeOK'
  BY <1>16 DEF FailReport, CloseReport, Fault
<1>17. CASE UNCHANGED vars
  BY <1>17 DEF vars
<1>18. QED
  BY <1>1, <1>2, <1>3, <1>4, <1>5, <1>6, <1>7, <1>8, <1>9, <1>10, <1>11, <1>12, <1>13, <1>14,
     <1>15, <1>16, <1>17 DEF Next, UpdateStatus

-----------------------------------------------------------------------------
(* Every step keeps what the requests rest on. *)
LEMMA NextUploadInv == UploadInv /\ [Next]_vars => UploadInv'
<1> SUFFICES ASSUME UploadInv, [Next]_vars PROVE RequestsAreSound'
  BY NextTypeOK DEF UploadInv
<1> USE DEF UploadInv, TypeOK, RequestsAreSound, Exists,
            requestVars, stsVars, agentVars, historyVars
<1>1. ASSUME NEW F \in SUBSET Files, NEW new \in NewRows, BulkCreate(F, new)
      PROVE  RequestsAreSound'
  <2>1. new # Absent
    BY DEF NewRows, FileStatus, Absent
  <2>2. \A f \in Files : Exists(f) => Exists(f)'
    BY <1>1, <2>1 DEF BulkCreate
  <2>3. QED
    BY <1>1, <2>2 DEF BulkCreate, Asking
<1>2. ASSUME NEW F \in SUBSET Files, NEW status \in FileStatus, BulkUpdateStatus(F, status)
      PROVE  RequestsAreSound'
  <2>1. \A f \in F : [row[f] EXCEPT !.status = status] # Absent
    BY <1>2 DEF BulkUpdateStatus, Absent, FileStatus
  <2>2. \A f \in Files : Exists(f) => Exists(f)'
    BY <1>2, <2>1 DEF BulkUpdateStatus
  <2>3. QED
    BY <1>2, <2>2 DEF BulkUpdateStatus, Asking
<1>3. ASSUME NEW ids \in FileLists, RequestSTS(ids) PROVE RequestsAreSound'
  BY <1>3, OwnedFilesExist DEF RequestSTS, Asking
<1>4. CASE ReadFiles
  BY <1>4 DEF ReadFiles, CloseSTS, Asking
<1>5. CASE ReplySTS
  BY <1>5 DEF ReplySTS, CloseSTS, UploadTargets, Asking
<1>6. CASE FailSTS
  BY <1>6 DEF FailSTS, CloseSTS, Asking
<1>7. ASSUME NEW f \in Files, UploadChunk(f) PROVE RequestsAreSound'
  <2>1. work'[f].status = "UPLOADING" => work'[f].done < Total
    BY <1>7 DEF UploadChunk, Proceed, Reports
  <2>2. QED
    BY <1>7, <2>1 DEF UploadChunk, Proceed, Asking
<1>8. ASSUME NEW f \in Files, FailUpload(f) PROVE RequestsAreSound'
  BY <1>8 DEF FailUpload, Proceed, Asking
<1>9. ASSUME NEW f \in Files, RestartUpload(f) PROVE RequestsAreSound'
  BY <1>9 DEF RestartUpload, Proceed, Asking
<1>10. ASSUME NEW f \in Files, LoseCredentials(f) PROVE RequestsAreSound'
  BY <1>10 DEF LoseCredentials, Asking
<1>11. ASSUME NEW s \in Slots, NEW f \in Files, Report(s, f) PROVE RequestsAreSound'
  BY <1>11 DEF Report, Asking
<1>12. ASSUME NEW s \in Slots, NEW f \in Files, NEW r \in Reports, StrangerReport(s, f, r)
       PROVE  RequestsAreSound'
  BY <1>12 DEF StrangerReport, Asking
<1>13. ASSUME NEW s \in Slots, UpdateReport(s) PROVE RequestsAreSound'
  BY <1>13 DEF UpdateReport, LockedByReport, Asking
<1>14. ASSUME NEW s \in Slots, CommitReport(s) PROVE RequestsAreSound'
  <2>1. report[s] # Absent
    <3>1. report[s].status \in ReportStatuses
      BY <1>14 DEF CommitReport, Reports
    <3>2. Absent.status \notin ReportStatuses
      BY DEF ReportStatuses, Absent
    <3>3. QED
      BY <3>1, <3>2
  <2>2. \A f \in Files : Exists(f) => Exists(f)'
    BY <1>14, <2>1 DEF CommitReport, Written
  <2>3. QED
    BY <1>14, <2>2 DEF CommitReport, Asking
<1>15. ASSUME NEW s \in Slots, Acknowledge(s) PROVE RequestsAreSound'
  BY <1>15 DEF Acknowledge, CloseReport, Asking
<1>16. ASSUME NEW s \in Slots, FailReport(s) PROVE RequestsAreSound'
  BY <1>16 DEF FailReport, CloseReport, Asking
<1>17. CASE UNCHANGED vars
  BY <1>17 DEF vars, Asking
<1>18. QED
  BY <1>1, <1>2, <1>3, <1>4, <1>5, <1>6, <1>7, <1>8, <1>9, <1>10, <1>11, <1>12, <1>13, <1>14,
     <1>15, <1>16, <1>17 DEF Next, UpdateStatus

(* UploadInv is inductive. *)
THEOREM UploadInvariant == Spec => []UploadInv
  BY InitUploadInv, NextUploadInv, PTL DEF Spec

(* Every reachable state is well typed. *)
THEOREM TypeCorrect == Spec => []TypeOK
<1>1. UploadInv => TypeOK
  BY DEF UploadInv
<1>2. QED
  BY <1>1, UploadInvariant, PTL

-----------------------------------------------------------------------------
(* A step that leaves the agent's requests and acknowledgements alone, or  *)
(* only closes requests, and writes no row but one it touches, keeps the   *)
(* files whose reports never met as they were.                             *)
LEMMA QuietStep ==
  ASSUME UploadInv, OneReportPerFile,
         overlapped' = overlapped, told' \subseteq told,
         \A f \in told' : work'[f] = work[f],
         \A s \in Slots : \/ file'[s] = NoFile
                          \/ s \in strangers'
                          \/ /\ s \notin strangers
                             /\ file'[s] = file[s] /\ report'[s] = report[s]
                             /\ pc'[s] = "committed" => pc[s] = "committed",
         touched \subseteq touched',
         \A f \in Files : row'[f] = row[f] \/ ~Exists(f) \/ f \in touched'
  PROVE  OneReportPerFile'
<1> SUFFICES ASSUME NEW f \in Files \ overlapped'
             PROVE  (/\ \A s, q \in Slots \ strangers : file[s] = f /\ file[q] = f => s = q
                     /\ f \in told => ~Reporting(f) /\ Kept(f, work[f])
                     /\ \A s \in Slots \ strangers :
                          file[s] = f /\ pc[s] = "committed" => Kept(f, report[s]))'
  BY DEF OneReportPerFile
<1>1. f \in Files \ overlapped /\ f # NoFile
  OBVIOUS
<1>2. \A s \in Slots \ strangers' : file'[s] = f =>
        /\ s \in Slots \ strangers /\ file[s] = f /\ report'[s] = report[s]
        /\ pc'[s] = "committed" => pc[s] = "committed"
  BY <1>1
<1>3. Reporting(f)' => Reporting(f)
  BY <1>2 DEF Reporting
<1>4. Exists(f) => \A r : Kept(f, r) => row'[f] = r \/ f \in touched'
  BY DEF Kept
<1>5. \A s \in Slots : file[s] = f => Exists(f)
  BY <1>1 DEF UploadInv, TypeOK, RequestsAreSound
<1>6. (\A s, q \in Slots \ strangers : file[s] = f /\ file[q] = f => s = q)'
  BY <1>1, <1>2 DEF OneReportPerFile
<1>7. (f \in told => ~Reporting(f) /\ Kept(f, work[f]))'
  <2>1. f \in told => Exists(f)
    BY DEF UploadInv, RequestsAreSound
  <2>2. QED
    BY <1>1, <1>3, <1>4, <2>1 DEF OneReportPerFile, Kept
<1>8. (\A s \in Slots \ strangers : file[s] = f /\ pc[s] = "committed" => Kept(f, report[s]))'
  BY <1>1, <1>2, <1>4, <1>5 DEF OneReportPerFile, Kept
<1>9. QED
  BY <1>6, <1>7, <1>8

(* Every step keeps the files whose reports never met in order. *)
LEMMA NextOneReport == UploadInv /\ OneReportPerFile /\ [Next]_vars => OneReportPerFile'
<1> SUFFICES ASSUME UploadInv, OneReportPerFile, [Next]_vars PROVE OneReportPerFile'
  OBVIOUS
<1> USE DEF requestVars, stsVars, agentVars, historyVars
<1>1. ASSUME NEW F \in SUBSET Files, NEW new \in NewRows, BulkCreate(F, new)
      PROVE  OneReportPerFile'
  BY <1>1, QuietStep DEF BulkCreate
<1>2. ASSUME NEW F \in SUBSET Files, NEW status \in FileStatus, BulkUpdateStatus(F, status)
      PROVE  OneReportPerFile'
  BY <1>2, QuietStep DEF BulkUpdateStatus
<1>3. ASSUME NEW ids \in FileLists, RequestSTS(ids) PROVE OneReportPerFile'
  BY <1>3, QuietStep DEF RequestSTS
<1>4. CASE ReadFiles
  BY <1>4, QuietStep DEF ReadFiles
<1>5. CASE ReplySTS
  BY <1>5, QuietStep DEF ReplySTS
<1>6. CASE FailSTS
  BY <1>6, QuietStep DEF FailSTS
<1>7. ASSUME NEW f \in Files, UploadChunk(f) PROVE OneReportPerFile'
  BY <1>7, QuietStep DEF UploadChunk, Proceed, UploadInv, TypeOK
<1>8. ASSUME NEW f \in Files, FailUpload(f) PROVE OneReportPerFile'
  BY <1>8, QuietStep DEF FailUpload, Proceed, UploadInv, TypeOK
<1>9. ASSUME NEW f \in Files, RestartUpload(f) PROVE OneReportPerFile'
  BY <1>9, QuietStep DEF RestartUpload, Proceed, UploadInv, TypeOK
<1>10. ASSUME NEW f \in Files, LoseCredentials(f) PROVE OneReportPerFile'
  BY <1>10, QuietStep DEF LoseCredentials
<1>11. ASSUME NEW s \in Slots, NEW f \in Files, Report(s, f) PROVE OneReportPerFile'
  <2>1. /\ UNCHANGED <<row, strangers, work, told, touched>>
        /\ file'[s] = f /\ pc'[s] = "sent" /\ f \notin told
        /\ \A q \in Slots \ {s} : file'[q] = file[q] /\ pc'[q] = pc[q] /\ report'[q] = report[q]
    BY <1>11 DEF Report, UploadInv, TypeOK
  <2>2. /\ overlapped \subseteq overlapped'
        /\ f \notin overlapped' => ~Reporting(f)
    BY <1>11 DEF Report
  <2>3. QED
    BY <2>1, <2>2 DEF OneReportPerFile, Reporting, Kept
<1>12. ASSUME NEW s \in Slots, NEW f \in Files, NEW r \in Reports, StrangerReport(s, f, r)
       PROVE  OneReportPerFile'
  BY <1>12, QuietStep DEF StrangerReport, UploadInv, TypeOK
<1>13. ASSUME NEW s \in Slots, UpdateReport(s) PROVE OneReportPerFile'
  BY <1>13, QuietStep DEF UpdateReport, UploadInv, TypeOK
<1>14. ASSUME NEW s \in Slots, CommitReport(s) PROVE OneReportPerFile'
  <2>1. /\ UNCHANGED <<file, report, strangers, work, told, overlapped>>
        /\ \A q \in Slots \ {s} : pc'[q] = pc[q]
        /\ file[s] \in Files
    BY <1>14 DEF CommitReport, UploadInv, TypeOK, RequestsAreSound
  <2>2. \A f \in Files : row'[f] = IF f = file[s] THEN report[s] ELSE row[f]
    BY <1>14 DEF CommitReport, Written, UploadInv, TypeOK
  <2>3. CASE s \in strangers
    <3>1. touched' = touched \union {file[s]}
      BY <1>14, <2>3 DEF CommitReport
    <3>2. QED
      BY <2>1, <2>2, <2>3, <3>1 DEF OneReportPerFile, Reporting, Kept
  <2>4. CASE s \notin strangers
    <3>1. touched' = touched \ {file[s]}
      BY <1>14, <2>4 DEF CommitReport
    <3>2. QED
      BY <2>1, <2>2, <2>4, <3>1 DEF OneReportPerFile, Reporting, Kept
  <2>5. QED
    BY <2>3, <2>4
<1>15. ASSUME NEW s \in Slots, Acknowledge(s) PROVE OneReportPerFile'
  <2>1. /\ UNCHANGED <<row, work, overlapped, touched>>
        /\ file'[s] = NoFile
        /\ strangers' = strangers \ {s}
        /\ \A q \in Slots \ {s} : file'[q] = file[q] /\ pc'[q] = pc[q] /\ report'[q] = report[q]
    BY <1>15 DEF Acknowledge, CloseReport, UploadInv, TypeOK
  <2>2. \A f \in Files : f # NoFile
    OBVIOUS
  <2>3. \A f \in Files : Reporting(f)' =>
          Reporting(f) /\ \E q \in Slots \ strangers : q # s /\ file[q] = f
    BY <2>1, <2>2 DEF Reporting
  <2>4. /\ pc[s] = "committed"
        /\ \/ told' = told
           \/ /\ s \notin strangers /\ work[file[s]] = report[s]
              /\ told' = told \union {file[s]}
    BY <1>15 DEF Acknowledge
  <2>5. \A f \in Files \ overlapped : f \in told' => ~Reporting(f)' /\ Kept(f, work[f])
    BY <2>3, <2>4 DEF OneReportPerFile
  <2>6. QED
    BY <2>1, <2>2, <2>5 DEF OneReportPerFile, Kept
<1>16. ASSUME NEW s \in Slots, FailReport(s) PROVE OneReportPerFile'
  BY <1>16, QuietStep DEF FailReport, CloseReport, UploadInv, TypeOK
<1>17. CASE UNCHANGED vars
  BY <1>17, QuietStep DEF vars
<1>18. QED
  BY <1>1, <1>2, <1>3, <1>4, <1>5, <1>6, <1>7, <1>8, <1>9, <1>10, <1>11, <1>12, <1>13, <1>14,
     <1>15, <1>16, <1>17 DEF Next, UpdateStatus

(* Files whose reports never met stay in order. *)
THEOREM OneReportInvariant == Spec => []OneReportPerFile
<1>1. Init => OneReportPerFile
  BY DEF Init, OneReportPerFile
<1>2. QED
  BY <1>1, NextOneReport, UploadInvariant, PTL DEF Spec

(* What an agent has been acknowledged is what the row says, unless        *)
(* somebody else has written the row since or two reports met.             *)
THEOREM AcknowledgedIsStored == Spec => []ToldIsStored
<1>1. UploadInv /\ OneReportPerFile => ToldIsStored
  BY DEF UploadInv, TypeOK, OneReportPerFile, ToldIsStored, Kept
<1>2. QED
  BY <1>1, UploadInvariant, OneReportInvariant, PTL

-----------------------------------------------------------------------------
(* Every step of the service is a step of the ledger or none: a report     *)
(* takes effect at its commit.                                             *)
THEOREM UploadsRefineLedger == Spec => ImplementsLedger
<1> DEFINE phase == [s \in Slots |-> Phase(s)]
           LedgerStep == [Ledger!LedgerNext]_<<row, phase, file, report>>
<1>1. Init => Ledger!LedgerInit
  BY DEF Init, Ledger!LedgerInit, Phase
<1>2. UploadInv /\ UploadInv' /\ [Next]_vars => LedgerStep
  <2> SUFFICES ASSUME UploadInv, UploadInv', [Next]_vars PROVE LedgerStep
    OBVIOUS
  <2> USE DEF requestVars, stsVars, agentVars, historyVars
  <2>1. ASSUME NEW F \in SUBSET Files, NEW new \in NewRows, BulkCreate(F, new)
        PROVE  Ledger!Administer
    <3>1. phase' = phase /\ UNCHANGED <<file, report>>
      BY <2>1 DEF BulkCreate, Phase
    <3>2. /\ \A f \in Files : row'[f] = row[f] \/ (row[f] = Absent /\ row'[f] \in NewRows)
          /\ DOMAIN row' = Files
      BY <2>1 DEF BulkCreate, Exists
    <3>3. QED
      BY <3>1, <3>2 DEF Ledger!Administer
  <2>2. ASSUME NEW F \in SUBSET Files, NEW status \in FileStatus, BulkUpdateStatus(F, status)
        PROVE  Ledger!Administer
    <3>1. phase' = phase /\ UNCHANGED <<file, report>>
      BY <2>2 DEF BulkUpdateStatus, Phase
    <3>2. /\ \A f \in Files : \/ row'[f] = row[f]
                              \/ row[f] # Absent /\ row'[f] = [row[f] EXCEPT !.status = status]
          /\ DOMAIN row' = Files
      BY <2>2 DEF BulkUpdateStatus, Exists
    <3>3. QED
      BY <3>1, <3>2 DEF Ledger!Administer
  <2>3. ASSUME NEW s \in Slots, NEW f \in Files, Report(s, f) PROVE Ledger!Accept(s)
    BY <2>3 DEF Report, Phase, Ledger!Accept, UploadInv, TypeOK
  <2>4. ASSUME NEW s \in Slots, NEW f \in Files, NEW r \in Reports, StrangerReport(s, f, r)
        PROVE  Ledger!Accept(s)
    BY <2>4 DEF StrangerReport, Phase, Ledger!Accept, UploadInv, TypeOK
  <2>5. ASSUME NEW s \in Slots, CommitReport(s) PROVE Ledger!Apply(s)
    <3>1. row' = [row EXCEPT ![file[s]] = report[s]]
      BY <2>5 DEF CommitReport, Written
    <3>2. QED
      BY <2>5, <3>1 DEF CommitReport, Phase, Ledger!Apply, UploadInv, TypeOK
  <2>6. ASSUME NEW s \in Slots, Acknowledge(s) \/ FailReport(s) PROVE Ledger!Close(s)
    <3>1. pc[s] # "idle" /\ CloseReport(s) /\ UNCHANGED row
      BY <2>6 DEF Acknowledge, FailReport
    <3>2. /\ phase[s] # "none"
          /\ phase' = [phase EXCEPT ![s] = "none"]
      BY <3>1 DEF CloseReport, Phase, UploadInv, TypeOK
    <3>3. \A q \in Slots \ {s} : file'[q] = file[q] /\ report'[q] = report[q]
      BY <3>1 DEF CloseReport, UploadInv, TypeOK
    <3>4. QED
      BY <3>1, <3>2, <3>3 DEF Ledger!Close
  <2>7. ASSUME NEW s \in Slots, UpdateReport(s) PROVE UNCHANGED <<row, phase, file, report>>
    BY <2>7 DEF UpdateReport, Phase, UploadInv, TypeOK
  <2>8. CASE UNCHANGED <<row, pc, file, report>>
    BY <2>8 DEF Phase
  <2>9. QED
    BY <2>1, <2>2, <2>3, <2>4, <2>5, <2>6, <2>7, <2>8
       DEF Next, vars, UpdateStatus, RequestSTS, ReadFiles, ReplySTS, FailSTS, UploadChunk,
           FailUpload, RestartUpload, LoseCredentials, Proceed, Ledger!LedgerNext
<1>3. QED
  BY <1>1, <1>2, UploadInvariant, PTL DEF Spec, ImplementsLedger, Ledger!LedgerSpec
=============================================================================

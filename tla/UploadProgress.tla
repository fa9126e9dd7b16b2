--------------------------- MODULE UploadProgress ---------------------------
(***************************************************************************)
(* The upload of the files of one job by its agent: the rows of job_files, *)
(* the callers that create and administer them, the credentials of         *)
(* POST /upload/sts and the reports of POST /upload/progress.              *)
(*                                                                         *)
(* A report runs in a slot, statement by statement.  The server asks       *)
(* neither who reports about a file nor what was reported before, so       *)
(* beside the agent any authenticated client (`strangers') may report      *)
(* anything.  An agent that repeats a report while the server still holds  *)
(* the previous one uses two slots; `overlapped' remembers the files this  *)
(* has happened to, and `touched' those that somebody else wrote.          *)
(***************************************************************************)
EXTENDS Naturals, Sequences, FiniteSets

CONSTANTS
  Files,      \* the files of the job, all of them the agent's
  Foreign,    \* a file id of another agent
  Slots,      \* slots for progress requests
  NoFile,
  Total,      \* chunks of a file
  MaxStrangers, \* bound on the reports by others in the server at once
  MaxFaults   \* bound on failures, lost replies and lost credentials

ASSUME UploadAssumption ==
  /\ Foreign \notin Files
  /\ NoFile \notin Files
  /\ Total \in Nat \ {0}
  /\ MaxStrangers \in Nat
  /\ MaxFaults \in Nat

VARIABLES
  row,        \* each file's row, as a new transaction sees it
  pc,         \* of each slot: "idle", "sent", "updated" (the row is locked),
              \* "committed" (the answer is on its way)
  file,       \* the file it reports about
  report,     \* the status and chunks_completed it reports
  strangers,  \* slots of requests that another client than the agent has sent
  sts,        \* the STS request: "idle", "owned", "granted"
  asked,      \* its file_ids
  creds,      \* files the agent has credentials for
  work,       \* how far the agent is with each file: what it would report
  told,       \* files whose work the server has acknowledged
  overlapped, \* history: files with two reports of the agent in the server at once
  touched,    \* history: files that others wrote since the agent's last report
              \* of them took effect
  faults      \* faults so far

requestVars == <<pc, file, report, strangers>>
stsVars     == <<sts, asked>>
agentVars   == <<creds, work, told>>
historyVars == <<overlapped, touched>>
vars == <<row, requestVars, stsVars, agentVars, historyVars, faults>>

(* The statuses of a file.  The server treats PAUSED as it treats UPLOADING *)
(* and PAUSED_USER as CANCELLED, so each pair has one name here.           *)
FileStatus == {"DISCOVERED", "PRE_REGISTERED", "UPLOADING", "SYNCED", "FAILED",
               "CANCELLED"}

(* The statuses a ProgressRequest may have. *)
ReportStatuses == {"UPLOADING", "SYNCED", "FAILED"}

Reports == [status : ReportStatuses, done : 0..Total]

Absent   == [status |-> "absent", done |-> 0]
NoReport == [status |-> "none", done |-> 0]

Exists(f) == row[f] # Absent

TypeOK ==
  /\ row \in [Files -> [status : FileStatus, done : 0..Total] \union {Absent}]
  /\ pc \in [Slots -> {"idle", "sent", "updated", "committed"}]
  /\ file \in [Slots -> Files \union {NoFile}]
  /\ report \in [Slots -> Reports \union {NoReport}]
  /\ strangers \subseteq Slots
  /\ sts \in {"idle", "owned", "granted"}
  /\ asked \in Seq(Files)
  /\ creds \subseteq Files
  /\ work \in [Files -> Reports]
  /\ told \subseteq Files
  /\ overlapped \subseteq Files
  /\ touched \subseteq Files
  /\ faults \in 0..MaxFaults

Init ==
  /\ row = [f \in Files |-> Absent]
  /\ pc = [s \in Slots |-> "idle"]
  /\ file = [s \in Slots |-> NoFile]
  /\ report = [s \in Slots |-> NoReport]
  /\ strangers = {}
  /\ sts = "idle"
  /\ asked = <<>>
  /\ creds = {}
  /\ work = [f \in Files |-> [status |-> "UPLOADING", done |-> 0]]
  /\ told = {}
  /\ overlapped = {}
  /\ touched = {}
  /\ faults = 0

Fault == faults < MaxFaults /\ faults' = faults + 1

(* The agent has a report about f in the server. *)
Reporting(f) == \E s \in Slots \ strangers : file[s] = f

Asking(f) == \E i \in DOMAIN asked : asked[i] = f

-----------------------------------------------------------------------------
(* Callers that administer the files and commit.  Each is one step, at its *)
(* commit; its UPDATE has waited for the rows that reports have locked.    *)

LockedByReport(f) == \E s \in Slots : pc[s] = "updated" /\ file[s] = f

(* The rows bulk_create inserts: with any initial_status. *)
NewRows == [status : FileStatus, done : {0}]

BulkCreate(F, new) ==
  /\ \A f \in F : ~Exists(f)
  /\ row' = [f \in Files |-> IF f \in F THEN new ELSE row[f]]
  /\ UNCHANGED <<requestVars, stsVars, agentVars, historyVars, faults>>

(* bulk_update_status, to any status from any: it has no condition. *)
BulkUpdateStatus(F, status) ==
  /\ \A f \in F : Exists(f) /\ ~LockedByReport(f)
  /\ row' = [f \in Files |-> IF f \in F THEN [row[f] EXCEPT !.status = status]
                                        ELSE row[f]]
  /\ touched' = touched \union F
  /\ UNCHANGED <<requestVars, stsVars, agentVars, overlapped, faults>>

(* update_status, by which pre-registration leaves its oa_asset_id. *)
UpdateStatus(f, status) == BulkUpdateStatus({f}, status)

-----------------------------------------------------------------------------
(* Credentials: POST /upload/sts *)

(* Mutant of OwnsAll: one owned file is enough. *)
MutantOwnsAll(ids) == \E i \in DOMAIN ids : ids[i] \in Files

(* verify_agent_ownership: the number of rows that match, which are        *)
(* distinct, against the length of the list, which need not be.            *)
OwnsAll(ids) ==
  Cardinality({f \in Files : Exists(f) /\ \E i \in DOMAIN ids : ids[i] = f}) = Len(ids)

(* The agent asks for files it has no credentials for.  The job is found   *)
(* and the count is right; otherwise the answer is 404 or 403.             *)
RequestSTS(ids) ==
  /\ sts = "idle"
  /\ \A i \in DOMAIN ids : ids[i] \notin creds
  /\ OwnsAll(ids)
  /\ sts' = "owned"
  /\ asked' = ids
  /\ UNCHANGED <<row, requestVars, agentVars, historyVars, faults>>

CloseSTS == sts' = "idle" /\ asked' = <<>>

(* The loop over the files of the job lets PRE_REGISTERED ones pass only. *)
Uploadable(f) == row[f].status = "PRE_REGISTERED"

(* find_by_job_id and that loop.  Issuing the credentials does not suspend *)
(* the request.                                                            *)
ReadFiles ==
  /\ sts = "owned"
  /\ IF \A f \in Files : Asking(f) => Uploadable(f)
       THEN sts' = "granted" /\ UNCHANGED asked
       ELSE CloseSTS
  /\ UNCHANGED <<row, requestVars, agentVars, historyVars, faults>>

(* The files that issue_sts_credentials names a target for. *)
UploadTargets == {asked[i] : i \in DOMAIN asked}

(* The agent gets the credentials ... *)
ReplySTS ==
  /\ sts = "granted"
  /\ creds' = creds \union UploadTargets
  /\ CloseSTS
  /\ UNCHANGED <<row, requestVars, work, told, historyVars, faults>>

(* ... or the request fails, or its reply is lost. *)
FailSTS ==
  /\ sts # "idle"
  /\ Fault
  /\ CloseSTS
  /\ UNCHANGED <<row, requestVars, agentVars, historyVars>>

-----------------------------------------------------------------------------
(* The agent *)

(* Its work on f changes, which the server does not know yet. *)
Proceed(f, status, done) ==
  /\ work' = [work EXCEPT ![f] = [status |-> status, done |-> done]]
  /\ told' = told \ {f}
  /\ UNCHANGED <<row, requestVars, stsVars, creds, historyVars>>

UploadChunk(f) ==
  /\ f \in creds
  /\ work[f].status = "UPLOADING"
  /\ Proceed(f, IF work[f].done + 1 = Total THEN "SYNCED" ELSE "UPLOADING",
             work[f].done + 1)
  /\ UNCHANGED faults

FailUpload(f) ==
  /\ f \in creds
  /\ work[f].status = "UPLOADING"
  /\ Fault
  /\ Proceed(f, "FAILED", work[f].done)

(* A failed upload starts again from its first chunk. *)
RestartUpload(f) ==
  /\ f \in creds
  /\ work[f].status = "FAILED"
  /\ Proceed(f, "UPLOADING", 0)
  /\ UNCHANGED faults

(* The credentials expire, or the agent restarts without them. *)
LoseCredentials(f) ==
  /\ f \in creds
  /\ Fault
  /\ creds' = creds \ {f}
  /\ UNCHANGED <<row, requestVars, stsVars, work, told, historyVars>>

-----------------------------------------------------------------------------
(* Reports: POST /upload/progress *)

(* The agent reports what it has not been acknowledged. *)
Report(s, f) ==
  /\ pc[s] = "idle"
  /\ f \in creds \ told
  /\ pc' = [pc EXCEPT ![s] = "sent"]
  /\ file' = [file EXCEPT ![s] = f]
  /\ report' = [report EXCEPT ![s] = work[f]]
  /\ overlapped' = overlapped \union (IF Reporting(f) THEN {f} ELSE {})
  /\ UNCHANGED <<row, strangers, stsVars, agentVars, touched, faults>>

(* Another authenticated client, or the agent out of its order, reports    *)
(* anything about any file that exists (404 or 500 otherwise): neither     *)
(* agent_id nor job_id is compared with the file's.                        *)
StrangerReport(s, f, r) ==
  /\ pc[s] = "idle"
  /\ Cardinality(strangers) < MaxStrangers
  /\ Exists(f)
  /\ pc' = [pc EXCEPT ![s] = "sent"]
  /\ file' = [file EXCEPT ![s] = f]
  /\ report' = [report EXCEPT ![s] = r]
  /\ strangers' = strangers \union {s}
  /\ UNCHANGED <<row, stsVars, agentVars, historyVars, faults>>

CloseReport(s) ==
  /\ pc' = [pc EXCEPT ![s] = "idle"]
  /\ file' = [file EXCEPT ![s] = NoFile]
  /\ report' = [report EXCEPT ![s] = NoReport]
  /\ strangers' = strangers \ {s}

(* Mutant of UpdateReport: only a file that is UPLOADING can be SYNCED. *)
MutantUpdateReport(s) ==
  /\ pc[s] = "sent"
  /\ ~LockedByReport(file[s])
  /\ IF report[s].status = "SYNCED" /\ row[file[s]].status # "UPLOADING"
       THEN CloseReport(s)
       ELSE pc' = [pc EXCEPT ![s] = "updated"] /\ UNCHANGED <<file, report, strangers>>
  /\ UNCHANGED <<row, stsVars, agentVars, historyVars, faults>>

(* update_file_status: UPDATE ... WHERE id, once the row is not locked,    *)
(* whatever its status is.                                                 *)
UpdateReport(s) ==
  /\ pc[s] = "sent"
  /\ ~LockedByReport(file[s])
  /\ pc' = [pc EXCEPT ![s] = "updated"]
  /\ UNCHANGED <<row, file, report, strangers, stsVars, agentVars, historyVars, faults>>

(* Mutant of Written: zero counts as not given. *)
MutantWritten(f, r) == [r EXCEPT !.done = IF @ = 0 THEN row[f].done ELSE @]

(* The values it writes: every field the request gives. *)
Written(f, r) == r

(* Mutant of CommitReport: the route answers without a commit. *)
MutantCommitReport(s) ==
  /\ pc[s] = "updated"
  /\ pc' = [pc EXCEPT ![s] = "committed"]
  /\ UNCHANGED <<row, file, report, strangers, stsVars, agentVars, historyVars, faults>>

CommitReport(s) ==
  /\ pc[s] = "updated"
  /\ row' = [row EXCEPT ![file[s]] = Written(file[s], report[s])]
  /\ pc' = [pc EXCEPT ![s] = "committed"]
  /\ touched' = IF s \in strangers THEN touched \union {file[s]} ELSE touched \ {file[s]}
  /\ UNCHANGED <<file, report, strangers, stsVars, agentVars, overlapped, faults>>

(* The acknowledgement reaches the client; the agent may have gone on. *)
Acknowledge(s) ==
  /\ pc[s] = "committed"
  /\ told' = IF s \notin strangers /\ work[file[s]] = report[s]
               THEN told \union {file[s]} ELSE told
  /\ CloseReport(s)
  /\ UNCHANGED <<row, stsVars, creds, work, historyVars, faults>>

(* The request fails before its commit and is rolled back, or its answer   *)
(* is lost.                                                                *)
FailReport(s) ==
  /\ pc[s] # "idle"
  /\ Fault
  /\ CloseReport(s)
  /\ UNCHANGED <<row, stsVars, agentVars, historyVars>>

-----------------------------------------------------------------------------

(* The lists of one or two file ids. *)
FileLists == UNION {[1..n -> Files \union {Foreign}] : n \in 1..2}

Next ==
  \/ \E F \in SUBSET Files \ {{}} :
       \/ \E new \in NewRows : BulkCreate(F, new)
       \/ \E status \in FileStatus : BulkUpdateStatus(F, status)
  \/ \E f \in Files, status \in FileStatus : UpdateStatus(f, status)
  \/ \E ids \in FileLists : RequestSTS(ids)
  \/ ReadFiles \/ ReplySTS \/ FailSTS
  \/ \E f \in Files : \/ UploadChunk(f) \/ FailUpload(f) \/ RestartUpload(f)
                      \/ LoseCredentials(f)
  \/ \E s \in Slots : \/ \E f \in Files : \/ Report(s, f)
                                          \/ \E r \in Reports : StrangerReport(s, f, r)
                      \/ UpdateReport(s) \/ CommitReport(s) \/ Acknowledge(s)
                      \/ FailReport(s)

Spec == Init /\ [][Next]_vars

(***************************************************************************)
(* Statements return, transactions end and replies arrive; agents ask for  *)
(* each file by itself, go on uploading, start again and report what has   *)
(* not been acknowledged, whenever a slot is free.  PostgreSQL grants a    *)
(* row lock to whoever waits for it, so an UPDATE is not overtaken for     *)
(* ever.  Nobody has to create or administer files or to report about      *)
(* those of others, and faults are bounded.                                *)
(***************************************************************************)
Fairness ==
  /\ WF_vars(ReadFiles) /\ WF_vars(ReplySTS)
  /\ \A s \in Slots :
       SF_vars(UpdateReport(s)) /\ WF_vars(CommitReport(s)) /\ WF_vars(Acknowledge(s))
  /\ \A f \in Files :
       /\ SF_vars(RequestSTS(<<f>>))
       /\ WF_vars(UploadChunk(f)) /\ WF_vars(RestartUpload(f))
       /\ SF_vars(\E s \in Slots : Report(s, f))

FairSpec == Spec /\ Fairness

-----------------------------------------------------------------------------
(* Properties *)

(* What the agent has been acknowledged is what the row says, whatever     *)
(* failed, was rolled back or got lost before, unless somebody else has    *)
(* written the row since or two reports of the agent met in the server.    *)
ToldIsStored == \A f \in told \ (overlapped \union touched) : row[f] = work[f]

(* An upload whose agent has lost its credentials: STS refuses to renew    *)
(* them once the file has left PRE_REGISTERED.                             *)
Stranded(f) == f \notin creds /\ row[f].status \in ReportStatuses

(* A pre-registered file that its agent has yet to upload is eventually    *)
(* SYNCED, through lost replies, failures and the reports of others,       *)
(* unless a caller cancels it or takes its registration back, its agent's  *)
(* reports overlap, or it is left without credentials.                     *)
UploadsEnd ==
  \A f \in Files : row[f].status = "PRE_REGISTERED" /\ work[f].status # "SYNCED" ~>
    \/ row[f].status \in {"SYNCED", "CANCELLED", "DISCOVERED"}
    \/ f \in overlapped
    \/ Stranded(f)

(***************************************************************************)
(* The table implements UploadLedger: a report takes effect when its       *)
(* transaction commits, however requests overlap and fail.                 *)
(***************************************************************************)
Phase(s) ==
  CASE pc[s] = "idle" -> "none"
    [] pc[s] \in {"sent", "updated"} -> "pending"
    [] pc[s] = "committed" -> "applied"

Ledger == INSTANCE UploadLedger WITH
            ledger <- row, phase <- [s \in Slots |-> Phase(s)],
            Created <- NewRows, Statuses <- FileStatus

ImplementsLedger == Ledger!LedgerSpec

-----------------------------------------------------------------------------
(* Inductive invariants, for the proofs *)

(* Requests are about files that exist, which no caller deletes; one       *)
(* report at a time has a row locked; an upload in progress is incomplete. *)
RequestsAreSound ==
  /\ \A s \in Slots : IF pc[s] = "idle"
                      THEN file[s] = NoFile /\ report[s] = NoReport /\ s \notin strangers
                      ELSE file[s] \in Files /\ Exists(file[s]) /\ report[s] \in Reports
  /\ \A s, q \in Slots :
       pc[s] = "updated" /\ pc[q] = "updated" /\ file[s] = file[q] => s = q
  /\ sts = "idle" => asked = <<>>
  /\ \A f \in Files : Asking(f) \/ f \in creds \union told => Exists(f)
  /\ \A f \in Files : work[f].status = "UPLOADING" => work[f].done < Total

UploadInv == TypeOK /\ RequestsAreSound

(* The row says what r reported, or somebody else has written it since. *)
Kept(f, r) == row[f] = r \/ f \in touched

(* A file whose reports never met has one of them in the server at most;   *)
(* what is committed is kept, and what is acknowledged is not repeated.    *)
OneReportPerFile ==
  \A f \in Files \ overlapped :
    /\ \A s, q \in Slots \ strangers : file[s] = f /\ file[q] = f => s = q
    /\ f \in told => ~Reporting(f) /\ Kept(f, work[f])
    /\ \A s \in Slots \ strangers : file[s] = f /\ pc[s] = "committed" => Kept(f, report[s])
=============================================================================

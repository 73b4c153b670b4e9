---------------------------- MODULE SampleImports ----------------------------
(***************************************************************************)
(* One sample of an external dataset: imported under an approval into a    *)
(* quarantine directory, screened, reviewed, reported on and deleted.      *)
(*                                                                         *)
(*   backend/services/dataset_sample_*_service.py                          *)
(*   backend/database/repositories/dataset_sample_import.py                *)
(*   backend/api/routes/dataset_sample_import.py                           *)
(*                                                                         *)
(* The server handles one request at a time, but every repository call is  *)
(* a transaction of its own and files are written between them.  A request *)
(* that dies leaves what its first steps did.  So an operation is one      *)
(* action whose choices say how far it came; nothing runs between its      *)
(* steps, hence the states in the middle are exactly those of a request    *)
(* that died there.                                                        *)
(***************************************************************************)
EXTENDS Integers, Sequences, FiniteSets

CONSTANTS
    Names,       \* file names in original/
    NoPayload,   \* no file of that name
    Prints,      \* fingerprints of the verification case
    Cases,       \* states of that case: its fingerprint, and whether it passes the gate
    Sizes,       \* sizes of a downloaded file
    Limits,      \* byte limits an admin approves
    Reopen,      \* TRUE: an import is used again after its deletion was requested
    CheckedPage, \* how many records the quality checks look at (100)
    MaxFiles, MaxRecords, MaxIssues \* bounds: rows of each kind

ASSUME NamesAssumption   == NoPayload \notin [size: Sizes, safe: BOOLEAN]
ASSUME CasesAssumption   == Cases \subseteq [print: Prints, eligible: BOOLEAN]
ASSUME SizesAssumption   == Sizes \subseteq Nat \ {0} /\ Limits \subseteq Nat \ {0}
ASSUME ReopenAssumption  == Reopen \in BOOLEAN
ASSUME CheckedAssumption == CheckedPage \in Nat
ASSUME BoundsAssumption  == {MaxFiles, MaxRecords, MaxIssues} \subseteq Nat

VARIABLES
    case,     \* the verification case the import belongs to
    imp,      \* the row of external_dataset_sample_imports
    approval, \* the latest row of its approvals: no operation uses another
    disk,     \* the files in original/, by name
    part,     \* bytes of temporary files left there by downloads that died
    files,    \* rows of external_dataset_sample_files, by id
    scans,    \* files with a scan result: file and verdict
    accepted, \* files that a review accepted
    records,  \* rows of external_dataset_sample_records, by id
    open,     \* for each record its issues nobody has decided, by severity
    report,   \* the eligibility the latest report states
    deletion  \* the status of the latest deletion request

vars == <<case, imp, approval, disk, part, files, scans, accepted, records, open, report, deletion>>

evidence == <<scans, accepted, records, open>>
payload  == <<disk, part, files>>

(* The statuses some operation writes. *)
Statuses == {"absent", "draft", "awaiting_approval", "approved", "downloading", "scanning",
             "validated", "validated_with_conditions", "rejected", "cancelled", "deleted"}

(* blocked: a finding with status 'blocked', of any category.  pii: a      *)
(* finding of personal data that is possible, likely or confirmed.         *)
Severities == {"blocked", "pii"}

Payload == [size: Sizes, safe: BOOLEAN]
(* blocked: any verdict of file validation but safe_for_scan. *)
File    == [name: Names, status: {"pending", "safe_for_scan", "blocked", "corrupt", "validated"}]
Record  == [file: Nat, safe: BOOLEAN, status: {"normalized", "accepted", "excluded"}]

TypeOK ==
    /\ case \in Cases
    /\ imp \in [status: Statuses, locked: BOOLEAN, eligible: BOOLEAN]
    /\ approval \in [status: {"none", "pending", "approved", "lapsed", "rejected"},
                     print: Prints, limit: Limits \cup {0}]
    /\ disk \in [Names -> Payload \cup {NoPayload}]
    /\ part \in Nat
    /\ files \in Seq(File)
    /\ scans \subseteq (DOMAIN files) \X {"clean_by_policy", "blocked"}
    /\ accepted \subseteq DOMAIN files
    /\ records \in Seq(Record)
    /\ open \in [1 .. MaxRecords -> [Severities -> 0 .. MaxIssues]]
    /\ report \in {"none", "eligible", "not_eligible"}
    /\ deletion \in {"none", "requested", "confirmed", "executed"}

Init ==
    /\ case \in Cases
    /\ imp = [status |-> "absent", locked |-> FALSE, eligible |-> FALSE]
    /\ approval = [status |-> "none", print |-> case.print, limit |-> 0]
    /\ disk = [n \in Names |-> NoPayload]
    /\ part = 0
    /\ files = <<>>
    /\ scans = {}
    /\ accepted = {}
    /\ records = <<>>
    /\ open = [r \in 1 .. MaxRecords |-> [s \in Severities |-> 0]]
    /\ report = "none"
    /\ deletion = "none"

-----------------------------------------------------------------------------
(* The approval.  It lapses when its expires_at passes; the row does not   *)
(* show that, the date does.                                               *)

Exists == imp.status # "absent"

(* update_sample_import: raises once the import is locked. *)
Moved(status) == imp' = IF imp.locked THEN imp ELSE [imp EXCEPT !.status = status]

Reopened == Reopen \/ deletion = "none"

CreateSampleImport ==
    /\ ~Exists
    /\ case.eligible
    /\ imp' = [imp EXCEPT !.status = "draft"]
    /\ UNCHANGED <<case, approval, payload, evidence, report, deletion>>

RequestApproval ==
    /\ Exists /\ Reopened
    /\ ~imp.locked
    /\ approval' = [status |-> "pending", print |-> case.print, limit |-> 0]
    /\ imp' = [imp EXCEPT !.status = "awaiting_approval"]
    /\ UNCHANGED <<case, payload, evidence, report, deletion>>

(* is_stale *)
Fresh == approval.print = case.print

Approve(limit) ==
    /\ Reopened
    /\ approval.status = "pending"
    /\ Fresh
    /\ approval' = [approval EXCEPT !.status = "approved", !.limit = limit]
    /\ imp' = [imp EXCEPT !.status = "approved"]
    /\ UNCHANGED <<case, payload, evidence, report, deletion>>

Reject ==
    /\ approval.status = "pending"
    /\ approval' = [approval EXCEPT !.status = "rejected"]
    /\ imp' = [imp EXCEPT !.status = "rejected"]
    /\ UNCHANGED <<case, payload, evidence, report, deletion>>

Cancel ==
    /\ Exists
    /\ ~imp.locked
    /\ imp' = [imp EXCEPT !.status = "cancelled"]
    /\ UNCHANGED <<case, approval, payload, evidence, report, deletion>>

-----------------------------------------------------------------------------
(* Downloads.  original_bytes_used adds up whatever lies in original/.     *)

Bytes(n) == IF disk[n] = NoPayload THEN 0 ELSE disk[n].size

(* A stored byte is a place in a file. *)
StoredBytes == UNION {{n} \X (1 .. Bytes(n)) : n \in Names}

Used == part + Cardinality(StoredBytes)

(* _require_approved *)
Approved == approval.status = "approved" /\ Fresh

(* Mutant: the quota is taken from finished files only. *)
RemainingOfFiles == approval.limit - (Used - part)

Remaining == approval.limit - Used

Row(n, status) == [name |-> n, status |-> status]

(* The file's row comes first; without a quota, or when the status cannot  *)
(* be moved because the import is locked, it is all that comes.            *)
DownloadEnds(n) ==
    /\ files' = Append(files, Row(n, "pending"))
    /\ UNCHANGED <<imp, disk, part>>

(* A temporary file grows up to the limit.  An error of the connection     *)
(* removes it and is not caught, so the row stays pending; a request that  *)
(* dies leaves it.                                                         *)
DownloadDies(n) ==
    /\ files' = Append(files, Row(n, "pending"))
    /\ Moved("downloading")
    /\ \E bytes \in 0 .. Remaining : part' = part + bytes
    /\ UNCHANGED disk

(* Refused or over the limit, or the name is taken. *)
DownloadFails(n) ==
    /\ files' = Append(files, Row(n, "corrupt"))
    /\ Moved("downloading")
    /\ UNCHANGED <<disk, part>>

(* The file appears under its name in one step.  Its size and checksum are *)
(* written later, and the row is pending before and after that.            *)
DownloadCompletes(n) ==
    /\ disk[n] = NoPayload
    /\ \E p \in Payload : p.size <= Remaining /\ disk' = [disk EXCEPT ![n] = p]
    /\ files' = Append(files, Row(n, "pending"))
    /\ Moved("downloading")
    /\ UNCHANGED part

DownloadFile(n) ==
    /\ Reopened
    /\ imp.status \in {"approved", "downloading"}
    /\ Approved
    /\ Len(files) < MaxFiles
    /\ \/ DownloadEnds(n)
       \/ /\ Remaining > 0
          /\ ~imp.locked
          /\ \/ DownloadDies(n)
             \/ DownloadFails(n)
             \/ DownloadCompletes(n)
    /\ UNCHANGED <<case, approval, evidence, report, deletion>>

-----------------------------------------------------------------------------
(* The pipeline.  Each pass goes through the rows in order and stops where *)
(* the request dies; last is where it did.                                 *)

OnDisk(f) == disk[files[f].name] # NoPayload

ValidateFiles ==
    /\ Exists
    /\ \E last \in 0 .. Len(files) : \E clean \in SUBSET (1 .. last) :
          files' = [f \in DOMAIN files |->
                      IF f <= last /\ files[f].status = "pending" /\ OnDisk(f)
                      THEN [files[f] EXCEPT !.status =
                              IF f \in clean THEN "safe_for_scan" ELSE "blocked"]
                      ELSE files[f]]
    /\ UNCHANGED <<case, imp, approval, disk, part, evidence, report, deletion>>

Scannable(f) == files[f].status \in {"safe_for_scan", "validated"} /\ OnDisk(f)

(* Mutant: the scan marks whatever it has looked at. *)
VerdictIgnored(f) == "clean_by_policy"

Verdict(f) == IF disk[files[f].name].safe THEN "clean_by_policy" ELSE "blocked"

(* A result is recorded before the file is marked, in two transactions:    *)
(* marked is last, or one less.  The status moves at the very end.         *)
ScanFiles ==
    /\ Exists
    /\ \E last \in 0 .. Len(files) : \E marked \in {last - 1, last} :
          /\ scans' = scans \cup {<<f, Verdict(f)>> : f \in {g \in 1 .. last : Scannable(g)}}
          /\ files' = [f \in DOMAIN files |->
                         IF f <= marked /\ Scannable(f) /\ Verdict(f) # "blocked"
                         THEN [files[f] EXCEPT !.status = "validated"] ELSE files[f]]
          /\ \/ marked = Len(files) /\ Moved("scanning")
             \/ UNCHANGED imp
    /\ UNCHANGED <<case, approval, disk, part, accepted, records, open, report, deletion>>

(* One record stands for those of a file; a file may also fail to parse.   *)
(* Every pass adds the records anew.                                       *)
ParseFiles ==
    /\ Exists
    /\ Len(records) < MaxRecords
    /\ \E f \in DOMAIN files :
          /\ files[f].status = "validated"
          /\ OnDisk(f)
          /\ records' = Append(records, [file |-> f, safe |-> disk[files[f].name].safe,
                                         status |-> "normalized"])
    /\ UNCHANGED <<case, imp, approval, payload, scans, accepted, open, report, deletion>>

(* Quality, personal-data and safety checks of the first page of records.  *)
RunQualityChecks ==
    /\ Exists
    /\ \E r \in 1 .. Len(records), s \in Severities :
          /\ r <= CheckedPage
          /\ open[r][s] < MaxIssues
          /\ open' = [open EXCEPT ![r][s] = @ + 1]
    /\ UNCHANGED <<case, imp, approval, payload, scans, accepted, records, report, deletion>>

-----------------------------------------------------------------------------
(* Reviews: of a file, an issue, a record.  None looks at the lock. *)

ReviewFile(f) ==
    /\ accepted' = accepted \cup {f}
    /\ UNCHANGED <<case, imp, approval, payload, scans, records, open, report, deletion>>

ReviewIssue(r, s) ==
    /\ open[r][s] > 0
    /\ open' = [open EXCEPT ![r][s] = @ - 1]
    /\ UNCHANGED <<case, imp, approval, payload, scans, accepted, records, report, deletion>>

ReviewRecord(r, status) ==
    /\ records' = [records EXCEPT ![r].status = status]
    /\ UNCHANGED <<case, imp, approval, payload, scans, accepted, open, report, deletion>>

-----------------------------------------------------------------------------
(* The report. *)

UnreviewedScans == {f \in DOMAIN files : <<f, "blocked">> \in scans /\ f \notin accepted}
OpenIssues(s)   == {r \in DOMAIN records : open[r][s] > 0}
AcceptedRecords == {r \in DOMAIN records : records[r].status = "accepted"}

(* Mutant: only blocked findings are looked at. *)
EligibleDespitePii == case.eligible /\ AcceptedRecords # {}

(* rag_sandbox_eligible *)
Eligible == case.eligible /\ OpenIssues("pii") = {} /\ AcceptedRecords # {}

(* Mutant: the report is written after the lock, by a request that may die. *)
FinalizeLockFirst ==
    /\ Exists
    /\ ~imp.locked
    /\ UnreviewedScans = {}
    /\ OpenIssues("blocked") = {}
    /\ imp' = [status |-> IF Eligible THEN "validated" ELSE "validated_with_conditions",
               locked |-> TRUE, eligible |-> Eligible]
    /\ report' \in {report, IF Eligible THEN "eligible" ELSE "not_eligible"}
    /\ UNCHANGED <<case, approval, payload, evidence, deletion>>

(* add_report and lock_sample_import are two transactions. *)
Finalize ==
    /\ Exists
    /\ ~imp.locked
    /\ UnreviewedScans = {}
    /\ OpenIssues("blocked") = {}
    /\ report' = IF Eligible THEN "eligible" ELSE "not_eligible"
    /\ \/ UNCHANGED imp
       \/ imp' = [status |-> IF Eligible THEN "validated" ELSE "validated_with_conditions",
                  locked |-> TRUE, eligible |-> Eligible]
    /\ UNCHANGED <<case, approval, payload, evidence, deletion>>

-----------------------------------------------------------------------------
(* Deletion.  The endpoint confirms and executes the latest request: the   *)
(* confirmation, the directories, the import's row, the execution's row.   *)

RequestDeletion ==
    /\ Exists
    /\ deletion' = "requested"
    /\ UNCHANGED <<case, imp, approval, payload, evidence, report>>

(* Mutant: the row is marked before the directories are removed. *)
ExecuteDeletionRowFirst ==
    /\ deletion # "none"
    /\ \E steps \in 1 .. 4 :
          /\ deletion' = IF steps = 4 THEN "executed" ELSE "confirmed"
          /\ IF steps >= 3
             THEN disk' = [n \in Names |-> NoPayload] /\ part' = 0
             ELSE UNCHANGED <<disk, part>>
          /\ imp' = IF steps >= 2 THEN [imp EXCEPT !.status = "deleted"] ELSE imp
    /\ UNCHANGED <<case, approval, files, evidence, report>>

ExecuteDeletion ==
    /\ deletion # "none"
    /\ \E steps \in 1 .. 4 :
          /\ deletion' = IF steps = 4 THEN "executed" ELSE "confirmed"
          /\ IF steps >= 2
             THEN disk' = [n \in Names |-> NoPayload] /\ part' = 0
             ELSE UNCHANGED <<disk, part>>
          /\ imp' = IF steps >= 3 THEN [imp EXCEPT !.status = "deleted"] ELSE imp
    /\ UNCHANGED <<case, approval, files, evidence, report>>

-----------------------------------------------------------------------------
(* The environment: the verification case is worked on, time passes. *)

CaseChanges ==
    /\ case' \in Cases \ {case}
    /\ UNCHANGED <<imp, approval, payload, evidence, report, deletion>>

ApprovalExpires ==
    /\ approval.status = "approved"
    /\ approval' = [approval EXCEPT !.status = "lapsed"]
    /\ UNCHANGED <<case, imp, payload, evidence, report, deletion>>

Next ==
    \/ CreateSampleImport \/ RequestApproval \/ Reject \/ Cancel
    \/ \E limit \in Limits : Approve(limit)
    \/ \E n \in Names : DownloadFile(n)
    \/ ValidateFiles \/ ScanFiles \/ ParseFiles \/ RunQualityChecks
    \/ \E f \in DOMAIN files : ReviewFile(f)
    \/ \E r \in DOMAIN records, s \in Severities : ReviewIssue(r, s)
    \/ \E r \in DOMAIN records, status \in {"accepted", "excluded"} : ReviewRecord(r, status)
    \/ Finalize \/ RequestDeletion \/ ExecuteDeletion
    \/ CaseChanges \/ ApprovalExpires

Spec == Init /\ [][Next]_vars

-----------------------------------------------------------------------------
(* No record is ever made of content the security scan would block: what   *)
(* is parsed was scanned, whatever downloads and passes died before.       *)
UnsafeIsNeverParsed == \A r \in DOMAIN records : records[r].safe

(* The quarantine grows only under an approval that still stands, and not  *)
(* beyond its limit, leftovers of downloads that died included.            *)
BytesWithinApproval ==
    [][Used' > Used => Approved /\ Used' <= approval.limit]_vars

(* Therefore it never holds more than some admin has approved. *)
QuarantineIsBounded == \E limit \in Limits \cup {0} : Used <= limit

(* An import marked deleted has no payload left, and a deletion is         *)
(* reported executed only after both.                                      *)
DeletedIsEmpty ==
    imp.status = "deleted" \/ (deletion = "executed" /\ ~Reopen)
       => part = 0 /\ \A n \in Names : disk[n] = NoPayload

(* A locked import has the eligibility of the latest report, though a      *)
(* finalization that died may have left reports before it.                 *)
FinalReportStands ==
    imp.locked => report = IF imp.eligible THEN "eligible" ELSE "not_eligible"

(* An import becomes eligible for the sandbox with an accepted record made *)
(* of scanned content, no personal data undecided and no block unreviewed. *)
EligibleWasScreened ==
    [][imp'.eligible /\ ~imp.eligible =>
          /\ \E r \in AcceptedRecords :
                records[r].safe /\ <<records[r].file, "clean_by_policy">> \in scans
          /\ \A r \in DOMAIN records, s \in Severities : open[r][s] = 0
          /\ \A f \in DOMAIN files : <<f, "blocked">> \in scans => f \in accepted]_vars

(* mark_sample_import_deleted is "the one deliberate exception to 'no      *)
(* further mutation once locked'" (dataset_sample_import.py:1446).         *)
LockedIsOnlyDeleted ==
    [][imp.locked => imp' = imp \/ imp' = [imp EXCEPT !.status = "deleted"]]_vars
=============================================================================

------------------------ MODULE SampleImports_proofs ------------------------
(***************************************************************************)
(* Theorems about SampleImports, for any names, cases, sizes, limits and   *)
(* bounds:                                                                 *)
(*                                                                         *)
(*   ImportsTyped        every row keeps its type                          *)
(*   EmptyWhenDeleted    what is marked deleted has no payload             *)
(*   ReportBehindLock    a locked import agrees with its latest report     *)
(*   ScreenedBeforeUse   nothing unsafe is parsed         (without Reopen) *)
(*   EligibleIsScreened  what the sandbox may use was screened  (likewise) *)
(*   GrowthApproved      the quarantine grows only as far as was approved  *)
(*   QuarantineSmall     and so is never larger than some approved limit   *)
(***************************************************************************)
EXTENDS SampleImports, FiniteSetTheorems, TLAPS

(* Every step by the group of variables it writes. *)
AdminStep ==
    \/ CreateSampleImport \/ RequestApproval \/ Reject \/ Cancel
    \/ \E limit \in Limits : Approve(limit)
    \/ Finalize \/ CaseChanges \/ ApprovalExpires

ReviewStep ==
    \/ RunQualityChecks
    \/ \E f \in DOMAIN files : ReviewFile(f)
    \/ \E r \in DOMAIN records, s \in Severities : ReviewIssue(r, s)
    \/ \E r \in DOMAIN records, status \in {"accepted", "excluded"} : ReviewRecord(r, status)

DownloadStep == \E n \in Names : DownloadFile(n)

DeletionStep == RequestDeletion \/ ExecuteDeletion

LEMMA StepsGrouped ==
    Next => AdminStep \/ ReviewStep \/ DownloadStep \/ DeletionStep
              \/ ValidateFiles \/ ScanFiles \/ ParseFiles
  BY DEF Next, AdminStep, ReviewStep, DownloadStep, DeletionStep

LEMMA AdminLeavesPayload ==
    AdminStep => UNCHANGED <<disk, part, files, scans, accepted, records, open, deletion>>
  BY DEF AdminStep, CreateSampleImport, RequestApproval, Reject, Cancel, Approve, Finalize,
         CaseChanges, ApprovalExpires, payload, evidence

LEMMA ReviewLeavesPayload ==
    ReviewStep => UNCHANGED <<case, imp, approval, disk, part, files, scans, report, deletion>>
  BY DEF ReviewStep, RunQualityChecks, ReviewFile, ReviewIssue, ReviewRecord, payload

-----------------------------------------------------------------------------
(* Typing, by rows and payload. *)

ImportRow == [status: Statuses, locked: BOOLEAN, eligible: BOOLEAN]

ApprovalRow == [status: {"none", "pending", "approved", "lapsed", "rejected"},
                print: Prints, limit: Limits \cup {0}]

RowsTyped ==
    /\ case \in Cases
    /\ imp \in ImportRow
    /\ approval \in ApprovalRow
    /\ report \in {"none", "eligible", "not_eligible"}
    /\ deletion \in {"none", "requested", "confirmed", "executed"}

PayloadTyped ==
    /\ disk \in [Names -> Payload \cup {NoPayload}]
    /\ part \in Nat
    /\ files \in Seq(File)

EvidenceTyped ==
    /\ scans \subseteq (DOMAIN files) \X {"clean_by_policy", "blocked"}
    /\ accepted \subseteq DOMAIN files
    /\ records \in Seq(Record)
    /\ open \in [1 .. MaxRecords -> [Severities -> 0 .. MaxIssues]]

LEMMA TypeInParts == TypeOK <=> RowsTyped /\ PayloadTyped /\ EvidenceTyped
  BY DEF TypeOK, RowsTyped, PayloadTyped, EvidenceTyped, ImportRow, ApprovalRow

LEMMA CasePrint == case \in Cases => case.print \in Prints
  BY CasesAssumption

LEMMA InitTyped == Init => TypeOK
  <1> SUFFICES ASSUME Init PROVE TypeOK
    OBVIOUS
  <1>1. RowsTyped
    BY CasePrint DEF Init, RowsTyped, ImportRow, ApprovalRow, Statuses
  <1>2. PayloadTyped
    BY DEF Init, PayloadTyped
  <1>3. EvidenceTyped
    BY BoundsAssumption DEF Init, EvidenceTyped
  <1> QED  BY <1>1, <1>2, <1>3, TypeInParts

LEMMA MovedTyped ==
    ASSUME imp \in ImportRow, NEW status \in Statuses, Moved(status)
    PROVE  imp' \in ImportRow
  BY DEF Moved, ImportRow

LEMMA AdminStepTyped == TypeOK /\ AdminStep => RowsTyped'
  <1> SUFFICES ASSUME RowsTyped, AdminStep PROVE RowsTyped'
    BY TypeInParts
  <1>1. CASE CreateSampleImport
    BY <1>1 DEF CreateSampleImport, RowsTyped, ImportRow, Statuses
  <1>2. CASE RequestApproval
    BY <1>2, CasePrint DEF RequestApproval, RowsTyped, ImportRow, ApprovalRow, Statuses
  <1>3. CASE Reject
    BY <1>3 DEF Reject, RowsTyped, ImportRow, ApprovalRow, Statuses
  <1>4. CASE Cancel
    BY <1>4 DEF Cancel, RowsTyped, ImportRow, Statuses
  <1>5. CASE \E limit \in Limits : Approve(limit)
    BY <1>5 DEF Approve, RowsTyped, ImportRow, ApprovalRow, Statuses
  <1>6. CASE Finalize
    <2>1. Eligible \in BOOLEAN
      BY <1>6, CasesAssumption DEF Eligible, RowsTyped
    <2>2. PICK e \in BOOLEAN : e = Eligible
      BY <2>1
    <2>3. \/ imp' = imp
          \/ imp' = [status |-> IF e THEN "validated" ELSE "validated_with_conditions",
                     locked |-> TRUE, eligible |-> e]
      BY <1>6, <2>2 DEF Finalize
    <2>4. imp' \in ImportRow
      <3>1. imp \in ImportRow
        BY DEF RowsTyped
      <3>2. PICK status \in Statuses :
              imp' = imp \/ imp' = [status |-> status, locked |-> TRUE, eligible |-> e]
        BY <2>3 DEF Statuses
      <3>3. [status |-> status, locked |-> TRUE, eligible |-> e] \in ImportRow
        BY <2>2, <3>2, Zenon DEF ImportRow
      <3> QED  BY <3>1, <3>2, <3>3
    <2>5. report' \in {"eligible", "not_eligible"} /\ UNCHANGED <<case, approval, deletion>>
      BY <1>6 DEF Finalize
    <2> QED  BY <2>4, <2>5 DEF RowsTyped
  <1>7. CASE CaseChanges
    BY <1>7 DEF CaseChanges, RowsTyped
  <1>8. CASE ApprovalExpires
    BY <1>8 DEF ApprovalExpires, RowsTyped, ApprovalRow
  <1> QED  BY <1>1, <1>2, <1>3, <1>4, <1>5, <1>6, <1>7, <1>8 DEF AdminStep

(* The rows of files: an appended row, rows marked anew. *)
LEMMA SameLengthTyped ==
    ASSUME NEW S, NEW s \in Seq(S), NEW t, t = [i \in DOMAIN s |-> t[i]],
           \A i \in DOMAIN s : t[i] \in S
    PROVE  t \in Seq(S)
  <1>1. DOMAIN s = 1 .. Len(s) /\ Len(s) \in Nat
    OBVIOUS
  <1>2. t \in [1 .. Len(s) -> S]
    BY <1>1
  <1> QED  BY <1>1, <1>2

LEMMA AppendedFile ==
    ASSUME files \in Seq(File), NEW n \in Names, NEW status \in {"pending", "corrupt"},
           files' = Append(files, Row(n, status))
    PROVE  /\ files' \in Seq(File)
           /\ DOMAIN files \subseteq DOMAIN files'
           /\ \A f \in DOMAIN files' :
                \/ f \in DOMAIN files /\ files'[f] = files[f]
                \/ files'[f].status = status
  <1>1. Row(n, status) \in File /\ Row(n, status).status = status
    BY DEF Row, File
  <1> HIDE DEF Row, File
  <1> QED  BY <1>1

LEMMA DownloadWrites ==
    ASSUME TypeOK, NEW n \in Names, DownloadFile(n)
    PROVE  /\ RowsTyped' /\ PayloadTyped'
           /\ UNCHANGED <<scans, accepted, records, open, report, deletion>>
           /\ imp'.locked = imp.locked /\ imp'.eligible = imp.eligible /\ imp'.status # "deleted"
           /\ DOMAIN files \subseteq DOMAIN files'
           /\ \A f \in DOMAIN files' :
                \/ f \in DOMAIN files /\ files'[f] = files[f]
                \/ files'[f].status \in {"pending", "corrupt"}
           /\ \/ disk' = disk
              \/ \E p \in Payload : disk[n] = NoPayload /\ disk' = [disk EXCEPT ![n] = p]
  <1> USE DEF payload, evidence
  <1>0. RowsTyped /\ PayloadTyped
    BY TypeInParts
  <1>1. \E status \in {"pending", "corrupt"} : files' = Append(files, Row(n, status))
    BY DEF DownloadFile, DownloadEnds, DownloadDies, DownloadFails, DownloadCompletes
  <1>2. /\ files' \in Seq(File)
        /\ DOMAIN files \subseteq DOMAIN files'
        /\ \A f \in DOMAIN files' :
             \/ f \in DOMAIN files /\ files'[f] = files[f]
             \/ files'[f].status \in {"pending", "corrupt"}
    BY <1>0, <1>1, AppendedFile DEF PayloadTyped
  <1>3. imp' = imp \/ Moved("downloading")
    BY DEF DownloadFile, DownloadEnds, DownloadDies, DownloadFails, DownloadCompletes
  <1>4. imp' \in ImportRow /\ imp'.locked = imp.locked /\ imp'.eligible = imp.eligible
    BY <1>0, <1>3, MovedTyped DEF RowsTyped, Moved, ImportRow, Statuses
  <1>5. imp'.status # "deleted"
    BY <1>0, <1>3 DEF RowsTyped, Moved, ImportRow, DownloadFile
  <1>6. \/ disk' = disk
        \/ \E p \in Payload : disk[n] = NoPayload /\ disk' = [disk EXCEPT ![n] = p]
    BY DEF DownloadFile, DownloadEnds, DownloadDies, DownloadFails, DownloadCompletes
  <1>7. part' = part \/ \E bytes \in 0 .. Remaining : part' = part + bytes
    BY DEF DownloadFile, DownloadEnds, DownloadDies, DownloadFails, DownloadCompletes
  <1>8. part' \in Nat
    BY <1>0, <1>7 DEF PayloadTyped
  <1>9. UNCHANGED <<case, approval, scans, accepted, records, open, report, deletion>>
    BY DEF DownloadFile
  <1> QED  BY <1>0, <1>2, <1>4, <1>5, <1>6, <1>8, <1>9 DEF RowsTyped, PayloadTyped

LEMMA DeletionWrites ==
    ASSUME TypeOK, DeletionStep
    PROVE  /\ RowsTyped' /\ PayloadTyped'
           /\ UNCHANGED <<files, scans, accepted, records, open, report>>
           /\ imp'.locked = imp.locked /\ imp'.eligible = imp.eligible
           /\ deletion' # "none"
           /\ \/ disk' = disk /\ part' = part
              \/ part' = 0 /\ disk' = [n \in Names |-> NoPayload]
  <1> USE DEF payload, evidence
  <1>0. RowsTyped /\ PayloadTyped
    BY TypeInParts
  <1>1. CASE RequestDeletion
    BY <1>0, <1>1 DEF RequestDeletion, RowsTyped, PayloadTyped
  <1>2. CASE ExecuteDeletion
    <2>1. PICK steps \in 1 .. 4 :
          /\ deletion' = IF steps = 4 THEN "executed" ELSE "confirmed"
          /\ IF steps >= 2
             THEN disk' = [n \in Names |-> NoPayload] /\ part' = 0
             ELSE UNCHANGED <<disk, part>>
          /\ imp' = IF steps >= 3 THEN [imp EXCEPT !.status = "deleted"] ELSE imp
      BY <1>2 DEF ExecuteDeletion
    <2>2. imp' \in ImportRow /\ imp'.locked = imp.locked /\ imp'.eligible = imp.eligible
      BY <1>0, <2>1 DEF RowsTyped, ImportRow, Statuses
    <2>3. UNCHANGED <<case, approval, files, scans, accepted, records, open, report>>
      BY <1>2 DEF ExecuteDeletion
    <2>4. PayloadTyped'
      BY <1>0, <2>1, <2>3 DEF PayloadTyped
    <2> QED  BY <1>0, <2>1, <2>2, <2>3, <2>4 DEF RowsTyped
  <1> QED  BY <1>1, <1>2 DEF DeletionStep

(* The passes of the pipeline.  A status changes only on a file that is there. *)
LEMMA ValidateWrites ==
    ASSUME TypeOK, ValidateFiles
    PROVE  /\ PayloadTyped'
           /\ UNCHANGED <<case, imp, approval, disk, part, scans, accepted, records, open,
                          report, deletion>>
           /\ DOMAIN files' = DOMAIN files
           /\ \A f \in DOMAIN files :
                /\ files'[f].name = files[f].name
                /\ files'[f].status = "validated" => files'[f] = files[f]
  <1> USE DEF evidence
  <1>0. PayloadTyped
    BY TypeInParts
  <1>1. PICK last \in 0 .. Len(files) : \E clean \in SUBSET (1 .. last) :
          files' = [f \in DOMAIN files |->
                      IF f <= last /\ files[f].status = "pending" /\ OnDisk(f)
                      THEN [files[f] EXCEPT !.status =
                              IF f \in clean THEN "safe_for_scan" ELSE "blocked"]
                      ELSE files[f]]
    BY DEF ValidateFiles
  <1>2. PICK clean \in SUBSET (1 .. last) :
          files' = [f \in DOMAIN files |->
                      IF f <= last /\ files[f].status = "pending" /\ OnDisk(f)
                      THEN [files[f] EXCEPT !.status =
                              IF f \in clean THEN "safe_for_scan" ELSE "blocked"]
                      ELSE files[f]]
    BY <1>1
  <1>3. /\ DOMAIN files' = DOMAIN files
        /\ \A f \in DOMAIN files :
             /\ files'[f] \in File
             /\ files'[f].name = files[f].name
             /\ files'[f].status = "validated" => files'[f] = files[f]
    <2>1. SUFFICES ASSUME NEW f \in DOMAIN files
                   PROVE  /\ files'[f] \in File
                          /\ files'[f].name = files[f].name
                          /\ files'[f].status = "validated" => files'[f] = files[f]
      BY <1>2
    <2>2. files[f] \in File
      BY <1>0, <2>1 DEF PayloadTyped
    <2>3. \/ files'[f] = files[f]
          \/ files'[f] = [files[f] EXCEPT !.status = "safe_for_scan"]
          \/ files'[f] = [files[f] EXCEPT !.status = "blocked"]
      BY <1>2, <2>1
    <2> QED  BY <2>2, <2>3 DEF File
  <1>4. files' \in Seq(File)
    BY <1>0, <1>2, <1>3, SameLengthTyped DEF PayloadTyped
  <1>5. UNCHANGED <<case, imp, approval, disk, part, scans, accepted, records, open,
                    report, deletion>>
    BY DEF ValidateFiles
  <1> QED  BY <1>0, <1>3, <1>4, <1>5 DEF PayloadTyped

LEMMA ScanWrites ==
    ASSUME TypeOK, ScanFiles
    PROVE  /\ RowsTyped' /\ PayloadTyped'
           /\ UNCHANGED <<disk, part, accepted, records, open, report, deletion>>
           /\ imp'.locked = imp.locked /\ imp'.eligible = imp.eligible
           /\ imp'.status = imp.status \/ imp'.status = "scanning"
           /\ DOMAIN files' = DOMAIN files
           /\ scans \subseteq scans'
           /\ scans' \subseteq (DOMAIN files) \X {"clean_by_policy", "blocked"}
           /\ \A f \in DOMAIN files :
                /\ files'[f].name = files[f].name
                /\ \/ files'[f] = files[f]
                   \/ OnDisk(f) /\ disk[files[f].name].safe /\ <<f, "clean_by_policy">> \in scans'
  <1>0. RowsTyped /\ PayloadTyped /\ EvidenceTyped
    BY TypeInParts
  <1>1. PICK last \in 0 .. Len(files) : \E marked \in {last - 1, last} :
          /\ scans' = scans \cup {<<f, Verdict(f)>> : f \in {g \in 1 .. last : Scannable(g)}}
          /\ files' = [f \in DOMAIN files |->
                         IF f <= marked /\ Scannable(f) /\ Verdict(f) # "blocked"
                         THEN [files[f] EXCEPT !.status = "validated"] ELSE files[f]]
          /\ \/ marked = Len(files) /\ Moved("scanning")
             \/ UNCHANGED imp
    BY DEF ScanFiles
  <1>2. PICK marked \in {last - 1, last} :
          /\ scans' = scans \cup {<<f, Verdict(f)>> : f \in {g \in 1 .. last : Scannable(g)}}
          /\ files' = [f \in DOMAIN files |->
                         IF f <= marked /\ Scannable(f) /\ Verdict(f) # "blocked"
                         THEN [files[f] EXCEPT !.status = "validated"] ELSE files[f]]
          /\ \/ marked = Len(files) /\ Moved("scanning")
             \/ UNCHANGED imp
    BY <1>1
  <1>3. DOMAIN files = 1 .. Len(files) /\ Len(files) \in Nat
    BY <1>0 DEF PayloadTyped
  <1>4. \A f \in DOMAIN files : Verdict(f) \in {"clean_by_policy", "blocked"}
    BY DEF Verdict
  <1>5. scans \subseteq scans' /\ scans' \subseteq (DOMAIN files) \X {"clean_by_policy", "blocked"}
    BY <1>0, <1>2, <1>3, <1>4 DEF EvidenceTyped
  <1>6. DOMAIN files' = DOMAIN files
    BY <1>2
  <1>7. ASSUME NEW f \in DOMAIN files
        PROVE  /\ files'[f] \in File
               /\ files'[f].name = files[f].name
               /\ \/ files'[f] = files[f]
                  \/ OnDisk(f) /\ disk[files[f].name].safe /\ <<f, "clean_by_policy">> \in scans'
    <2>1. files[f] \in File
      BY <1>0, <1>7 DEF PayloadTyped
    <2>2. CASE f <= marked /\ Scannable(f) /\ Verdict(f) # "blocked"
      <3>1. files'[f] = [files[f] EXCEPT !.status = "validated"]
        BY <1>2, <1>7, <2>2
      <3>2. OnDisk(f) /\ disk[files[f].name].safe /\ Verdict(f) = "clean_by_policy"
        BY <2>2 DEF Scannable, Verdict
      <3>3. f \in 1 .. last /\ Scannable(f)
        BY <1>3, <1>7, <2>2
      <3>4. <<f, "clean_by_policy">> \in scans'
        BY <1>2, <3>2, <3>3
      <3> QED  BY <2>1, <3>1, <3>2, <3>4 DEF File
    <2>3. CASE ~(f <= marked /\ Scannable(f) /\ Verdict(f) # "blocked")
      BY <1>2, <1>7, <2>1, <2>3 DEF File
    <2> QED  BY <2>2, <2>3
  <1>8. files' \in Seq(File)
    BY <1>0, <1>2, <1>6, <1>7, SameLengthTyped DEF PayloadTyped
  <1>9. UNCHANGED <<case, approval, disk, part, accepted, records, open, report, deletion>>
    BY DEF ScanFiles
  <1>10. imp' = imp \/ Moved("scanning")
    BY <1>2
  <1>11. /\ imp' \in ImportRow /\ imp'.locked = imp.locked /\ imp'.eligible = imp.eligible
         /\ imp'.status = imp.status \/ imp'.status = "scanning"
    BY <1>0, <1>10, MovedTyped DEF RowsTyped, Moved, ImportRow, Statuses
  <1>12. RowsTyped' /\ PayloadTyped'
    BY <1>0, <1>8, <1>9, <1>11 DEF RowsTyped, PayloadTyped
  <1> QED  BY <1>5, <1>6, <1>7, <1>9, <1>11, <1>12

LEMMA ParseWrites ==
    ASSUME TypeOK, ParseFiles
    PROVE  /\ UNCHANGED <<case, imp, approval, disk, part, files, scans, accepted, open,
                          report, deletion>>
           /\ records' \in Seq(Record)
           /\ \A r \in DOMAIN records' :
                \/ r \in DOMAIN records /\ records'[r] = records[r]
                \/ /\ records'[r].file \in DOMAIN files
                   /\ files[records'[r].file].status = "validated"
                   /\ OnDisk(records'[r].file)
                   /\ records'[r].safe = disk[files[records'[r].file].name].safe
  <1>0. PayloadTyped /\ EvidenceTyped
    BY TypeInParts
  <1>1. PICK f \in DOMAIN files :
          /\ files[f].status = "validated"
          /\ OnDisk(f)
          /\ records' = Append(records, [file |-> f, safe |-> disk[files[f].name].safe,
                                         status |-> "normalized"])
    BY DEF ParseFiles
  <1> DEFINE new == [file |-> f, safe |-> disk[files[f].name].safe, status |-> "normalized"]
  <1>2. disk[files[f].name].safe \in BOOLEAN
    <2>1. files[f] \in File
      BY <1>0, <1>1 DEF PayloadTyped
    <2>2. disk[files[f].name] \in Payload
      BY <1>0, <1>1, <2>1 DEF PayloadTyped, OnDisk, File
    <2> QED  BY <2>2 DEF Payload
  <1>3. new \in Record /\ new.file = f /\ new.safe = disk[files[f].name].safe
    BY <1>0, <1>2 DEF Record, PayloadTyped
  <1>4. records' = Append(records, new) /\ records \in Seq(Record)
    BY <1>0, <1>1 DEF EvidenceTyped
  <1> HIDE DEF new
  <1>5. records' \in Seq(Record)
    BY <1>3, <1>4
  <1>6. \A r \in DOMAIN records' :
            \/ r \in DOMAIN records /\ records'[r] = records[r]
            \/ records'[r] = new
    BY <1>3, <1>4
  <1>7. UNCHANGED <<case, imp, approval, disk, part, files, scans, accepted, open,
                    report, deletion>>
    BY DEF ParseFiles, payload
  <1> QED  BY <1>1, <1>3, <1>5, <1>6, <1>7

(* The counts of open issues stay between their bounds. *)
LEMMA Recounted ==
    ASSUME open \in [1 .. MaxRecords -> [Severities -> 0 .. MaxIssues]],
           NEW r, NEW s \in Severities, NEW count \in 0 .. MaxIssues,
           open' = [open EXCEPT ![r][s] = count]
    PROVE  open' \in [1 .. MaxRecords -> [Severities -> 0 .. MaxIssues]]
  <1>1. CASE r \in 1 .. MaxRecords
    <2> DEFINE new == [open[r] EXCEPT ![s] = count]
    <2>1. new \in [Severities -> 0 .. MaxIssues]
      BY <1>1
    <2>2. open' = [open EXCEPT ![r] = new]
      OBVIOUS
    <2> HIDE DEF new
    <2> QED  BY <2>1, <2>2
  <1>2. CASE r \notin 1 .. MaxRecords
    <2>1. open' = open
      BY <1>2
    <2> QED  BY <2>1
  <1> QED  BY <1>1, <1>2

LEMMA CountedUp ==
    ASSUME open \in [1 .. MaxRecords -> [Severities -> 0 .. MaxIssues]],
           NEW r, NEW s \in Severities,
           open[r][s] < MaxIssues, open' = [open EXCEPT ![r][s] = @ + 1]
    PROVE  open' \in [1 .. MaxRecords -> [Severities -> 0 .. MaxIssues]]
  <1>1. CASE r \in 1 .. MaxRecords
    <2>1. open[r][s] + 1 \in 0 .. MaxIssues
      BY <1>1, BoundsAssumption
    <2> QED  BY <2>1, Recounted
  <1>2. CASE r \notin 1 .. MaxRecords
    BY <1>2
  <1> QED  BY <1>1, <1>2

LEMMA CountedDown ==
    ASSUME open \in [1 .. MaxRecords -> [Severities -> 0 .. MaxIssues]],
           NEW r, NEW s \in Severities,
           open[r][s] > 0, open' = [open EXCEPT ![r][s] = @ - 1]
    PROVE  open' \in [1 .. MaxRecords -> [Severities -> 0 .. MaxIssues]]
  <1>1. CASE r \in 1 .. MaxRecords
    <2>1. open[r][s] - 1 \in 0 .. MaxIssues
      BY <1>1, BoundsAssumption
    <2> QED  BY <2>1, Recounted
  <1>2. CASE r \notin 1 .. MaxRecords
    BY <1>2
  <1> QED  BY <1>1, <1>2

(* Reviews and quality checks: at most the status of a record changes. *)
LEMMA ReviewWrites ==
    ASSUME TypeOK, ReviewStep
    PROVE  /\ EvidenceTyped'
           /\ scans' = scans
           /\ DOMAIN records' = DOMAIN records
           /\ \A r \in DOMAIN records :
                records'[r].file = records[r].file /\ records'[r].safe = records[r].safe
  <1>0. EvidenceTyped
    BY TypeInParts
  <1> USE DEF payload
  <1>1. CASE RunQualityChecks
    <2>1. PICK r \in 1 .. Len(records), s \in Severities :
             open[r][s] < MaxIssues /\ open' = [open EXCEPT ![r][s] = @ + 1]
      BY <1>1 DEF RunQualityChecks
    <2>2. open' \in [1 .. MaxRecords -> [Severities -> 0 .. MaxIssues]]
      BY <1>0, <2>1, CountedUp DEF EvidenceTyped
    <2> QED  BY <1>0, <1>1, <2>2 DEF RunQualityChecks, EvidenceTyped
  <1>2. CASE \E f \in DOMAIN files : ReviewFile(f)
    BY <1>0, <1>2 DEF ReviewFile, EvidenceTyped
  <1>3. CASE \E r \in DOMAIN records, s \in Severities : ReviewIssue(r, s)
    <2>1. PICK r \in DOMAIN records, s \in Severities : ReviewIssue(r, s)
      BY <1>3
    <2>2. open[r][s] > 0 /\ open' = [open EXCEPT ![r][s] = @ - 1]
      BY <2>1 DEF ReviewIssue
    <2>3. open' \in [1 .. MaxRecords -> [Severities -> 0 .. MaxIssues]]
      BY <1>0, <2>1, <2>2, CountedDown DEF EvidenceTyped
    <2> QED  BY <1>0, <2>1, <2>3 DEF ReviewIssue, EvidenceTyped
  <1>4. CASE \E r \in DOMAIN records, status \in {"accepted", "excluded"} :
               ReviewRecord(r, status)
    <2>1. PICK r \in DOMAIN records, status \in {"accepted", "excluded"} :
               ReviewRecord(r, status)
      BY <1>4
    <2>2. records' = [records EXCEPT ![r].status = status]
      BY <2>1 DEF ReviewRecord
    <2>3. records[r] \in Record
      BY <1>0, <2>1 DEF EvidenceTyped
    <2> DEFINE new == [records[r] EXCEPT !.status = status]
    <2>4. new \in Record /\ new.file = records[r].file /\ new.safe = records[r].safe
      BY <2>1, <2>3 DEF Record
    <2>5. records' = [records EXCEPT ![r] = new]
      BY <2>2
    <2> HIDE DEF new
    <2>6. records' \in Seq(Record) /\ DOMAIN records' = DOMAIN records
      BY <1>0, <2>1, <2>4, <2>5 DEF EvidenceTyped
    <2>7. \A q \in DOMAIN records :
             records'[q].file = records[q].file /\ records'[q].safe = records[q].safe
      BY <1>0, <2>4, <2>5 DEF EvidenceTyped
    <2> QED  BY <1>0, <2>1, <2>6, <2>7 DEF ReviewRecord, EvidenceTyped
  <1> QED  BY <1>1, <1>2, <1>3, <1>4 DEF ReviewStep

LEMMA TypeStep == TypeOK /\ [Next]_vars => TypeOK'
  <1> SUFFICES ASSUME TypeOK, [Next]_vars PROVE TypeOK'
    OBVIOUS
  <1>0. RowsTyped /\ PayloadTyped /\ EvidenceTyped
    BY TypeInParts
  <1>p. (RowsTyped /\ PayloadTyped /\ EvidenceTyped)' => TypeOK'
    BY TypeInParts, PTL
  <1>1. CASE AdminStep
    <2>1. UNCHANGED <<disk, part, files, scans, accepted, records, open>>
      BY <1>1, AdminLeavesPayload
    <2> QED  BY <1>0, <1>1, <1>p, <2>1, AdminStepTyped DEF PayloadTyped, EvidenceTyped
  <1>2. CASE ReviewStep
    <2>1. UNCHANGED <<case, imp, approval, disk, part, files, report, deletion>>
      BY <1>2, ReviewLeavesPayload
    <2>2. EvidenceTyped'
      BY <1>2, ReviewWrites
    <2> QED  BY <1>0, <1>p, <2>1, <2>2 DEF RowsTyped, PayloadTyped
  <1>3. CASE DownloadStep
    <2>1. PICK n \in Names : DownloadFile(n)
      BY <1>3 DEF DownloadStep
    <2>2. /\ RowsTyped' /\ PayloadTyped'
          /\ UNCHANGED <<scans, accepted, records, open>>
          /\ DOMAIN files \subseteq DOMAIN files'
      BY <2>1, DownloadWrites
    <2>3. EvidenceTyped'
      BY <1>0, <2>2 DEF EvidenceTyped
    <2> QED  BY <1>p, <2>2, <2>3
  <1>4. CASE DeletionStep
    <2>1. RowsTyped' /\ PayloadTyped' /\ UNCHANGED <<files, scans, accepted, records, open>>
      BY <1>4, DeletionWrites
    <2> QED  BY <1>0, <1>p, <2>1 DEF EvidenceTyped
  <1>5. CASE ValidateFiles
    <2>1. /\ PayloadTyped' /\ DOMAIN files' = DOMAIN files
          /\ UNCHANGED <<case, imp, approval, scans, accepted, records, open, report, deletion>>
      BY <1>5, ValidateWrites
    <2> QED  BY <1>0, <1>p, <2>1 DEF RowsTyped, EvidenceTyped
  <1>6. CASE ScanFiles
    <2>1. /\ RowsTyped' /\ PayloadTyped' /\ DOMAIN files' = DOMAIN files
          /\ UNCHANGED <<accepted, records, open>>
          /\ scans' \subseteq (DOMAIN files) \X {"clean_by_policy", "blocked"}
      BY <1>6, ScanWrites
    <2> QED  BY <1>0, <1>p, <2>1 DEF EvidenceTyped
  <1>7. CASE ParseFiles
    <2>1. /\ UNCHANGED <<case, imp, approval, disk, part, files, scans, accepted, open,
                         report, deletion>>
          /\ records' \in Seq(Record)
      BY <1>7, ParseWrites
    <2> QED  BY <1>0, <1>p, <2>1 DEF RowsTyped, PayloadTyped, EvidenceTyped
  <1>8. CASE UNCHANGED vars
    BY <1>0, <1>8, <1>p DEF vars, RowsTyped, PayloadTyped, EvidenceTyped
  <1> QED  BY <1>1, <1>2, <1>3, <1>4, <1>5, <1>6, <1>7, <1>8, StepsGrouped

(* Every row has one of the types the schema's CHECKs give it. *)
THEOREM ImportsTyped == Spec => []TypeOK
  BY InitTyped, TypeStep, PTL DEF Spec

-----------------------------------------------------------------------------
(* The lock and the report. *)

LEMMA ReportStep == FinalReportStands /\ TypeOK /\ [Next]_vars => FinalReportStands'
  <1> SUFFICES ASSUME FinalReportStands, TypeOK, [Next]_vars PROVE FinalReportStands'
    OBVIOUS
  <1>0. imp \in ImportRow
    BY TypeInParts DEF RowsTyped
  <1>k. ASSUME imp'.locked = imp.locked, imp'.eligible = imp.eligible, report' = report
        PROVE  FinalReportStands'
    BY <1>k DEF FinalReportStands
  <1>1. CASE AdminStep
    <2>1. CASE Finalize
      <3>1. ~imp.locked /\ report' = IF Eligible THEN "eligible" ELSE "not_eligible"
        BY <2>1 DEF Finalize
      <3>2. CASE imp' = imp
        BY <3>1, <3>2 DEF FinalReportStands
      <3>3. CASE imp'.eligible = Eligible
        BY <3>1, <3>3 DEF FinalReportStands
      <3> QED  BY <2>1, <3>2, <3>3 DEF Finalize
    <2>2. CASE ~Finalize
      <3>1. report' = report
        BY <1>1, <2>2 DEF AdminStep, CreateSampleImport, RequestApproval, Reject, Cancel, Approve,
           CaseChanges, ApprovalExpires
      <3>2. imp' = imp \/ \E status \in Statuses : imp' = [imp EXCEPT !.status = status]
        BY <1>1, <2>2 DEF AdminStep, CreateSampleImport, RequestApproval, Reject, Cancel, Approve,
           CaseChanges, ApprovalExpires, Statuses
      <3>3. imp'.locked = imp.locked /\ imp'.eligible = imp.eligible
        BY <1>0, <3>2 DEF ImportRow
      <3> QED  BY <1>k, <3>1, <3>3
    <2> QED  BY <2>1, <2>2
  <1>2. CASE ReviewStep
    BY <1>2, <1>k, ReviewLeavesPayload
  <1>3. CASE DownloadStep
    BY <1>3, <1>k, DownloadWrites DEF DownloadStep
  <1>4. CASE DeletionStep
    BY <1>4, <1>k, DeletionWrites
  <1>5. CASE ValidateFiles
    BY <1>5, <1>k, ValidateWrites
  <1>6. CASE ScanFiles
    BY <1>6, <1>k, ScanWrites
  <1>7. CASE ParseFiles
    BY <1>7, <1>k, ParseWrites
  <1>8. CASE UNCHANGED vars
    BY <1>8, <1>k DEF vars
  <1> QED  BY <1>1, <1>2, <1>3, <1>4, <1>5, <1>6, <1>7, <1>8, StepsGrouped

(* A locked import has the eligibility of its latest report, whichever of    *)
(* the two transactions of a finalization a request died between.            *)
THEOREM ReportBehindLock == Spec => []FinalReportStands
  <1>1. Init => FinalReportStands
    BY DEF Init, FinalReportStands
  <1> QED  BY <1>1, ImportsTyped, ReportStep, PTL DEF Spec

-----------------------------------------------------------------------------
(* Deletion. *)

Empty == part = 0 /\ \A n \in Names : disk[n] = NoPayload

LEMMA EmptyStep == DeletedIsEmpty /\ TypeOK /\ [Next]_vars => DeletedIsEmpty'
  <1> SUFFICES ASSUME DeletedIsEmpty, TypeOK, [Next]_vars PROVE DeletedIsEmpty'
    OBVIOUS
  <1> DEFINE Gone == imp.status = "deleted" \/ (deletion = "executed" /\ ~Reopen)
  <1>0. (DeletedIsEmpty <=> (Gone => Empty)) /\ (DeletedIsEmpty' <=> (Gone' => Empty'))
    BY DEF DeletedIsEmpty, Empty
  <1>t. imp \in ImportRow
    BY TypeInParts DEF RowsTyped
  <1>k. ASSUME imp'.status = "deleted" => imp.status = "deleted", UNCHANGED <<disk, part, deletion>>
        PROVE  DeletedIsEmpty'
    BY <1>0, <1>k DEF Empty
  <1>1. CASE AdminStep
    <2>1. UNCHANGED <<disk, part, deletion>>
      BY <1>1, AdminLeavesPayload
    <2>2. imp'.status = "deleted" => imp.status = "deleted"
      <3>1. CASE Finalize
        <4>1. imp' = imp \/ imp'.status \in {"validated", "validated_with_conditions"}
          BY <3>1 DEF Finalize
        <4> QED  BY <4>1
      <3>2. CASE ~Finalize
        <4>1. \/ imp' = imp
              \/ \E status \in Statuses \ {"deleted"} : imp' = [imp EXCEPT !.status = status]
          BY <1>1, <3>2 DEF AdminStep, CreateSampleImport, RequestApproval, Reject, Cancel,
             Approve, CaseChanges, ApprovalExpires, Statuses
        <4> QED  BY <1>t, <4>1 DEF ImportRow
      <3> QED  BY <3>1, <3>2
    <2> QED  BY <1>k, <2>1, <2>2
  <1>2. CASE ReviewStep
    BY <1>2, <1>k, ReviewLeavesPayload
  <1>3. CASE DownloadStep
    <2>1. PICK n \in Names : DownloadFile(n)
      BY <1>3 DEF DownloadStep
    <2>2. imp'.status # "deleted" /\ deletion' = deletion
      BY <2>1, DownloadWrites
    <2>3. Reopen \/ deletion = "none"
      BY <2>1 DEF DownloadFile, Reopened
    <2> QED  BY <1>0, <2>2, <2>3
  <1>4. CASE DeletionStep
    <2>1. CASE RequestDeletion
      BY <1>0, <2>1 DEF RequestDeletion, Empty, payload
    <2>2. CASE ExecuteDeletion
      <3>1. PICK steps \in 1 .. 4 :
            /\ deletion' = IF steps = 4 THEN "executed" ELSE "confirmed"
            /\ IF steps >= 2
               THEN disk' = [n \in Names |-> NoPayload] /\ part' = 0
               ELSE UNCHANGED <<disk, part>>
            /\ imp' = IF steps >= 3 THEN [imp EXCEPT !.status = "deleted"] ELSE imp
        BY <2>2 DEF ExecuteDeletion
      <3>2. CASE steps >= 2
        BY <1>0, <3>1, <3>2 DEF Empty
      <3>3. CASE ~(steps >= 2)
        BY <1>0, <3>1, <3>3 DEF Empty
      <3> QED  BY <3>2, <3>3
    <2> QED  BY <1>4, <2>1, <2>2 DEF DeletionStep
  <1>5. CASE ValidateFiles
    BY <1>5, <1>k, ValidateWrites
  <1>6. CASE ScanFiles
    BY <1>6, <1>k, ScanWrites
  <1>7. CASE ParseFiles
    BY <1>7, <1>k, ParseWrites
  <1>8. CASE UNCHANGED vars
    BY <1>8, <1>k DEF vars
  <1> QED  BY <1>1, <1>2, <1>3, <1>4, <1>5, <1>6, <1>7, <1>8, StepsGrouped

(* An import marked deleted has no payload and no leftover of a download,    *)
(* wherever in the chain of a deletion a request died.                       *)
THEOREM EmptyWhenDeleted == Spec => []DeletedIsEmpty
  <1>1. Init => DeletedIsEmpty
    BY DEF Init, DeletedIsEmpty
  <1> QED  BY <1>1, ImportsTyped, EmptyStep, PTL DEF Spec

-----------------------------------------------------------------------------
(* Screening.  A validated file is one whose present content was scanned     *)
(* and found clean; that needs its name not to be downloaded again, which is *)
(* so as long as nothing is deleted.                                         *)

ScannedFile(f) ==
    files[f].status = "validated" =>
        /\ deletion = "none" => OnDisk(f)
        /\ OnDisk(f) => disk[files[f].name].safe /\ <<f, "clean_by_policy">> \in scans

ScannedRecord(r) ==
    /\ records[r].file \in DOMAIN files
    /\ records[r].safe
    /\ <<records[r].file, "clean_by_policy">> \in scans

Screened ==
    /\ Len(records) <= MaxRecords
    /\ \A f \in DOMAIN files : ScannedFile(f)
    /\ \A r \in DOMAIN records : ScannedRecord(r)

LEMMA FilesKept ==
    ASSUME Screened, UNCHANGED <<disk, files, scans, deletion>>
    PROVE  \A f \in DOMAIN files' : ScannedFile(f)'
  BY DEF Screened, ScannedFile, OnDisk

LEMMA RecordsKept ==
    ASSUME Screened, DOMAIN files \subseteq DOMAIN files', scans \subseteq scans', records' = records
    PROVE  Len(records') <= MaxRecords /\ \A r \in DOMAIN records' : ScannedRecord(r)'
  BY DEF Screened, ScannedRecord

LEMMA ScreenedStep ==
    ASSUME ~Reopen, Screened, TypeOK, [Next]_vars
    PROVE  Screened'
  <1>0. PayloadTyped /\ EvidenceTyped
    BY TypeInParts
  <1>q. ASSUME \A f \in DOMAIN files' : ScannedFile(f)',
               Len(records') <= MaxRecords, \A r \in DOMAIN records' : ScannedRecord(r)'
        PROVE  Screened'
    BY <1>q DEF Screened
  <1>k. ASSUME UNCHANGED <<disk, files, scans, deletion, records>> PROVE Screened'
    BY <1>k, <1>q, FilesKept, RecordsKept
  <1>1. CASE AdminStep
    BY <1>1, <1>k, AdminLeavesPayload
  <1>2. CASE ReviewStep
    <2>1. /\ UNCHANGED <<disk, files, scans, deletion>>
          /\ DOMAIN records' = DOMAIN records
          /\ \A r \in DOMAIN records :
                records'[r].file = records[r].file /\ records'[r].safe = records[r].safe
          /\ records' \in Seq(Record)
      BY <1>2, ReviewLeavesPayload, ReviewWrites DEF EvidenceTyped
    <2>2. Len(records') = Len(records)
      BY <1>0, <2>1 DEF EvidenceTyped
    <2>3. \A r \in DOMAIN records' : ScannedRecord(r)'
      BY <2>1 DEF Screened, ScannedRecord
    <2> QED  BY <1>q, <2>1, <2>2, <2>3, FilesKept DEF Screened
  <1>3. CASE DownloadStep
    <2>1. PICK n \in Names : DownloadFile(n)
      BY <1>3 DEF DownloadStep
    <2>2. /\ PayloadTyped'
          /\ UNCHANGED <<scans, records, deletion>>
          /\ DOMAIN files \subseteq DOMAIN files'
          /\ \A f \in DOMAIN files' :
                \/ f \in DOMAIN files /\ files'[f] = files[f]
                \/ files'[f].status \in {"pending", "corrupt"}
          /\ \/ disk' = disk
             \/ \E p \in Payload : disk[n] = NoPayload /\ disk' = [disk EXCEPT ![n] = p]
      BY <2>1, DownloadWrites
    <2>3. deletion = "none"
      BY <2>1 DEF DownloadFile, Reopened
    <2>4. ASSUME NEW f \in DOMAIN files' PROVE ScannedFile(f)'
      <3>1. CASE files'[f].status # "validated"
        BY <3>1 DEF ScannedFile
      <3>2. CASE files'[f].status = "validated"
        <4>1. f \in DOMAIN files /\ files'[f] = files[f]
          BY <2>2, <2>4, <3>2
        <4>2. OnDisk(f) /\ disk[files[f].name].safe /\ <<f, "clean_by_policy">> \in scans
          BY <2>3, <3>2, <4>1 DEF Screened, ScannedFile
        <4>3. files[f].name \in Names
          <5>1. files[f] \in File
            BY <1>0, <4>1 DEF PayloadTyped
          <5> QED  BY <5>1 DEF File
        <4>4. disk'[files[f].name] = disk[files[f].name]
          BY <1>0, <2>2, <4>2, <4>3 DEF OnDisk, PayloadTyped
        <4> QED  BY <2>2, <4>1, <4>2, <4>4 DEF ScannedFile, OnDisk
      <3> QED  BY <3>1, <3>2
    <2> QED  BY <1>q, <2>2, <2>4, RecordsKept
  <1>4. CASE DeletionStep
    <2>1. /\ UNCHANGED <<files, scans, records>>
          /\ deletion' # "none"
          /\ disk' = disk \/ disk' = [n \in Names |-> NoPayload]
      BY <1>4, DeletionWrites
    <2>2. ASSUME NEW f \in DOMAIN files' PROVE ScannedFile(f)'
      <3>1. files[f].name \in Names
        <4>1. files[f] \in File
          BY <1>0, <2>1, <2>2 DEF PayloadTyped
        <4> QED  BY <4>1 DEF File
      <3>2. OnDisk(f)' => OnDisk(f) /\ disk' = disk
        BY <2>1, <3>1 DEF OnDisk
      <3> QED  BY <2>1, <2>2, <3>2 DEF Screened, ScannedFile
    <2> QED  BY <1>q, <2>1, <2>2, RecordsKept
  <1>5. CASE ValidateFiles
    <2>1. /\ UNCHANGED <<disk, scans, records, deletion>>
          /\ DOMAIN files' = DOMAIN files
          /\ \A f \in DOMAIN files : files'[f].status = "validated" => files'[f] = files[f]
      BY <1>5, ValidateWrites
    <2>2. \A f \in DOMAIN files' : ScannedFile(f)'
      BY <2>1 DEF Screened, ScannedFile, OnDisk
    <2> QED  BY <1>q, <2>1, <2>2, RecordsKept
  <1>6. CASE ScanFiles
    <2>1. /\ UNCHANGED <<disk, records, deletion>>
          /\ DOMAIN files' = DOMAIN files
          /\ scans \subseteq scans'
          /\ \A f \in DOMAIN files :
                /\ files'[f].name = files[f].name
                /\ \/ files'[f] = files[f]
                   \/ OnDisk(f) /\ disk[files[f].name].safe /\ <<f, "clean_by_policy">> \in scans'
      BY <1>6, ScanWrites
    <2>2. \A f \in DOMAIN files' : ScannedFile(f)'
      BY <2>1 DEF Screened, ScannedFile, OnDisk
    <2> QED  BY <1>q, <2>1, <2>2, RecordsKept
  <1>7. CASE ParseFiles
    <2>1. /\ UNCHANGED <<disk, files, scans, deletion>>
          /\ records' \in Seq(Record)
          /\ \A r \in DOMAIN records' :
                \/ r \in DOMAIN records /\ records'[r] = records[r]
                \/ /\ records'[r].file \in DOMAIN files
                   /\ files[records'[r].file].status = "validated"
                   /\ OnDisk(records'[r].file)
                   /\ records'[r].safe = disk[files[records'[r].file].name].safe
      BY <1>7, ParseWrites
    <2>2. Len(records') = Len(records) + 1 /\ Len(records) < MaxRecords
      BY <1>0, <1>7 DEF ParseFiles, EvidenceTyped
    <2>3. Len(records') <= MaxRecords
      BY <1>0, <2>2, BoundsAssumption DEF EvidenceTyped
    <2>4. \A r \in DOMAIN records' : ScannedRecord(r)'
      BY <2>1 DEF Screened, ScannedFile, ScannedRecord
    <2> QED  BY <1>q, <2>1, <2>3, <2>4, FilesKept
  <1>8. CASE UNCHANGED vars
    BY <1>8, <1>k DEF vars
  <1> QED  BY <1>1, <1>2, <1>3, <1>4, <1>5, <1>6, <1>7, <1>8, StepsGrouped

LEMMA ScreenedAlways == ASSUME ~Reopen PROVE Spec => []Screened
  <1>1. Init => Screened
    BY BoundsAssumption DEF Init, Screened
  <1>2. Screened /\ TypeOK /\ [Next]_vars => Screened'
    BY ScreenedStep
  <1> QED  BY <1>1, <1>2, ImportsTyped, PTL DEF Spec

(* What is parsed into records was scanned and found clean, whatever         *)
(* downloads and passes died before, if no import is used again after its    *)
(* deletion was requested.                                                   *)
THEOREM ScreenedBeforeUse == ASSUME ~Reopen PROVE Spec => []UnsafeIsNeverParsed
  <1>1. Screened => UnsafeIsNeverParsed
    BY DEF Screened, ScannedRecord, UnsafeIsNeverParsed
  <1> QED  BY <1>1, ScreenedAlways, PTL

(* Becoming eligible is the second half of a finalization. *)
LEMMA EligibleByFinalize ==
    ASSUME TypeOK, [Next]_vars, imp'.eligible, ~imp.eligible
    PROVE  Finalize /\ Eligible
  <1>t. imp \in ImportRow
    BY TypeInParts DEF RowsTyped
  <1>0. CASE imp'.eligible = imp.eligible
    BY <1>0
  <1>1. CASE AdminStep
    <2>1. CASE Finalize
      <3>1. imp' # imp
        OBVIOUS
      <3>2. imp' = [status |-> IF Eligible THEN "validated" ELSE "validated_with_conditions",
                    locked |-> TRUE, eligible |-> Eligible]
        BY <2>1, <3>1 DEF Finalize
      <3>3. imp'.eligible = Eligible
        BY <3>2
      <3> QED  BY <2>1, <3>3
    <2>2. CASE ~Finalize
      <3>1. imp' = imp \/ \E status \in Statuses : imp' = [imp EXCEPT !.status = status]
        BY <1>1, <2>2 DEF AdminStep, CreateSampleImport, RequestApproval, Reject, Cancel, Approve,
           CaseChanges, ApprovalExpires, Statuses
      <3> QED  BY <1>t, <3>1 DEF ImportRow
    <2> QED  BY <2>1, <2>2
  <1>2. ReviewStep => imp'.eligible = imp.eligible
    BY ReviewLeavesPayload
  <1>3. DownloadStep => imp'.eligible = imp.eligible
    BY DownloadWrites DEF DownloadStep
  <1>4. DeletionStep => imp'.eligible = imp.eligible
    BY DeletionWrites
  <1>5. ValidateFiles \/ ScanFiles \/ ParseFiles \/ UNCHANGED vars => imp'.eligible = imp.eligible
    BY ValidateWrites, ScanWrites, ParseWrites DEF vars
  <1> QED  BY <1>0, <1>1, <1>2, <1>3, <1>4, <1>5, StepsGrouped

(* An import becomes eligible for the sandbox only when its records were     *)
(* screened and everything found was decided, under the same condition.      *)
THEOREM EligibleIsScreened == ASSUME ~Reopen PROVE Spec => EligibleWasScreened
  <1> DEFINE Body ==
          imp'.eligible /\ ~imp.eligible =>
             /\ \E r \in AcceptedRecords :
                   records[r].safe /\ <<records[r].file, "clean_by_policy">> \in scans
             /\ \A r \in DOMAIN records, s \in Severities : open[r][s] = 0
             /\ \A f \in DOMAIN files : <<f, "blocked">> \in scans => f \in accepted
  <1>1. TypeOK /\ Screened /\ [Next]_vars => Body
    <2> SUFFICES ASSUME TypeOK, Screened, [Next]_vars, imp'.eligible, ~imp.eligible
                 PROVE  /\ \E r \in AcceptedRecords :
                             records[r].safe /\ <<records[r].file, "clean_by_policy">> \in scans
                        /\ \A r \in DOMAIN records, s \in Severities : open[r][s] = 0
                        /\ \A f \in DOMAIN files : <<f, "blocked">> \in scans => f \in accepted
      OBVIOUS
    <2>1. Finalize /\ Eligible
      BY EligibleByFinalize
    <2>2. PICK r \in AcceptedRecords : TRUE
      BY <2>1 DEF Eligible
    <2>3. r \in DOMAIN records
      BY <2>2 DEF AcceptedRecords
    <2>4. records[r].safe /\ <<records[r].file, "clean_by_policy">> \in scans
      BY <2>3 DEF Screened, ScannedRecord
    <2>5. ASSUME NEW q \in DOMAIN records, NEW s \in Severities PROVE open[q][s] = 0
      <3>1. records \in Seq(Record) /\ open \in [1 .. MaxRecords -> [Severities -> 0 .. MaxIssues]]
        BY TypeInParts DEF EvidenceTyped
      <3>2. q \in 1 .. MaxRecords
        BY <2>5, <3>1, BoundsAssumption DEF Screened
      <3>3. open[q][s] \in 0 .. MaxIssues
        BY <3>1, <3>2
      <3>4. ~(open[q][s] > 0)
        BY <2>1, <2>5 DEF Finalize, Eligible, OpenIssues, Severities
      <3> QED  BY <3>3, <3>4, BoundsAssumption
    <2>6. \A f \in DOMAIN files : <<f, "blocked">> \in scans => f \in accepted
      BY <2>1 DEF Finalize, UnreviewedScans
    <2> QED  BY <2>2, <2>4, <2>5, <2>6
  <1>2. TypeOK /\ Screened /\ [Next]_vars => [Body]_vars
    BY <1>1
  <1>3. Spec => [][Body]_vars
    BY <1>2, ImportsTyped, ScreenedAlways, PTL DEF Spec
  <1> QED  BY <1>3 DEF EligibleWasScreened
-----------------------------------------------------------------------------
(* Bytes.  The payload is finite, and a download adds the bytes of its file  *)
(* to it, because the name was free.                                         *)

FiniteStore == IsFiniteSet(StoredBytes)

LEMMA BytesTyped == PayloadTyped => \A n \in Names : Bytes(n) \in Nat
  BY SizesAssumption DEF PayloadTyped, Bytes, Payload

LEMMA SameBytes ==
    ASSUME disk' = disk PROVE StoredBytes' = StoredBytes
  BY DEF StoredBytes, Bytes

LEMMA NoBytes ==
    ASSUME disk' = [n \in Names |-> NoPayload] PROVE StoredBytes' = {}
  BY DEF StoredBytes, Bytes

LEMMA BytesOfFile ==
    ASSUME NEW n, NEW k \in Nat
    PROVE  IsFiniteSet({n} \X (1 .. k)) /\ Cardinality({n} \X (1 .. k)) = k
  <1> DEFINE File1 == {n}
             Place == 1 .. k
  <1>1. IsFiniteSet(File1) /\ Cardinality(File1) = 1
    BY FS_Singleton
  <1>2. IsFiniteSet(Place) /\ Cardinality(Place) = k
    BY FS_Interval
  <1>3. IsFiniteSet(File1 \X Place) /\ Cardinality(File1 \X Place) = 1 * k
    <2> HIDE DEF File1, Place
    <2> QED  BY <1>1, <1>2, FS_Product
  <1> QED  BY <1>3

LEMMA BytesAdded ==
    ASSUME PayloadTyped, FiniteStore, NEW n \in Names, disk[n] = NoPayload,
           NEW p \in Payload, disk' = [disk EXCEPT ![n] = p]
    PROVE  FiniteStore' /\ Cardinality(StoredBytes') = Cardinality(StoredBytes) + p.size
  <1> DEFINE New == {n} \X (1 .. p.size)
  <1>1. p.size \in Nat /\ p # NoPayload
    BY SizesAssumption, NamesAssumption DEF Payload
  <1>2. Bytes(n) = 0 /\ Bytes(n)' = p.size /\ \A m \in Names \ {n} : Bytes(m)' = Bytes(m)
    BY <1>1 DEF Bytes, PayloadTyped
  <1>3. StoredBytes' = StoredBytes \cup New
    <2>1. \A m \in Names \ {n} : {m} \X (1 .. Bytes(m)') = {m} \X (1 .. Bytes(m))
      BY <1>2
    <2>2. {n} \X (1 .. Bytes(n)) = {}
      BY <1>2
    <2>3. {n} \X (1 .. Bytes(n)') = New
      BY <1>2
    <2> HIDE DEF New, Bytes
    <2> QED  BY <2>1, <2>2, <2>3 DEF StoredBytes
  <1>4. StoredBytes \cap New = {}
    <2>1. \A m \in Names : ({m} \X (1 .. Bytes(m))) \cap New = {}
      BY <1>2
    <2> HIDE DEF New, Bytes
    <2> QED  BY <2>1 DEF StoredBytes
  <1>5. IsFiniteSet(New) /\ Cardinality(New) = p.size
    BY <1>1, BytesOfFile
  <1>6. IsFiniteSet(StoredBytes)
    BY DEF FiniteStore
  <1> HIDE DEF New
  <1>7. /\ IsFiniteSet(StoredBytes \cup New)
        /\ Cardinality(StoredBytes \cup New)
             = Cardinality(StoredBytes) + Cardinality(New) - Cardinality(StoredBytes \cap New)
    BY <1>5, <1>6, FS_Union
  <1>8. Cardinality(StoredBytes \cap New) = 0
    BY <1>4, FS_EmptySet
  <1>9. Cardinality(StoredBytes) \in Nat
    BY <1>6, FS_CardinalityType
  <1> QED  BY <1>1, <1>3, <1>5, <1>7, <1>8, <1>9 DEF FiniteStore

(* The three ways a step may treat the quarantine. *)
Keeps  == UNCHANGED <<disk, part>>
Clears == part' = 0 /\ disk' = [n \in Names |-> NoPayload]
Grows  == /\ Approved
          /\ \/ disk' = disk /\ \E bytes \in 0 .. Remaining : part' = part + bytes
             \/ /\ part' = part
                /\ \E n \in Names, p \in Payload :
                      /\ disk[n] = NoPayload /\ p.size <= Remaining
                      /\ disk' = [disk EXCEPT ![n] = p]

LEMMA QuarantineSteps == TypeOK /\ [Next]_vars => Keeps \/ Clears \/ Grows
  <1> SUFFICES ASSUME TypeOK, [Next]_vars PROVE Keeps \/ Clears \/ Grows
    OBVIOUS
  <1>1. CASE AdminStep
    BY <1>1, AdminLeavesPayload DEF Keeps
  <1>2. CASE ReviewStep
    BY <1>2, ReviewLeavesPayload DEF Keeps
  <1>3. CASE DownloadStep
    <2>1. PICK n \in Names : DownloadFile(n)
      BY <1>3 DEF DownloadStep
    <2>2. Approved
      BY <2>1 DEF DownloadFile
    <2>3. CASE DownloadEnds(n) \/ DownloadFails(n)
      BY <2>3 DEF DownloadEnds, DownloadFails, Keeps
    <2>4. CASE DownloadDies(n)
      BY <2>2, <2>4 DEF DownloadDies, Grows
    <2>5. CASE DownloadCompletes(n)
      BY <2>2, <2>5 DEF DownloadCompletes, Grows
    <2> QED  BY <2>1, <2>3, <2>4, <2>5 DEF DownloadFile
  <1>4. CASE DeletionStep
    BY <1>4, DeletionWrites DEF Keeps, Clears
  <1>5. CASE ValidateFiles
    BY <1>5, ValidateWrites DEF Keeps
  <1>6. CASE ScanFiles
    BY <1>6, ScanWrites DEF Keeps
  <1>7. CASE ParseFiles
    BY <1>7, ParseWrites DEF Keeps
  <1>8. CASE UNCHANGED vars
    BY <1>8 DEF vars, Keeps
  <1> QED  BY <1>1, <1>2, <1>3, <1>4, <1>5, <1>6, <1>7, <1>8, StepsGrouped

(* A step that does not grow the quarantine leaves or empties it; one that   *)
(* does stays within the limit.                                              *)
LEMMA BytesStep ==
    ASSUME TypeOK, FiniteStore, [Next]_vars
    PROVE  /\ FiniteStore'
           /\ Used \in Nat /\ Used' \in Nat
           /\ Used' = Used \/ Used' = 0 \/ (Approved /\ Used' <= approval.limit)
  <1>0. PayloadTyped /\ approval \in ApprovalRow /\ approval.limit \in Nat
    <2>1. PayloadTyped /\ approval \in ApprovalRow
      BY TypeInParts DEF RowsTyped
    <2>2. approval.limit \in Limits \cup {0}
      BY <2>1 DEF ApprovalRow
    <2>3. Limits \cup {0} \subseteq Nat
      BY SizesAssumption
    <2> QED  BY <2>1, <2>2, <2>3
  <1>1. part \in Nat /\ Cardinality(StoredBytes) \in Nat
    BY <1>0, FS_CardinalityType DEF PayloadTyped, FiniteStore
  <1>2. CASE Keeps
    <2>1. part' = part /\ StoredBytes' = StoredBytes
      BY <1>2, SameBytes DEF Keeps
    <2> QED  BY <1>1, <2>1 DEF Used, FiniteStore
  <1>3. CASE Clears
    <2>1. part' = 0 /\ StoredBytes' = {}
      BY <1>3, NoBytes DEF Clears
    <2> QED  BY <1>1, <2>1, FS_EmptySet DEF Used, FiniteStore
  <1>4. CASE Grows
    <2>1. Approved /\ Remaining = approval.limit - Used /\ Used = part + Cardinality(StoredBytes)
      BY <1>4 DEF Grows, Remaining, Used
    <2>2. CASE disk' = disk /\ \E bytes \in 0 .. Remaining : part' = part + bytes
      <3>1. StoredBytes' = StoredBytes
        BY <2>2, SameBytes
      <3>2. Used' = part' + Cardinality(StoredBytes)
        BY <3>1 DEF Used
      <3>3. FiniteStore'
        BY <3>1 DEF FiniteStore
      <3> QED  BY <1>0, <1>1, <2>1, <2>2, <3>2, <3>3
    <2>3. CASE part' = part /\ \E n \in Names, p \in Payload :
                      /\ disk[n] = NoPayload /\ p.size <= Remaining
                      /\ disk' = [disk EXCEPT ![n] = p]
      <3>1. PICK n \in Names, p \in Payload :
                      /\ disk[n] = NoPayload /\ p.size <= Remaining
                      /\ disk' = [disk EXCEPT ![n] = p]
        BY <2>3
      <3>2. FiniteStore' /\ Cardinality(StoredBytes') = Cardinality(StoredBytes) + p.size
        BY <1>0, <3>1, BytesAdded
      <3>3. p.size \in Nat
        BY SizesAssumption DEF Payload
      <3>4. Used' = part + Cardinality(StoredBytes')
        BY <2>3 DEF Used
      <3> QED  BY <1>0, <1>1, <2>1, <3>1, <3>2, <3>3, <3>4
    <2> QED  BY <1>4, <2>2, <2>3 DEF Grows
  <1> QED  BY <1>2, <1>3, <1>4, QuarantineSteps

LEMMA StoreFinite == Spec => [](TypeOK /\ FiniteStore)
  <1>1. Init => FiniteStore
    <2>1. Init => StoredBytes = {}
      BY DEF Init, StoredBytes, Bytes
    <2> QED  BY <2>1, FS_EmptySet DEF FiniteStore
  <1>2. TypeOK /\ FiniteStore /\ [Next]_vars => FiniteStore'
    BY BytesStep
  <1> QED  BY <1>1, <1>2, ImportsTyped, PTL DEF Spec

(* The quarantine grows only under an approval that stands, and not beyond   *)
(* its limit, whatever earlier downloads left behind.                        *)
THEOREM GrowthApproved == Spec => BytesWithinApproval
  <1>1. TypeOK /\ FiniteStore /\ [Next]_vars
          => (Used' > Used => Approved /\ Used' <= approval.limit)
    BY BytesStep
  <1> QED  BY <1>1, StoreFinite, PTL DEF Spec, BytesWithinApproval

(* So, whatever limits are approved one after the other, the quarantine is   *)
(* within one of them at any time.                                           *)
THEOREM QuarantineSmall == Spec => []QuarantineIsBounded
  <1>1. Init => QuarantineIsBounded
    <2>1. Init => StoredBytes = {} /\ part = 0
      BY DEF Init, StoredBytes, Bytes
    <2> QED  BY <2>1, FS_EmptySet DEF QuarantineIsBounded, Used
  <1>2. QuarantineIsBounded /\ TypeOK /\ FiniteStore /\ [Next]_vars => QuarantineIsBounded'
    <2> SUFFICES ASSUME QuarantineIsBounded, TypeOK, FiniteStore, [Next]_vars
                 PROVE  QuarantineIsBounded'
      OBVIOUS
    <2>1. approval.limit \in Limits \cup {0}
      BY TypeInParts DEF RowsTyped, ApprovalRow
    <2>2. \E limit \in Limits \cup {0} : Used' <= limit
      BY <2>1, BytesStep DEF QuarantineIsBounded
    <2> QED  BY <2>2 DEF QuarantineIsBounded
  <1> QED  BY <1>1, <1>2, StoreFinite, PTL DEF Spec
=============================================================================

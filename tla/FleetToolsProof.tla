----------------------------- MODULE FleetToolsProof -----------------------------
(***************************************************************************)
(* Proofs about the commands over a released fleet: any number of          *)
(* invocations, audits and repositories, and a fleet of any size; and      *)
(* about the plans that the composers write.                               *)
(***************************************************************************)
EXTENDS FleetTools, CandidatePlan, FiniteSetTheorems, TLAPS

(* The files that are written once. *)

IInv == TypeOK /\ Holder

\* It holds before the first invocation.
LEMMA HolderStarts ==
    ASSUME Init PROVE IInv
BY WriteOnceAssumption DEF WriteOnceAssumption, Init, IInv, TypeOK, Holder, Inside

\* Every step of every invocation keeps it.
LEMMA HolderContinues ==
    ASSUME IInv, [Next]_vars PROVE IInv'
<1> USE WriteOnceAssumption DEF WriteOnceAssumption, IInv, TypeOK, Goto, Return
<1>1. ASSUME NEW w \in Writers, NEW b \in Bodies, Invoke(w, b) PROVE IInv'
  <2>1. TypeOK'
    BY <1>1 DEF Invoke
  <2>2. Holder'
    BY <1>1 DEF Invoke, Holder, Inside
  <2> QED BY <2>1, <2>2
<1>2. ASSUME NEW w \in Writers, Compare(w) PROVE IInv'
  <2>1. TypeOK'
    BY <1>2 DEF Compare
  <2>2. Holder'
    BY <1>2 DEF Compare, Holder, Inside
  <2> QED BY <2>1, <2>2
<1>3. ASSUME NEW w \in Writers, Create(w) PROVE IInv'
  <2>1. TypeOK'
    BY <1>3 DEF Create, Holder
  <2>2. CASE owner = NoBody
    \* Nobody is inside and nobody has succeeded: the file would exist.
    <3>1. \A v \in Writers : ~Inside(v) /\ result[v] \notin {"written", "unchanged"}
      BY <2>2 DEF Holder, Inside
    <3>2. Holder'
      BY <1>3, <2>2, <3>1 DEF Create, Holder, Inside
    <3> QED BY <2>1, <3>2
  <2>3. CASE owner # NoBody
    <3>1. Holder'
      BY <1>3, <2>3 DEF Create, Holder, Inside
    <3> QED BY <2>1, <3>1
  <2> QED BY <2>2, <2>3
<1>4. ASSUME NEW w \in Writers, Write(w) PROVE IInv'
  <2>1. TypeOK'
    BY <1>4 DEF Write
  <2>2. Holder'
    BY <1>4 DEF Write, Holder, Inside
  <2> QED BY <2>1, <2>2
<1>5. ASSUME NEW w \in Writers, Close(w) PROVE IInv'
  <2>1. TypeOK'
    BY <1>5 DEF Close
  <2>2. Holder'
    BY <1>5 DEF Close, Holder, Inside
  <2> QED BY <2>1, <2>2
<1>6. ASSUME NEW w \in Writers, Dies(w) PROVE IInv'
  <2>1. TypeOK'
    BY <1>6 DEF Dies
  <2>2. Holder'
    BY <1>6 DEF Dies, Holder, Inside
  <2> QED BY <2>1, <2>2
<1>7. CASE UNCHANGED vars
  BY <1>7 DEF vars, Holder, Inside
<1> QED BY <1>1, <1>2, <1>3, <1>4, <1>5, <1>6, <1>7 DEF Next

\* The inductive invariant: an invocation past the exclusive creation is alone
\* there and the file is its own.
THEOREM HolderIsAlone == Spec => []IInv
<1>1. Init => IInv
  BY HolderStarts
<1>2. IInv /\ [Next]_vars => IInv'
  BY HolderContinues
<1> QED BY <1>1, <1>2, PTL DEF Spec

\* Success, "written" or "unchanged", means the file holds one's own bytes.
THEOREM SuccessKeepsBytes == Spec => []SuccessIsOwnBytes
<1>1. IInv => SuccessIsOwnBytes
  BY DEF IInv, Holder, SuccessIsOwnBytes
<1> QED BY <1>1, HolderIsAlone, PTL

\* At most one invocation reports "written": two of them would have to have
\* been inside at the same time, or one after the other.
THEOREM WrittenOnce == Spec => []OneWriter
<1>1. Init => OneWriter
  BY DEF Init, OneWriter
<1>2. IInv /\ OneWriter /\ [Next]_vars => OneWriter'
  <2> SUFFICES ASSUME IInv, OneWriter, [Next]_vars PROVE OneWriter'
    OBVIOUS
  <2> USE DEF IInv, TypeOK, OneWriter, Goto, Return
  <2>1. ASSUME NEW w \in Writers, NEW b \in Bodies, Invoke(w, b) PROVE OneWriter'
    BY <2>1 DEF Invoke
  <2>2. ASSUME NEW w \in Writers, Compare(w) \/ Create(w) \/ Write(w) \/ Dies(w)
        PROVE OneWriter'
    BY <2>2 DEF Compare, Create, Write, Dies
  <2>3. ASSUME NEW w \in Writers, Close(w) PROVE OneWriter'
    \* Whoever closes is inside, and then nobody has reported "written".
    <3>1. \A v \in Writers : result[v] # "written"
      BY <2>3 DEF Close, Holder, Inside
    <3> QED BY <2>3, <3>1 DEF Close
  <2>4. CASE UNCHANGED vars
    BY <2>4 DEF vars
  <2> QED BY <2>1, <2>2, <2>3, <2>4 DEF Next
<1> QED BY <1>1, <1>2, HolderIsAlone, PTL DEF Spec

\* The file is immutable once created, and complete for good once complete.
THEOREM FileIsImmutable == Spec => Immutable
<1>1. IInv /\ [Next]_vars => [owner # NoBody => owner' = owner /\ (full => full')]_vars
  <2> SUFFICES ASSUME IInv, Next, owner # NoBody PROVE owner' = owner /\ (full => full')
    OBVIOUS
  <2> USE DEF IInv, TypeOK, Holder, Inside
  <2>1. PICK w \in Writers :
            \/ \E b \in Bodies : Invoke(w, b)
            \/ Compare(w) \/ Create(w) \/ Write(w) \/ Close(w) \/ Dies(w)
    BY DEF Next
  <2>2. CASE Write(w)
    BY <2>2 DEF Write
  <2>3. CASE ~Write(w)
    BY <2>1, <2>3 DEF Invoke, Compare, Create, Close, Dies
  <2> QED BY <2>2, <2>3
<1> QED BY <1>1, HolderIsAlone, PTL DEF Spec, Immutable

--------------------------------------------------------------------------------
(* The audits. *)

AuditTypeOK ==
    /\ phase \in [Auditors -> {"idle", "audit", "evidence", "written"}]
    /\ report \in [Auditors -> Seq(BOOLEAN)]
    /\ failed \in [Auditors -> BOOLEAN]
    /\ verdict \in [Auditors -> {"none", "nil", "error"}]

\* An audit without an error has a whole report without failures, the report is
\* what the file is to hold, and the call that writes it has a result.
EvidenceIsReport ==
    \A w \in Auditors :
        /\ Len(report[w]) <= Repositories
        /\ phase[w] \in {"evidence", "written"} /\ ~failed[w] => report[w] = Clean
        /\ phase[w] = "written" =>
              body[w] = report[w] /\ (pc[w] = "idle" => result[w] # "none")

\* Reports are bodies of files, so they are not the missing file.
LEMMA CleanIsBody == Clean \in Bodies /\ Clean # NoBody
<1> USE AuditAssumption, WriteOnceAssumption DEF AuditAssumption, WriteOnceAssumption
<1>1. Clean \in [1..Repositories -> BOOLEAN] /\ Repositories \in 0..Repositories
  BY DEF Clean
<1>2. Clean \in Reports
  BY <1>1 DEF Reports
<1> QED
  BY <1>2

\* What an audit has so far is a report.
LEMMA ReportIsReport ==
    ASSUME AuditTypeOK, EvidenceIsReport, NEW w \in Auditors
    PROVE  report[w] \in Bodies
<1> USE AuditAssumption DEF AuditAssumption
<1>1. report[w] \in Seq(BOOLEAN) /\ Len(report[w]) <= Repositories
  BY DEF AuditTypeOK, EvidenceIsReport
<1>2. Len(report[w]) \in 0..Repositories /\ report[w] \in [1..Len(report[w]) -> BOOLEAN]
  BY <1>1
<1>3. report[w] \in Reports
  BY <1>2 DEF Reports
<1> QED
  BY <1>3

\* A whole report without a failure is the clean one.
LEMMA WholeIsClean ==
    ASSUME NEW r \in Seq(BOOLEAN), Len(r) = Repositories,
           ~ \E n \in 1..Repositories : r[n]
    PROVE  r = Clean
<1>1. r \in [1..Repositories -> BOOLEAN]
  OBVIOUS
<1>2. \A n \in 1..Repositories : r[n] = FALSE
  BY <1>1
<1> QED
  BY <1>1, <1>2 DEF Clean

\* A step on the file changes no body, and ends with a result.
LEMMA FileSteps ==
    ASSUME TypeOK, NEW w \in Writers, FileStep(w)
    PROVE  /\ UNCHANGED body
           /\ \A v \in Writers : pc'[v] = "idle" => result'[v] # "none" \/ (UNCHANGED pc[v] /\ UNCHANGED result[v])
<1> USE DEF TypeOK, Goto, Return
<1>1. CASE Compare(w)
  BY <1>1 DEF Compare
<1>2. CASE Create(w)
  BY <1>2 DEF Create
<1>3. CASE Write(w)
  BY <1>3 DEF Write
<1>4. CASE Close(w) \/ Dies(w)
  BY <1>4 DEF Close, Dies
<1> QED
  BY <1>1, <1>2, <1>3, <1>4 DEF FileStep

\* Every step of the tools leaves the file alone or is one of its writers'.
LEMMA ToolsWriteOnce ==
    ASSUME AuditTypeOK, EvidenceIsReport, [ToolsNext]_toolVars PROVE [Next]_vars
<1> USE AuditAssumption DEF AuditAssumption
<1>1. ASSUME NEW w \in Writers, FileStep(w) PROVE Next
  BY <1>1 DEF FileStep, Next
<1>2. CASE PlanNext
  BY <1>1, <1>2 DEF PlanNext, Next
<1>3. CASE AuditNext
  <2>1. PICK w \in Auditors :
            \/ Begin(w) \/ Audit(w) \/ AuditInvalid(w) \/ AuditEnds(w)
            \/ WriteEvidence(w) \/ Exit(w)
            \/ FileStep(w) /\ UNCHANGED audits
    BY <1>3 DEF AuditNext
  <2>2. w \in Writers
    BY WriteOnceAssumption DEF WriteOnceAssumption
  <2>3. CASE WriteEvidence(w)
    BY <2>2, <2>3, ReportIsReport DEF WriteEvidence, Next
  <2>4. CASE FileStep(w)
    BY <1>1, <2>2, <2>4
  <2>5. CASE UNCHANGED vars
    BY <2>5
  <2> QED
    BY <2>1, <2>3, <2>4, <2>5 DEF Begin, Audit, AuditInvalid, AuditEnds, Exit
<1> QED
  BY <1>2, <1>3 DEF ToolsNext, toolVars, auditVars

\* The audits keep their types.
LEMMA AuditTypes ==
    ASSUME AuditTypeOK, AuditNext PROVE AuditTypeOK'
<1> USE DEF AuditTypeOK, To, Finished
<1>1. PICK w \in Auditors :
          \/ Begin(w) \/ Audit(w) \/ AuditInvalid(w) \/ AuditEnds(w)
          \/ WriteEvidence(w) \/ Exit(w)
          \/ FileStep(w) /\ UNCHANGED audits
  BY DEF AuditNext
<1>2. CASE Begin(w)
  <2>1. <<>> \in Seq(BOOLEAN)
    OBVIOUS
  <2>2. report' \in [Auditors -> Seq(BOOLEAN)] /\ failed' \in [Auditors -> BOOLEAN]
    BY <1>2, <2>1 DEF Begin
  <2>3. phase' \in {phase, [phase EXCEPT ![w] = "audit"]}
    BY <1>2 DEF Begin
  <2>4. verdict' \in {[verdict EXCEPT ![w] = "none"], [verdict EXCEPT ![w] = "error"]}
    BY <1>2 DEF Begin
  <2> QED
    BY <2>2, <2>3, <2>4
<1>3. CASE Audit(w)
  <2>1. PICK failures \in BOOLEAN :
            report' = [report EXCEPT ![w] = Append(report[w], failures)]
    BY <1>3 DEF Audit
  <2>2. Append(report[w], failures) \in Seq(BOOLEAN)
    OBVIOUS
  <2>3. report' \in [Auditors -> Seq(BOOLEAN)]
    BY <2>1, <2>2
  <2>4. phase' \in {phase, [phase EXCEPT ![w] = "evidence"]}
    BY <1>3 DEF Audit
  <2>5. failed' \in {failed, [failed EXCEPT ![w] = TRUE]}
    BY <1>3 DEF Audit
  <2>6. UNCHANGED verdict
    BY <1>3 DEF Audit
  <2> QED
    BY <2>3, <2>4, <2>5, <2>6
<1>4. CASE AuditInvalid(w)
  BY <1>4 DEF AuditInvalid
<1>5. CASE AuditEnds(w)
  BY <1>5 DEF AuditEnds
<1>6. CASE WriteEvidence(w) \/ Exit(w)
  BY <1>6 DEF WriteEvidence, Exit
<1>7. CASE UNCHANGED audits
  BY <1>7 DEF audits
<1> QED
  BY <1>1, <1>2, <1>3, <1>4, <1>5, <1>6, <1>7

\* A step of an audit keeps the report and the evidence together.
LEMMA KeepsEvidence ==
    ASSUME TypeOK, AuditTypeOK, EvidenceIsReport, AuditNext PROVE EvidenceIsReport'
<1> USE AuditAssumption DEF AuditAssumption, AuditTypeOK, EvidenceIsReport, To, Finished
<1>1. PICK w \in Auditors :
          \/ Begin(w) \/ Audit(w) \/ AuditInvalid(w) \/ AuditEnds(w)
          \/ WriteEvidence(w) \/ Exit(w)
          \/ FileStep(w) /\ UNCHANGED audits
  BY DEF AuditNext
<1>2. CASE Begin(w)
  BY <1>2 DEF Begin, vars
<1>3. CASE Audit(w)
  BY <1>3 DEF Audit, vars
<1>4. CASE AuditInvalid(w)
  BY <1>4 DEF AuditInvalid, vars
<1>5. CASE AuditEnds(w)
  <2>1. ~failed'[w] => report[w] = Clean
    <3>1. report[w] \in Seq(BOOLEAN) /\ Len(report[w]) = Repositories
      BY <1>5 DEF AuditEnds
    <3>2. failed'[w] = \E n \in 1..Repositories : report[w][n]
      BY <1>5 DEF AuditEnds
    <3> QED
      BY <3>1, <3>2, WholeIsClean
  <2>2. /\ phase' = [phase EXCEPT ![w] = "evidence"]
        /\ \A v \in Auditors : v # w => failed'[v] = failed[v]
        /\ UNCHANGED <<report, vars>>
    BY <1>5 DEF AuditEnds
  <2> QED
    BY <2>1, <2>2 DEF vars
<1>6. CASE WriteEvidence(w)
  BY <1>6, WriteOnceAssumption DEF WriteEvidence, Invoke, Goto, TypeOK, WriteOnceAssumption
<1>7. CASE Exit(w)
  BY <1>7 DEF Exit, vars
<1>8. CASE FileStep(w) /\ UNCHANGED audits
  <2>1. w \in Writers /\ Auditors \subseteq Writers
    BY WriteOnceAssumption DEF WriteOnceAssumption
  <2> QED
    BY <1>8, <2>1, FileSteps DEF audits
<1> QED
  BY <1>1, <1>2, <1>3, <1>4, <1>5, <1>6, <1>7, <1>8

\* The tools on a path of their own are the writers of a file written once.
THEOREM ToolsAreWriters == ToolsSpec => Spec /\ [](AuditTypeOK /\ EvidenceIsReport)
<1> DEFINE Evidence == AuditTypeOK /\ EvidenceIsReport
<1>1. ToolsInit => Init /\ Evidence
  <2> SUFFICES ASSUME ToolsInit PROVE Init /\ Evidence
    OBVIOUS
  <2>1. <<>> \in Seq(BOOLEAN) /\ Len(<<>>) <= Repositories
    BY AuditAssumption DEF AuditAssumption
  <2> QED
    BY <2>1 DEF ToolsInit, AuditInit, AuditTypeOK, EvidenceIsReport
<1>2. Evidence /\ [ToolsNext]_toolVars => [Next]_vars
  BY ToolsWriteOnce
<1>3. IInv /\ Evidence /\ [ToolsNext]_toolVars => IInv' /\ Evidence'
  <2> SUFFICES ASSUME IInv, Evidence, [ToolsNext]_toolVars PROVE IInv' /\ Evidence'
    OBVIOUS
  <2>0. IInv'
    BY ToolsWriteOnce, HolderContinues
  <2>4. TypeOK
    BY DEF IInv
  <2>1. ASSUME tool = "audit", AuditNext PROVE Evidence'
    BY <2>1, <2>4, AuditTypes, KeepsEvidence
  <2>2. ASSUME PlanNext, UNCHANGED audits PROVE Evidence'
    <3>1. PICK w \in Writers \ Auditors :
              (\E b \in Bodies \ Reports : Invoke(w, b)) \/ FileStep(w)
      BY <2>2 DEF PlanNext
    <3>2. \A v \in Auditors : UNCHANGED <<body[v], pc[v], result[v]>>
      <4> USE <2>4 DEF TypeOK, Goto, Return
      <4>1. \A v \in Auditors : v # w /\ v \in Writers
        BY AuditAssumption, WriteOnceAssumption DEF AuditAssumption, WriteOnceAssumption
      <4>2. CASE \E b \in Bodies \ Reports : Invoke(w, b)
        BY <4>1, <4>2 DEF Invoke
      <4>3. CASE Compare(w)
        BY <4>1, <4>3 DEF Compare
      <4>4. CASE Create(w)
        BY <4>1, <4>4 DEF Create
      <4>5. CASE Write(w)
        BY <4>1, <4>5 DEF Write
      <4>6. CASE Close(w) \/ Dies(w)
        BY <4>1, <4>6 DEF Close, Dies
      <4> QED
        BY <3>1, <4>2, <4>3, <4>4, <4>5, <4>6 DEF FileStep
    <3> QED
      BY <2>2, <3>2 DEF audits, AuditTypeOK, EvidenceIsReport
  <2>3. ASSUME UNCHANGED auditVars PROVE Evidence'
    BY <2>3 DEF auditVars, audits, vars, AuditTypeOK, EvidenceIsReport
  <2> QED
    BY <2>0, <2>1, <2>2, <2>3 DEF ToolsNext, toolVars
<1>4. Init => IInv
  BY HolderStarts
<1> QED
  BY <1>1, <1>2, <1>3, <1>4, PTL DEF ToolsSpec, Spec

\* Composers and audits alike: whoever reports success has its bytes in the file.
THEOREM ToolsKeepBytes == ToolsSpec => []SuccessIsOwnBytes
BY ToolsAreWriters, SuccessKeepsBytes, PTL

\* However many audits run at once and however often, an audit passes only with
\* a complete report without failures in the evidence file: its report is what
\* the file was to hold, and a file that was written once stays.
THEOREM PassesAreRecorded == ToolsSpec => []PassIsRecorded
<1>1. ToolsInit => PassIsRecorded
  BY DEF ToolsInit, AuditInit, PassIsRecorded
<1>2. /\ TypeOK /\ SuccessIsOwnBytes /\ AuditTypeOK /\ EvidenceIsReport /\ PassIsRecorded
      /\ [owner # NoBody => owner' = owner /\ (full => full')]_vars
      /\ [ToolsNext]_toolVars
      => PassIsRecorded'
  <2> SUFFICES ASSUME TypeOK, SuccessIsOwnBytes, AuditTypeOK, EvidenceIsReport, PassIsRecorded,
                      [owner # NoBody => owner' = owner /\ (full => full')]_vars,
                      [ToolsNext]_toolVars, NEW w \in Auditors, verdict'[w] = "nil"
               PROVE  full' /\ owner' = Clean
    BY DEF PassIsRecorded
  <2>1. full /\ owner = Clean => full' /\ owner' = Clean
    BY CleanIsBody DEF vars
  <2>2. CASE verdict[w] = "nil"
    BY <2>1, <2>2 DEF PassIsRecorded
  <2>3. CASE verdict[w] # "nil"
    <3>1. Exit(w) /\ result[w] # "error" /\ ~failed[w]
      <4>1. PICK v \in Auditors :
                \/ Begin(v) \/ Audit(v) \/ AuditInvalid(v) \/ AuditEnds(v)
                \/ WriteEvidence(v) \/ Exit(v)
                \/ FileStep(v) /\ UNCHANGED audits
        BY <2>3 DEF ToolsNext, toolVars, auditVars, audits, AuditNext
      <4>2. UNCHANGED verdict \/ Exit(v) \/ verdict' \in
                {[verdict EXCEPT ![v] = "none"], [verdict EXCEPT ![v] = "error"]}
        BY <4>1 DEF Begin, Audit, AuditInvalid, AuditEnds, WriteEvidence, audits
      <4>3. Exit(v) /\ v = w
        BY <2>3, <4>2 DEF AuditTypeOK, Exit
      <4> QED
        BY <2>3, <4>3 DEF AuditTypeOK, Exit
    <3>2. phase[w] = "written" /\ pc[w] = "idle"
      BY <3>1 DEF Exit
    <3>3. w \in Writers
      BY AuditAssumption, WriteOnceAssumption DEF AuditAssumption, WriteOnceAssumption
    <3>4. report[w] = Clean /\ body[w] = report[w] /\ result[w] \in {"written", "unchanged"}
      BY <3>1, <3>2, <3>3 DEF EvidenceIsReport, TypeOK
    <3> QED
      BY <2>1, <3>3, <3>4 DEF SuccessIsOwnBytes
  <2> QED
    BY <2>2, <2>3
<1>3. IInv => TypeOK
  BY DEF IInv
<1> QED
  BY <1>1, <1>2, <1>3, ToolsAreWriters, ToolsKeepBytes, HolderIsAlone, FileIsImmutable, PTL
     DEF ToolsSpec, Immutable

--------------------------------------------------------------------------------
(* The verification of releases. *)

\* Where verify is says what it holds.
StageTypeOK ==
    /\ stage \in {"registry", "next", "release", "artifact", "inspect", "clear", "extract", "done"}
    /\ rest \subseteq Fleet /\ component \in Fleet \cup {NoComponent}
    /\ temp \in {"none", "pinned", "alien"} /\ staging \in BOOLEAN
    /\ dest \in [Fleet -> {"none", "partial", "pinned", "alien"}]
    /\ answer \in {"none", "nil", "error"}

\* A component has left the loop when its pinned bytes are staged, the temporary
\* file exists from the download to the return of verifyComponent, and only
\* the component at hand is touched.
StagedSoFar ==
    /\ stage \in {"release", "artifact", "inspect", "clear", "extract"} =>
          component \in rest
    /\ stage \in {"inspect", "clear", "extract"} => temp = "pinned"
    /\ stage \notin {"inspect", "clear", "extract"} => temp = "none"
    /\ stage \in {"clear", "extract"} => staging
    /\ staging /\ (stage \notin {"registry", "done"} \/ answer = "nil") =>
          \A c \in Fleet \ rest : dest[c] = "pinned"
    /\ stage = "registry" => rest = Fleet
    /\ answer = "nil" => rest = {}
    /\ stage # "done" => answer = "none"

\* The invariant of the verification, and that the stage changes only at hand.
LEMMA StageSteps ==
    ASSUME StageTypeOK, StagedSoFar, [StageNext]_stageVars
    PROVE  /\ StageTypeOK' /\ StagedSoFar'
           /\ \A c \in Fleet : dest'[c] # dest[c] => component = c /\ temp = "pinned"
<1> DEFINE AtHand == \A c \in Fleet : dest'[c] # dest[c] => component = c /\ temp = "pinned"
<1> USE StageAssumption DEF StageAssumption, StageTypeOK, StagedSoFar, Leave
<1> SUFFICES StageTypeOK' /\ StagedSoFar' /\ AtHand
  OBVIOUS
<1>1. CASE Call
  BY <1>1 DEF Call
<1>2. CASE Refused
  BY <1>2 DEF Refused
<1>3. CASE GetRegistry
  BY <1>3 DEF GetRegistry
<1>4. CASE GetRelease
  BY <1>4 DEF GetRelease
<1>5. CASE Download
  BY <1>5 DEF Download
<1>6. CASE InspectArchive
  BY <1>6 DEF InspectArchive
<1>7. CASE ClearDestination
  BY <1>7 DEF ClearDestination
<1>8. CASE ExtractArchive
  BY <1>8 DEF ExtractArchive
<1>9. CASE Verified
  BY <1>9 DEF Verified
<1>10. ASSUME NEW c \in Fleet, VerifyComponent(c) PROVE StageTypeOK' /\ StagedSoFar' /\ AtHand
  BY <1>10 DEF VerifyComponent
<1>11. CASE UNCHANGED stageVars
  BY <1>11 DEF stageVars
<1> QED
  BY <1>1, <1>2, <1>3, <1>4, <1>5, <1>6, <1>7, <1>8, <1>9, <1>10, <1>11 DEF StageNext

\* The stage has its invariant, whatever the other tools do.
LEMMA StageInvariant == ToolsSpec => [](StageTypeOK /\ StagedSoFar)
<1>1. ToolsInit => StageTypeOK /\ StagedSoFar
  BY DEF ToolsInit, StageInit, StageTypeOK, StagedSoFar
<1>2. [ToolsNext]_toolVars => [StageNext]_stageVars
  BY DEF ToolsNext, toolVars
<1>3. StageTypeOK /\ StagedSoFar /\ [StageNext]_stageVars => (StageTypeOK /\ StagedSoFar)'
  BY StageSteps
<1> QED
  BY <1>1, <1>2, <1>3, PTL DEF ToolsSpec

\* When VerifyAndStage returns nil every component of the fleet is on the stage,
\* complete and with the pinned bytes, and no archive is left behind.
THEOREM StageIsPinned == ToolsSpec => []StagedIsPinned
<1>1. StageTypeOK /\ StagedSoFar => StagedIsPinned
  BY DEF StageTypeOK, StagedSoFar, StagedIsPinned
<1> QED
  BY <1>1, StageInvariant, PTL

\* The last good stage of a component gives way to a verified archive only.
THEOREM LastStageIsKept == ToolsSpec => KeepsLastStage
<1>1. [ToolsNext]_toolVars => [StageNext]_stageVars
  BY DEF ToolsNext, toolVars
<1>2. StageTypeOK /\ StagedSoFar /\ [StageNext]_stageVars
      => [\A c \in Fleet : dest'[c] # dest[c] => component = c /\ temp = "pinned"]_stageVars
  BY StageSteps
<1> QED
  BY <1>1, <1>2, StageInvariant, PTL DEF ToolsSpec, KeepsLastStage

--------------------------------------------------------------------------------
(* The resolution of local releases. *)

StoreTypeOK ==
    /\ reading \in {"document", "files", "digest", "program", "done"}
    /\ isPlugin \in BOOLEAN /\ document \in FileBytes /\ program \in FileBytes
    /\ checked \in 0..3 /\ resolved \in {"none", "nil", "error"}
    /\ disk \in [Files -> FileBytes] /\ stray \in BOOLEAN /\ rewritten \in SUBSET Files

\* What a resolution has compared is still so, or was rewritten since.
ComparedSoFar ==
    /\ reading # "done" => resolved = "none"
    /\ reading = "document" => checked = 0
    /\ reading \in {"files", "digest", "program"} \/ resolved = "nil" =>
          \A i \in 1..checked : disk[Declared[i]] = document \/ Declared[i] \in rewritten
    /\ reading \in {"digest", "program"} \/ resolved = "nil" => checked = 3
    /\ reading \in {"files", "digest"} =>
          disk["release.json"] = document \/ "release.json" \in rewritten
    /\ reading = "program" \/ resolved = "nil" =>
          document = "selected" \/ "release.json" \in rewritten
    /\ resolved = "nil" /\ isPlugin => program = document \/ "manifest" \in rewritten

\* Each step of a resolution, and each publication, keeps it.
LEMMA StoreSteps ==
    ASSUME StoreTypeOK, ComparedSoFar, [StoreNext]_storeVars
    PROVE  StoreTypeOK' /\ ComparedSoFar'
<1> USE DEF StoreTypeOK, ComparedSoFar, ReadOn, Resolved, directory, FileBytes, Files, Declared
<1>1. CASE Resolve
  BY <1>1 DEF Resolve
<1>2. CASE ResolveFails
  BY <1>2 DEF ResolveFails
<1>3. CASE DecodeDocument
  BY <1>3 DEF DecodeDocument
<1>4. CASE VerifyLocalFile
  <2>1. StoreTypeOK'
    BY <1>4 DEF VerifyLocalFile
  <2>2. CASE disk[Declared[checked + 1]] = document
    <3>1. checked' = checked + 1 /\ UNCHANGED <<reading, resolved, isPlugin, document, program, directory>>
      BY <1>4, <2>2 DEF VerifyLocalFile
    <3>2. \A i \in 1..checked' : disk[Declared[i]] = document \/ Declared[i] \in rewritten
      BY <1>4, <2>2, <3>1 DEF VerifyLocalFile
    <3>3. reading = "files" /\ resolved = "none"
      BY <1>4 DEF VerifyLocalFile
    <3> QED
      BY <2>1, <3>1, <3>2, <3>3
  <2>3. CASE disk[Declared[checked + 1]] # document
    BY <1>4, <2>1, <2>3 DEF VerifyLocalFile
  <2> QED
    BY <2>2, <2>3
<1>5. CASE ListDirectory
  BY <1>5 DEF ListDirectory
<1>6. CASE DigestDocument
  BY <1>6 DEF DigestDocument
<1>7. CASE ReadProgram
  BY <1>7 DEF ReadProgram
<1>8. CASE Publish
  <2>1. ASSUME NEW f \in Files, NEW b \in FileBytes,
               disk' = [disk EXCEPT ![f] = b], rewritten' = rewritten \cup {f},
               UNCHANGED <<reading, isPlugin, document, checked, program, resolved, stray>>
        PROVE  StoreTypeOK' /\ ComparedSoFar'
    <3>1. \A g \in Files : g \notin rewritten' => disk'[g] = disk[g] /\ g \notin rewritten
      BY <2>1
    <3>2. \A i \in 1..checked : Declared[i] \in Files
      OBVIOUS
    <3>3. StoreTypeOK'
      BY <2>1
    <3>4. rewritten \subseteq rewritten'
      BY <2>1
    <3> QED
      BY <2>1, <3>1, <3>2, <3>3, <3>4
  <2>2. ASSUME stray' = ~stray, UNCHANGED <<disk, rewritten>>,
               UNCHANGED <<reading, isPlugin, document, checked, program, resolved>>
        PROVE  StoreTypeOK' /\ ComparedSoFar'
    BY <2>2
  <2> QED
    BY <1>8, <2>1, <2>2 DEF Publish
<1>9. CASE UNCHANGED storeVars
  BY <1>9 DEF storeVars
<1> QED
  BY <1>1, <1>2, <1>3, <1>4, <1>5, <1>6, <1>7, <1>8, <1>9 DEF StoreNext

\* A release that is resolved is the selected one, but for what was rewritten
\* under the resolution.
THEOREM ResolvedIsSelected == ToolsSpec => []ReleaseIsSelected
<1>1. ToolsInit => StoreTypeOK /\ ComparedSoFar
  <2> SUFFICES ASSUME StoreInit PROVE StoreTypeOK /\ ComparedSoFar
    BY DEF ToolsInit
  <2>1. StoreTypeOK
    <3>1. disk \in [Files -> FileBytes] /\ stray \in BOOLEAN /\ rewritten \in SUBSET Files
      BY DEF StoreInit
    <3>2. "missing" \in FileBytes /\ 0 \in 0..3
      BY DEF FileBytes
    <3> QED
      BY <3>1, <3>2 DEF StoreInit, StoreTypeOK
  <2>2. ComparedSoFar
    BY DEF StoreInit, ComparedSoFar
  <2> QED
    BY <2>1, <2>2
<1>2. [ToolsNext]_toolVars => [StoreNext]_storeVars
  BY DEF ToolsNext, toolVars
<1>3. StoreTypeOK /\ ComparedSoFar /\ [StoreNext]_storeVars => (StoreTypeOK /\ ComparedSoFar)'
  BY StoreSteps
<1>4. StoreTypeOK /\ ComparedSoFar => ReleaseIsSelected
  BY DEF StoreTypeOK, ComparedSoFar, ReleaseIsSelected, Files, Declared
<1> QED
  BY <1>1, <1>2, <1>3, <1>4, PTL DEF ToolsSpec

--------------------------------------------------------------------------------
(* The composers. *)

\* What has been verified is whole and comes once; Compose visits components of
\* the source plan only, ComposeLocal sees the sidecars before the plugins.
VerifiedOnce ==
    /\ verified \cup todo = Entries /\ verified \cap broken = {}
    /\ broken \subseteq Entries /\ stale \subseteq Entries
    /\ \A d, e \in verified : id[d] = id[e] => d = e

Compose == composer = "native" => Ids(verified) \subseteq wanted

ComposeLocal ==
    composer = "local" =>
        /\ \A e \in Entries : id[e] \in Plugins \cup Sidecars
        /\ \A e \in Entries : kind[e] = IF id[e] \in Plugins THEN "plugin" ELSE "sidecar"
        /\ needs \in [Plugins -> SUBSET Sidecars]
        /\ used \subseteq Ids(verified) \cap Sidecars
        /\ used = UNION {needs[p] : p \in Ids(verified) \cap Plugins}

ComposeInv ==
    /\ VerifiedOnce /\ Compose /\ ComposeLocal
    /\ PlanIsClosed /\ LocalPlanIsComplete

\* It holds before the first entry.
LEMMA CompositionStarts ==
    ASSUME ComposeInit PROVE ComposeInv
<1> USE DEF ComposeInit
<1>1. VerifiedOnce /\ Compose
  BY DEF VerifiedOnce, Compose, Entries, Ids
<1>2. ComposeLocal
  <2> SUFFICES ASSUME composer = "local" PROVE ComposeLocal
    BY DEF ComposeLocal
  <2>1. \A e \in Entries : id[e] \in Plugins \cup Sidecars
    <3>1. PICK n \in 0..MaxEntries : id \in [1..n -> Plugins \cup Sidecars]
      OBVIOUS
    <3> QED
      BY <3>1 DEF Entries
  <2>2. \A e \in Entries : kind[e] = IF id[e] \in Plugins THEN "plugin" ELSE "sidecar"
    <3>1. kind = OwnKinds
      OBVIOUS
    <3> QED
      BY <2>1, <3>1, PlanAssumption DEF OwnKinds, PlanAssumption
  <2>3. Ids(verified) = {} /\ needs \in [Plugins -> SUBSET Sidecars]
    BY DEF Ids
  <2> QED
    BY <2>1, <2>2, <2>3 DEF ComposeLocal
<1>3. PlanIsClosed /\ LocalPlanIsComplete
  BY DEF PlanIsClosed, LocalPlanIsComplete
<1> QED
  BY <1>1, <1>2, <1>3 DEF ComposeInv

\* A plan that Compose emits is closed: the verified components are as many as
\* the wanted ones, and among them.
LEMMA CompositionEmits ==
    ASSUME ComposeInv, EmitPlan PROVE ComposeInv'
<1> USE DEF ComposeInv, EmitPlan, Refuse, Running
<1>1. UNCHANGED <<composer, id, kind, broken, stale, needs, todo, verified, used>>
  BY DEF inputs
<1>2. VerifiedOnce' /\ Compose' /\ ComposeLocal'
  BY <1>1 DEF VerifiedOnce, Compose, ComposeLocal, Entries, Ids, wanted
<1>3. LocalPlanIsComplete'
  BY <1>1 DEF LocalPlanIsComplete
<1>4. ASSUME outcome' = "written" PROVE PlanIsClosed'
  <2>1. /\ Cardinality(Ids(verified)) = Cardinality(wanted)
        /\ \A e \in verified : id[e] = Contract => kind[e] = "contract"
        /\ \A e \in Composed : kind[e] = "sidecar" \/ e \notin stale
        /\ plan' = {[id |-> id[e], kind |-> kind[e], program |-> FALSE] : e \in Composed}
        /\ composer = "native"
    BY <1>4
  <2>2. verified = Entries
    BY DEF VerifiedOnce
  <2>3. Ids(verified) = wanted
    <3>1. IsFiniteSet(wanted) /\ Ids(verified) \in SUBSET wanted
      BY PlanAssumption DEF PlanAssumption, wanted, Compose
    <3> QED
      BY <2>1, <3>1, FS_Subset
  <2>4. {c.id : c \in plan'} = Plugins \cup Sidecars
    <3>1. \A c \in plan' : c.id \in Plugins \cup Sidecars
      <4> TAKE c \in plan'
      <4>1. PICK e \in Composed : c = [id |-> id[e], kind |-> kind[e], program |-> FALSE]
        BY <2>1
      <4> QED
        BY <4>1 DEF Composed
    <3>2. \A x \in Plugins \cup Sidecars : \E c \in plan' : c.id = x
      <4> TAKE x \in Plugins \cup Sidecars
      <4>1. PICK e \in verified : id[e] = x
        BY <2>3 DEF Ids, wanted
      <4> DEFINE c == [id |-> id[e], kind |-> kind[e], program |-> FALSE]
      <4>2. c \in plan' /\ c.id = x
        BY <2>1, <4>1 DEF Composed
      <4> QED
        BY <4>2
    <3> QED
      BY <3>1, <3>2
  <2>5. broken = {} /\ \A d, e \in Entries : id[d] = id[e] => d = e
    BY <2>2 DEF VerifiedOnce
  <2>6. \A e \in stale : id[e] \in Plugins \cup Sidecars => kind[e] = "sidecar"
    BY <2>1, <2>2 DEF Composed, VerifiedOnce
  <2> QED
    BY <1>1, <2>1, <2>2, <2>3, <2>4, <2>5, <2>6 DEF PlanIsClosed, Entries, Ids, wanted
<1>5. outcome' # "written" => PlanIsClosed'
  BY DEF PlanIsClosed
<1> QED
  BY <1>2, <1>3, <1>4, <1>5

\* A plan that ComposeLocal emits has the sidecars its plugins need, for the used
\* ones are as many as the verified ones, and among them.
LEMMA LocalCompositionEmits ==
    ASSUME ComposeInv, EmitLocalPlan PROVE ComposeInv'
<1> USE DEF ComposeInv, EmitLocalPlan, Refuse, Running
<1>1. UNCHANGED <<composer, id, kind, broken, stale, needs, todo, verified, used>>
  BY DEF inputs
<1>2. VerifiedOnce' /\ Compose' /\ ComposeLocal'
  BY <1>1 DEF VerifiedOnce, Compose, ComposeLocal, Entries, Ids, wanted
<1>3. PlanIsClosed'
  BY <1>1 DEF PlanIsClosed
<1>4. ASSUME outcome' = "written" PROVE LocalPlanIsComplete'
  <2>1. /\ Ids(Entries) \cap Plugins # {} /\ Ids(Entries) \cap Sidecars # {}
        /\ Cardinality(used) = Cardinality(Ids(verified) \cap Sidecars)
        /\ plan' = LocalComponents /\ composer = "local"
    BY <1>4
  <2>2. verified = Entries
    BY DEF VerifiedOnce
  <2>3. used = Ids(verified) \cap Sidecars
    <3>1. IsFiniteSet(Ids(verified) \cap Sidecars)
      BY PlanAssumption, FS_Subset DEF PlanAssumption
    <3>2. used \in SUBSET (Ids(verified) \cap Sidecars)
      BY DEF ComposeLocal
    <3> QED
      BY <2>1, <3>1, <3>2, FS_Subset
  <2>4. Ids(Entries) \cap Sidecars = UNION {needs[p] : p \in Ids(Entries) \cap Plugins}
    BY <2>2, <2>3 DEF ComposeLocal
  <2>5. Accepts(plan')
    <3>1. \A c \in plan' : c.program <=> c.kind = "plugin"
      <4> TAKE c \in plan'
      <4>1. PICK e \in verified :
               c = [id |-> id[e], kind |-> kind[e], program |-> kind[e] = "plugin"]
        BY <2>1 DEF LocalComponents
      <4>2. c.kind = kind[e] /\ c.program = (kind[e] = "plugin")
        BY <4>1
      <4> QED
        BY ONLY <4>2, Zenon
    <3>2. \A e \in verified : kind[e] = IF id[e] \in Plugins THEN "plugin" ELSE "sidecar"
      BY <2>1, <2>2 DEF ComposeLocal
    <3>3. \A e \in verified : \E c \in plan' : c.kind = kind[e]
      <4> TAKE e \in verified
      <4> DEFINE c == [id |-> id[e], kind |-> kind[e], program |-> kind[e] = "plugin"]
      <4>1. c \in plan' /\ c.kind = kind[e]
        BY <2>1 DEF LocalComponents
      <4> QED
        BY <4>1
    <3>4. (\E e \in verified : id[e] \in Plugins) /\ (\E e \in verified : id[e] \in Sidecars)
      BY <2>1, <2>2 DEF Ids
    <3> QED
      BY <3>1, <3>2, <3>3, <3>4, PlanAssumption DEF PlanAssumption, Accepts
  <2>6. broken = {} /\ \A d, e \in Entries : id[d] = id[e] => d = e
    BY <2>2 DEF VerifiedOnce
  <2> QED
    BY <1>1, <2>4, <2>5, <2>6 DEF LocalPlanIsComplete, Entries, Ids, Accepts
<1>5. outcome' # "written" => LocalPlanIsComplete'
  BY DEF LocalPlanIsComplete
<1> QED
  BY <1>2, <1>3, <1>4, <1>5

\* One more plugin adds what it needs.
LEMMA UnionOfOneMore ==
    ASSUME NEW f, NEW S, NEW x
    PROVE  UNION {f[p] : p \in S \cup {x}} = (UNION {f[p] : p \in S}) \cup f[x]
OBVIOUS

\* Every step of either composer keeps it.
LEMMA CompositionContinues ==
    ASSUME ComposeInv, [ComposeNext]_composeVars PROVE ComposeInv'
<1> USE DEF ComposeInv
<1>1. ASSUME UNCHANGED <<inputs, todo, verified, used>>, outcome' = "error"
      PROVE  ComposeInv'
  BY <1>1 DEF inputs, VerifiedOnce, Compose, ComposeLocal, Entries, Ids, wanted, PlanIsClosed,
              LocalPlanIsComplete
<1>2. ASSUME NEW e \in todo, Verify(e), outcome = "none", e \notin broken,
             id[e] \notin Ids(verified)
      PROVE  /\ VerifiedOnce' /\ PlanIsClosed' /\ LocalPlanIsComplete'
             /\ Ids(verified)' = Ids(verified) \cup {id[e]}
             /\ UNCHANGED <<composer, id, kind, needs>>
  <2>1. /\ verified' = verified \cup {e} /\ todo' = todo \ {e} /\ outcome' = "none"
        /\ UNCHANGED <<composer, id, kind, broken, stale, needs>>
    BY <1>2 DEF Verify, inputs
  <2>2. VerifiedOnce'
    <3>1. verified' \cup todo' = Entries /\ verified' \cap broken = {}
      BY <1>2, <2>1 DEF VerifiedOnce
    <3>2. \A d \in verified : id[d] # id[e]
      BY <1>2 DEF Ids
    <3>3. \A c, d \in verified' : id[c] = id[d] => c = d
      BY <2>1, <3>2 DEF VerifiedOnce
    <3> QED
      BY <2>1, <3>1, <3>3 DEF VerifiedOnce, Entries
  <2>3. PlanIsClosed' /\ LocalPlanIsComplete'
    BY <2>1 DEF PlanIsClosed, LocalPlanIsComplete
  <2> QED
    BY <2>1, <2>2, <2>3 DEF Ids
<1>3. ASSUME NEW e \in Entries, VisitDirectory(e) PROVE ComposeInv'
  <2>1. CASE Refuse
    BY <1>1, <2>1 DEF Refuse
  <2>2. CASE Verify(e) /\ e \in todo /\ id[e] \in wanted /\ id[e] \notin Ids(verified)
             /\ e \notin broken
    <3>1. outcome = "none" /\ composer = "native"
      BY <1>3 DEF VisitDirectory, Running
    <3> QED
      BY <1>2, <2>2, <3>1 DEF Compose, ComposeLocal, wanted
  <2> QED
    BY <1>3, <2>1, <2>2 DEF VisitDirectory, Foremost
<1>4. ASSUME NEW e \in Entries, ResolveSidecar(e) PROVE ComposeInv'
  <2>1. CASE Refuse
    BY <1>1, <2>1 DEF Refuse
  <2>2. CASE Verify(e) /\ UNCHANGED used /\ e \in todo /\ id[e] \in Sidecars
             /\ id[e] \notin Ids(verified) /\ e \notin broken
    <3>1. outcome = "none" /\ composer = "local"
      BY <1>4 DEF ResolveSidecar, Running
    <3>2. Ids(verified)' \cap Plugins = Ids(verified) \cap Plugins
      BY <1>2, <2>2, <3>1, PlanAssumption DEF PlanAssumption
    <3> QED
      BY <1>2, <2>2, <3>1, <3>2 DEF Compose, ComposeLocal, Entries
  <2> QED
    BY <1>4, <2>1, <2>2 DEF ResolveSidecar, Foremost, Left
<1>5. ASSUME NEW e \in Entries, ResolvePlugin(e) PROVE ComposeInv'
  <2>1. CASE Refuse
    BY <1>1, <2>1 DEF Refuse
  <2>2. CASE /\ Verify(e) /\ used' = used \cup needs[id[e]] /\ e \in todo /\ id[e] \in Plugins
             /\ id[e] \notin Ids(verified) /\ e \notin broken
             /\ needs[id[e]] \subseteq Ids(verified)
    <3>1. outcome = "none" /\ composer = "local"
      BY <1>5 DEF ResolvePlugin, Running
    <3>2. Ids(verified)' = Ids(verified) \cup {id[e]} /\ UNCHANGED <<composer, id, kind, needs>>
      BY <1>2, <2>2, <3>1
    <3>3. Ids(verified)' \cap Plugins = (Ids(verified) \cap Plugins) \cup {id[e]}
      BY <2>2, <3>2
    <3>4. UNION {needs[p] : p \in (Ids(verified) \cap Plugins) \cup {id[e]}}
            = (UNION {needs[p] : p \in Ids(verified) \cap Plugins}) \cup needs[id[e]]
      BY UnionOfOneMore
    <3>5. used' = UNION {needs'[p] : p \in Ids(verified)' \cap Plugins}
      BY <2>2, <3>1, <3>2, <3>3, <3>4 DEF ComposeLocal
    <3>6. used' \subseteq Ids(verified)' \cap Sidecars
      BY <2>2, <3>1, <3>2 DEF ComposeLocal
    <3>7. ComposeLocal'
      BY <3>1, <3>2, <3>5, <3>6 DEF ComposeLocal, Entries
    <3> QED
      BY <1>2, <2>2, <3>1, <3>2, <3>7 DEF Compose
  <2> QED
    BY <1>5, <2>1, <2>2 DEF ResolvePlugin, Foremost, Left
<1>6. CASE ReadFails
  BY <1>1, <1>6 DEF ReadFails, Refuse
<1>7. CASE UNCHANGED composeVars
  BY <1>7 DEF composeVars, inputs, VerifiedOnce, Compose, ComposeLocal, Entries, Ids, wanted,
              PlanIsClosed, LocalPlanIsComplete, Accepts
<1> QED
  BY <1>3, <1>4, <1>5, <1>6, <1>7, CompositionEmits, LocalCompositionEmits DEF ComposeNext

\* The invariant of both composers.
LEMMA Composition == ComposeSpec => []ComposeInv
<1>1. ComposeInit => ComposeInv
  BY CompositionStarts
<1>2. ComposeInv /\ [ComposeNext]_composeVars => ComposeInv'
  BY CompositionContinues
<1> QED
  BY <1>1, <1>2, PTL DEF ComposeSpec

\* A plan of Compose is closed against the source plan, for a fleet and an
\* artifact root of any size, although the code only counts.
THEOREM ComposedPlanIsClosed == ComposeSpec => []PlanIsClosed
<1>1. ComposeInv => PlanIsClosed
  BY DEF ComposeInv
<1> QED
  BY <1>1, Composition, PTL

\* A plan of ComposeLocal holds exactly the sidecars its plugins need, and the run
\* that is given it accepts it.
THEOREM LocalPlanHoldsWhatItNeeds == ComposeSpec => []LocalPlanIsComplete
<1>1. ComposeInv => LocalPlanIsComplete
  BY DEF ComposeInv
<1> QED
  BY <1>1, Composition, PTL
================================================================================

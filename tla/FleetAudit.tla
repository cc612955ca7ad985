------------------------------- MODULE FleetAudit -------------------------------
(***************************************************************************)
(* The command audit-sidecar-releases: AuditCurrentFleet runs the auditor  *)
(* of the plugin specification on the repository of each sidecar of the    *)
(* profile, and whatever report it has by then, complete or not, becomes   *)
(* the evidence.  Several audits may name the same file (WriteOnce), and   *)
(* the same auditor may answer differently each time.                      *)
(***************************************************************************)
EXTENDS WriteOnce, Sequences

CONSTANTS Auditors,     \* the writers that are audits
          Repositories  \* number of sidecars of the profile

\* A report says of each repository audited, in the order of the profile,
\* whether it has failures.
Reports == UNION {[1..n -> BOOLEAN] : n \in 0..Repositories}

ASSUME AuditAssumption ==
    /\ Repositories \in Nat \ {0} /\ Auditors \subseteq Comparing
    /\ Reports \subseteq Bodies

VARIABLES phase,   \* what the command of each audit is at
          report,  \* FleetReport.Results so far
          failed,  \* did AuditCurrentFleet return an error?
          verdict  \* how the command ended, "none" while it runs

audits    == <<phase, report, failed, verdict>>
auditVars == <<audits, vars>>

AuditInit ==
    /\ Init
    /\ phase = [w \in Auditors |-> "idle"] /\ report = [w \in Auditors |-> <<>>]
    /\ failed = [w \in Auditors |-> FALSE] /\ verdict = [w \in Auditors |-> "none"]

--------------------------------------------------------------------------------
To(w, p) == phase' = [phase EXCEPT ![w] = p]
Finished(w, error) ==
    To(w, "evidence") /\ failed' = [failed EXCEPT ![w] = error]

\* The host, the package and the Node version fit, or the command ends here.
Begin(w) ==
    /\ phase[w] = "idle"
    /\ report' = [report EXCEPT ![w] = <<>>]
    /\ failed' = [failed EXCEPT ![w] = FALSE]
    /\ \/ To(w, "audit") /\ verdict' = [verdict EXCEPT ![w] = "none"]
       \/ verdict' = [verdict EXCEPT ![w] = "error"] /\ UNCHANGED phase
    /\ UNCHANGED vars

\* The answer names its repository, one release and an artifact; the auditor may
\* have failed all the same, which is an error unless it says what is wrong.
Audit(w) ==
    /\ phase[w] = "audit" /\ Len(report[w]) < Repositories
    /\ \E failures, exitError \in BOOLEAN :
          /\ report' = [report EXCEPT ![w] = Append(@, failures)]
          /\ IF exitError /\ ~failures THEN Finished(w, TRUE) ELSE UNCHANGED <<phase, failed>>
    /\ UNCHANGED <<verdict, vars>>

\* The answer is not such a report.
AuditInvalid(w) ==
    /\ phase[w] = "audit" /\ Len(report[w]) < Repositories
    /\ Finished(w, TRUE)
    /\ UNCHANGED <<report, verdict, vars>>

AuditEnds(w) ==
    /\ phase[w] = "audit" /\ Len(report[w]) = Repositories
    /\ Finished(w, \E n \in 1..Repositories : report[w][n])
    /\ UNCHANGED <<report, verdict, vars>>

\* WriteEvidence is called with the report, whether or not there was an error.
WriteEvidence(w) ==
    /\ phase[w] = "evidence"
    /\ Invoke(w, report[w])
    /\ To(w, "written")
    /\ UNCHANGED <<report, failed, verdict>>

\* Fault: what WriteEvidence returned is forgotten.
ExitUnwritten(w) ==
    /\ phase[w] = "written" /\ pc[w] = "idle"
    /\ verdict' = [verdict EXCEPT ![w] = IF failed[w] THEN "error" ELSE "nil"]
    /\ To(w, "idle")
    /\ UNCHANGED <<report, failed, vars>>

Exit(w) ==
    /\ phase[w] = "written" /\ pc[w] = "idle"
    /\ verdict' = [verdict EXCEPT ![w] =
          IF result[w] = "error" \/ failed[w] THEN "error" ELSE "nil"]
    /\ To(w, "idle")
    /\ UNCHANGED <<report, failed, vars>>

FileStep(w) == Compare(w) \/ Create(w) \/ Write(w) \/ Close(w) \/ Dies(w)

AuditNext == \E w \in Auditors :
    \/ Begin(w) \/ Audit(w) \/ AuditInvalid(w) \/ AuditEnds(w)
    \/ WriteEvidence(w) \/ Exit(w)
    \/ FileStep(w) /\ UNCHANGED audits

AuditSpec == AuditInit /\ [][AuditNext]_auditVars

--------------------------------------------------------------------------------
Clean == [n \in 1..Repositories |-> FALSE]

\* An audit that passes has the whole fleet, without a failure, in the evidence
\* file: the report of another audit, a partial one or one that could not be
\* written never stands in for it.
PassIsRecorded == \A w \in Auditors : verdict[w] = "nil" => full /\ owner = Clean
================================================================================

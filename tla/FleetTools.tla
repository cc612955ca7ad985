------------------------------- MODULE FleetTools -------------------------------
(***************************************************************************)
(* The commands over a fleet that is released already: the composers,      *)
(* which write a plan once (WriteOnce), the audits, which write evidence   *)
(* once (FleetAudit), the resolution of a local release (ReleaseStore) and *)
(* the verification of the release bytes (ReleaseStage).  A path belongs   *)
(* to one of them.                                                         *)
(***************************************************************************)
EXTENDS FleetAudit, ReleaseStage, ReleaseStore

VARIABLE tool  \* whose path it is

toolVars == <<auditVars, stageVars, storeVars, tool>>

ToolsInit ==
    /\ tool \in {"plan", "audit", "verify", "resolve"}
    /\ AuditInit /\ StageInit /\ StoreInit
    /\ tool # "resolve" => ~stray /\ disk = [f \in Files |-> "missing"]  \* no matter

\* A composer is called, or goes on.
PlanNext == \E w \in Writers \ Auditors :
    (\E b \in Bodies \ Reports : Invoke(w, b)) \/ FileStep(w)

ToolsNext ==
    /\ \/ tool = "plan" /\ PlanNext /\ UNCHANGED <<audits, stageVars, storeVars>>
       \/ tool = "audit" /\ AuditNext /\ UNCHANGED <<stageVars, storeVars>>
       \/ tool = "verify" /\ StageNext /\ UNCHANGED <<auditVars, storeVars>>
       \/ tool = "resolve" /\ StoreNext /\ UNCHANGED <<auditVars, stageVars>>
    /\ UNCHANGED tool

ToolsSpec == ToolsInit /\ [][ToolsNext]_toolVars
================================================================================

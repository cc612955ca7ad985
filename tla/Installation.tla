------------------------------ MODULE Installation ------------------------------
(***************************************************************************)
(* InstallConfiguredTerminalFleet of system/install_fleet.go: without a    *)
(* candidate plan the fleet is installed plugin by plugin (FleetInstall);  *)
(* with one the candidate transaction (CandidateInstall) runs to its end,  *)
(* deferred calls included, and the fleet is then enabled by the ids of    *)
(* the profile.  The two share the environment of the application, where   *)
(* others commit before, between and after.                                *)
(***************************************************************************)
EXTENDS CandidateInstall, FleetInstall

ASSUME InstallationAssumption == PluginsOf = Plugins

VARIABLE environment  \* what the application has of each component

allVars == <<vars, fleetVars, environment>>

InstallationInit == Init /\ FleetInit /\ environment = Nothing

--------------------------------------------------------------------------------
\* A step of InstallCandidateFleet that leaves the environment alone.
CandidateStep ==
    /\ at = "plan"
    /\ \/ \E c \in Components : Prepare(c) \/ Copy(c) \/ Stage(c) \/ ReadManifest(c)
       \/ ReadRevision \/ Begin \/ Reload \/ Fail \/ Rollback \/ RemoveStore
    /\ UNCHANGED <<fleetVars, environment>>

\* The commit installs what is staged.
CandidateCommit ==
    /\ Commit /\ PlanCommitted
    /\ environment' = staged

\* Fault: the error of the candidate installation is dropped.
HandOverDropsError ==
    /\ pc = "done"
    /\ PlanReturned(TRUE)
    /\ UNCHANGED <<vars, environment>>

\* InstallCandidateFleet has returned and EnableCandidateTerminalFleet begins.
HandOver ==
    /\ pc = "done"
    /\ PlanReturned(outcome = "nil")
    /\ UNCHANGED <<vars, environment>>

FleetStep == Step /\ UNCHANGED <<vars, environment>>

Harness == CandidateStep \/ CandidateCommit \/ HandOver \/ FleetStep

--------------------------------------------------------------------------------
(* The world around it (external). *)

\* Nobody reads an artifact after the copy.
ArtifactRebuilt ==
    /\ at = "plan" /\ pc \in {"prepare", "copy"}
    /\ \E c \in Components, content \in Contents : Rebuild(c, content)
    /\ UNCHANGED <<fleetVars, environment>>

\* The commit of another client puts other bytes in the place of a component.
ForeignCommit ==
    /\ at # "done"
    /\ OtherCommit
    /\ \E c \in Components, content \in Contents :
          environment' = [environment EXCEPT ![c] = content]
    /\ UNCHANGED fleetVars

ApplicationStep == Application /\ UNCHANGED <<vars, environment>>

InstallationNext == Harness \/ ArtifactRebuilt \/ ForeignCommit \/ ApplicationStep

InstallationSpec == InstallationInit /\ [][InstallationNext]_allVars

\* What the harness does on its own it does: the removal of its store and the
\* return into the enabling.  Every other step waits for a call that may not
\* return; nothing is assumed of those.
Continue == HandOver \/ (CandidateStep /\ pc = "remove")
FairInstallation == InstallationSpec /\ WF_allVars(Continue)

--------------------------------------------------------------------------------
\* With a plan, what is enabled is what was prepared: the bytes whose digest the
\* harness computed at the start, unless another client has committed since.
\* The enabling goes by the ids of the profile alone and would not notice.
EnablesWhatWasPrepared ==
    [][\A p \in enabled' \ enabled :
          pc = "done" => environment[p] = digest[p] \/ current > revision + 1]_allVars

\* The installation ends or stays at one place for ever: in a call that does not
\* return, or in the wait for one more progress event (install_fleet.go:90 sets
\* no limit to them).  No failed call sends it back to where it has been.
Steps  == {"prepare", "copy", "stage", "manifest", "reload", "rollback"}
Places == {"catalog", "install", "await", "status", "installed", "chain", "grant", "boot"}
EndsOrWaits ==
    \/ <>(at = "done")
    \/ \E place \in Places : <>[](at = place)
    \/ \E step \in Steps : <>[](at = "plan" /\ pc = step)
================================================================================

---------------------------- MODULE InstallationProof ----------------------------
(***************************************************************************)
(* Proofs about the candidate transaction, for every plan, every set of    *)
(* contents and every number of commits; about the fleet installation, for *)
(* any plugins, consents and number of progress events; and about the      *)
(* composition: every behaviour of the installation is a behaviour of the  *)
(* transaction and one of the fleet installation, so that what is proved   *)
(* of the two holds here, and what is enabled after a candidate is what    *)
(* the candidate prepared.                                                 *)
(***************************************************************************)
EXTENDS Installation, TLAPS

--------------------------------------------------------------------------------
(* The candidate transaction. *)

\* Every variable of the candidate transaction has its type.
THEOREM CandidateTypes == Spec => []TypeOK
<1> USE CandidateAssumption DEF CandidateAssumption, TypeOK, RevisionsTypeOK,
        ArtifactsTypeOK, Nothing
<1>1. Init => TypeOK
  <2>1. Init => RevisionsTypeOK
    BY DEF Init
  <2>2. Init => ArtifactsTypeOK
    BY DEF Init
  <2> QED
    BY <2>1, <2>2
<1>2. TypeOK /\ [Next]_vars => TypeOK'
  <2> SUFFICES ASSUME TypeOK, [Next]_vars PROVE TypeOK'
    OBVIOUS
  <2> USE DEF Leave, Deferred, Owes, locals, installer
  <2>1. ASSUME NEW c \in Components, Prepare(c) PROVE TypeOK'
    BY <2>1 DEF Prepare
  <2>2. ASSUME NEW c \in Components, Copy(c) PROVE TypeOK'
    BY <2>2 DEF Copy
  <2>3. ASSUME NEW c \in Components, Stage(c) PROVE TypeOK'
    BY <2>3 DEF Stage
  <2>4. ASSUME NEW c \in Components, ReadManifest(c) PROVE TypeOK'
    BY <2>4 DEF ReadManifest
  <2>5. ASSUME NEW c \in Components, NEW content \in Contents, Rebuild(c, content)
        PROVE TypeOK'
    BY <2>5 DEF Rebuild
  <2>6. CASE ReadRevision
    BY <2>6 DEF ReadRevision
  <2>7. CASE Begin
    BY <2>7 DEF Begin
  <2>8. CASE Commit
    <3>1. RevisionsTypeOK'
      BY <2>8 DEF Commit
    <3>2. ArtifactsTypeOK'
      BY <2>8 DEF Commit
    <3> QED
      BY <3>1, <3>2
  <2>9. CASE Reload
    BY <2>9 DEF Reload
  <2>10. CASE Fail
    BY <2>10 DEF Fail
  <2>11. CASE Rollback
    BY <2>11 DEF Rollback
  <2>12. CASE RemoveStore
    BY <2>12 DEF RemoveStore
  <2>13. CASE OtherCommit
    <3>1. RevisionsTypeOK'
      BY <2>13 DEF OtherCommit
    <3>2. ArtifactsTypeOK'
      BY <2>13 DEF OtherCommit
    <3> QED
      BY <3>1, <3>2
  <2>14. CASE UNCHANGED vars
    BY <2>14 DEF vars
  <2> QED
    BY <2>1, <2>2, <2>3, <2>4, <2>5, <2>6, <2>7, <2>8, <2>9, <2>10, <2>11, <2>12,
       <2>13, <2>14 DEF Next
<1> QED
  BY <1>1, <1>2, PTL DEF Spec

\* StagedIsVerified is what the staging loop has established when Commit finds it
\* empty, and nothing is staged or digested after the commit.
LEMMA StagingVerified == Spec => [](StagedIsVerified /\ CommitsWhatWasPrepared)
<1> DEFINE IInv == StagedIsVerified /\ CommitsWhatWasPrepared
<1>1. Init => IInv
  BY DEF Init, StagedIsVerified, CommitsWhatWasPrepared
<1>2. TypeOK /\ IInv /\ [Next]_vars => IInv'
  <2> SUFFICES ASSUME ArtifactsTypeOK, IInv, [Next]_vars PROVE IInv'
    BY DEF TypeOK
  <2> USE DEF ArtifactsTypeOK, StagedIsVerified, CommitsWhatWasPrepared, Nothing,
          Leave, Deferred, Owes, locals, installer
  <2>1. ASSUME NEW c \in Components, Prepare(c) PROVE IInv'
    BY <2>1 DEF Prepare
  <2>2. ASSUME NEW c \in Components, Copy(c) PROVE IInv'
    BY <2>2 DEF Copy
  <2>3. ASSUME NEW c \in Components, Stage(c) PROVE IInv'
    BY <2>3 DEF Stage
  <2>4. ASSUME NEW c \in Components, ReadManifest(c) PROVE IInv'
    BY <2>4 DEF ReadManifest
  <2>5. ASSUME NEW c \in Components, NEW content \in Contents, Rebuild(c, content)
        PROVE IInv'
    BY <2>5 DEF Rebuild
  <2>6. CASE ReadRevision
    BY <2>6 DEF ReadRevision
  <2>7. CASE Begin
    BY <2>7 DEF Begin
  <2>8. CASE Commit
    BY <2>8 DEF Commit
  <2>9. CASE Reload
    BY <2>9 DEF Reload
  <2>10. CASE Fail
    BY <2>10 DEF Fail
  <2>11. CASE Rollback
    BY <2>11 DEF Rollback
  <2>12. CASE RemoveStore
    BY <2>12 DEF RemoveStore
  <2>13. CASE OtherCommit
    BY <2>13 DEF OtherCommit
  <2>14. CASE UNCHANGED vars
    BY <2>14 DEF vars
  <2> QED
    BY <2>1, <2>2, <2>3, <2>4, <2>5, <2>6, <2>7, <2>8, <2>9, <2>10, <2>11, <2>12,
       <2>13, <2>14 DEF Next
<1> QED
  BY <1>1, <1>2, CandidateTypes, PTL DEF Spec

\* The commit installs exactly the bytes the harness digested, and only bytes
\* that carry the identity of the plan.
THEOREM CommittedIsPrepared == Spec => []CommitsWhatWasPrepared
BY StagingVerified, PTL

\* The environment's revision counts the commits of the others, so that the
\* commit, which compares it, has seen none.
LEMMA RevisionsCounted == Spec => [](RevisionIsCounted /\ NoLostUpdate)
<1> DEFINE IInv == RevisionIsCounted /\ NoLostUpdate
<1>1. Init => IInv
  BY DEF Init, RevisionIsCounted, NoLostUpdate
<1>2. TypeOK /\ StagedIsVerified /\ IInv /\ [Next]_vars => IInv'
  <2> SUFFICES ASSUME RevisionsTypeOK, StagedIsVerified, IInv, [Next]_vars
               PROVE  IInv'
    BY DEF TypeOK
  <2> USE CandidateAssumption DEF CandidateAssumption, RevisionsTypeOK, RevisionIsCounted,
          NoLostUpdate, Leave, Deferred, Owes, locals, installer
  <2>1. ASSUME NEW c \in Components, Prepare(c) PROVE IInv'
    BY <2>1 DEF Prepare
  <2>2. ASSUME NEW c \in Components, Copy(c) PROVE IInv'
    BY <2>2 DEF Copy
  <2>3. ASSUME NEW c \in Components, Stage(c) PROVE IInv'
    BY <2>3 DEF Stage
  <2>4. ASSUME NEW c \in Components, ReadManifest(c) PROVE IInv'
    BY <2>4 DEF ReadManifest
  <2>5. ASSUME NEW c \in Components, NEW content \in Contents, Rebuild(c, content)
        PROVE IInv'
    BY <2>5 DEF Rebuild
  <2>6. CASE ReadRevision
    BY <2>6 DEF ReadRevision
  <2>7. CASE Begin
    <3>1. txn # "committed"
      BY <2>7 DEF Begin, StagedIsVerified
    <3>2. UNCHANGED <<current, revision, foreign>> /\ txn' = "open"
      BY <2>7 DEF Begin
    <3> QED
      BY <3>1, <3>2
  <2>8. CASE Commit
    BY <2>8 DEF Commit
  <2>9. CASE Reload
    BY <2>9 DEF Reload
  <2>10. CASE Fail
    BY <2>10 DEF Fail
  <2>11. CASE Rollback
    BY <2>11 DEF Rollback
  <2>12. CASE RemoveStore
    BY <2>12 DEF RemoveStore
  <2>13. CASE OtherCommit
    BY <2>13 DEF OtherCommit
  <2>14. CASE UNCHANGED vars
    BY <2>14 DEF vars
  <2> QED
    BY <2>1, <2>2, <2>3, <2>4, <2>5, <2>6, <2>7, <2>8, <2>9, <2>10, <2>11, <2>12,
       <2>13, <2>14 DEF Next
<1> QED
  BY <1>1, <1>2, CandidateTypes, StagingVerified, PTL DEF Spec

\* The commit never buries a commit made by another client after the revision
\* was read: the two revisions agree only if there was none.
THEOREM OptimisticCommit == Spec => []NoLostUpdate
BY RevisionsCounted, PTL

\* What the deferred calls rest on: which of them are owed, step by step.
OwesByStep ==
    /\ pc = "prepare" => ~storeUp
    /\ pc \in {"copy", "stage", "manifest", "reload", "rollback", "remove"} => storeUp
    /\ pc \in {"prepare", "copy"} => ~known /\ ~committed
    /\ pc \in {"stage", "manifest", "rollback"} => known /\ ~committed
    /\ pc \in {"prepare", "copy", "stage", "manifest", "reload", "rollback"} => ~asked
    /\ pc = "reload" => known /\ committed
    /\ pc \in {"remove", "done"} => (known => asked # committed)
    /\ pc = "done" => ~storeUp
    /\ pc \in {"rollback", "remove", "done"} <=> outcome # "none"
    /\ outcome = "nil" => committed
    /\ committed => txn = "committed"

\* It holds of every step, with the answers of begin and commit lost as well.
LEMMA DeferredAreOwed == Spec => []OwesByStep
<1>1. Init => OwesByStep
  BY DEF Init, OwesByStep
<1>2. TypeOK /\ OwesByStep /\ [Next]_vars => OwesByStep'
  <2> SUFFICES ASSUME ArtifactsTypeOK, OwesByStep, [Next]_vars PROVE OwesByStep'
    BY DEF TypeOK
  <2> USE DEF ArtifactsTypeOK, OwesByStep, Leave, Deferred, Owes, locals, installer
  <2>1. ASSUME NEW c \in Components, Prepare(c) PROVE OwesByStep'
    BY <2>1 DEF Prepare
  <2>2. ASSUME NEW c \in Components, Copy(c) PROVE OwesByStep'
    BY <2>2 DEF Copy
  <2>3. ASSUME NEW c \in Components, Stage(c) PROVE OwesByStep'
    BY <2>3 DEF Stage
  <2>4. ASSUME NEW c \in Components, ReadManifest(c) PROVE OwesByStep'
    BY <2>4 DEF ReadManifest
  <2>5. ASSUME NEW c \in Components, NEW content \in Contents, Rebuild(c, content)
        PROVE OwesByStep'
    BY <2>5 DEF Rebuild
  <2>6. CASE ReadRevision
    BY <2>6 DEF ReadRevision
  <2>7. CASE Begin
    BY <2>7 DEF Begin
  <2>8. CASE Commit
    BY <2>8 DEF Commit
  <2>9. CASE Reload
    BY <2>9 DEF Reload
  <2>10. CASE Fail
    BY <2>10 DEF Fail
  <2>11. CASE Rollback
    BY <2>11 DEF Rollback
  <2>12. CASE RemoveStore
    BY <2>12 DEF RemoveStore
  <2>13. CASE OtherCommit
    BY <2>13 DEF OtherCommit
  <2>14. CASE UNCHANGED vars
    BY <2>14 DEF vars
  <2> QED
    BY <2>1, <2>2, <2>3, <2>4, <2>5, <2>6, <2>7, <2>8, <2>9, <2>10, <2>11, <2>12,
       <2>13, <2>14 DEF Next
<1> QED
  BY <1>1, <1>2, CandidateTypes, PTL DEF Spec

\* Whatever fails, the function returns without its store, and without a
\* transaction that it knows of and neither committed nor asked to roll back.
THEOREM ReturnsClean == Spec => []CleansUp
<1>1. OwesByStep => CleansUp
  BY DEF OwesByStep, CleansUp
<1> QED
  BY <1>1, DeferredAreOwed, PTL

\* The rollback is asked for while the store it staged from exists.
THEOREM RollbackBeforeRemoval == Spec => RollbackSeesStore
<1>1. TypeOK /\ OwesByStep /\ [Next]_vars => [asked' /\ ~asked => storeUp]_vars
  <2> SUFFICES ASSUME TypeOK, OwesByStep, Next, asked', ~asked PROVE storeUp
    BY DEF vars, locals
  <2>1. Rollback
    BY DEF Next, Prepare, Copy, Stage, ReadManifest, Rebuild, ReadRevision, Begin,
           Commit, Reload, Fail, RemoveStore, OtherCommit, locals, TypeOK, ArtifactsTypeOK
  <2> QED
    BY <2>1 DEF Rollback, OwesByStep
<1> QED
  BY <1>1, CandidateTypes, DeferredAreOwed, PTL DEF Spec, RollbackSeesStore

--------------------------------------------------------------------------------
(* The fleet installation. *)

\* The type invariant in two parts, for the provers.
HarnessTypeOK ==
    /\ at \in {"plan", "catalog", "install", "await", "status", "installed", "chain",
               "grant", "boot", "done"}
    /\ left \subseteq Plugins /\ plugin \in Plugins \cup {NoPlugin}
    /\ sequence \in 0..MaxSequence /\ ungranted \subseteq Consents
    /\ returned \in {"none", "nil", "error"} /\ trouble \in BOOLEAN
AppTypeOK ==
    /\ seq \in [Plugins -> 0..MaxSequence]
    /\ pending \in [Plugins -> SUBSET Consents]
    /\ artifact \in [Plugins -> {"none", "running"} \cup Over]
    /\ phase \in [Plugins -> {"none", "installing", "installed"}]
    /\ enabled \subseteq Plugins /\ booted \subseteq Plugins

\* Where the harness is says how far it has come: an awaited plugin has a
\* transaction, a plugin to be enabled is installed, and so is the whole fleet
\* when there is no transaction to follow.
Progressing ==
    /\ at = "plan" => left = Plugins /\ \A p \in Plugins : artifact[p] = "none"
    /\ at \in {"await", "status", "installed"} => plugin # NoPlugin /\ artifact[plugin] # "none"
    /\ at \in {"plan", "catalog", "install", "boot"} => plugin = NoPlugin
    /\ at = "chain" /\ plugin # NoPlugin =>
          artifact[plugin] # "none" /\ phase[plugin] = "installed"
    /\ at = "grant" =>
          plugin # NoPlugin /\ phase[plugin] = "installed" /\ ungranted = pending[plugin]
    /\ \/ at = "chain" /\ plugin = NoPlugin
       \/ at = "grant" /\ artifact[plugin] = "none"
       => \A p \in Plugins : phase[p] = "installed"
    /\ at \in {"await", "status", "installed", "chain", "grant"} /\ plugin # NoPlugin
          => plugin \in left

\* What is enabled stays installed and consented to, and the loop has visited it.
EnabledIsReady ==
    /\ enabled = Plugins \ left
    /\ at = "boot" => left = {}
    /\ \A p \in enabled : phase[p] = "installed" /\ pending[p] = {}

\* An error has a reason.
Reasons ==
    /\ at \in {"status"} => trouble
    /\ \A p \in Plugins : artifact[p] \in {"rolled-back", "failed"} => trouble
    /\ NoFalseAlarm
    /\ returned # "none" <=> at = "done"

FleetInv == HarnessTypeOK /\ AppTypeOK /\ Progressing /\ EnabledIsReady /\ Reasons /\ ReadyFleet

\* The harness keeps its types.
LEMMA HarnessTypes ==
    ASSUME HarnessTypeOK, AppTypeOK, Progressing, [FleetNext]_fleetVars PROVE HarnessTypeOK'
<1> USE FleetAssumption DEF FleetAssumption, HarnessTypeOK, AppTypeOK, Progressing, Over, Goto, Return, harness, app
<1>1. [FleetNext]_fleetVars => HarnessTypeOK'
  <2> SUFFICES ASSUME [FleetNext]_fleetVars PROVE HarnessTypeOK'
    OBVIOUS
  <2>1. CASE CallFails
    BY <2>1 DEF CallFails
  <2>2. CASE RefreshCatalog
    BY <2>2 DEF RefreshCatalog
  <2>3. CASE AwaitArtifact
    BY <2>3 DEF AwaitArtifact
  <2>4. CASE AwaitArtifactFails
    BY <2>4 DEF AwaitArtifactFails
  <2>5. CASE InstallStatus
    BY <2>5 DEF InstallStatus
  <2>6. CASE AwaitInstalled
    BY <2>6 DEF AwaitInstalled
  <2>7. CASE Enable
    BY <2>7 DEF Enable
  <2>8. CASE BootWait
    BY <2>8 DEF BootWait
  <2>9. ASSUME NEW p \in Plugins, Install(p) PROVE HarnessTypeOK'
    <3>1. plugin' \in Plugins /\ sequence' = 0 /\ UNCHANGED <<left, ungranted>>
      BY <2>9 DEF Install
    <3>2. /\ at' \in {"await", "done"} /\ trouble' \in {trouble, TRUE}
          /\ returned' \in {returned, "error"}
      BY <2>9 DEF Install
    <3>3. sequence' \in 0..MaxSequence
      BY <3>1
    <3> QED
      BY <3>1, <3>2, <3>3
  <2>10. ASSUME NEW p \in Plugins, ConsentChain(p) PROVE HarnessTypeOK'
    BY <2>10 DEF ConsentChain
  <2>11. ASSUME NEW id \in Consents, Grant(id) PROVE HarnessTypeOK'
    BY <2>11 DEF Grant
  <2>12. ASSUME NEW p \in Plugins, Progress(p) PROVE HarnessTypeOK'
    BY <2>12 DEF Progress
  <2>13. ASSUME NEW p \in Plugins, Installed(p) PROVE HarnessTypeOK'
    BY <2>13 DEF Installed
  <2>14. ASSUME NEW p \in Plugins, Boot(p) PROVE HarnessTypeOK'
    BY <2>14 DEF Boot
  <2>15. CASE PlanCommitted
    BY <2>15 DEF PlanCommitted
  <2>16. ASSUME NEW ok \in BOOLEAN, PlanReturned(ok),
             ok => \A p \in Plugins : phase[p] = "installed"
       PROVE  HarnessTypeOK'
    BY <2>16 DEF PlanReturned
  <2>17. CASE UNCHANGED fleetVars
    BY <2>17 DEF fleetVars
  <2> QED
    BY <2>1, <2>2, <2>3, <2>4, <2>5, <2>6, <2>7, <2>8, <2>9, <2>10, <2>11, <2>12, <2>13, <2>14, <2>15, <2>16, <2>17 DEF FleetNext, Step, Application
<1> QED
  BY <1>1

\* So does the application.
LEMMA AppTypes ==
    ASSUME HarnessTypeOK, AppTypeOK, Progressing, [FleetNext]_fleetVars PROVE AppTypeOK'
<1> USE FleetAssumption DEF FleetAssumption, HarnessTypeOK, AppTypeOK, Progressing, Over, Goto, Return, harness, app
<1>1. [FleetNext]_fleetVars => AppTypeOK'
  <2> SUFFICES ASSUME [FleetNext]_fleetVars PROVE AppTypeOK'
    OBVIOUS
  <2>1. CASE CallFails
    BY <2>1 DEF CallFails
  <2>2. CASE RefreshCatalog
    BY <2>2 DEF RefreshCatalog
  <2>3. CASE AwaitArtifact
    BY <2>3 DEF AwaitArtifact
  <2>4. CASE AwaitArtifactFails
    BY <2>4 DEF AwaitArtifactFails
  <2>5. CASE InstallStatus
    BY <2>5 DEF InstallStatus
  <2>6. CASE AwaitInstalled
    BY <2>6 DEF AwaitInstalled
  <2>7. CASE Enable
    BY <2>7 DEF Enable
  <2>8. CASE BootWait
    BY <2>8 DEF BootWait
  <2>9. ASSUME NEW p \in Plugins, Install(p) PROVE AppTypeOK'
    BY <2>9 DEF Install
  <2>10. ASSUME NEW p \in Plugins, ConsentChain(p) PROVE AppTypeOK'
    BY <2>10 DEF ConsentChain
  <2>11. ASSUME NEW id \in Consents, Grant(id) PROVE AppTypeOK'
    BY <2>11 DEF Grant
  <2>12. ASSUME NEW p \in Plugins, Progress(p) PROVE AppTypeOK'
    BY <2>12 DEF Progress
  <2>13. ASSUME NEW p \in Plugins, Installed(p) PROVE AppTypeOK'
    BY <2>13 DEF Installed
  <2>14. ASSUME NEW p \in Plugins, Boot(p) PROVE AppTypeOK'
    BY <2>14 DEF Boot
  <2>15. CASE PlanCommitted
    BY <2>15 DEF PlanCommitted
  <2>16. ASSUME NEW ok \in BOOLEAN, PlanReturned(ok),
             ok => \A p \in Plugins : phase[p] = "installed"
       PROVE  AppTypeOK'
    BY <2>16 DEF PlanReturned
  <2>17. CASE UNCHANGED fleetVars
    BY <2>17 DEF fleetVars
  <2> QED
    BY <2>1, <2>2, <2>3, <2>4, <2>5, <2>6, <2>7, <2>8, <2>9, <2>10, <2>11, <2>12, <2>13, <2>14, <2>15, <2>16, <2>17 DEF FleetNext, Step, Application
<1> QED
  BY <1>1

\* Progressing is kept: nothing but the commit of a plan and the harness itself
\* changes how far the harness has come.
LEMMA KeepsProgressing ==
    ASSUME HarnessTypeOK, AppTypeOK, Progressing, EnabledIsReady, [FleetNext]_fleetVars PROVE Progressing'
<1> USE FleetAssumption DEF FleetAssumption, HarnessTypeOK, AppTypeOK, Progressing, EnabledIsReady, Over, Goto, Return, harness, app
<1>1. [FleetNext]_fleetVars => Progressing'
  <2> SUFFICES ASSUME [FleetNext]_fleetVars PROVE Progressing'
    OBVIOUS
  <2>1. CASE CallFails
    BY <2>1 DEF CallFails
  <2>2. CASE RefreshCatalog
    BY <2>2 DEF RefreshCatalog
  <2>3. CASE AwaitArtifact
    BY <2>3 DEF AwaitArtifact
  <2>4. CASE AwaitArtifactFails
    BY <2>4 DEF AwaitArtifactFails
  <2>5. CASE InstallStatus
    BY <2>5 DEF InstallStatus
  <2>6. CASE AwaitInstalled
    BY <2>6 DEF AwaitInstalled
  <2>7. CASE Enable
    BY <2>7 DEF Enable
  <2>8. CASE BootWait
    BY <2>8 DEF BootWait
  <2>9. ASSUME NEW p \in Plugins, Install(p) PROVE Progressing'
    BY <2>9 DEF Install
  <2>10. ASSUME NEW p \in Plugins, ConsentChain(p) PROVE Progressing'
    BY <2>10 DEF ConsentChain
  <2>11. ASSUME NEW id \in Consents, Grant(id) PROVE Progressing'
    BY <2>11 DEF Grant
  <2>12. ASSUME NEW p \in Plugins, Progress(p) PROVE Progressing'
    BY <2>12 DEF Progress
  <2>13. ASSUME NEW p \in Plugins, Installed(p) PROVE Progressing'
    BY <2>13 DEF Installed
  <2>14. ASSUME NEW p \in Plugins, Boot(p) PROVE Progressing'
    BY <2>14 DEF Boot
  <2>15. CASE PlanCommitted
    BY <2>15 DEF PlanCommitted
  <2>16. ASSUME NEW ok \in BOOLEAN, PlanReturned(ok),
             ok => \A p \in Plugins : phase[p] = "installed"
       PROVE  Progressing'
    BY <2>16 DEF PlanReturned
  <2>17. CASE UNCHANGED fleetVars
    BY <2>17 DEF fleetVars
  <2> QED
    BY <2>1, <2>2, <2>3, <2>4, <2>5, <2>6, <2>7, <2>8, <2>9, <2>10, <2>11, <2>12, <2>13, <2>14, <2>15, <2>16, <2>17 DEF FleetNext, Step, Application
<1> QED
  BY <1>1

\* A plugin is enabled when it is ready, and stays ready.
LEMMA KeepsEnabledReady ==
    ASSUME HarnessTypeOK, AppTypeOK, Progressing, EnabledIsReady, [FleetNext]_fleetVars PROVE EnabledIsReady'
<1> USE FleetAssumption DEF FleetAssumption, HarnessTypeOK, AppTypeOK, Progressing, EnabledIsReady, Over, Goto, Return, harness, app
<1>1. [FleetNext]_fleetVars => EnabledIsReady'
  <2> SUFFICES ASSUME [FleetNext]_fleetVars PROVE EnabledIsReady'
    OBVIOUS
  <2>1. CASE CallFails
    BY <2>1 DEF CallFails
  <2>2. CASE RefreshCatalog
    BY <2>2 DEF RefreshCatalog
  <2>3. CASE AwaitArtifact
    BY <2>3 DEF AwaitArtifact
  <2>4. CASE AwaitArtifactFails
    BY <2>4 DEF AwaitArtifactFails
  <2>5. CASE InstallStatus
    BY <2>5 DEF InstallStatus
  <2>6. CASE AwaitInstalled
    BY <2>6 DEF AwaitInstalled
  <2>7. CASE Enable
    BY <2>7 DEF Enable
  <2>8. CASE BootWait
    BY <2>8 DEF BootWait
  <2>9. ASSUME NEW p \in Plugins, Install(p) PROVE EnabledIsReady'
    BY <2>9 DEF Install
  <2>10. ASSUME NEW p \in Plugins, ConsentChain(p) PROVE EnabledIsReady'
    BY <2>10 DEF ConsentChain
  <2>11. ASSUME NEW id \in Consents, Grant(id) PROVE EnabledIsReady'
    BY <2>11 DEF Grant
  <2>12. ASSUME NEW p \in Plugins, Progress(p) PROVE EnabledIsReady'
    BY <2>12 DEF Progress
  <2>13. ASSUME NEW p \in Plugins, Installed(p) PROVE EnabledIsReady'
    BY <2>13 DEF Installed
  <2>14. ASSUME NEW p \in Plugins, Boot(p) PROVE EnabledIsReady'
    BY <2>14 DEF Boot
  <2>15. CASE PlanCommitted
    BY <2>15 DEF PlanCommitted
  <2>16. ASSUME NEW ok \in BOOLEAN, PlanReturned(ok),
             ok => \A p \in Plugins : phase[p] = "installed"
       PROVE  EnabledIsReady'
    BY <2>16 DEF PlanReturned
  <2>17. CASE UNCHANGED fleetVars
    BY <2>17 DEF fleetVars
  <2> QED
    BY <2>1, <2>2, <2>3, <2>4, <2>5, <2>6, <2>7, <2>8, <2>9, <2>10, <2>11, <2>12, <2>13, <2>14, <2>15, <2>16, <2>17 DEF FleetNext, Step, Application
<1> QED
  BY <1>1

\* Every way into an error leaves a reason, which stays.
LEMMA KeepsReasons ==
    ASSUME HarnessTypeOK, AppTypeOK, Progressing, Reasons, [FleetNext]_fleetVars PROVE Reasons'
<1> USE FleetAssumption DEF FleetAssumption, HarnessTypeOK, AppTypeOK, Progressing, Reasons, NoFalseAlarm, Over, Goto, Return, harness, app
<1>1. [FleetNext]_fleetVars => Reasons'
  <2> SUFFICES ASSUME [FleetNext]_fleetVars PROVE Reasons'
    OBVIOUS
  <2>1. CASE CallFails
    BY <2>1 DEF CallFails
  <2>2. CASE RefreshCatalog
    BY <2>2 DEF RefreshCatalog
  <2>3. CASE AwaitArtifact
    BY <2>3 DEF AwaitArtifact
  <2>4. CASE AwaitArtifactFails
    BY <2>4 DEF AwaitArtifactFails
  <2>5. CASE InstallStatus
    BY <2>5 DEF InstallStatus
  <2>6. CASE AwaitInstalled
    BY <2>6 DEF AwaitInstalled
  <2>7. CASE Enable
    BY <2>7 DEF Enable
  <2>8. CASE BootWait
    BY <2>8 DEF BootWait
  <2>9. ASSUME NEW p \in Plugins, Install(p) PROVE Reasons'
    BY <2>9 DEF Install
  <2>10. ASSUME NEW p \in Plugins, ConsentChain(p) PROVE Reasons'
    BY <2>10 DEF ConsentChain
  <2>11. ASSUME NEW id \in Consents, Grant(id) PROVE Reasons'
    BY <2>11 DEF Grant
  <2>12. ASSUME NEW p \in Plugins, Progress(p) PROVE Reasons'
    BY <2>12 DEF Progress
  <2>13. ASSUME NEW p \in Plugins, Installed(p) PROVE Reasons'
    BY <2>13 DEF Installed
  <2>14. ASSUME NEW p \in Plugins, Boot(p) PROVE Reasons'
    BY <2>14 DEF Boot
  <2>15. CASE PlanCommitted
    BY <2>15 DEF PlanCommitted
  <2>16. ASSUME NEW ok \in BOOLEAN, PlanReturned(ok),
             ok => \A p \in Plugins : phase[p] = "installed"
       PROVE  Reasons'
    BY <2>16 DEF PlanReturned
  <2>17. CASE UNCHANGED fleetVars
    BY <2>17 DEF fleetVars
  <2> QED
    BY <2>1, <2>2, <2>3, <2>4, <2>5, <2>6, <2>7, <2>8, <2>9, <2>10, <2>11, <2>12, <2>13, <2>14, <2>15, <2>16, <2>17 DEF FleetNext, Step, Application
<1> QED
  BY <1>1

\* A fleet that is ready stays ready.
LEMMA KeepsReady ==
    ASSUME HarnessTypeOK, AppTypeOK, Progressing, EnabledIsReady, Reasons, ReadyFleet, [FleetNext]_fleetVars PROVE ReadyFleet'
<1> USE FleetAssumption DEF FleetAssumption, HarnessTypeOK, AppTypeOK, Progressing, EnabledIsReady, Reasons, ReadyFleet, Over, Goto, Return, harness, app
<1>1. [FleetNext]_fleetVars => ReadyFleet'
  <2> SUFFICES ASSUME [FleetNext]_fleetVars PROVE ReadyFleet'
    OBVIOUS
  <2>1. CASE CallFails
    BY <2>1 DEF CallFails
  <2>2. CASE RefreshCatalog
    BY <2>2 DEF RefreshCatalog
  <2>3. CASE AwaitArtifact
    BY <2>3 DEF AwaitArtifact
  <2>4. CASE AwaitArtifactFails
    BY <2>4 DEF AwaitArtifactFails
  <2>5. CASE InstallStatus
    BY <2>5 DEF InstallStatus
  <2>6. CASE AwaitInstalled
    BY <2>6 DEF AwaitInstalled
  <2>7. CASE Enable
    BY <2>7 DEF Enable
  <2>8. CASE BootWait
    BY <2>8 DEF BootWait
  <2>9. ASSUME NEW p \in Plugins, Install(p) PROVE ReadyFleet'
    BY <2>9 DEF Install
  <2>10. ASSUME NEW p \in Plugins, ConsentChain(p) PROVE ReadyFleet'
    BY <2>10 DEF ConsentChain
  <2>11. ASSUME NEW id \in Consents, Grant(id) PROVE ReadyFleet'
    BY <2>11 DEF Grant
  <2>12. ASSUME NEW p \in Plugins, Progress(p) PROVE ReadyFleet'
    BY <2>12 DEF Progress
  <2>13. ASSUME NEW p \in Plugins, Installed(p) PROVE ReadyFleet'
    BY <2>13 DEF Installed
  <2>14. ASSUME NEW p \in Plugins, Boot(p) PROVE ReadyFleet'
    BY <2>14 DEF Boot
  <2>15. CASE PlanCommitted
    BY <2>15 DEF PlanCommitted
  <2>16. ASSUME NEW ok \in BOOLEAN, PlanReturned(ok),
             ok => \A p \in Plugins : phase[p] = "installed"
       PROVE  ReadyFleet'
    BY <2>16 DEF PlanReturned
  <2>17. CASE UNCHANGED fleetVars
    BY <2>17 DEF fleetVars
  <2> QED
    BY <2>1, <2>2, <2>3, <2>4, <2>5, <2>6, <2>7, <2>8, <2>9, <2>10, <2>11, <2>12, <2>13, <2>14, <2>15, <2>16, <2>17 DEF FleetNext, Step, Application
<1> QED
  BY <1>1

\* The invariant holds at the start.
LEMMA FleetStarts ==
    ASSUME FleetInit PROVE FleetInv
<1> USE FleetAssumption DEF FleetAssumption, FleetInit
<1>1. HarnessTypeOK
  <2>1. sequence \in 0..MaxSequence
    OBVIOUS
  <2>2. left \subseteq Plugins /\ plugin \in Plugins \cup {NoPlugin} /\ ungranted \subseteq Consents
    OBVIOUS
  <2>3. at \in {"catalog", "plan"} /\ returned = "none" /\ trouble = FALSE
    OBVIOUS
  <2> HIDE DEF FleetInit
  <2> QED
    BY <2>1, <2>2, <2>3 DEF HarnessTypeOK
<1>2. AppTypeOK
  BY DEF AppTypeOK, Over
<1>3. Progressing
  BY DEF Progressing
<1>4. EnabledIsReady /\ Reasons /\ ReadyFleet
  BY DEF EnabledIsReady, Reasons, NoFalseAlarm, ReadyFleet
<1> QED
  BY <1>1, <1>2, <1>3, <1>4 DEF FleetInv

\* Every step keeps it.
LEMMA FleetContinues ==
    ASSUME FleetInv, [FleetNext]_fleetVars PROVE FleetInv'
BY HarnessTypes, AppTypes, KeepsProgressing, KeepsEnabledReady, KeepsReasons, KeepsReady
   DEF FleetInv

\* The inductive invariant of the fleet installation.
THEOREM FleetInvariant == FleetSpec => []FleetInv
<1>1. FleetInit => FleetInv
  BY FleetStarts
<1>2. FleetInv /\ [FleetNext]_fleetVars => FleetInv'
  BY FleetContinues
<1> QED
  BY <1>1, <1>2, PTL DEF FleetSpec

\* Every variable of the fleet installation has its type.
THEOREM FleetTypes == FleetSpec => []FleetTypeOK
<1>1. FleetInv => FleetTypeOK
  BY DEF FleetInv, FleetTypeOK, HarnessTypeOK, AppTypeOK
<1> QED
  BY <1>1, FleetInvariant, PTL

\* However many plugins there are and however their transactions go: after nil
\* the whole fleet is installed, consented to, enabled and booted.
THEOREM NilMeansReady == FleetSpec => []ReadyFleet
<1>1. FleetInv => ReadyFleet
  BY DEF FleetInv
<1> QED
  BY <1>1, FleetInvariant, PTL

\* The harness never fails for the speed of a transaction alone.
THEOREM ErrorsHaveReasons == FleetSpec => []NoFalseAlarm
<1>1. FleetInv => NoFalseAlarm
  BY DEF FleetInv, Reasons
<1> QED
  BY <1>1, FleetInvariant, PTL

--------------------------------------------------------------------------------
(* The two together. *)

\* The fleet is installed once the application has committed the plan.
CommitInstalls ==
    at = "plan" /\ txn = "committed" => \A p \in Plugins : phase[p] = "installed"

\* The environment holds what was staged until another client commits.
EnvironmentIsStaged ==
    txn = "committed" =>
        /\ current > revision
        /\ environment = staged \/ current > revision + 1

\* The harness passes from the candidate to the fleet after nil only.
HandedOverAfterNil == pc = "done" => at \in {"plan", "done"} \/ outcome = "nil"

\* Of the transaction, nothing runs but the candidate's own steps, the rebuilding
\* of artifacts and the commits of others.
LEMMA CandidateSteps == InstallationSpec => Spec
<1>1. InstallationInit => Init
  BY DEF InstallationInit
<1>2. [InstallationNext]_allVars => [Next]_vars
  <2> SUFFICES ASSUME [InstallationNext]_allVars PROVE [Next]_vars
    OBVIOUS
  <2>1. CASE CandidateStep
    BY <2>1 DEF CandidateStep, Next
  <2>2. CASE CandidateCommit
    BY <2>2 DEF CandidateCommit, Next
  <2>3. CASE HandOver \/ FleetStep \/ ApplicationStep
    BY <2>3 DEF HandOver, FleetStep, ApplicationStep
  <2>4. CASE ArtifactRebuilt
    BY <2>4 DEF ArtifactRebuilt, Next
  <2>5. CASE ForeignCommit
    BY <2>5 DEF ForeignCommit, Next
  <2>6. CASE UNCHANGED allVars
    BY <2>6 DEF allVars
  <2> QED
    BY <2>1, <2>2, <2>3, <2>4, <2>5, <2>6 DEF InstallationNext, Harness
<1> QED
  BY <1>1, <1>2, PTL DEF InstallationSpec, Spec

\* The fleet side sees the commit, the return and its own steps.  It may count on
\* an installed plan after nil.
LEMMA FleetSide ==
    ASSUME CleansUp, CommitInstalls, [InstallationNext]_allVars
    PROVE  [FleetNext]_fleetVars
<1>1. CASE CandidateStep \/ ArtifactRebuilt \/ ForeignCommit
  BY <1>1 DEF CandidateStep, ArtifactRebuilt, ForeignCommit
<1>2. CASE CandidateCommit
  BY <1>2 DEF CandidateCommit, FleetNext
<1>3. CASE HandOver
  <2>1. CASE outcome = "nil"
    <3>1. PlanReturned(TRUE) /\ at = "plan" /\ pc = "done"
      BY <1>3, <2>1 DEF HandOver, PlanReturned
    <3>2. \A p \in Plugins : phase[p] = "installed"
      BY <3>1, <2>1 DEF CleansUp, CommitInstalls
    <3> QED
      BY <3>1, <3>2 DEF FleetNext
  <2>2. CASE outcome # "nil"
    <3>1. PlanReturned(FALSE)
      BY <1>3, <2>2 DEF HandOver, PlanReturned
    <3> QED
      BY <3>1 DEF FleetNext
  <2> QED
    BY <2>1, <2>2
<1>4. CASE FleetStep \/ ApplicationStep
  BY <1>4 DEF FleetStep, ApplicationStep, FleetNext
<1>5. CASE UNCHANGED allVars
  BY <1>5 DEF allVars
<1> QED
  BY <1>1, <1>2, <1>3, <1>4, <1>5 DEF InstallationNext, Harness

\* Once a plan is committed it stays installed as long as the candidate runs.
LEMMA KeepsCommitInstalls ==
    ASSUME AppTypeOK, CommitInstalls, [InstallationNext]_allVars
    PROVE  CommitInstalls'
<1> USE DEF CommitInstalls, AppTypeOK
<1>1. CASE CandidateStep
  <2>1. UNCHANGED <<at, phase>>
    BY <1>1 DEF CandidateStep, fleetVars, harness, app
  <2>2. txn' = "committed" => txn = "committed"
    BY <1>1 DEF CandidateStep, Prepare, Copy, Stage, ReadManifest, ReadRevision, Begin,
                Reload, Fail, Rollback, RemoveStore, installer
  <2> QED
    BY <2>1, <2>2
<1>2. CASE CandidateCommit
  BY <1>2 DEF CandidateCommit, PlanCommitted
<1>3. CASE HandOver
  BY <1>3 DEF HandOver, PlanReturned, Goto, Return
<1>4. CASE FleetStep
  <2>1. at' # "plan"
    <3> USE DEF Goto, Return
    <3>1. CASE AwaitArtifact
      BY <3>1 DEF AwaitArtifact
    <3>2. CASE CallFails \/ RefreshCatalog \/ AwaitArtifactFails
      BY <3>2 DEF CallFails, RefreshCatalog, AwaitArtifactFails
    <3>3. CASE InstallStatus \/ AwaitInstalled \/ Enable \/ BootWait
      BY <3>3 DEF InstallStatus, AwaitInstalled, Enable, BootWait
    <3>4. CASE \E p \in Plugins : Install(p) \/ ConsentChain(p)
      BY <3>4 DEF Install, ConsentChain
    <3>5. CASE \E id \in Consents : Grant(id)
      BY <3>5 DEF Grant
    <3> QED
      BY <1>4, <3>1, <3>2, <3>3, <3>4, <3>5 DEF FleetStep, Step
  <2>2. UNCHANGED txn
    BY <1>4 DEF FleetStep, vars, installer
  <2> QED
    BY <2>1, <2>2
<1>5. CASE ApplicationStep
  <2> SUFFICES ASSUME NEW p \in Plugins, Progress(p) \/ Installed(p) \/ Boot(p),
                      UNCHANGED vars
               PROVE  CommitInstalls'
    BY <1>5 DEF ApplicationStep, Application
  <2>1. UNCHANGED <<at, txn>>
    BY DEF Progress, Installed, Boot, harness, vars, installer
  <2>2. UNCHANGED phase \/ phase' = [phase EXCEPT ![p] = "installed"]
    BY DEF Progress, Installed, Boot
  <2> QED
    BY <2>1, <2>2
<1>6. CASE ArtifactRebuilt
  BY <1>6 DEF ArtifactRebuilt, Rebuild, installer, fleetVars, harness, app
<1>7. CASE ForeignCommit
  BY <1>7 DEF ForeignCommit, OtherCommit, fleetVars, harness, app
<1>8. CASE UNCHANGED allVars
  BY <1>8 DEF allVars, vars, installer, fleetVars, harness, app
<1> QED
  BY <1>1, <1>2, <1>3, <1>4, <1>5, <1>6, <1>7, <1>8 DEF InstallationNext, Harness

\* The invariant of the composition, from which the fleet's steps follow.
LEMMA Composition == InstallationSpec => [](FleetInv /\ CommitInstalls)
<1>1. InstallationInit => FleetInv /\ CommitInstalls
  <2>1. FleetInit => FleetInv
    BY FleetStarts
  <2> QED
    BY <2>1 DEF InstallationInit, CommitInstalls, Init
<1>2. CleansUp /\ FleetInv /\ CommitInstalls /\ [InstallationNext]_allVars
      => FleetInv' /\ CommitInstalls'
  <2> SUFFICES ASSUME CleansUp, FleetInv, CommitInstalls, [InstallationNext]_allVars
               PROVE  FleetInv' /\ CommitInstalls'
    OBVIOUS
  <2>1. FleetInv'
    BY FleetSide, FleetContinues
  <2>2. CommitInstalls'
    BY KeepsCommitInstalls DEF FleetInv
  <2> QED
    BY <2>1, <2>2
<1> QED
  BY <1>1, <1>2, CandidateSteps, ReturnsClean, PTL DEF InstallationSpec

\* The installation implements both of its parts: its behaviours are behaviours
\* of the candidate transaction, and of the fleet installation that relies on
\* an installed plan after nil.
THEOREM ImplementsItsParts == InstallationSpec => Spec /\ FleetSpec
<1>1. InstallationInit => FleetInit
  BY DEF InstallationInit
<1>2. CleansUp /\ CommitInstalls /\ [InstallationNext]_allVars => [FleetNext]_fleetVars
  BY FleetSide
<1> QED
  BY <1>1, <1>2, Composition, CandidateSteps, ReturnsClean, PTL
     DEF InstallationSpec, FleetSpec

\* What is proved of the parts holds of the whole: with a plan and without, nil
\* means that the fleet is ready, errors have reasons, and the commit is of
\* what was prepared, buries nothing and leaves nothing behind.
THEOREM InstallationIsSafe ==
    InstallationSpec => [](/\ ReadyFleet /\ NoFalseAlarm
                           /\ CommitsWhatWasPrepared /\ NoLostUpdate /\ CleansUp)
BY ImplementsItsParts, NilMeansReady, ErrorsHaveReasons, CommittedIsPrepared,
   OptimisticCommit, ReturnsClean, PTL

\* After the commit the environment is what was staged, until others commit.
LEMMA KeepsEnvironment ==
    ASSUME RevisionsTypeOK, StagedIsVerified, RevisionIsCounted, NoLostUpdate,
           EnvironmentIsStaged, [InstallationNext]_allVars
    PROVE  EnvironmentIsStaged'
<1> USE DEF EnvironmentIsStaged, StagedIsVerified, RevisionsTypeOK
<1>1. CASE CandidateStep
  <2>1. CASE txn' # "committed"
    BY <2>1
  <2>2. CASE txn' = "committed"
    <3>1. txn = "committed"
      BY <1>1, <2>2 DEF CandidateStep, Prepare, Copy, Stage, ReadManifest, ReadRevision, Begin,
                        Reload, Fail, Rollback, RemoveStore, installer
    <3>2. UNCHANGED <<current, revision, staged, environment>>
      BY <1>1, <3>1 DEF CandidateStep, Prepare, Copy, Stage, ReadManifest, ReadRevision, Begin,
                        Reload, Fail, Rollback, RemoveStore, installer
    <3> QED
      BY <3>1, <3>2
  <2> QED
    BY <2>1, <2>2
<1>2. CASE CandidateCommit
  BY <1>2 DEF CandidateCommit, Commit
<1>3. CASE HandOver \/ FleetStep \/ ApplicationStep
  BY <1>3 DEF HandOver, FleetStep, ApplicationStep, vars, locals, installer
<1>4. CASE ArtifactRebuilt
  BY <1>4 DEF ArtifactRebuilt, Rebuild, locals, installer
<1>5. CASE ForeignCommit
  BY <1>5 DEF ForeignCommit, OtherCommit, locals
<1>6. CASE UNCHANGED allVars
  BY <1>6 DEF allVars, vars, locals, installer
<1> QED
  BY <1>1, <1>2, <1>3, <1>4, <1>5, <1>6 DEF InstallationNext, Harness

\* The fleet starts after nil, and the candidate does not run again.
LEMMA KeepsHandOver ==
    ASSUME HandedOverAfterNil, [InstallationNext]_allVars PROVE HandedOverAfterNil'
<1> USE DEF HandedOverAfterNil
<1>1. CASE CandidateStep \/ CandidateCommit
  BY <1>1 DEF CandidateStep, CandidateCommit, PlanCommitted, fleetVars, harness
<1>2. CASE HandOver
  BY <1>2 DEF HandOver, PlanReturned, Goto, Return, vars, locals
<1>3. CASE FleetStep
  <2>1. at \notin {"plan", "done"}
    <3>1. CASE AwaitArtifact
      BY <3>1 DEF AwaitArtifact
    <3>2. CASE CallFails \/ RefreshCatalog \/ AwaitArtifactFails
      BY <3>2 DEF CallFails, RefreshCatalog, AwaitArtifactFails
    <3>3. CASE InstallStatus \/ AwaitInstalled \/ Enable \/ BootWait
      BY <3>3 DEF InstallStatus, AwaitInstalled, Enable, BootWait
    <3>4. CASE \E p \in Plugins : Install(p) \/ ConsentChain(p)
      BY <3>4 DEF Install, ConsentChain
    <3>5. CASE \E id \in Consents : Grant(id)
      BY <3>5 DEF Grant
    <3> QED
      BY <1>3, <3>1, <3>2, <3>3, <3>4, <3>5 DEF FleetStep, Step
  <2>2. UNCHANGED <<pc, outcome>>
    BY <1>3 DEF FleetStep, vars, locals
  <2> QED
    BY <2>1, <2>2
<1>4. CASE ApplicationStep
  BY <1>4 DEF ApplicationStep, Application, Progress, Installed, Boot, harness, vars, locals
<1>5. CASE ArtifactRebuilt
  BY <1>5 DEF ArtifactRebuilt, Rebuild, locals, fleetVars, harness
<1>6. CASE ForeignCommit
  BY <1>6 DEF ForeignCommit, OtherCommit, locals, fleetVars, harness
<1>7. CASE UNCHANGED allVars
  BY <1>7 DEF allVars, vars, locals, fleetVars, harness
<1> QED
  BY <1>1, <1>2, <1>3, <1>4, <1>5, <1>6, <1>7 DEF InstallationNext, Harness

\* Only Enable enables, and only the plugin at hand.
LEMMA OnlyEnableEnables ==
    ASSUME [InstallationNext]_allVars, enabled' # enabled
    PROVE  Enable /\ at = "grant" /\ UNCHANGED <<vars, environment>>
<1>1. CASE CandidateStep \/ CandidateCommit \/ HandOver \/ ArtifactRebuilt \/ ForeignCommit
  BY <1>1 DEF CandidateStep, CandidateCommit, PlanCommitted, HandOver, PlanReturned,
              ArtifactRebuilt, ForeignCommit, fleetVars, app
<1>2. CASE FleetStep
  <2>1. CASE AwaitArtifact
    BY <2>1 DEF AwaitArtifact, app
  <2>2. CASE CallFails \/ RefreshCatalog \/ AwaitArtifactFails
    BY <2>2 DEF CallFails, RefreshCatalog, AwaitArtifactFails, app
  <2>3. CASE InstallStatus \/ AwaitInstalled \/ BootWait
    BY <2>3 DEF InstallStatus, AwaitInstalled, BootWait, app
  <2>4. CASE \E p \in Plugins : Install(p) \/ ConsentChain(p)
    BY <2>4 DEF Install, ConsentChain, app
  <2>5. CASE \E id \in Consents : Grant(id)
    BY <2>5 DEF Grant
  <2>6. CASE Enable
    BY <1>2, <2>6 DEF FleetStep, Enable
  <2> QED
    BY <1>2, <2>1, <2>2, <2>3, <2>4, <2>5, <2>6 DEF FleetStep, Step
<1>3. CASE ApplicationStep
  BY <1>3 DEF ApplicationStep, Application, Progress, Installed, Boot
<1>4. CASE UNCHANGED allVars
  BY <1>4 DEF allVars, fleetVars, app
<1> QED
  BY <1>1, <1>2, <1>3, <1>4 DEF InstallationNext, Harness

\* The digest computed at the start is the digest of what is enabled at the end,
\* through the copy, the staging, the commit and the hand-over, as long as
\* no other client has committed after this one.
THEOREM EnabledIsPrepared == InstallationSpec => EnablesWhatWasPrepared
<1> DEFINE Here == RevisionsTypeOK /\ StagedIsVerified /\ RevisionIsCounted /\ NoLostUpdate
           There == CommitsWhatWasPrepared /\ CleansUp
           IInv == EnvironmentIsStaged /\ HandedOverAfterNil
<1>0. TypeOK => RevisionsTypeOK
  BY DEF TypeOK
<1>1. InstallationSpec => [](Here /\ There)
  BY <1>0, CandidateSteps, CandidateTypes, StagingVerified, RevisionsCounted, ReturnsClean, PTL
<1>2. InstallationInit => IInv
  BY DEF InstallationInit, Init, FleetInit, EnvironmentIsStaged, HandedOverAfterNil
<1>3. Here /\ IInv /\ [InstallationNext]_allVars => IInv'
  BY KeepsEnvironment, KeepsHandOver
<1>4. InstallationSpec => []IInv
  BY <1>1, <1>2, <1>3, PTL DEF InstallationSpec
<1>5. /\ FleetInv /\ There /\ IInv /\ [InstallationNext]_allVars
      => [\A p \in enabled' \ enabled :
             pc = "done" => environment[p] = digest[p] \/ current > revision + 1]_allVars
  <2> SUFFICES ASSUME FleetInv, There, IInv, [InstallationNext]_allVars,
                      NEW p \in enabled' \ enabled, pc = "done"
               PROVE  environment[p] = digest[p] \/ current > revision + 1
    OBVIOUS
  <2>1. Enable /\ at = "grant" /\ UNCHANGED <<vars, environment>>
    BY OnlyEnableEnables
  <2>2. p = plugin /\ plugin \in Plugins
    <3>1. plugin \in Plugins
      BY <2>1 DEF FleetInv, HarnessTypeOK, Progressing
    <3>2. p = plugin
      BY <2>1 DEF Enable
    <3> QED
      BY <3>1, <3>2
  <2>3. p \in Components
    BY <2>2, InstallationAssumption, CandidateAssumption
       DEF InstallationAssumption, CandidateAssumption
  <2>4. txn = "committed"
    BY <2>1 DEF HandedOverAfterNil, CleansUp
  <2> QED
    BY <2>3, <2>4 DEF EnvironmentIsStaged, CommitsWhatWasPrepared
<1> QED
  BY <1>1, <1>4, <1>5, Composition, PTL DEF InstallationSpec, EnablesWhatWasPrepared
================================================================================

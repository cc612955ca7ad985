------------------------------ MODULE FleetInstall ------------------------------
(***************************************************************************)
(* system/install_fleet.go: the terminal plugins are installed one after   *)
(* the other through the application, each one followed through the        *)
(* progress of its artifact transaction and the phase of its installation, *)
(* consented to and enabled; at the end the harness waits for their boot.  *)
(* With a candidate plan the fleet comes from elsewhere (module            *)
(* Installation says where) and is only enabled.  The transaction of a     *)
(* plugin moves on its own, and every call may fail.                       *)
(***************************************************************************)
EXTENDS Naturals, FiniteSets

CONSTANTS Plugins,     \* plugins of the profile
          Consents,    \* ids that may need consent
          NoPlugin,    \* the harness is between two plugins
          MaxSequence  \* bound: progress events of one transaction

ASSUME FleetAssumption == NoPlugin \notin Plugins /\ MaxSequence \in Nat \ {0}

VARIABLES at,        \* next call of the harness
          left,      \* plugins the loop still has to visit
          plugin,    \* the one it is at
          sequence,  \* last sequence of awaitArtifactInstall
          ungranted, \* ids of plugin.consent.chain still to be granted
          returned,  \* what the function returned: "none" yet, "nil" or "error"
          trouble,   \* a call failed, consent was refused, no commit
          seq,       \* sequence of each plugin's transaction
          artifact,  \* its phase
          phase,     \* phase of the plugin's installation
          pending,   \* consents each plugin still needs
          enabled,   \* enabled plugins
          booted     \* plugins that have booted

harness   == <<at, left, plugin, sequence, ungranted, returned, trouble>>
app       == <<seq, artifact, phase, pending, enabled, booted>>
fleetVars == <<harness, app>>

Over == {"committed", "rolled-back", "failed"}

FleetInit ==
    /\ left = Plugins /\ plugin = NoPlugin /\ sequence = 0 /\ ungranted = {}
    /\ returned = "none" /\ trouble = FALSE
    /\ seq = [p \in Plugins |-> 0] /\ artifact = [p \in Plugins |-> "none"]
    /\ at \in {"catalog", "plan"}     \* "plan": a candidate plan is configured
    /\ phase = [p \in Plugins |-> "none"]
    /\ pending = [p \in Plugins |-> {}]
    /\ enabled = {} /\ booted = {}

--------------------------------------------------------------------------------
Goto(p) == at' = p /\ UNCHANGED returned
Return(ok) == at' = "done" /\ returned' = IF ok THEN "nil" ELSE "error"

CallFails ==
    /\ at \notin {"plan", "await", "done"}
    /\ Return(FALSE) /\ trouble' = TRUE
    /\ UNCHANGED <<left, plugin, sequence, ungranted, app>>

\* The candidate installation has returned; the fleet is enabled after nil.
PlanReturned(ok) ==
    /\ at = "plan"
    /\ IF ok THEN Goto("chain") ELSE Return(FALSE)
    /\ trouble' = ~ok
    /\ UNCHANGED <<left, plugin, sequence, ungranted, app>>

RefreshCatalog ==
    /\ at = "catalog"
    /\ Goto("install")
    /\ UNCHANGED <<left, plugin, sequence, ungranted, trouble, app>>

\* plugin.install starts the artifact transaction; its answer may be lost.
Install(p) ==
    /\ at = "install" /\ p \in left
    /\ artifact' = [artifact EXCEPT ![p] = "running"]
    /\ phase' = [phase EXCEPT ![p] = "installing"]
    /\ plugin' = p /\ sequence' = 0
    /\ \/ Goto("await") /\ UNCHANGED trouble
       \/ Return(FALSE) /\ trouble' = TRUE
    /\ UNCHANGED <<left, ungranted, seq, pending, enabled, booted>>

\* Fault: every event must be seen.
AwaitArtifactStrictly ==
    /\ at = "await" /\ seq[plugin] > sequence
    /\ sequence' = seq[plugin]
    /\ IF seq[plugin] = sequence + 1
         THEN Goto(IF artifact[plugin] = "committed" THEN "installed"
                   ELSE IF artifact[plugin] = "running" THEN "await" ELSE "status")
         ELSE Return(FALSE)
    /\ UNCHANGED <<left, plugin, ungranted, trouble, app>>

\* artifact_install_wait answers with the state once it is past afterSequence.
AwaitArtifact ==
    /\ at = "await" /\ seq[plugin] > sequence
    /\ sequence' = seq[plugin]
    /\ CASE artifact[plugin] = "committed" -> Goto("installed")
         [] artifact[plugin] \in {"rolled-back", "failed"} -> Goto("status")
         [] OTHER -> Goto("await")
    /\ UNCHANGED <<left, plugin, ungranted, trouble, app>>

\* It failed, or nothing happened for 30 seconds.
AwaitArtifactFails ==
    /\ at = "await"
    /\ Goto("status") /\ trouble' = TRUE
    /\ UNCHANGED <<left, plugin, sequence, ungranted, returned, app>>

\* Fault: an installation that is not there is asked for again.
InstallStatusRetries ==
    /\ at = "status"
    /\ Goto(IF phase[plugin] = "installed" THEN "chain" ELSE "install")
    /\ UNCHANGED <<left, plugin, sequence, ungranted, trouble, app>>

\* After an error, plugin.install.status decides: the installation may be there.
InstallStatus ==
    /\ at = "status"
    /\ IF phase[plugin] = "installed" THEN Goto("chain") ELSE Return(FALSE)
    /\ UNCHANGED <<left, plugin, sequence, ungranted, trouble, app>>

AwaitInstalled ==
    /\ at = "installed" /\ phase[plugin] = "installed"
    /\ Goto("chain")
    /\ UNCHANGED <<left, plugin, sequence, ungranted, trouble, app>>

\* enableInstalledPlugin, of the plugin at hand or, for a candidate, the next.
ConsentChain(p) ==
    /\ at = "chain"
    /\ IF plugin = NoPlugin THEN p \in left ELSE p = plugin
    /\ plugin' = p /\ ungranted' = pending[p]
    /\ Goto("grant")
    /\ UNCHANGED <<left, sequence, trouble, app>>

\* Summary and grant of the next id: the answer must say granted.  A grant whose
\* answer is lost may be there all the same.
Grant(id) ==
    /\ at = "grant" /\ id \in ungranted
    /\ \/ /\ pending' = [p \in Plugins |-> pending[p] \ {id}]
          /\ ungranted' = ungranted \ {id} /\ Goto("grant") /\ UNCHANGED trouble
       \/ /\ Return(FALSE) /\ trouble' = TRUE
          /\ pending' \in {pending, [p \in Plugins |-> pending[p] \ {id}]}
          /\ UNCHANGED ungranted
    /\ UNCHANGED <<left, plugin, sequence, seq, artifact, phase, enabled, booted>>

Enable ==
    /\ at = "grant" /\ ungranted = {}
    /\ enabled' = enabled \cup {plugin}
    /\ left' = left \ {plugin} /\ plugin' = NoPlugin
    /\ \/ /\ UNCHANGED trouble
          /\ Goto(IF left' = {} THEN "boot"
                  ELSE IF artifact[plugin] = "none" THEN "chain" ELSE "install")
       \/ Return(FALSE) /\ trouble' = TRUE           \* the answer is lost
    /\ UNCHANGED <<sequence, ungranted, seq, artifact, phase, pending, booted>>

\* Fault: one plugin that has booted is enough.
BootWaitForOne ==
    /\ at = "boot" /\ booted # {}
    /\ Return(TRUE)
    /\ UNCHANGED <<left, plugin, sequence, ungranted, trouble, app>>

\* plugin.boot.wait answers when every enabled plugin has booted.
BootWait ==
    /\ at = "boot" /\ enabled \subseteq booted
    /\ Return(TRUE)
    /\ UNCHANGED <<left, plugin, sequence, ungranted, trouble, app>>

--------------------------------------------------------------------------------
(* The application (external). *)

Progress(p) ==
    /\ artifact[p] = "running" /\ seq[p] < MaxSequence
    /\ seq' = [seq EXCEPT ![p] = @ + 1]
    /\ \E t \in {"running"} \cup Over :
          /\ artifact' = [artifact EXCEPT ![p] = t]
          /\ trouble' = (trouble \/ t \in {"rolled-back", "failed"})
    /\ UNCHANGED <<at, left, plugin, sequence, ungranted, returned, phase, pending, enabled, booted>>

Installed(p) ==
    /\ artifact[p] = "committed" /\ phase[p] = "installing"
    /\ phase' = [phase EXCEPT ![p] = "installed"]
    /\ \E ids \in SUBSET Consents : pending' = [pending EXCEPT ![p] = ids]
    /\ UNCHANGED <<harness, seq, artifact, enabled, booted>>

Boot(p) ==
    /\ p \in enabled \ booted
    /\ booted' = booted \cup {p}
    /\ UNCHANGED <<harness, seq, artifact, phase, pending, enabled>>

\* A commit at the application installs the fleet of the plan.
PlanCommitted ==
    /\ at = "plan"
    /\ phase' = [p \in Plugins |-> "installed"]
    /\ pending' \in [Plugins -> SUBSET Consents]
    /\ UNCHANGED <<harness, seq, artifact, enabled, booted>>

Step ==
    \/ CallFails \/ RefreshCatalog \/ AwaitArtifact \/ AwaitArtifactFails
    \/ InstallStatus \/ AwaitInstalled \/ Enable \/ BootWait
    \/ \E p \in Plugins : Install(p) \/ ConsentChain(p)
    \/ \E id \in Consents : Grant(id)

Application == \E p \in Plugins : Progress(p) \/ Installed(p) \/ Boot(p)

FleetNext ==
    \/ Step \/ Application
    \/ PlanCommitted
    \/ PlanReturned(FALSE)
    \/ (\A p \in Plugins : phase[p] = "installed") /\ PlanReturned(TRUE)

\* What this component relies on: nil from the candidate installation means that
\* the plan is installed.
FleetSpec == FleetInit /\ [][FleetNext]_fleetVars

--------------------------------------------------------------------------------
FleetTypeOK ==
    /\ at \in {"plan", "catalog", "install", "await", "status", "installed", "chain",
               "grant", "boot", "done"}
    /\ left \subseteq Plugins /\ plugin \in Plugins \cup {NoPlugin}
    /\ sequence \in 0..MaxSequence /\ seq \in [Plugins -> 0..MaxSequence]
    /\ ungranted \subseteq Consents /\ pending \in [Plugins -> SUBSET Consents]
    /\ returned \in {"none", "nil", "error"} /\ trouble \in BOOLEAN
    /\ artifact \in [Plugins -> {"none", "running"} \cup Over]
    /\ phase \in [Plugins -> {"none", "installing", "installed"}]
    /\ enabled \subseteq Plugins /\ booted \subseteq Plugins

\* nil means that the whole fleet is installed, enabled and booted.
ReadyFleet ==
    returned = "nil" => /\ enabled = Plugins /\ booted = Plugins
                         /\ \A p \in Plugins : phase[p] = "installed" /\ pending[p] = {}

\* The harness gives up only for a reason: no interleaving of its waits with
\* the progress of the transaction makes it miss an event or refuse one.
NoFalseAlarm == returned = "error" => trouble
================================================================================

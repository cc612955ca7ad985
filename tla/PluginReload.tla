------------------------------ MODULE PluginReload ------------------------------
(***************************************************************************)
(* VerifyPluginReloadLifetime (terminal_plugin_reload.go): a plugin that   *)
(* has not changed is reloaded several times under a living terminal; the  *)
(* harness compares plugin realms, stream receivers and the shell's pid    *)
(* with a baseline.  Realms and streams are counted for the whole          *)
(* application, whose other plugins go on meanwhile.                       *)
(***************************************************************************)
EXTENDS Naturals

CONSTANTS Attempts, \* reloads
          MaxNoise  \* bound: changes by other plugins

ASSUME ReloadAssumption == Attempts \in Nat \ {0} /\ MaxNoise \in Nat

\* What a reload may do wrong, each time.
ReloadDefects == {"replaces", "replaces-unsaid", "leaks-realm", "forgets-realm",
                  "leaks-stream", "new-shell", "mute"}

VARIABLES call, attempt,      \* next call of the harness; its loop
          baseOpen, baseStreams, basePid, \* the baseline
          lifetime,           \* verdict: "none" yet, "pass" or "error"
          broke,              \* a call failed, or a wait ran out
          reloadDefect,       \* "none" or the application's defect
          open, created, disposed, streams, pid, \* the application
          mounted,            \* is the view attached to its terminal?
          owed,               \* a reload's defect has yet to take effect
          noise,              \* changes by other plugins
          echoed              \* is the marker typed, or shown?

reloadHarness == <<call, attempt, baseOpen, baseStreams, basePid, lifetime, broke>>
realms        == <<open, created, disposed>>
reloadApp     == <<reloadDefect, realms, streams, pid, mounted, owed, noise, echoed>>
reloadVars    == <<reloadHarness, reloadApp>>

ReloadInit ==
    /\ call = "baseline" /\ attempt = 1 /\ lifetime = "none" /\ broke = FALSE
    /\ baseOpen = 0 /\ baseStreams = 0 /\ basePid = 0
    /\ reloadDefect \in ReloadDefects \cup {"none"}
    /\ open = 1 /\ created \in {1, 2} /\ disposed = created - open
    /\ streams = 1 /\ pid = 1 /\ mounted = TRUE /\ owed = FALSE /\ noise = 0
    /\ echoed = "no"

--------------------------------------------------------------------------------
Then(c) == call' = c /\ UNCHANGED <<attempt, lifetime>>
Stop(v) == call' = "over" /\ lifetime' = v /\ UNCHANGED attempt
ThenIf(ok, c) == IF ok THEN Then(c) ELSE Stop("error")
kept == <<baseOpen, baseStreams, basePid>>

\* state.health and pty.status are two calls.
ReadBaselineHealth ==
    /\ call = "baseline" /\ Then("baselinePid")
    /\ baseOpen' = open /\ baseStreams' = streams
    /\ UNCHANGED <<basePid, broke, reloadApp>>

ReadBaselinePid ==
    /\ call = "baselinePid" /\ Then("reload") /\ basePid' = pid
    /\ UNCHANGED <<baseOpen, baseStreams, broke, reloadApp>>

\* plugin.reload detaches the view, which is mounted again in the background.  The
\* answer says "enabled" and "unchanged"; only one defect is admitted in it.
Reload ==
    /\ call = "reload" /\ ~owed
    /\ ThenIf(reloadDefect # "replaces", "live")
    /\ mounted' = FALSE /\ streams' = IF mounted THEN streams - 1 ELSE streams
    /\ owed' = (reloadDefect \notin {"none", "replaces", "mute"})
    /\ UNCHANGED <<kept, broke, reloadDefect, realms, pid, noise, echoed>>

\* Fault: health is read as soon as the reload is answered.
WaitLiveLess ==
    /\ call = "live" /\ Then("health")
    /\ UNCHANGED <<kept, broke, reloadApp>>

\* plugin.boot.wait, tab.mount.wait and the wait for phase live.
WaitLiveAgain ==
    /\ call = "live" /\ mounted /\ Then("health")
    /\ UNCHANGED <<kept, broke, reloadApp>>

\* Fault: the realms that were made and disposed of are not balanced.
CheckOpenRealms ==
    /\ call = "health"
    /\ ThenIf(open = baseOpen /\ streams = baseStreams, "pid")
    /\ UNCHANGED <<kept, broke, reloadApp>>

CheckLifetime ==
    /\ call = "health"
    /\ ThenIf(open = baseOpen /\ created - disposed = open /\ streams = baseStreams, "pid")
    /\ UNCHANGED <<kept, broke, reloadApp>>

CheckShell ==
    /\ call = "pid"
    /\ IF pid # basePid THEN Stop("error")
       ELSE IF attempt < Attempts
         THEN call' = "reload" /\ attempt' = attempt + 1 /\ UNCHANGED lifetime
         ELSE Then("type")
    /\ UNCHANGED <<kept, broke, reloadApp>>

TypeReloadMarker ==
    /\ call = "type" /\ Then("shown") /\ echoed' = "typed"
    /\ UNCHANGED <<kept, broke, reloadDefect, realms, streams, pid, mounted, owed, noise>>

WaitReloadMarker ==
    /\ call = "shown" /\ echoed = "shown" /\ Then("capture")
    /\ UNCHANGED <<kept, broke, reloadApp>>

\* captureTerminal, and the samples are written.
CaptureLifetime ==
    /\ call = "capture" /\ Stop("pass")
    /\ UNCHANGED <<kept, broke, reloadApp>>

ReloadCallFails ==
    /\ call # "over" /\ Stop("error") /\ broke' = TRUE
    /\ UNCHANGED <<kept, reloadApp>>

--------------------------------------------------------------------------------
(* The application (external). *)

Remount ==
    /\ ~mounted /\ mounted' = TRUE /\ streams' = streams + 1
    /\ UNCHANGED <<reloadHarness, reloadDefect, realms, pid, owed, noise, echoed>>

\* The defect shows some time after the reload, but before the next one begins.
TakesEffect ==
    /\ owed /\ owed' = FALSE
    /\ open' = IF reloadDefect = "leaks-realm" THEN open + 1 ELSE open
    /\ created' = IF reloadDefect \in {"leaks-realm", "forgets-realm", "replaces-unsaid"}
                    THEN created + 1 ELSE created
    /\ disposed' = IF reloadDefect = "replaces-unsaid" THEN disposed + 1 ELSE disposed
    /\ streams' = IF reloadDefect = "leaks-stream" THEN streams + 1 ELSE streams
    /\ pid' = IF reloadDefect = "new-shell" THEN pid + 1 ELSE pid
    /\ UNCHANGED <<reloadHarness, reloadDefect, mounted, noise, echoed>>

\* Another plugin starts or ends, or attaches to a stream or leaves one.
OthersMove ==
    /\ noise < MaxNoise /\ noise' = noise + 1
    /\ \/ open' = open + 1 /\ created' = created + 1 /\ UNCHANGED <<disposed, streams>>
       \/ open > 1 /\ open' = open - 1 /\ disposed' = disposed + 1
          /\ UNCHANGED <<created, streams>>
       \/ streams' \in {streams + 1} \cup {s \in {streams - 1} : streams > 1}
          /\ UNCHANGED realms
    /\ UNCHANGED <<reloadHarness, reloadDefect, pid, mounted, owed, echoed>>

ShowMarker ==
    /\ echoed = "typed" /\ mounted /\ reloadDefect # "mute" /\ echoed' = "shown"
    /\ UNCHANGED <<reloadHarness, reloadDefect, realms, streams, pid, mounted, owed, noise>>

ReloadNext ==
    \/ ReadBaselineHealth \/ ReadBaselinePid \/ Reload \/ WaitLiveAgain \/ CheckLifetime
    \/ CheckShell \/ TypeReloadMarker \/ WaitReloadMarker \/ CaptureLifetime
    \/ ReloadCallFails
    \/ lifetime = "none" /\ (Remount \/ TakesEffect \/ OthersMove \/ ShowMarker)

ReloadSpec == ReloadInit /\ [][ReloadNext]_reloadVars

--------------------------------------------------------------------------------
\* Reloading twice or more finds every leak, even one that shows only after the
\* sample of its own reload; as long as no other plugin comes or goes, which may
\* make up for a leak.  A runtime that is replaced cleanly, and not admitted, is
\* not found: the realms made so far are not compared with the baseline.
ReloadFinds ==
    lifetime = "pass" /\ noise = 0 /\ Attempts > 1 =>
        reloadDefect \in {"none", "replaces-unsaid"}

\* A plugin that is reloaded as promised fails only if a call failed, a wait ran
\* out or another plugin came or went: the time its view needs to attach again is
\* never taken for a leak.
NoFalseLeak ==
    lifetime = "error" /\ reloadDefect \in {"none", "replaces-unsaid"}
        => broke \/ noise > 0
================================================================================

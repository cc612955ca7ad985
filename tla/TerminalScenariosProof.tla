------------------------- MODULE TerminalScenariosProof -------------------------
(***************************************************************************)
(* Proofs about the scenarios over an open terminal: the reload of a       *)
(* plugin, for any number of reloads and of changes by other plugins, and  *)
(* the restart, the fault and the closed tab, for any number of panes,     *)
(* pids and kinds of trouble.                                              *)
(***************************************************************************)
EXTENDS TerminalScenarios, Integers, TLAPS

AfterReload == {"live", "health", "pid", "type", "shown", "capture"}

ReloadTypeOK ==
    /\ call \in {"baseline", "baselinePid", "reload", "over"} \cup AfterReload
    /\ attempt \in 1..Attempts /\ lifetime \in {"none", "pass", "error"}
    /\ broke \in BOOLEAN /\ mounted \in BOOLEAN /\ owed \in BOOLEAN
    /\ baseOpen \in Int /\ baseStreams \in Int /\ basePid \in Int
    /\ open \in Int /\ created \in Int /\ disposed \in Int /\ streams \in Int /\ pid \in Int
    /\ reloadDefect \in ReloadDefects \cup {"none"} /\ noise \in Nat
    /\ echoed \in {"no", "typed", "shown"}

\* Receivers that a view which is not attached yet is going to take.
Missing == IF mounted THEN 0 ELSE 1

Sound == reloadDefect \in {"none", "replaces-unsaid"}

\* Left alone by other plugins, an application that keeps its promise keeps its
\* balance, and one with a defect can only be above it.
Balanced ==
    noise = 0 =>
        /\ created - disposed >= open
        /\ call \notin {"baseline", "over"} => open >= baseOpen /\ streams + Missing >= baseStreams
        /\ call \notin {"baseline", "baselinePid", "over"} => pid >= basePid
        /\ Sound =>
              /\ created - disposed = open
              /\ call \notin {"baseline", "over"} =>
                    open = baseOpen /\ streams + Missing = baseStreams
              /\ call \notin {"baseline", "baselinePid", "over"} => pid = basePid

\* The calls before and after the reload of an attempt.
InOrder ==
    /\ lifetime = "none" <=> call # "over"
    /\ call \in {"baseline", "baselinePid"} => attempt = 1 /\ ~owed
    /\ call \in {"baseline", "baselinePid"} => mounted
    /\ call = "health" => mounted
    /\ call \in {"type", "shown", "capture"} => attempt = Attempts
    /\ reloadDefect \in {"none", "replaces", "mute"} => ~owed
    /\ Sound /\ noise = 0 /\ lifetime = "error" => broke

\* A reload has been asked for; another one before it.
Begun == call \in AfterReload \/ (call = "reload" /\ attempt > 1)
Again == call \in AfterReload /\ attempt > 1

Leaks == {"leaks-realm", "forgets-realm", "leaks-stream"}

\* The defect of an earlier reload is there for the comparison to see.
Visible ==
    /\ reloadDefect = "leaks-realm" => open > baseOpen
    /\ reloadDefect = "forgets-realm" => created - disposed > open
    /\ reloadDefect = "leaks-stream" => streams + Missing > baseStreams
    /\ reloadDefect = "new-shell" => pid > basePid

\* It shows late, but not later than the next reload, and stops the scenario.
Exposed ==
    /\ noise = 0 /\ Begun => Visible \/ (owed /\ ~Again)
    /\ reloadDefect = "replaces" => call \notin AfterReload
    /\ reloadDefect = "mute" => echoed # "shown" /\ call # "capture"
    /\ noise = 0 /\ Again /\ reloadDefect \in Leaks => call \in {"live", "health"}
    /\ noise = 0 /\ Again /\ reloadDefect = "new-shell" => call \in {"live", "health", "pid"}
    /\ ReloadFinds

ReloadInv == ReloadTypeOK /\ Balanced /\ InOrder /\ Exposed

\* It holds before the first call.
LEMMA ReloadStarts ==
    ASSUME ReloadInit PROVE ReloadInv
<1> USE ReloadAssumption DEF ReloadAssumption, ReloadInit
<1>1. ReloadTypeOK
  <2>1. attempt \in 1..Attempts /\ created \in Int /\ disposed \in Int
    OBVIOUS
  <2>2. /\ broke \in BOOLEAN /\ mounted \in BOOLEAN /\ owed \in BOOLEAN
        /\ reloadDefect \in ReloadDefects \cup {"none"}
    OBVIOUS
  <2> QED
    BY <2>1, <2>2 DEF ReloadTypeOK
<1>2. Balanced
  BY DEF Balanced, Missing
<1>3. InOrder
  BY DEF InOrder, Sound
<1>4. Exposed
  BY DEF Exposed, Begun, Again, AfterReload, ReloadFinds
<1> QED
  BY <1>1, <1>2, <1>3, <1>4 DEF ReloadInv

\* The types.
LEMMA ReloadTypes ==
    ASSUME ReloadTypeOK, [ReloadNext]_reloadVars PROVE ReloadTypeOK'
<1> USE ReloadAssumption DEF ReloadAssumption, ReloadTypeOK, AfterReload, ReloadDefects,
        Then, Stop, ThenIf, kept, reloadHarness, reloadApp, realms
<1>1. CASE ReadBaselineHealth
  BY <1>1 DEF ReadBaselineHealth
<1>2. CASE ReadBaselinePid
  BY <1>2 DEF ReadBaselinePid
<1>3. CASE Reload
  <2>1. owed' = (reloadDefect \notin {"none", "replaces", "mute"}) /\ mounted' = FALSE
    BY <1>3 DEF Reload
  <2>2. owed' \in BOOLEAN /\ mounted' \in BOOLEAN
    BY ONLY <2>1, Zenon
  <2>3. streams' \in Int
    BY <1>3 DEF Reload
  <2>4. UNCHANGED <<attempt, kept, broke, reloadDefect, realms, pid, noise, echoed>>
    BY <1>3 DEF Reload
  <2>5. call' \in {"live", "over"} /\ lifetime' \in {"none", "pass", "error"}
    BY <1>3 DEF Reload
  <2> QED
    BY <2>2, <2>3, <2>4, <2>5
<1>4. CASE WaitLiveAgain
  BY <1>4 DEF WaitLiveAgain
<1>5. CASE CheckLifetime
  BY <1>5 DEF CheckLifetime
<1>6. CASE CheckShell
  BY <1>6 DEF CheckShell
<1>7. CASE TypeReloadMarker
  BY <1>7 DEF TypeReloadMarker
<1>8. CASE WaitReloadMarker
  BY <1>8 DEF WaitReloadMarker
<1>9. CASE CaptureLifetime
  BY <1>9 DEF CaptureLifetime
<1>10. CASE ReloadCallFails
  BY <1>10 DEF ReloadCallFails
<1>11. CASE Remount
  BY <1>11 DEF Remount
<1>12. CASE TakesEffect
  <2>1. owed' = FALSE /\ UNCHANGED <<reloadHarness, reloadDefect, mounted, noise, echoed>>
    BY <1>12 DEF TakesEffect
  <2>2. open' \in Int /\ created' \in Int /\ disposed' \in Int
    BY <1>12 DEF TakesEffect
  <2>3. streams' \in Int /\ pid' \in Int
    BY <1>12 DEF TakesEffect
  <2> QED
    BY <2>1, <2>2, <2>3
<1>13. CASE OthersMove
  BY <1>13 DEF OthersMove
<1>14. CASE ShowMarker
  BY <1>14 DEF ShowMarker
<1>15. CASE UNCHANGED reloadVars
  BY <1>15 DEF reloadVars
<1> QED
  BY <1>1, <1>2, <1>3, <1>4, <1>5, <1>6, <1>7, <1>8, <1>9, <1>10, <1>11, <1>12, <1>13,
     <1>14, <1>15 DEF ReloadNext

\* The balance of a sound application, under every step but a change by another
\* plugin, which ends its say.
LEMMA KeepsBalance ==
    ASSUME ReloadTypeOK, Balanced, InOrder, [ReloadNext]_reloadVars PROVE Balanced'
<1> USE ReloadAssumption DEF ReloadAssumption, ReloadTypeOK, AfterReload, ReloadDefects,
        Then, Stop, ThenIf, kept, reloadHarness, reloadApp, realms, Balanced, InOrder,
        Missing, Sound
<1>1. CASE ReadBaselineHealth
  BY <1>1 DEF ReadBaselineHealth
<1>2. CASE ReadBaselinePid
  BY <1>2 DEF ReadBaselinePid
<1>3. CASE Reload
  BY <1>3 DEF Reload
<1>4. CASE WaitLiveAgain
  BY <1>4 DEF WaitLiveAgain
<1>5. CASE CheckLifetime
  BY <1>5 DEF CheckLifetime
<1>6. CASE CheckShell
  BY <1>6 DEF CheckShell
<1>7. CASE TypeReloadMarker
  BY <1>7 DEF TypeReloadMarker
<1>8. CASE WaitReloadMarker
  BY <1>8 DEF WaitReloadMarker
<1>9. CASE CaptureLifetime
  BY <1>9 DEF CaptureLifetime
<1>10. CASE ReloadCallFails
  BY <1>10 DEF ReloadCallFails
<1>11. CASE Remount /\ lifetime = "none"
  BY <1>11 DEF Remount
<1>12. CASE TakesEffect /\ lifetime = "none"
  BY <1>12 DEF TakesEffect
<1>13. CASE OthersMove /\ lifetime = "none"
  BY <1>13 DEF OthersMove
<1>14. CASE ShowMarker /\ lifetime = "none"
  BY <1>14 DEF ShowMarker
<1>15. CASE UNCHANGED reloadVars
  BY <1>15 DEF reloadVars
<1> QED
  BY <1>1, <1>2, <1>3, <1>4, <1>5, <1>6, <1>7,
     <1>8, <1>9, <1>10, <1>11, <1>12, <1>13, <1>14, <1>15 DEF ReloadNext

\* The order of the calls, and a reason for every error.
LEMMA KeepsOrder ==
    ASSUME ReloadTypeOK, Balanced, InOrder, [ReloadNext]_reloadVars PROVE InOrder'
<1> USE ReloadAssumption DEF ReloadAssumption, ReloadTypeOK, AfterReload, ReloadDefects,
        Then, Stop, ThenIf, kept, reloadHarness, reloadApp, realms, Balanced, InOrder,
        Missing, Sound
<1>1. CASE ReadBaselineHealth
  BY <1>1 DEF ReadBaselineHealth
<1>2. CASE ReadBaselinePid
  BY <1>2 DEF ReadBaselinePid
<1>3. CASE Reload
  BY <1>3 DEF Reload
<1>4. CASE WaitLiveAgain
  BY <1>4 DEF WaitLiveAgain
<1>5. CASE CheckLifetime
  BY <1>5 DEF CheckLifetime
<1>6. CASE CheckShell
  BY <1>6 DEF CheckShell
<1>7. CASE TypeReloadMarker
  BY <1>7 DEF TypeReloadMarker
<1>8. CASE WaitReloadMarker
  BY <1>8 DEF WaitReloadMarker
<1>9. CASE CaptureLifetime
  BY <1>9 DEF CaptureLifetime
<1>10. CASE ReloadCallFails
  BY <1>10 DEF ReloadCallFails
<1>11. CASE Remount /\ lifetime = "none"
  BY <1>11 DEF Remount
<1>12. CASE TakesEffect /\ lifetime = "none"
  BY <1>12 DEF TakesEffect
<1>13. CASE OthersMove /\ lifetime = "none"
  BY <1>13 DEF OthersMove
<1>14. CASE ShowMarker /\ lifetime = "none"
  BY <1>14 DEF ShowMarker
<1>15. CASE UNCHANGED reloadVars
  BY <1>15 DEF reloadVars
<1> QED
  BY <1>1, <1>2, <1>3, <1>4, <1>5, <1>6, <1>7,
     <1>8, <1>9, <1>10, <1>11, <1>12, <1>13, <1>14, <1>15 DEF ReloadNext

\* A defect that is visible stays so, and is seen.
LEMMA KeepsExposed ==
    ASSUME ReloadTypeOK, Balanced, InOrder, Exposed, [ReloadNext]_reloadVars PROVE Exposed'
<1> USE ReloadAssumption DEF ReloadAssumption, ReloadTypeOK, AfterReload, ReloadDefects,
        Then, Stop, ThenIf, kept, reloadHarness, reloadApp, realms, Balanced, InOrder,
        Missing, Sound, Begun, Again,
        Leaks, Visible, Exposed, ReloadFinds
<1>1. CASE ReadBaselineHealth
  BY <1>1 DEF ReadBaselineHealth
<1>2. CASE ReadBaselinePid
  BY <1>2 DEF ReadBaselinePid
<1>3. CASE Reload
  <2>1. streams' + Missing' = streams + Missing
    BY <1>3 DEF Reload
  <2>2. /\ UNCHANGED <<kept, attempt, reloadDefect, realms, pid, noise, echoed>>
        /\ ~owed /\ call = "reload" /\ lifetime' # "pass"
        /\ call' \in {"live", "over"}
        /\ reloadDefect = "replaces" => call' = "over"
    BY <1>3 DEF Reload
  <2>3. owed' <=> reloadDefect \notin {"none", "replaces", "mute"}
    BY <1>3 DEF Reload
  <2>4. Visible' <=> Visible
    BY <2>1, <2>2
  <2>5. noise' = 0 /\ Begun' => Visible' \/ (owed' /\ ~Again')
    <3>1. CASE attempt > 1
      BY <3>1, <2>2, <2>4
    <3>2. CASE attempt = 1
      BY <3>2, <2>2, <2>3, <2>4
    <3> QED
      BY <3>1, <3>2
  <2> QED
    BY <2>2, <2>5
<1>4. CASE WaitLiveAgain
  BY <1>4 DEF WaitLiveAgain
<1>5. CASE CheckLifetime
  BY <1>5 DEF CheckLifetime
<1>6. CASE CheckShell
  BY <1>6 DEF CheckShell
<1>7. CASE TypeReloadMarker
  BY <1>7 DEF TypeReloadMarker
<1>8. CASE WaitReloadMarker
  BY <1>8 DEF WaitReloadMarker
<1>9. CASE CaptureLifetime
  BY <1>9 DEF CaptureLifetime
<1>10. CASE ReloadCallFails
  BY <1>10 DEF ReloadCallFails
<1>11. CASE Remount /\ lifetime = "none"
  BY <1>11 DEF Remount
<1>12. CASE TakesEffect /\ lifetime = "none"
  BY <1>12 DEF TakesEffect
<1>13. CASE OthersMove /\ lifetime = "none"
  BY <1>13 DEF OthersMove
<1>14. CASE ShowMarker /\ lifetime = "none"
  BY <1>14 DEF ShowMarker
<1>15. CASE UNCHANGED reloadVars
  BY <1>15 DEF reloadVars
<1> QED
  BY <1>1, <1>2, <1>3, <1>4, <1>5, <1>6, <1>7,
     <1>8, <1>9, <1>10, <1>11, <1>12, <1>13, <1>14, <1>15 DEF ReloadNext

\* The invariant of the reload, whatever the other scenarios do.
LEMMA ReloadInvariant == ScenarioSpec => []ReloadInv
<1>1. ScenarioInit => ReloadInv
  BY ReloadStarts DEF ScenarioInit
<1>2. [ScenarioNext]_scenarioVars => [ReloadNext]_reloadVars
  BY DEF ScenarioNext, scenarioVars
<1>3. ReloadInv /\ [ReloadNext]_reloadVars => ReloadInv'
  BY ReloadTypes, KeepsBalance, KeepsOrder, KeepsExposed DEF ReloadInv
<1> QED
  BY <1>1, <1>2, <1>3, PTL DEF ScenarioSpec

\* Reloading twice or more finds every leak that no other plugin covers.
THEOREM LeaksAreFound == ScenarioSpec => []ReloadFinds
<1>1. ReloadInv => ReloadFinds
  BY DEF ReloadInv, Exposed
<1> QED
  BY <1>1, ReloadInvariant, PTL

\* A plugin that is reloaded as promised is not called leaky.
THEOREM NoLeakIsInvented == ScenarioSpec => []NoFalseLeak
<1>1. ReloadInv => NoFalseLeak
  BY DEF ReloadInv, ReloadTypeOK, InOrder, Sound, NoFalseLeak
<1> QED
  BY <1>1, ReloadInvariant, PTL

--------------------------------------------------------------------------------
(* Restore: the restart, the fault and the closed tab.                        *)

PanesTypeOK ==
    /\ live \in SUBSET Panes /\ due \in SUBSET Panes /\ attended \in SUBSET Panes
    /\ outcome \in [Panes -> {"none", "continued", "archived", "fresh"}]
    /\ screen \in [Panes -> Nat] /\ checkpoint \in [Panes -> Nat]
    /\ typed \in [Panes -> {"no", "typed", "shown"}]

ProcsTypeOK ==
    /\ next \in Nat /\ alive \in SUBSET Nat /\ dying \in SUBSET Nat
    /\ daemon \in Nat /\ shell \in [Panes -> Nat]
    /\ oldShell \in [Panes -> Nat] /\ oldDaemon \in Nat
    /\ app \in BOOLEAN /\ defect \in Defects \cup {"none"}
    /\ excuses \in SUBSET {"call", "late", "renamed", "hasty", "crash", "reuse"}

\* The calls of each leg.
Calls(l) ==
    CASE l = "restore"  -> {"shell", "detach", "scheduled", "shutdown", "start"}
      [] l = "warm"     -> {"activate", "wait", "same", "read", "archive", "frame", "files", "daemon"}
      [] l = "kill"     -> {"shutdown", "terminate", "start"}
      [] l = "archived" -> {"activate", "wait", "other", "type", "shown", "count", "replaced", "gone"}
      [] l = "fault"    -> {"sessions", "daemon", "stop", "activate", "wait", "type", "shown",
                            "after", "reaped", "replaced", "gone"}
      [] l = "close"    -> {"sessions", "close", "closed", "reaped"}

CallsTypeOK ==
    /\ kind \in Kinds /\ at \in Panes
    /\ leg \in IF kind = "restore" THEN {"restore", "warm", "kill", "archived"} ELSE {kind}
    /\ \/ pc \in Calls(leg) /\ result = "none"
       \/ pc = "done" /\ result \in {"pass", "error"}
    /\ kind = "close" \/ pc = "after" => at = 1

RestoreTypeOK == CallsTypeOK /\ ProcsTypeOK /\ PanesTypeOK

\* While the application is down no pane is live.
Down ==
    /\ pc \in {"start", "terminate"} => ~app
    /\ ~app => live = {}

\* Unless a pid is used again, the pids that are known are old ones.
Known ==
    "reuse" \notin excuses =>
        /\ \A x \in alive : x < next
        /\ daemon < next /\ oldDaemon < next
        /\ \A p \in Panes : shell[p] < next /\ oldShell[p] < next

\* What has been found gone stays so.
FoundGone ==
    "reuse" \notin excuses =>
        /\ pc = "reaped" /\ kind = "fault" => \A p \in 1..(at - 1) : oldShell[p] \notin alive
        /\ pc \in {"replaced", "gone"} /\ kind = "fault" => \A p \in Panes : oldShell[p] \notin alive
        /\ NoOldProcess

\* Neither a crash nor a pid that is used again.
Calm == excuses \cap {"reuse", "crash"} = {}

\* The legs before and after the end of the daemon, or of the first session.
Serves ==
    \/ leg \in {"restore", "warm"} /\ pc # "done"
    \/ leg = "kill" /\ pc \in {"shutdown", "terminate"}
    \/ leg = "fault" /\ pc \in {"sessions", "daemon", "stop"}
    \/ leg = "close" /\ pc \in {"sessions", "close"}
Killed  == (leg = "kill" /\ pc = "start") \/ (leg = "archived" /\ pc # "done")
Stopped == leg = "fault" /\ pc \notin {"sessions", "daemon", "stop", "done"}
Closed  == leg = "close" /\ pc \in {"closed", "reaped"}

ServesAll ==
    Serves =>
        /\ daemon # 0 /\ daemon \in alive /\ dying = {}
        /\ \A p \in Panes : shell[p] # 0 /\ shell[p] \in alive /\ shell[p] # daemon

\* What the scenario remembers of it.
Remembers ==
    /\ leg = "restore" /\ pc # "done" =>
          \A p \in Panes : p < at \/ (p = at /\ pc # "shell") \/ pc \in {"shutdown", "start"}
                => oldShell[p] = shell[p]
    /\ \/ leg = "warm" /\ pc # "done"
       \/ leg = "kill" /\ pc \in {"shutdown", "terminate"}
       \/ leg = "fault" /\ pc \in {"daemon", "stop"}
       \/ pc = "close"
       => \A p \in Panes : oldShell[p] = shell[p]
    /\ pc = "stop" \/ (leg = "kill" /\ pc \in {"shutdown", "terminate"}) => oldDaemon = daemon

OutputDefect == defect \in {"drop-output", "repeat-output"}

\* Every marker is printed once, and not before its command is typed.
Markers ==
    /\ Serves /\ leg \in {"restore", "warm", "kill"} =>
          /\ \A p \in due : screen[p] = 0
          /\ \A p \in Panes : OutputDefect /\ screen[p] = 1 => p \in attended
          /\ \A p \in Panes : ~OutputDefect => screen[p] \in {0, 1}
    /\ leg = "restore" /\ pc \in {"shell", "detach", "scheduled"} =>
          \A p \in Panes : p > at \/ (p = at /\ pc # "scheduled") => p \notin due /\ screen[p] = 0

\* The panes that are archived, each with its marker.
Archived(p) == checkpoint[p] = 1 /\ (OutputDefect => p \in attended)
Archives ==
    /\ leg = "warm" /\ pc # "done" =>
          /\ \A p \in 1..(at - 1) : Archived(p)
          /\ pc \in {"same", "read"} => screen[at] > 0
          /\ pc \in {"archive", "frame"} => screen[at] = 1
          /\ pc = "frame" => checkpoint[at] = IF defect = "empty-archive" THEN 0 ELSE 1
          /\ defect \in {"none", "incomplete"} => \A p \in live : outcome[p] = "continued"
    /\ leg \in {"kill", "archived"} \/ (leg = "warm" /\ pc \in {"files", "daemon"})
          => \A p \in Panes : Archived(p)

\* After SIGKILL every live pane is a restored one.
Restored == IF defect = "drop-archive" THEN 0 ELSE IF defect = "repeat-archive" THEN 2 ELSE 1
AfterKill ==
    Killed =>
        /\ due = {} /\ daemon # oldDaemon /\ (oldDaemon \in alive => oldDaemon \in dying)
        /\ \A p \in Panes : p \notin live => shell[p] = 0
        /\ \A p \in live : /\ daemon # 0 /\ shell[p] # 0 /\ shell[p] # oldShell[p]
                           /\ outcome[p] = "archived" /\ screen[p] = Restored
        /\ pc \in {"other", "type", "shown", "count", "replaced", "gone"} => at \in live

\* After sidecar_stop a marker that is shown comes from a new shell.
AfterStop ==
    /\ leg = "fault" /\ pc \in {"sessions", "daemon", "stop"} => \A p \in Panes : typed[p] = "no"
    /\ Stopped =>
        /\ daemon # oldDaemon
        /\ IF defect = "keeps-daemon" THEN oldDaemon \in alive \ dying ELSE oldDaemon \notin alive
        /\ \A p \in Panes :
              /\ oldShell[p] # 0
              /\ shell[p] # 0 => daemon # 0 /\ shell[p] # oldShell[p]
              /\ typed[p] = "shown" => shell[p] # 0
              /\ p < at \/ pc \notin {"activate", "wait", "type", "shown"} => typed[p] = "shown"
              /\ IF defect = "keeps-shell" THEN dying = {} /\ oldShell[p] \in alive
                                           ELSE oldShell[p] \in alive => oldShell[p] \in dying

AfterClose ==
    Closed =>
        /\ IF defect = "keeps-session" THEN shell[1] # 0 ELSE shell[1] = 0
        /\ defect = "keeps-shell" => dying = {} /\ oldShell[1] \in alive
        /\ defect \notin {"keeps-session", "keeps-shell"} => (oldShell[1] \in alive => oldShell[1] \in dying)

\* Where a defect stops the scenario that finds it.
NotPast ==
    pc # "done" =>
        /\ defect = "empty-archive" => leg \notin {"kill", "archived"} /\ (leg = "warm" => pc \notin {"files", "daemon"})
        /\ defect = "plain-archive" => leg \notin {"kill", "archived"} /\ (leg = "warm" => pc # "daemon")
        /\ defect = "incomplete" => leg \notin {"kill", "archived"} /\ (leg = "warm" => pc \in {"activate", "wait"})
        /\ defect \in {"drop-archive", "repeat-archive"} /\ leg = "archived" => pc \notin {"replaced", "gone"}
        /\ defect = "mute" /\ leg \in {"archived", "fault"} => pc \notin {"count", "after", "reaped", "replaced", "gone"}
        /\ defect = "keeps-shell" /\ leg = "fault" => pc \notin {"replaced", "gone"}
        /\ defect = "keeps-session" /\ leg = "close" => pc # "reaped"

Mutes == defect = "mute" => \A p \in Panes : typed[p] # "shown"

\* An application that gives every pane a new shell does not get beyond the first.
NewShell ==
    Calm /\ defect = "new-shell" /\ kind = "restore" =>
        /\ leg \in {"restore", "warm"}
        /\ leg = "warm" => /\ pc \in {"activate", "wait", "same", "done"}
                           /\ pc # "done" => \A p \in live : shell[p] # oldShell[p]
                           /\ pc = "same" => shell[at] # oldShell[at]

CalmInv ==
    /\ Calm /\ defect # "new-shell" =>
          /\ ServesAll /\ Remembers /\ Markers /\ Archives
          /\ AfterKill /\ AfterStop /\ AfterClose /\ NotPast /\ Mutes
    /\ NewShell /\ PassIsComplete /\ NoFalseAlarm

RestoreInv == RestoreTypeOK /\ Down /\ Known /\ FoundGone /\ CalmInv

\* Each call is made in its leg only, and a scenario that is over stays so.
LEMMA CallsContinue ==
    ASSUME CallsTypeOK, RestoreAssumption, [Next]_vars
    PROVE  CallsTypeOK' /\ kind' = kind
<1> USE DEF CallsTypeOK, Calls, Kinds, Panes, RestoreAssumption
<1> USE DEF Goto, Enter, End, Error, Else, Loop
<1>1. CASE ReadShell \/ TypeDetached \/ WaitScheduled
  BY <1>1 DEF ReadShell, TypeDetached, WaitScheduled
<1>2. CASE Shutdown \/ Start \/ Activate
  BY <1>2 DEF Shutdown, Start, Activate
<1>3. CASE WaitWarm \/ SameShell \/ ReadScreen
  BY <1>3 DEF WaitWarm, SameShell, ReadScreen
<1>4. CASE Archive \/ ArchivedFrame
  BY <1>4 DEF Archive, ArchivedFrame
<1>5. CASE VerifyCheckpoints \/ CheckpointRenamed
  BY <1>5 DEF VerifyCheckpoints, CheckpointRenamed
<1>6. CASE ReadDaemon \/ Terminate \/ StopDaemon
  BY <1>6 DEF ReadDaemon, Terminate, StopDaemon
<1>7. CASE WaitLive \/ OtherShell \/ TypeMarker
  BY <1>7 DEF WaitLive, OtherShell, TypeMarker
<1>8. CASE WaitMarker \/ CountHistory \/ NewDaemon
  BY <1>8 DEF WaitMarker, CountHistory, NewDaemon
<1>9. CASE OldDaemonGone \/ OldShellGone
  BY <1>9 DEF OldDaemonGone, OldShellGone
<1>10. CASE ReadSessions \/ ReadAfter
  BY <1>10 DEF ReadSessions, ReadAfter
<1>11. CASE CloseTab \/ ReadClosed \/ CallFails
  BY <1>11 DEF CloseTab, ReadClosed, CallFails
<1>12. CASE Application
  BY <1>12 DEF Application, SpawnDaemon, Exit, Replace, Continue, Notice, PrintMarker,
     RunTyped,
               Crash, harness
<1>13. CASE UNCHANGED vars
  BY <1>13 DEF vars, harness
<1> QED
  BY <1>1, <1>2, <1>3, <1>4, <1>5, <1>6, <1>7, <1>8, <1>9, <1>10, <1>11, <1>12,
     <1>13 DEF Next

\* What the harness does to the panes and processes itself.
Touches == TypeDetached \/ Shutdown \/ Start \/ Archive \/ Terminate \/ StopDaemon \/ TypeMarker \/ CloseTab

\* The other calls only look.
LEMMA Looks ==
    ASSUME [Next]_vars, ~Touches, ~Application
    PROVE  UNCHANGED <<defect, app, procs, panes>>
<1> USE DEF world
<1>1. CASE ReadShell \/ WaitScheduled \/ Activate \/ WaitWarm \/ SameShell \/ ReadScreen
  BY <1>1 DEF ReadShell, WaitScheduled, Activate, WaitWarm, SameShell, ReadScreen
<1>2. CASE ArchivedFrame \/ VerifyCheckpoints \/ CheckpointRenamed \/ ReadDaemon \/ WaitLive \/ OtherShell
  BY <1>2 DEF ArchivedFrame, VerifyCheckpoints, CheckpointRenamed, ReadDaemon, WaitLive,
     OtherShell
<1>3. CASE WaitMarker \/ CountHistory \/ NewDaemon \/ OldDaemonGone \/ ReadSessions \/ ReadAfter
  BY <1>3 DEF WaitMarker, CountHistory, NewDaemon, OldDaemonGone, ReadSessions, ReadAfter
<1>4. CASE OldShellGone \/ ReadClosed \/ CallFails
  BY <1>4 DEF OldShellGone, ReadClosed, CallFails
<1>5. CASE UNCHANGED vars
  BY <1>5 DEF vars
<1> QED
  BY <1>1, <1>2, <1>3, <1>4, <1>5 DEF Next, Touches

\* The variables keep their types.
LEMMA PanesContinue ==
    ASSUME PanesTypeOK, CallsTypeOK, RestoreAssumption, [Next]_vars
    PROVE  PanesTypeOK'
<1> USE DEF PanesTypeOK
<1>1. CASE ~Touches /\ ~Application
  BY <1>1, Looks DEF panes
<1>2. CASE TypeDetached \/ Shutdown \/ Start
  BY <1>2 DEF TypeDetached, Shutdown, Start, CallsTypeOK, panes
<1>3. CASE Archive
  BY <1>3 DEF Archive, CallsTypeOK, NoArchive
<1>4. CASE Terminate \/ StopDaemon
  BY <1>4 DEF Terminate, StopDaemon, DaemonEnds
<1>5. CASE TypeMarker
  BY <1>5 DEF TypeMarker, CallsTypeOK
<1>6. CASE CloseTab
  BY <1>6 DEF CloseTab
<1>7. CASE Application
  <2>1. ASSUME NEW x \in Pids, SpawnDaemon(x) \/ Exit(x) PROVE PanesTypeOK'
    BY <2>1 DEF SpawnDaemon, Exit, panes
  <2>2. ASSUME NEW x \in Pids, NEW p \in Panes, Replace(p, x) PROVE PanesTypeOK'
    <3>1. /\ live' = live \cup {p} /\ UNCHANGED <<due, attended, checkpoint, typed>>
          /\ outcome' = [outcome EXCEPT ![p] = IF shell[p] # 0 THEN "continued"
                       ELSE IF checkpoint[p] # NoArchive THEN "archived" ELSE "fresh"]
      BY <2>2 DEF Replace
    <3>2. outcome' \in [Panes -> {"none", "continued", "archived", "fresh"}]
      BY <3>1
    <3>3. screen' \in [Panes -> Nat]
      <4>1. PICK n \in Nat : screen' = [screen EXCEPT ![p] = n]
        BY <2>2 DEF Replace
      <4> QED
        BY <4>1
    <3> QED
      BY <3>1, <3>2, <3>3
  <2>3. ASSUME NEW p \in Panes, Continue(p) \/ Notice(p) PROVE PanesTypeOK'
    BY <2>3 DEF Continue, Notice
  <2>4. ASSUME NEW p \in Panes, PrintMarker(p) PROVE PanesTypeOK'
    <3>1. PICK n \in Nat : screen' = [screen EXCEPT ![p] = n]
      <4> DEFINE n == IF app THEN screen[p] + 1
                        ELSE CASE defect = "drop-output"   -> screen[p]
                               [] defect = "repeat-output" -> screen[p] + 2
                               [] OTHER                    -> screen[p] + 1
      <4>1. screen' = [screen EXCEPT ![p] = n]
        BY <2>4 DEF PrintMarker
      <4>2. n \in Nat
        OBVIOUS
      <4> QED
        BY <4>1, <4>2
    <3> QED
      BY <2>4, <3>1 DEF PrintMarker
  <2>5. ASSUME NEW p \in Panes, RunTyped(p) PROVE PanesTypeOK'
    BY <2>5 DEF RunTyped
  <2>6. CASE Crash
    BY <2>6 DEF Crash, DaemonEnds
  <2> QED
    BY <1>7, <2>1, <2>2, <2>3, <2>4, <2>5, <2>6 DEF Application
<1> QED
  BY <1>1, <1>2, <1>3, <1>4, <1>5, <1>6, <1>7 DEF Touches

\* Excuses are never withdrawn.
LEMMA ProcsContinue ==
    ASSUME ProcsTypeOK, CallsTypeOK, RestoreAssumption, [Next]_vars
    PROVE  ProcsTypeOK' /\ excuses \subseteq excuses' /\ defect' = defect
<1> USE DEF ProcsTypeOK
<1>0. Hangup \in SUBSET Nat
  BY DEF Hangup
<1>1. CASE ~Touches /\ ~Application
  <2>1. UNCHANGED <<defect, app, procs>>
    BY <1>1, Looks
  <2>2. oldShell' \in [Panes -> Nat] /\ oldDaemon' \in Nat
    BY <1>1 DEF Next, Touches, ReadShell, WaitScheduled, Activate, WaitWarm, SameShell,
       ReadScreen,
         ArchivedFrame, VerifyCheckpoints, CheckpointRenamed, ReadDaemon, WaitLive,
         OtherShell,
         WaitMarker, CountHistory, NewDaemon, OldDaemonGone, ReadSessions, ReadAfter,
         OldShellGone, ReadClosed, CallFails, memory, vars, harness, CallsTypeOK
  <2>3. excuses \subseteq excuses' /\ excuses' \subseteq excuses \cup {"call", "late", "renamed", "hasty"}
    BY <1>1 DEF Next, Touches, ReadShell, WaitScheduled, Activate, WaitWarm, SameShell,
       ReadScreen,
         ArchivedFrame, VerifyCheckpoints, CheckpointRenamed, ReadDaemon, WaitLive,
         OtherShell,
         WaitMarker, CountHistory, NewDaemon, OldDaemonGone, ReadSessions, ReadAfter,
         OldShellGone, ReadClosed, CallFails, world, vars, Hasty
  <2> QED
    BY <2>1, <2>2, <2>3 DEF procs
<1>2. CASE TypeDetached \/ Shutdown \/ Start \/ Archive \/ TypeMarker
  BY <1>2 DEF TypeDetached, Shutdown, Start, Archive, TypeMarker, memory, procs
<1>3. CASE Terminate
  <2>1. UNCHANGED <<memory, excuses, defect, app, next, alive>> /\ daemon' \in {0, daemon}
    BY <1>3 DEF Terminate, DaemonEnds, procs
  <2>2. shell' \in [Panes -> Nat]
    BY <1>3 DEF Terminate, DaemonEnds, procs, All
  <2>3. dying' \in SUBSET Nat
    BY <1>0, <1>3 DEF Terminate, DaemonEnds, procs
  <2> QED
    BY <2>1, <2>2, <2>3 DEF memory
<1>4. CASE StopDaemon
  <2>1. UNCHANGED <<memory, excuses, defect, app, next>> /\ daemon' \in {0, daemon}
    BY <1>4 DEF StopDaemon, DaemonEnds, procs
  <2>2. shell' \in [Panes -> Nat]
    BY <1>4 DEF StopDaemon, DaemonEnds, procs, All
  <2>3. dying' \in SUBSET Nat /\ alive' \in SUBSET Nat
    BY <1>0, <1>4 DEF StopDaemon, DaemonEnds, procs
  <2> QED
    BY <2>1, <2>2, <2>3 DEF memory
<1>5. CASE CloseTab
  <2>1. UNCHANGED <<memory, excuses, defect, app, next, alive, daemon>>
    BY <1>5 DEF CloseTab
  <2>2. 1 \in Panes
    BY DEF RestoreAssumption, Panes
  <2>3. dying' \in SUBSET Nat
    BY <1>5, <2>2 DEF CloseTab
  <2>4. shell' \in [Panes -> Nat]
    BY <1>5, <2>2 DEF CloseTab
  <2> QED
    BY <2>1, <2>3, <2>4 DEF memory
<1>6. CASE Application
  <2>0. \A x \in Pids : x \in Nat
    BY DEF Pids
  <2>1. ASSUME NEW x \in Pids, SpawnDaemon(x) \/ Exit(x)
        PROVE  ProcsTypeOK' /\ excuses \subseteq excuses' /\ defect' = defect
    <3>1. UNCHANGED <<oldShell, oldDaemon, defect, app, shell>> /\ daemon' \in {x, daemon}
          /\ alive' \subseteq alive \cup {x} /\ dying' \subseteq dying
          /\ next' \in {next, next + 1} /\ excuses' \in {excuses, excuses \cup {"reuse"}}
      BY <2>1 DEF SpawnDaemon, Exit, New, Trouble, harness
    <3> QED
      BY <2>0, <3>1
  <2>2. ASSUME NEW x \in Pids, NEW p \in Panes, Replace(p, x)
        PROVE  ProcsTypeOK' /\ excuses \subseteq excuses' /\ defect' = defect
    BY <2>0, <2>2 DEF Replace, New, Trouble, harness
  <2>3. ASSUME NEW p \in Panes, Continue(p) \/ Notice(p) \/ PrintMarker(p) \/ RunTyped(p)
        PROVE  ProcsTypeOK' /\ excuses \subseteq excuses' /\ defect' = defect
    BY <2>3 DEF Continue, Notice, PrintMarker, RunTyped, harness, procs
  <2>4. CASE Crash
    <3>1. UNCHANGED <<harness, defect, app, next>> /\ daemon' = 0 /\ shell' = All(0)
          /\ excuses' = excuses \cup {"crash"} /\ alive' = alive \ {daemon} /\ dying' = dying \cup Hangup
      BY <2>4 DEF Crash, DaemonEnds, Trouble
    <3> QED
      BY <3>1 DEF harness, All, Hangup
  <2> QED
    BY <1>6, <2>1, <2>2, <2>3, <2>4 DEF Application
<1>7. CASE UNCHANGED vars
  BY <1>7 DEF vars, harness, procs
<1> QED
  BY <1>1, <1>2, <1>3, <1>4, <1>5, <1>6, <1>7 DEF Touches

\* The types, together.
LEMMA RestoreTypesContinue ==
    ASSUME RestoreTypeOK, [Next]_vars
    PROVE  /\ RestoreTypeOK' /\ excuses \subseteq excuses' /\ defect' = defect /\ kind' = kind
BY RestoreAssumption, CallsContinue, PanesContinue, ProcsContinue DEF RestoreTypeOK

\* Without the application nobody attaches a pane.
LEMMA DownContinues ==
    ASSUME CallsTypeOK, Down, [Next]_vars PROVE Down'
<1> USE DEF Down, CallsTypeOK, Calls
<1> USE DEF Goto, Enter, End, Error, Else, Loop
<1>1. CASE ~Touches /\ ~Application
  <2>1. UNCHANGED <<app, live>>
    BY <1>1, Looks DEF panes
  <2>2. pc' \in {"start", "terminate"} => pc \in {"start", "terminate"}
    BY <1>1 DEF Next, Touches, ReadShell, WaitScheduled, Activate, WaitWarm, SameShell,
       ReadScreen,
         ArchivedFrame, VerifyCheckpoints, CheckpointRenamed, ReadDaemon, WaitLive,
         OtherShell,
         WaitMarker, CountHistory, NewDaemon, OldDaemonGone, ReadSessions, ReadAfter,
         OldShellGone, ReadClosed, CallFails, vars, harness
  <2> QED
    BY <2>1, <2>2
<1>2. CASE TypeDetached \/ Shutdown \/ Start \/ Archive
  BY <1>2 DEF TypeDetached, Shutdown, Start, Archive, panes
<1>3. CASE Terminate \/ StopDaemon \/ TypeMarker \/ CloseTab
  BY <1>3 DEF Terminate, StopDaemon, TypeMarker, CloseTab
<1>4. CASE Application
  BY <1>4 DEF Application, SpawnDaemon, Exit, Replace, Continue, Notice, PrintMarker,
     RunTyped,
               Crash, harness, panes
<1> QED
  BY <1>1, <1>2, <1>3, <1>4 DEF Touches

\* A pid that was given out and is free stays free, and so every pid is known.
LEMMA KnownContinues ==
    ASSUME RestoreTypeOK, RestoreTypeOK', Known, [Next]_vars, "reuse" \notin excuses',
    excuses \subseteq excuses'
    PROVE  /\ Known' /\ \A x \in Nat : x < next /\ x \notin alive => x \notin alive'
<1> USE DEF RestoreTypeOK, ProcsTypeOK
<1>0. /\ "reuse" \notin excuses
      /\ \A x \in alive : x < next
      /\ daemon < next /\ oldDaemon < next /\ next > 0
      /\ \A p \in Panes : shell[p] < next /\ oldShell[p] < next
  BY DEF Known
<1>1. CASE ~Touches /\ ~Application
  <2>1. UNCHANGED procs
    BY <1>1, Looks
  <2>2. /\ oldDaemon' \in {oldDaemon, daemon}
        /\ oldShell' \in {oldShell, shell} \/ oldShell' = [oldShell EXCEPT ![at] = shell[at]]
    BY <1>1 DEF Next, Touches, ReadShell, WaitScheduled, Activate, WaitWarm, SameShell,
       ReadScreen,
         ArchivedFrame, VerifyCheckpoints, CheckpointRenamed, ReadDaemon, WaitLive,
         OtherShell,
         WaitMarker, CountHistory, NewDaemon, OldDaemonGone, ReadSessions, ReadAfter,
         OldShellGone, ReadClosed, CallFails, memory, vars, harness
  <2>3. \A p \in Panes : oldShell'[p] < next
    BY <1>0, <2>2 DEF CallsTypeOK
  <2> QED
    BY <1>0, <2>1, <2>2, <2>3 DEF Known, procs
<1>2. CASE TypeDetached \/ Shutdown \/ Start \/ Archive \/ TypeMarker
  BY <1>0, <1>2 DEF TypeDetached, Shutdown, Start, Archive, TypeMarker, memory, procs, Known
<1>3. CASE Terminate \/ StopDaemon
  <2>1. UNCHANGED <<oldShell, oldDaemon, next>> /\ daemon' \in {0, daemon} /\ alive' \subseteq alive
        /\ \A p \in Panes : shell'[p] \in {0, shell[p]}
    BY <1>3 DEF Terminate, StopDaemon, DaemonEnds, procs, memory, All
  <2> QED
    BY <1>0, <2>1 DEF Known
<1>4. CASE CloseTab
  <2>1. UNCHANGED <<oldShell, oldDaemon, next, daemon, alive>>
        /\ \A p \in Panes : shell'[p] \in {0, shell[p]}
    BY <1>4 DEF CloseTab, memory
  <2> QED
    BY <1>0, <2>1 DEF Known
<1>5. CASE Application
  <2>1. ASSUME NEW x \in Pids, SpawnDaemon(x)
        PROVE  Known' /\ \A y \in Nat : y < next /\ y \notin alive => y \notin alive'
    <3>1. /\ x = next /\ next' = next + 1 /\ daemon' = next /\ alive' = alive \cup {next}
          /\ UNCHANGED <<oldShell, oldDaemon, shell>>
      BY <2>1 DEF SpawnDaemon, New, Trouble, harness
    <3> QED
      BY <1>0, <3>1 DEF Known
  <2>2. ASSUME NEW x \in Pids, NEW p \in Panes, Replace(p, x)
        PROVE  Known' /\ \A y \in Nat : y < next /\ y \notin alive => y \notin alive'
    <3>1. /\ x = next /\ next' = next + 1 /\ alive' = alive \cup {next}
          /\ shell' = [shell EXCEPT ![p] = next]
          /\ UNCHANGED <<oldShell, oldDaemon, daemon>>
      BY <2>2 DEF Replace, New, Trouble, harness
    <3> QED
      BY <1>0, <3>1 DEF Known
  <2>3. CASE Crash \/ \E x \in Pids : Exit(x)
    <3>1. UNCHANGED <<oldShell, oldDaemon, next>> /\ daemon' \in {0, daemon} /\ alive' \subseteq alive
          /\ \A p \in Panes : shell'[p] \in {0, shell[p]}
      BY <2>3 DEF Crash, Exit, DaemonEnds, All, harness
    <3> QED
      BY <1>0, <3>1 DEF Known
  <2>4. ASSUME NEW p \in Panes, Continue(p) \/ Notice(p) \/ PrintMarker(p) \/ RunTyped(p)
        PROVE  Known' /\ \A y \in Nat : y < next /\ y \notin alive => y \notin alive'
    <3>1. UNCHANGED <<oldShell, oldDaemon, next, daemon, alive, shell>>
      BY <2>4 DEF Continue, Notice, PrintMarker, RunTyped, harness, procs
    <3> QED
      BY <1>0, <3>1 DEF Known
  <2> QED
    BY <1>5, <2>1, <2>2, <2>3, <2>4 DEF Application
<1> QED
  BY <1>1, <1>2, <1>3, <1>4, <1>5 DEF Touches

\* The leg that a call is made in.
LEMMA LegOfCall ==
    ASSUME CallsTypeOK
    PROVE  /\ pc \in {"shell", "detach", "scheduled"} => leg = "restore"
           /\ pc \in {"same", "read", "archive", "frame", "files"} => leg = "warm"
           /\ pc = "terminate" => leg = "kill"
           /\ pc \in {"other", "count"} => leg = "archived"
           /\ pc \in {"stop", "after"} => leg = "fault"
           /\ pc \in {"close", "closed"} => leg = "close"
           /\ pc \in {"sessions", "reaped"} => leg \in {"fault", "close"}
           /\ pc = "daemon" => leg \in {"warm", "fault"}
           /\ pc \in {"shutdown", "start"} => leg \in {"restore", "kill"}
           /\ pc \in {"activate", "wait"} => leg \in {"warm", "archived", "fault"}
           /\ pc \in {"type", "shown", "replaced", "gone"} => leg \in {"archived", "fault"}
           /\ leg \in {"restore", "warm", "kill", "archived", "fault", "close"}
           /\ kind = "restore" <=> leg \notin {"fault", "close"}
           /\ kind = "fault" <=> leg = "fault"
           /\ kind = "close" <=> leg = "close"
BY DEF CallsTypeOK, Calls, Kinds

\* A scenario is over when it has a result.
LEMMA Over ==
    ASSUME CallsTypeOK PROVE pc = "done" <=> result # "none"
<1>1. "done" \notin Calls(leg)
  BY DEF CallsTypeOK, Calls, Kinds
<1> QED
  BY <1>1 DEF CallsTypeOK

\* A scenario that is over is not disturbed any more.
LEMMA OverIsOver ==
    ASSUME CallsTypeOK, [Next]_vars, pc = "done" PROVE UNCHANGED vars
<1>1. result # "none"
  BY Over
<1>2. ~Application
  BY <1>1 DEF Application
<1>3. ~(ReadShell \/ TypeDetached \/ WaitScheduled \/ Shutdown \/ Start \/ Activate \/ WaitWarm \/ SameShell)
  BY DEF ReadShell, TypeDetached, WaitScheduled, Shutdown, Start, Activate, WaitWarm,
     SameShell
<1>4. ~(ReadScreen \/ Archive \/ ArchivedFrame \/ VerifyCheckpoints \/ CheckpointRenamed \/ ReadDaemon
        \/ Terminate \/ StopDaemon)
  BY DEF ReadScreen, Archive, ArchivedFrame, VerifyCheckpoints, CheckpointRenamed,
     ReadDaemon,
         Terminate, StopDaemon
<1>5. ~(WaitLive \/ OtherShell \/ TypeMarker \/ WaitMarker \/ CountHistory \/ NewDaemon \/ OldDaemonGone)
  BY DEF WaitLive, OtherShell, TypeMarker, WaitMarker, CountHistory, NewDaemon,
     OldDaemonGone
<1>6. ~(ReadSessions \/ ReadAfter \/ OldShellGone \/ CloseTab \/ ReadClosed \/ CallFails)
  BY DEF ReadSessions, ReadAfter, OldShellGone, CloseTab, ReadClosed, CallFails
<1> QED
  BY <1>2, <1>3, <1>4, <1>5, <1>6 DEF Next

\* What has been found gone is not found again.
LEMMA FoundGoneContinues ==
    ASSUME RestoreTypeOK, RestoreTypeOK', Known, FoundGone, [Next]_vars,
    excuses \subseteq excuses'
    PROVE  FoundGone'
<1> SUFFICES ASSUME "reuse" \notin excuses' PROVE FoundGone'
  BY DEF FoundGone, NoOldProcess
<1>0. "reuse" \notin excuses
  OBVIOUS
<1> USE DEF Goto, Enter, End, Error, Else, Loop
<1>1. \A x \in Nat : x < next /\ x \notin alive => x \notin alive'
  BY KnownContinues
<1>2. /\ oldDaemon \in Nat /\ oldDaemon < next
      /\ \A p \in Panes : oldShell[p] \in Nat /\ oldShell[p] < next
  BY <1>0 DEF Known, ProcsTypeOK, RestoreTypeOK
<1>a. 1 \in Panes /\ at \in Panes /\ at \in Nat /\ Panes = 1..N /\ N \in Nat
  BY RestoreAssumption DEF Panes, RestoreTypeOK, CallsTypeOK
<1>b. /\ kind = "fault" /\ pc = "reaped" => \A p \in 1..(at - 1) : oldShell[p] \notin alive
      /\ kind = "fault" /\ pc \in {"replaced", "gone"} => \A p \in Panes : oldShell[p] \notin alive
      /\ result = "pass" /\ kind # "close" => oldDaemon \notin alive
      /\ result = "pass" /\ kind = "fault" => \A p \in Panes : oldShell[p] \notin alive
      /\ result = "pass" /\ kind = "close" => oldShell[1] \notin alive
  BY <1>0 DEF FoundGone, NoOldProcess
\* A step that leaves the harness alone.
<1>c. ASSUME UNCHANGED <<kind, pc, at, oldShell, oldDaemon, result>> PROVE FoundGone'
  <2>1. 1..(at - 1) \subseteq Panes
    BY <1>a
  <2> HIDE DEF Goto, Enter, End, Error, Else, Loop
  <2>2. \A p \in Panes : oldShell[p] \notin alive => oldShell[p] \notin alive'
    BY <1>1, <1>2
  <2>3. oldDaemon \notin alive => oldDaemon \notin alive'
    BY <1>1, <1>2
  <2> QED
    BY ONLY <1>a, <1>b, <1>c, <2>1, <2>2, <2>3 DEF FoundGone, NoOldProcess
<1>3. CASE pc = "done"
  BY <1>3, <1>c, OverIsOver DEF vars, harness, RestoreTypeOK
<1>9. CASE Application
  <2>1. UNCHANGED harness
    BY <1>9 DEF Application, SpawnDaemon, Exit, Replace, Continue, Notice, PrintMarker,
       RunTyped, Crash
  <2> QED
    BY <1>c, <2>1 DEF harness
<1>12. CASE UNCHANGED vars
  BY <1>c, <1>12 DEF vars, harness
\* A call that does not look for a process.
<1>d. ASSUME result' # "pass", kind' = "fault" => pc' \notin {"reaped", "replaced", "gone"} PROVE FoundGone'
  BY <1>d DEF FoundGone, NoOldProcess
<1>e. result # "pass" \/ pc = "done"
  BY Over DEF RestoreTypeOK
<1>f. kind \in Kinds /\ kind' = kind
      /\ (kind = "fault" => leg = "fault") /\ (kind = "close" => leg = "close")
      /\ (kind = "restore" => leg \notin {"fault", "close"})
  BY CallsContinue, RestoreAssumption DEF RestoreTypeOK, CallsTypeOK, Kinds
<1>g. /\ kind = "close" => pc \notin {"gone", "replaced"}
      /\ kind = "restore" => pc \notin {"reaped", "after", "closed"}
      /\ kind = "fault" => pc # "closed"
  BY <1>f DEF RestoreTypeOK, CallsTypeOK, Calls, Kinds
<1>4. CASE OldShellGone
  <2>1. UNCHANGED <<oldShell, oldDaemon, alive, kind>> /\ pc = "reaped"
    BY <1>4 DEF OldShellGone, memory, procs
  <2>2. CASE oldShell[at] \in alive
    BY <1>4, <2>2, <1>d DEF OldShellGone, processGone
  <2>3. CASE oldShell[at] \notin alive /\ kind = "close"
    <3>1. at = 1 /\ kind' = "close"
      BY <2>3, <2>1 DEF RestoreTypeOK, CallsTypeOK
    <3> QED
      BY <2>1, <2>3, <3>1 DEF FoundGone, NoOldProcess
  <2>4. CASE oldShell[at] \notin alive /\ kind # "close"
    <3>1. kind = "fault" /\ result' = result /\ result # "pass"
      BY <1>4, <1>e, <1>f, <1>g, <2>1, <2>4 DEF OldShellGone, processGone, Kinds
    <3>2. \A p \in 1..at : oldShell[p] \notin alive
      BY <1>a, <1>b, <2>1, <2>4, <3>1
    <3>3. CASE at < N
      <4>1. pc' = "reaped" /\ at' = at + 1
        BY <1>4, <2>1, <2>4, <3>3 DEF OldShellGone, processGone
      <4> QED
        BY <1>a, <2>1, <3>1, <3>2, <4>1 DEF FoundGone, NoOldProcess
    <3>4. CASE ~(at < N)
      <4>1. pc' = "replaced" /\ at = N
        BY <1>a, <1>4, <2>1, <2>4, <3>4 DEF OldShellGone, processGone
      <4> QED
        BY <1>a, <2>1, <3>1, <3>2, <4>1 DEF FoundGone, NoOldProcess
    <3> QED
      BY <3>3, <3>4
  <2> QED
    BY <2>2, <2>3, <2>4
<1>5. CASE OldDaemonGone
  <2>1. UNCHANGED <<oldShell, oldDaemon, alive, kind>> /\ pc = "gone" /\ pc' = "done"
    BY <1>5 DEF OldDaemonGone, memory, procs
  <2>2. result' = "pass" => oldDaemon \notin alive
    BY <1>5 DEF OldDaemonGone, processGone
  <2> QED
    BY <1>b, <1>g, <2>1, <2>2 DEF FoundGone, NoOldProcess
<1>6. CASE NewDaemon
  <2>1. UNCHANGED <<oldShell, oldDaemon, alive, kind>> /\ pc = "replaced" /\ pc' \in {"done", "gone"} /\ result' # "pass"
    BY <1>6, <1>e DEF NewDaemon, memory, world, procs
  <2> QED
    BY <1>b, <2>1 DEF FoundGone, NoOldProcess
<1>7. CASE ReadAfter
  <2>1. result' # "pass" /\ ((pc' = "reaped" /\ at' = 1) \/ pc' = "done")
    <3>1. pc = "after" /\ result # "pass"
      BY <1>7, <1>e DEF ReadAfter
    <3>2. result' # "pass" /\ ((pc' = "reaped" /\ at' = at) \/ pc' = "done")
      BY <1>7, <3>1 DEF ReadAfter
    <3> QED
      BY <3>1, <3>2 DEF RestoreTypeOK, CallsTypeOK
  <2> QED
    BY <2>1 DEF FoundGone, NoOldProcess
<1>8. CASE CallFails
  BY <1>8, <1>d DEF CallFails
<1>13. CASE ReadClosed
  BY <1>13, <1>d, <1>e, <1>g DEF ReadClosed
<1>10. CASE ReadShell \/ TypeDetached \/ WaitScheduled \/ Shutdown \/ Start \/ Activate \/ WaitWarm
            \/ SameShell \/ ReadScreen \/ Archive \/ ArchivedFrame \/ VerifyCheckpoints
            \/ CheckpointRenamed \/ ReadDaemon \/ Terminate \/ StopDaemon
  <2>1. result' # "pass" /\ (kind' = "fault" => pc' \notin {"reaped", "replaced", "gone"})
    BY <1>e, <1>f, <1>10 DEF ReadShell, TypeDetached, WaitScheduled, Shutdown, Start,
       Activate, WaitWarm,
             SameShell, ReadScreen, Archive, ArchivedFrame, VerifyCheckpoints,
             CheckpointRenamed,
             ReadDaemon, Terminate, StopDaemon
  <2> QED
    BY <2>1, <1>d
<1>11. CASE WaitLive \/ OtherShell \/ TypeMarker \/ WaitMarker \/ CountHistory \/ ReadSessions \/ CloseTab
  <2>1. result' # "pass" /\ (kind' = "fault" => pc' \notin {"reaped", "replaced", "gone"})
    <3>1. CASE WaitLive \/ OtherShell \/ TypeMarker \/ WaitMarker
      BY <1>e, <1>f, <3>1 DEF WaitLive, OtherShell, TypeMarker, WaitMarker
    <3>2. CASE CountHistory
      <4>1. pc = "count" /\ kind # "fault"
        BY <1>f, <3>2 DEF CountHistory, RestoreTypeOK, CallsTypeOK, Calls, Kinds
      <4> QED
        BY <1>e, <1>f, <3>2, <4>1 DEF CountHistory
    <3>3. CASE ReadSessions \/ CloseTab
      BY <1>e, <1>f, <3>3 DEF ReadSessions, CloseTab
    <3> QED
      BY <1>11, <3>1, <3>2, <3>3
  <2> QED
    BY <2>1, <1>d
<1> QED
  BY <1>3, <1>4, <1>5, <1>6, <1>7, <1>8, <1>9, <1>10, <1>11, <1>12, <1>13 DEF Next

\* A step while nothing but the defect is wrong.
CalmStep ==
    /\ [Next]_vars /\ RestoreTypeOK /\ RestoreTypeOK' /\ Down /\ Known
    /\ Calm /\ Calm' /\ UNCHANGED <<defect, kind>>

\* A new process has a pid that nobody knows yet.
LEMMA FreshPid ==
    ASSUME CalmStep, NEW x, New(x)
    PROVE  /\ x = next /\ next' = next + 1 /\ excuses' = excuses /\ alive' = alive \cup {next}
           /\ next \in Nat \ {0} /\ next \notin alive /\ daemon # next /\ oldDaemon # next
           /\ \A p \in Panes : shell[p] # next /\ oldShell[p] # next
<1>1. "reuse" \notin excuses /\ "reuse" \notin excuses'
  BY DEF CalmStep, Calm
<1>2. x = next /\ next' = next + 1 /\ excuses' = excuses /\ alive' = alive \cup {next}
  BY <1>1 DEF New, Trouble
<1>3. /\ \A y \in alive : y < next
      /\ daemon < next /\ oldDaemon < next
      /\ \A p \in Panes : shell[p] < next /\ oldShell[p] < next
  BY <1>1 DEF CalmStep, Known
<1>4. ProcsTypeOK
  BY DEF CalmStep, RestoreTypeOK
<1> QED
  BY <1>2, <1>3, <1>4 DEF ProcsTypeOK

\* The steps of the application, one by one.
LEMMA CalmApplication ==
    ASSUME CalmStep, Application
    PROVE  /\ UNCHANGED <<harness, excuses, defect, app>> /\ result = "none" /\ pc # "done"
           /\ \/ \E x : SpawnDaemon(x)
              \/ \E x : Exit(x)
              \/ \E x : \E p \in Panes : Replace(p, x)
              \/ \E p \in Panes : Continue(p)
              \/ \E p \in Panes : Notice(p)
              \/ \E p \in Panes : PrintMarker(p)
              \/ \E p \in Panes : RunTyped(p)
<1>1. ~Crash
  BY DEF CalmStep, Calm, Crash, Trouble
<1>2. result = "none" /\ pc # "done"
  BY Over DEF Application, CalmStep, RestoreTypeOK
<1>3. \A x : New(x) => excuses' = excuses
  BY FreshPid
<1> QED
  BY <1>1, <1>2, <1>3 DEF Application, SpawnDaemon, Exit, Replace, Continue, Notice,
     PrintMarker, RunTyped, harness

\* Before the end of the daemon, or of the first session, there was none.
LEMMA ServesBefore ==
    ASSUME CalmStep, Serves'
    PROVE  Serves /\ ~Terminate /\ ~StopDaemon /\ ~CloseTab
<1> USE DEF CalmStep, RestoreTypeOK, CallsTypeOK, Calls, Kinds, Serves
<1> USE DEF Goto, Enter, End, Error, Else, Loop
<1>1. CASE Terminate \/ StopDaemon \/ CloseTab
  BY <1>1 DEF Terminate, StopDaemon, CloseTab
<1>2. CASE ReadShell \/ TypeDetached \/ WaitScheduled
  BY <1>2 DEF ReadShell, TypeDetached, WaitScheduled, Terminate, StopDaemon, CloseTab
<1>3. CASE Shutdown \/ Start \/ Activate
  BY <1>3 DEF Shutdown, Start, Activate, Terminate, StopDaemon, CloseTab
<1>4. CASE WaitWarm \/ SameShell \/ ReadScreen
  BY <1>4 DEF WaitWarm, SameShell, ReadScreen, Terminate, StopDaemon, CloseTab
<1>5. CASE Archive \/ ArchivedFrame \/ VerifyCheckpoints
  BY <1>5 DEF Archive, ArchivedFrame, VerifyCheckpoints, Terminate, StopDaemon, CloseTab
<1>6. CASE CheckpointRenamed \/ ReadDaemon \/ WaitLive
  BY <1>6 DEF CheckpointRenamed, ReadDaemon, WaitLive, Terminate, StopDaemon, CloseTab
<1>7. CASE OtherShell \/ TypeMarker \/ WaitMarker
  BY <1>7 DEF OtherShell, TypeMarker, WaitMarker, Terminate, StopDaemon, CloseTab
<1>8. CASE CountHistory \/ NewDaemon \/ OldDaemonGone
  BY <1>8 DEF CountHistory, NewDaemon, OldDaemonGone, Terminate, StopDaemon, CloseTab
<1>9. CASE ReadSessions \/ ReadAfter \/ OldShellGone
  BY <1>9 DEF ReadSessions, ReadAfter, OldShellGone, Terminate, StopDaemon, CloseTab
<1>10. CASE ReadClosed \/ CallFails
  BY <1>10 DEF ReadClosed, CallFails, Terminate, StopDaemon, CloseTab
<1>11. CASE UNCHANGED vars
  BY <1>11 DEF vars, harness, procs, Terminate, StopDaemon, CloseTab
<1>12. CASE Application
  BY <1>12, CalmApplication DEF harness, Terminate, StopDaemon, CloseTab
<1> QED
  BY <1>1, <1>2, <1>3, <1>4, <1>5, <1>6, <1>7, <1>8, <1>9, <1>10, <1>11, <1>12 DEF Next

\* Until then nothing happens to a process.
LEMMA Quiet ==
    ASSUME CalmStep, defect # "new-shell", Serves, ServesAll, ~Terminate, ~StopDaemon,
    ~CloseTab
    PROVE  /\ UNCHANGED procs
           /\ Application => \E p \in Panes : Continue(p) \/ PrintMarker(p) \/ RunTyped(p)
<1>1. CASE Application
  <2>1. daemon # 0 /\ dying = {} /\ \A p \in Panes : shell[p] # 0
    BY DEF ServesAll
  <2>2. ASSUME NEW x PROVE ~SpawnDaemon(x) /\ ~Exit(x) /\ \A p \in Panes : ~Replace(p, x) /\ ~Notice(p)
    BY <2>1 DEF SpawnDaemon, Exit, Replace, Notice, CalmStep
  <2>3. \E p \in Panes : Continue(p) \/ PrintMarker(p) \/ RunTyped(p)
    BY ONLY <1>1, <2>2, CalmApplication, CalmStep
  <2> QED
    BY <2>3 DEF Continue, PrintMarker, RunTyped
<1>2. CASE ~Application /\ ~Touches
  BY <1>2, Looks DEF CalmStep
<1>3. CASE TypeDetached \/ Shutdown \/ Start \/ Archive \/ TypeMarker
  <2>1. UNCHANGED procs /\ pc' # pc
    BY <1>3 DEF TypeDetached, Shutdown, Start, Archive, TypeMarker, Goto, Enter
  <2> QED
    BY <2>1, CalmApplication DEF harness
<1> QED
  BY <1>1, <1>2, <1>3 DEF Touches

\* The daemon and every shell live until then.
LEMMA ServesAllContinues ==
    ASSUME CalmStep, defect # "new-shell", ServesAll PROVE ServesAll'
BY ServesBefore, Quiet DEF ServesAll, procs

\* The pids that are remembered stay the present ones until then.
LEMMA RemembersContinues ==
    ASSUME CalmStep, defect # "new-shell", ServesAll, Remembers PROVE Remembers'
<1> USE RestoreAssumption DEF Panes
<1>1. CASE ~Serves'
  <2>1. (pc = "stop" => leg = "fault")' /\ (pc = "close" => leg = "close")'
    <3>1. CallsTypeOK'
      BY DEF CalmStep, RestoreTypeOK
    <3> QED
      BY <3>1 DEF CallsTypeOK, Calls, Kinds
  <2> QED
    BY <1>1, <2>1 DEF Remembers, Serves
<1>2. CASE Serves'
  <2>1. Serves /\ ~Terminate /\ ~StopDaemon /\ ~CloseTab /\ UNCHANGED <<daemon, shell>>
    BY <1>2, ServesBefore, Quiet DEF procs
  <2>2. at \in 1..N /\ shell \in [Panes -> Nat] /\ oldShell \in [Panes -> Nat] /\ pc # "done" /\ (kind = "close" => at = 1)
    BY <2>1 DEF CalmStep, RestoreTypeOK, CallsTypeOK, ProcsTypeOK, Serves
  <2> USE LegOfCall DEF CalmStep, RestoreTypeOK
  <2> USE DEF Goto, Enter, End, Error, Else, Loop, Calls
  <2>3. CASE ReadShell
    <3>1. pc = "shell" /\ leg = "restore" /\ leg' = "restore" /\ at' = at /\ pc' \in {"detach", "done"}
          /\ oldShell' = [oldShell EXCEPT ![at] = shell[at]]
      BY <2>2, <2>3 DEF ReadShell
    <3> QED
      BY <2>1, <2>2, <3>1 DEF Remembers
  <2>4. CASE TypeDetached \/ Shutdown \/ Start
    BY <2>1, <2>2, <2>4 DEF TypeDetached, Shutdown, Start, Remembers, memory
  <2>5. CASE WaitScheduled
    BY <2>1, <2>2, <2>5 DEF WaitScheduled, Remembers, memory
  <2>6. CASE Activate \/ WaitWarm \/ SameShell \/ ReadScreen \/ Archive
    BY <2>1, <2>2, <2>6 DEF Activate, WaitWarm, SameShell, ReadScreen, Archive, Remembers,
       memory
  <2>7. CASE ArchivedFrame \/ VerifyCheckpoints \/ CheckpointRenamed
    BY <2>1, <2>2, <2>7 DEF ArchivedFrame, VerifyCheckpoints, CheckpointRenamed, Remembers,
       memory
  <2>8. CASE ReadDaemon
    BY <2>1, <2>2, <2>8 DEF ReadDaemon, Remembers
  <2>9. CASE WaitLive \/ OtherShell \/ TypeMarker \/ WaitMarker \/ CountHistory
    BY <1>2, <2>1, <2>2, <2>9 DEF WaitLive, OtherShell, TypeMarker, WaitMarker,
       CountHistory, Serves
  <2>10. CASE NewDaemon \/ OldDaemonGone \/ ReadAfter \/ OldShellGone \/ ReadClosed
    BY <1>2, <2>1, <2>2, <2>10 DEF NewDaemon, OldDaemonGone, ReadAfter, OldShellGone,
       ReadClosed, Serves
  <2>11. CASE ReadSessions
    BY <2>1, <2>2, <2>11 DEF ReadSessions, Remembers
  <2>12. CASE CallFails
    BY <1>2, <2>12 DEF CallFails, Serves
  <2>13. CASE Application
    BY <2>1, <2>2, <2>13, CalmApplication DEF Remembers, harness
  <2>14. CASE UNCHANGED vars
    BY <2>14 DEF Remembers, harness, vars, procs
  <2> QED
    BY <2>1, <2>3, <2>4, <2>5, <2>6, <2>7, <2>8, <2>9, <2>10, <2>11, <2>12, <2>13,
       <2>14 DEF CalmStep, Next
<1> QED
  BY <1>1, <1>2

\* No marker is printed twice, unless that is the defect.
LEMMA MarkersContinue ==
    ASSUME CalmStep, defect # "new-shell", ServesAll, Markers PROVE Markers'
<1> USE RestoreAssumption DEF Panes
<1>1. CASE ~(Serves' /\ leg' \in {"restore", "warm", "kill"})
  BY <1>1 DEF Markers, Serves
<1>2. CASE Serves' /\ leg' \in {"restore", "warm", "kill"}
  <2>1. Serves /\ ~Terminate /\ ~StopDaemon /\ ~CloseTab
    BY <1>2, ServesBefore
  <2>2. at \in 1..N /\ screen \in [Panes -> Nat] /\ pc # "done" /\ kind = "restore" /\ leg \in {"restore", "warm", "kill"}
    <3>1. kind' = "restore"
      BY <1>2 DEF CalmStep, RestoreTypeOK, CallsTypeOK, Kinds
    <3> QED
      BY <2>1, <3>1 DEF CalmStep, RestoreTypeOK, CallsTypeOK, PanesTypeOK, Serves
  <2> USE LegOfCall DEF CalmStep, RestoreTypeOK
  <2>3. /\ \A p \in due : screen[p] = 0
        /\ \A p \in Panes : OutputDefect /\ screen[p] = 1 => p \in attended
        /\ \A p \in Panes : ~OutputDefect => screen[p] \in {0, 1}
        /\ leg = "restore" /\ pc \in {"shell", "detach", "scheduled"} =>
              \A p \in Panes : p > at \/ (p = at /\ pc # "scheduled") => p \notin due /\ screen[p] = 0
    BY <2>1, <2>2 DEF Markers
  \* A step that types no command and prints no marker.
  <2>4. ASSUME UNCHANGED <<screen, due, attended>>,
               leg' = "restore" /\ pc' \in {"shell", "detach", "scheduled"}
                  => /\ leg = "restore" /\ pc \in {"shell", "detach", "scheduled"}
                     /\ at' > at \/ (at' = at /\ (pc' # "scheduled" => pc # "scheduled"))
        PROVE  Markers'
    <3>1. OutputDefect' = OutputDefect
      BY DEF OutputDefect
    <3>2. at' \in 1..N
      BY DEF CallsTypeOK
    <3> QED
      BY <2>2, <2>3, <2>4, <3>1, <3>2 DEF Markers
  <2> USE DEF Goto, Enter, End, Error, Else, Loop
  <2>5. CASE TypeDetached
    <3>1. /\ leg = "restore" /\ pc = "detach" /\ pc' = "scheduled" /\ at' = at /\ due' \in {due, due \cup {at}}
          /\ UNCHANGED <<screen, attended>>
      BY <2>5 DEF TypeDetached
    <3>2. OutputDefect' = OutputDefect
      BY DEF OutputDefect
    <3> QED
      BY <2>2, <2>3, <3>1, <3>2 DEF Markers
  <2>6. CASE ReadShell \/ WaitScheduled
    BY <2>2, <2>4, <2>6 DEF ReadShell, WaitScheduled, world, panes
  <2>7. CASE Shutdown \/ Start \/ Activate \/ Archive
    BY <2>2, <2>4, <2>7 DEF Shutdown, Start, Activate, Archive, world, panes
  <2>8. CASE WaitWarm \/ SameShell \/ ReadScreen \/ ArchivedFrame
    BY <2>2, <2>4, <2>8 DEF WaitWarm, SameShell, ReadScreen, ArchivedFrame, world, panes
  <2>9. CASE VerifyCheckpoints \/ CheckpointRenamed \/ ReadDaemon
    BY <2>2, <2>4, <2>9 DEF VerifyCheckpoints, CheckpointRenamed, ReadDaemon, world, panes
  <2>10. CASE WaitLive \/ OtherShell \/ TypeMarker \/ WaitMarker \/ CountHistory
    BY <1>2, <2>2, <2>10 DEF WaitLive, OtherShell, TypeMarker, WaitMarker, CountHistory,
       Serves
  <2>11. CASE NewDaemon \/ OldDaemonGone \/ ReadSessions \/ ReadAfter \/ OldShellGone \/ ReadClosed \/ CallFails
    BY <1>2, <2>2, <2>11 DEF NewDaemon, OldDaemonGone, ReadSessions, ReadAfter,
       OldShellGone, ReadClosed, CallFails, Serves
  <2>12. CASE UNCHANGED vars
    BY <2>2, <2>4, <2>12 DEF vars, harness, panes
  <2>13. ASSUME NEW p \in Panes, PrintMarker(p) PROVE Markers'
    <3>1. p \in due /\ due' = due \ {p} /\ UNCHANGED <<leg, pc, at>>
          /\ attended' = (IF app THEN attended \cup {p} ELSE attended)
          /\ screen' = [screen EXCEPT ![p] = IF app THEN @ + 1
                     ELSE CASE defect = "drop-output"   -> @
                            [] defect = "repeat-output" -> @ + 2
                            [] OTHER                    -> @ + 1]
      BY <2>13 DEF PrintMarker, harness
    <3>2. screen[p] = 0
      BY <2>3, <3>1
    <3>3. /\ screen'[p] \in {0, 1, 2}
          /\ OutputDefect /\ screen'[p] = 1 => p \in attended'
          /\ ~OutputDefect => screen'[p] = 1
      BY <2>2, <3>1, <3>2 DEF OutputDefect
    <3>4. OutputDefect' = OutputDefect /\ attended \subseteq attended' /\ \A q \in Panes \ {p} : screen'[q] = screen[q]
      BY <2>2, <3>1 DEF OutputDefect
    <3>5. leg = "restore" /\ pc \in {"shell", "detach", "scheduled"} => ~(p > at \/ (p = at /\ pc # "scheduled"))
      BY <2>3, <3>1
    <3> QED
      BY <2>2, <2>3, <3>1, <3>3, <3>4, <3>5 DEF Markers
  <2>14. CASE Application
    <3>1. UNCHANGED <<leg, pc, at>> /\ \E p \in Panes : Continue(p) \/ PrintMarker(p) \/ RunTyped(p)
      BY <2>1, <2>14, CalmApplication, Quiet DEF harness
    <3>2. ASSUME NEW p \in Panes, Continue(p) \/ RunTyped(p) PROVE Markers'
      BY <2>4, <3>1, <3>2 DEF Continue, RunTyped
    <3> QED
      BY <2>13, <3>1, <3>2
  <2> QED
    BY <2>1, <2>5, <2>6, <2>7, <2>8, <2>9, <2>10, <2>11, <2>12, <2>14 DEF Next
<1> QED
  BY <1>1, <1>2

\* Only archiving writes the archive.
LEMMA ArchiveIsKept ==
    ASSUME CalmStep PROVE attended \subseteq attended' /\ (~Archive => checkpoint' = checkpoint)
<1>1. CASE ~Touches /\ ~Application
  BY <1>1, Looks DEF CalmStep, panes
<1>2. CASE Touches
  BY <1>2 DEF Touches, TypeDetached, Shutdown, Start, Archive, Terminate, StopDaemon,
     TypeMarker, CloseTab, panes
<1>3. CASE Application
  BY <1>3, CalmApplication DEF SpawnDaemon, Exit, Replace, Continue, Notice, PrintMarker,
     RunTyped, panes
<1> QED
  BY <1>1, <1>2, <1>3

\* Every pane is archived with its marker, once.
LEMMA ArchivesContinue ==
    ASSUME CalmStep, defect # "new-shell", ServesAll, Markers, Archives PROVE Archives'
<1> USE RestoreAssumption DEF Panes
<1>0. /\ leg = "warm" /\ pc # "done" =>
            /\ \A p \in 1..(at - 1) : Archived(p)
            /\ pc \in {"same", "read"} => screen[at] > 0
            /\ pc \in {"archive", "frame"} => screen[at] = 1
            /\ pc = "frame" => checkpoint[at] = IF defect = "empty-archive" THEN 0 ELSE 1
            /\ defect \in {"none", "incomplete"} => \A p \in live : outcome[p] = "continued"
      /\ leg \in {"kill", "archived"} \/ (leg = "warm" /\ pc \in {"files", "daemon"})
            => \A p \in Panes : Archived(p)
  BY DEF Archives
<1>1. PanesTypeOK /\ PanesTypeOK' /\ at \in 1..N /\ at' \in 1..N /\ CallsTypeOK /\ CallsTypeOK' /\ Down
  BY DEF CalmStep, RestoreTypeOK, CallsTypeOK
<1>2. OutputDefect' = OutputDefect
  BY DEF CalmStep, OutputDefect
<1>3. ASSUME ~Archive, NEW p \in Panes, Archived(p) PROVE Archived(p)'
  BY <1>2, <1>3, ArchiveIsKept DEF Archived
<1> USE LegOfCall
<1> USE DEF Goto, Enter, End, Error, Else, Loop
\* The archives are complete and stay so.
<1>4. leg' \in {"kill", "archived"} => (\A p \in Panes : Archived(p)) /\ ~Archive
  <2>1. CASE leg \in {"kill", "archived"}
    BY <1>0, <1>1, <2>1 DEF Archive
  <2>2. CASE leg \notin {"kill", "archived"}
    <3>1. leg' \in {"kill", "archived"} => (ReadDaemon /\ leg # "fault") \/ (Start /\ leg # "restore")
      <4>1. CASE ~Touches /\ ~Application /\ ~ReadDaemon
        BY <2>2, <4>1 DEF CalmStep, Next, Touches, ReadShell, WaitScheduled, Activate,
           WaitWarm, SameShell, ReadScreen,
         ArchivedFrame, VerifyCheckpoints, CheckpointRenamed, WaitLive, OtherShell,
         WaitMarker, CountHistory, NewDaemon, OldDaemonGone, ReadSessions, ReadAfter,
         OldShellGone, ReadClosed, CallFails, vars, harness
      <4>2. CASE Touches
        BY <2>2, <4>2 DEF Touches, TypeDetached, Shutdown, Start, Archive, Terminate,
           StopDaemon, TypeMarker, CloseTab
      <4>3. CASE Application
        BY <2>2, <4>3, CalmApplication DEF harness
      <4>4. CASE ReadDaemon
        BY <2>2, <4>4 DEF ReadDaemon
      <4> QED
        BY <4>1, <4>2, <4>3, <4>4
    <3>2. CASE ReadDaemon /\ leg # "fault"
      BY <1>0, <1>1, <3>2 DEF ReadDaemon, Archive
    <3>3. CASE Start /\ leg # "restore"
      BY <1>1, <2>2, <3>3 DEF Start
    <3> QED
      BY <3>1, <3>2, <3>3
  <2> QED
    BY <2>1, <2>2
<1>5. CASE leg' # "warm" \/ pc' = "done"
  BY <1>3, <1>4, <1>5 DEF Archives
<1>6. CASE leg' = "warm" /\ pc' # "done"
  <2>1. Serves' /\ kind = "restore"
    BY <1>1, <1>6 DEF Serves, CalmStep, CallsTypeOK, Kinds
  <2>2. Serves /\ ~Terminate /\ ~StopDaemon /\ ~CloseTab /\ pc # "done" /\ leg \in {"restore", "warm", "kill"}
    BY <1>1, <2>1, ServesBefore DEF Serves, CallsTypeOK, Kinds
  <2>3. CASE Start
    <3>1. pc = "start" /\ at' = 1 /\ pc' = "activate" /\ live' = live /\ leg' = "warm"
      BY <1>6, <2>3 DEF Start, panes
    <3>2. live = {}
      BY <1>1, <3>1 DEF Down
    <3> QED
      BY <1>6, <3>1, <3>2 DEF Archives
  <2>4. CASE ~Start
    <3>1. leg = "warm"
      <4>1. CASE ~Touches /\ ~Application
        BY <1>6, <2>2, <4>1 DEF CalmStep, Next, Touches, ReadShell, WaitScheduled,
           Activate, WaitWarm, SameShell, ReadScreen,
         ArchivedFrame, VerifyCheckpoints, CheckpointRenamed, ReadDaemon, WaitLive,
         OtherShell,
         WaitMarker, CountHistory, NewDaemon, OldDaemonGone, ReadSessions, ReadAfter,
         OldShellGone, ReadClosed, CallFails, vars, harness
      <4>2. CASE Touches
        BY <1>6, <2>2, <2>4, <4>2 DEF Touches, TypeDetached, Shutdown, Archive, Terminate,
           StopDaemon, TypeMarker, CloseTab
      <4>3. CASE Application
        BY <1>6, <4>3, CalmApplication DEF harness
      <4> QED
        BY <4>1, <4>2, <4>3
    <3>2. /\ \A p \in due : screen[p] = 0
          /\ OutputDefect /\ screen[at] = 1 => at \in attended
      BY <1>1, <2>2, <3>1 DEF Markers
    \* A step that leaves the panes alone.
    <3>3. ASSUME ~Archive, UNCHANGED <<screen, live, outcome>>,
                 /\ pc' \in {"same", "read"} => at' = at /\ (pc \in {"same", "read"} \/ screen[at] > 0)
                 /\ pc' = "archive" => at' = at /\ (pc = "archive" \/ screen[at] = 1)
                 /\ pc' = "frame" => pc = "frame" /\ at' = at
                 /\ at' = at \/ (at' = at + 1 /\ Archived(at))
                 /\ pc' \in {"files", "daemon"} => pc \in {"files", "daemon"} \/ (at = N /\ Archived(at))
          PROVE Archives'
      <4>1. \A p \in Panes : p < at' => Archived(p)'
        BY <1>0, <1>1, <1>3, <2>2, <3>1, <3>3
      <4>2. pc' \in {"files", "daemon"} => \A p \in Panes : Archived(p)'
        <5>1. pc' \in {"files", "daemon"} => \A p \in Panes : Archived(p)
          BY <1>0, <1>1, <2>2, <3>1, <3>3
        <5> QED
          BY <5>1, <1>3, <3>3
      <4>3. checkpoint' = checkpoint /\ defect' = defect
        BY <3>3, ArchiveIsKept DEF CalmStep
      <4>4. /\ pc' \in {"same", "read"} => screen[at] > 0 /\ at' = at
            /\ pc' \in {"archive", "frame"} => screen[at] = 1 /\ at' = at
            /\ pc' = "frame" => checkpoint[at] = (IF defect = "empty-archive" THEN 0 ELSE 1)
            /\ defect \in {"none", "incomplete"} => \A p \in live : outcome[p] = "continued"
        BY ONLY <1>0, <2>2, <3>1, <3>3
      <4>5. PICK a \in 1..N : at' = a
        BY <1>1
      <4>6. \A p \in 1..(a - 1) : Archived(p)'
        BY <4>1, <4>5
      <4> QED
        BY ONLY <1>6, <3>3, <4>2, <4>3, <4>4, <4>5, <4>6 DEF Archives
    <3>4. CASE Archive
      <4>1. pc = "archive" /\ pc' = "frame" /\ UNCHANGED <<at, leg, live, outcome, screen, attended, defect>>
            /\ checkpoint' = [checkpoint EXCEPT ![at] = IF defect = "empty-archive" THEN 0 ELSE screen[at]]
        BY <3>4 DEF Archive
      <4>2. \A p \in 1..(at - 1) : Archived(p)'
        BY <1>0, <1>1, <1>2, <2>2, <3>1, <4>1 DEF Archived, PanesTypeOK
      <4>3. screen[at] = 1 /\ checkpoint'[at] = IF defect = "empty-archive" THEN 0 ELSE 1
        BY <1>0, <1>1, <2>2, <3>1, <4>1 DEF PanesTypeOK
      <4> QED
        BY <1>0, <1>1, <1>6, <2>2, <3>1, <4>1, <4>2, <4>3 DEF Archives
    <3>5. CASE Activate \/ WaitWarm \/ SameShell \/ ReadScreen
      BY <1>1, <2>2, <3>1, <3>3, <3>5 DEF Activate, WaitWarm, SameShell, ReadScreen,
         Archive, world, panes
    <3>6. CASE ArchivedFrame
      <4>1. Archived(at) \/ pc' = "done"
        BY <1>0, <2>2, <3>1, <3>2, <3>6 DEF ArchivedFrame, Archived
      <4> QED
        BY <1>1, <1>6, <2>2, <3>1, <3>3, <3>6, <4>1 DEF ArchivedFrame, Archive, world, panes
    <3>7. CASE VerifyCheckpoints \/ CheckpointRenamed \/ ReadDaemon
      BY <1>1, <1>6, <2>2, <3>1, <3>3, <3>7 DEF VerifyCheckpoints, CheckpointRenamed,
         ReadDaemon, Archive, world, panes
    <3>8. CASE UNCHANGED vars
      <4>1. ~Archive
        BY <3>8 DEF vars, harness, Archive
      <4> QED
        BY <1>1, <3>3, <3>8, <4>1 DEF vars, harness, panes
    <3>9. CASE Application
      <4>1. UNCHANGED <<leg, pc, at, defect>> /\ ~Archive
        BY <3>9, CalmApplication DEF harness, Archive
      <4>2. PICK p \in Panes : Continue(p) \/ PrintMarker(p) \/ RunTyped(p)
        BY <2>2, <3>9, Quiet
      <4>3. CASE RunTyped(p)
        BY <1>1, <3>3, <4>1, <4>3 DEF RunTyped
      <4>4. checkpoint' = checkpoint
        BY <4>1, ArchiveIsKept
      <4>5. \A q \in Panes : Archived(q) => Archived(q)'
        BY <1>3, <4>1
      <4>6. CASE Continue(p)
        <5>1. screen' = screen /\ live' = live \cup {p} /\ outcome' = [outcome EXCEPT ![p] = "continued"]
          BY <4>6 DEF Continue
        <5> QED
          BY <1>0, <1>1, <1>6, <2>2, <3>1, <4>1, <4>4, <4>5, <5>1 DEF Archives, PanesTypeOK
      <4>7. CASE PrintMarker(p)
        <5>1. p \in due /\ screen[p] = 0 /\ UNCHANGED <<live, outcome>>
              /\ \A q \in Panes \ {p} : screen'[q] = screen[q]
          BY <1>1, <3>2, <4>7 DEF PrintMarker, PanesTypeOK
        <5>2. pc \in {"same", "read", "archive", "frame"} => screen'[at] = screen[at]
          BY <1>0, <1>1, <2>2, <3>1, <5>1
        <5> QED
          BY <1>0, <1>1, <1>6, <2>2, <3>1, <4>1, <4>4, <4>5, <5>1, <5>2 DEF Archives,
             PanesTypeOK
      <4> QED
        BY <4>2, <4>3, <4>6, <4>7
    <3>10. ~(ReadShell \/ TypeDetached \/ WaitScheduled \/ Shutdown \/ WaitLive \/ OtherShell \/ TypeMarker \/ CountHistory)
      BY <1>1, <3>1 DEF ReadShell, TypeDetached, WaitScheduled, Shutdown, WaitLive,
         OtherShell, TypeMarker, CountHistory
    <3>11. ~(WaitMarker \/ NewDaemon \/ OldDaemonGone \/ ReadSessions \/ ReadAfter \/ OldShellGone \/ ReadClosed \/ CallFails)
      BY <1>1, <1>6, <3>1 DEF WaitMarker, NewDaemon, OldDaemonGone, ReadSessions,
         ReadAfter, OldShellGone, ReadClosed, CallFails
    <3> QED
      BY <2>2, <2>4, <3>4, <3>5, <3>6, <3>7, <3>8, <3>9, <3>10, <3>11 DEF CalmStep, Next
  <2> QED
    BY <2>3, <2>4
<1> QED
  BY <1>5, <1>6

\* How the legs after the end of the daemon, or of the first session, begin.
LEMMA LegsGoOn ==
    ASSUME CalmStep
    PROVE  /\ Killed'  => Killed \/ Terminate
           /\ Stopped' => Stopped \/ StopDaemon
           /\ Closed'  => Closed \/ CloseTab
<1> USE LegOfCall DEF CalmStep, RestoreTypeOK, Killed, Stopped, Closed
<1> USE DEF Goto, Enter, End, Error, Else, Loop
<1>1. CASE Terminate \/ StopDaemon \/ CloseTab
  BY <1>1 DEF Terminate, StopDaemon, CloseTab
<1>2. CASE ReadShell \/ TypeDetached \/ WaitScheduled
  BY <1>2 DEF ReadShell, TypeDetached, WaitScheduled
<1>3. CASE Shutdown \/ Start \/ Activate
  BY <1>3 DEF Shutdown, Start, Activate
<1>4. CASE WaitWarm \/ SameShell \/ ReadScreen
  BY <1>4 DEF WaitWarm, SameShell, ReadScreen
<1>5. CASE Archive \/ ArchivedFrame \/ VerifyCheckpoints
  BY <1>5 DEF Archive, ArchivedFrame, VerifyCheckpoints
<1>6. CASE CheckpointRenamed \/ ReadDaemon \/ WaitLive
  BY <1>6 DEF CheckpointRenamed, ReadDaemon, WaitLive
<1>7. CASE OtherShell \/ TypeMarker \/ WaitMarker
  BY <1>7 DEF OtherShell, TypeMarker, WaitMarker
<1>8. CASE CountHistory \/ NewDaemon \/ OldDaemonGone
  BY <1>8 DEF CountHistory, NewDaemon, OldDaemonGone
<1>9. CASE ReadSessions \/ ReadAfter \/ OldShellGone
  BY <1>9 DEF ReadSessions, ReadAfter, OldShellGone
<1>10. CASE ReadClosed \/ CallFails
  BY <1>10 DEF ReadClosed, CallFails
<1>11. CASE UNCHANGED vars
  BY <1>11 DEF vars, harness
<1>12. CASE Application
  BY <1>12, CalmApplication DEF harness
<1> QED
  BY <1>1, <1>2, <1>3, <1>4, <1>5, <1>6, <1>7, <1>8, <1>9, <1>10, <1>11, <1>12 DEF Next

\* Nothing is remembered anew by then.
LEMMA MemoryIsKept ==
    ASSUME CalmStep, Killed \/ Stopped \/ Closed PROVE UNCHANGED memory
<1> USE LegOfCall DEF CalmStep, RestoreTypeOK, Killed, Stopped, Closed, memory
<1>1. ~ReadShell /\ ~ReadDaemon /\ ~ReadSessions
  BY DEF ReadShell, ReadDaemon, ReadSessions
<1>2. CASE ~Touches /\ ~Application
  BY <1>1, <1>2 DEF Next, Touches, WaitScheduled, Activate, WaitWarm, SameShell, ReadScreen,
         ArchivedFrame, VerifyCheckpoints, CheckpointRenamed, WaitLive, OtherShell,
         WaitMarker, CountHistory, NewDaemon, OldDaemonGone, ReadAfter,
         OldShellGone, ReadClosed, CallFails, vars, harness
<1>3. CASE Touches
  BY <1>3 DEF Touches, TypeDetached, Shutdown, Start, Archive, Terminate, StopDaemon,
     TypeMarker, CloseTab
<1>4. CASE Application
  BY <1>4, CalmApplication DEF harness
<1> QED
  BY <1>2, <1>3, <1>4

\* After SIGKILL only new shells come, each from its archive.
LEMMA AfterKillContinues ==
    ASSUME CalmStep, defect # "new-shell", ServesAll, Remembers, Archives, AfterKill
    PROVE  AfterKill'
<1> USE LegOfCall DEF CalmStep, RestoreTypeOK
<1>1. CASE ~Killed'
  BY <1>1 DEF AfterKill
<1>2. CASE Killed' /\ ~Killed
  <2>1. Terminate /\ pc = "terminate" /\ leg = "kill"
    BY <1>2, LegsGoOn DEF Terminate
  <2>2. daemon # 0 /\ daemon \in alive /\ oldDaemon = daemon /\ live = {}
    BY <2>1 DEF ServesAll, Serves, Remembers, Down
  <2>3. /\ pc' = "start" /\ due' = {} /\ daemon' = 0 /\ shell' = All(0) /\ dying' = dying \cup Hangup \cup {oldDaemon}
        /\ UNCHANGED <<oldDaemon, live>>
    BY <2>1, <2>2 DEF Terminate, DaemonEnds, Else, Goto, memory
  <2> QED
    BY <2>2, <2>3 DEF AfterKill, All
<1>3. CASE Killed' /\ Killed
  <2>1. /\ due = {} /\ daemon # oldDaemon /\ (oldDaemon \in alive => oldDaemon \in dying)
        /\ \A p \in Panes : p \notin live => shell[p] = 0
        /\ \A p \in live : /\ daemon # 0 /\ shell[p] # 0 /\ shell[p] # oldShell[p]
                           /\ outcome[p] = "archived" /\ screen[p] = Restored
        /\ pc \in {"other", "type", "shown", "count", "replaced", "gone"} => at \in live
    BY <1>3 DEF AfterKill
  <2>2. \A p \in Panes : checkpoint[p] = 1
    BY <1>3 DEF Archives, Archived, Killed
  <2>3. UNCHANGED <<oldShell, oldDaemon, defect>> /\ Restored' = Restored
    BY <1>3, MemoryIsKept DEF memory, Restored
  <2>4. PanesTypeOK /\ ProcsTypeOK /\ at \in Panes
    BY DEF CallsTypeOK
  \* A step that changes neither a process nor a pane.
  <2>5. ASSUME UNCHANGED <<due, daemon, alive, dying, shell, live, outcome, screen>>,
               pc' \in {"other", "type", "shown", "count", "replaced", "gone"} => at' \in live
        PROVE  AfterKill'
    BY ONLY <2>1, <2>3, <2>5 DEF AfterKill
  <2> USE DEF Goto, Enter, End, Error, Else, Loop
  <2>6. CASE ~Touches /\ ~Application
    <3>1. pc' \in {"other", "type", "shown", "count", "replaced", "gone"} => at' \in live
      <4>1. CASE UNCHANGED vars
        BY <2>1, <4>1 DEF vars, harness
      <4>2. CASE WaitLive \/ OtherShell \/ WaitMarker
        BY <1>3, <2>1, <4>2 DEF WaitLive, OtherShell, WaitMarker, Killed
      <4>3. CASE CountHistory \/ NewDaemon \/ OldDaemonGone
        BY <2>1, <4>3 DEF CountHistory, NewDaemon, OldDaemonGone
      <4>4. CASE ~(UNCHANGED vars \/ WaitLive \/ OtherShell \/ WaitMarker \/ CountHistory \/ NewDaemon \/ OldDaemonGone)
        <5>1. leg # "fault" /\ leg # "close"
          BY <1>3 DEF Killed
        <5> QED
          BY <2>6, <4>4, <5>1 DEF Next, Touches, ReadShell, WaitScheduled, Activate,
             WaitWarm, SameShell, ReadScreen,
         ArchivedFrame, VerifyCheckpoints, CheckpointRenamed, ReadDaemon, ReadSessions,
         ReadAfter,
         OldShellGone, ReadClosed, CallFails
      <4> QED
        BY <4>1, <4>2, <4>3, <4>4
    <3> QED
      BY <2>5, <2>6, <3>1, Looks DEF panes, procs
  <2>7. CASE Touches
    <3>1. Start \/ TypeMarker
      BY <1>3, <2>7 DEF Touches, Killed, TypeDetached, Shutdown, Start, Archive, Terminate,
         StopDaemon, TypeMarker, CloseTab
    <3> QED
      BY <2>1, <2>5, <3>1 DEF Start, TypeMarker, panes, procs
  <2>8. CASE Application
    <3>1. UNCHANGED <<pc, at>>
      BY <2>8, CalmApplication DEF harness
    <3>2. ASSUME NEW x, SpawnDaemon(x) PROVE AfterKill'
      <4>1. daemon = 0 /\ daemon' = next /\ alive' = alive \cup {next} /\ next # oldDaemon
            /\ UNCHANGED <<due, dying, shell, live, outcome, screen>>
        BY <3>2, FreshPid DEF SpawnDaemon, panes
      <4> QED
        BY ONLY <2>1, <2>3, <3>1, <4>1 DEF AfterKill
    <3>3. ASSUME NEW x, Exit(x) PROVE AfterKill'
      <4>1. alive' = alive \ {x} /\ dying' = dying \ {x} /\ UNCHANGED <<due, daemon, shell, live, outcome, screen>>
        BY <3>3 DEF Exit, panes
      <4> QED
        BY ONLY <2>1, <2>3, <3>1, <4>1 DEF AfterKill
    <3>4. ASSUME NEW x, NEW p \in Panes, Replace(p, x) PROVE AfterKill'
      <4>1. p \notin live /\ shell[p] = 0 /\ daemon # 0
        BY <2>1, <3>4 DEF Replace
      <4>2. /\ next # 0 /\ next # oldDaemon /\ next # oldShell[p] /\ alive' = alive \cup {next}
            /\ shell' = [shell EXCEPT ![p] = next]
        BY <3>4, FreshPid DEF Replace
      <4>3. dying' = dying /\ live' = live \cup {p} /\ UNCHANGED <<daemon, due>>
        BY <3>4, <4>1 DEF Replace
      <4>4. outcome' = [outcome EXCEPT ![p] = "archived"] /\ screen' = [screen EXCEPT ![p] = Restored]
        <5>1. checkpoint[p] = 1 /\ ~(checkpoint[p] = NoArchive)
          BY <2>2 DEF NoArchive
        <5>2. screen' = [screen EXCEPT ![p] = CASE checkpoint[p] = NoArchive -> @
                                               [] defect = "drop-archive"   -> 0
                                               [] defect = "repeat-archive" -> 2
                                               [] OTHER -> checkpoint[p]]
          BY <3>4 DEF Replace
        <5>3. screen' = [screen EXCEPT ![p] = Restored]
          BY ONLY <5>1, <5>2 DEF Restored
        <5>4. outcome' = [outcome EXCEPT ![p] = "archived"]
          BY <3>4, <4>1, <5>1 DEF Replace
        <5> QED
          BY <5>3, <5>4
      <4>5. /\ shell'[p] = next /\ outcome'[p] = "archived" /\ screen'[p] = Restored
            /\ \A q \in Panes : q # p => shell'[q] = shell[q] /\ outcome'[q] = outcome[q] /\ screen'[q] = screen[q]
        BY ONLY <2>4, <4>2, <4>4 DEF PanesTypeOK, ProcsTypeOK
      <4>6. live \subseteq Panes
        BY <2>4 DEF PanesTypeOK
      <4> QED
        BY ONLY <2>1, <2>3, <3>1, <4>1, <4>2, <4>3, <4>5, <4>6 DEF AfterKill
    <3>5. ASSUME NEW p \in Panes, Continue(p) \/ Notice(p) \/ PrintMarker(p) PROVE FALSE
      BY <2>1, <3>5 DEF Continue, Notice, PrintMarker
    <3>6. ASSUME NEW p \in Panes, RunTyped(p) PROVE AfterKill'
      BY <2>1, <2>5, <3>1, <3>6 DEF RunTyped, procs
    <3> QED
      BY <2>8, <3>2, <3>3, <3>4, <3>5, <3>6, CalmApplication
  <2> QED
    BY <2>6, <2>7, <2>8
<1> QED
  BY <1>1, <1>2, <1>3

\* The shell of the closed tab is on its way out, or the defect keeps it.
LEMMA AfterCloseContinues ==
    ASSUME CalmStep, defect # "new-shell", ServesAll, Remembers, AfterClose
    PROVE  AfterClose'
<1> USE LegOfCall DEF CalmStep, RestoreTypeOK
<1>0. 1 \in Panes
  BY RestoreAssumption DEF Panes
<1>1. CASE ~Closed'
  BY <1>1 DEF AfterClose
<1>2. CASE Closed' /\ ~Closed
  <2>1. CloseTab /\ pc = "close" /\ leg = "close"
    BY <1>2, LegsGoOn DEF CloseTab
  <2>2. /\ dying = {} /\ shell[1] # 0 /\ shell[1] \in alive /\ oldShell[1] = shell[1]
    BY <1>0, <2>1 DEF ServesAll, Serves, Remembers
  <2>3. /\ UNCHANGED <<oldShell, alive>> /\ shell \in [Panes -> Nat]
        /\ shell' = [shell EXCEPT ![1] = IF defect = "keeps-session" THEN @ ELSE 0]
        /\ dying' = IF defect \in {"keeps-session", "keeps-shell"} THEN dying
                                             ELSE dying \cup ({shell[1]} \ {0})
    BY <2>1 DEF CloseTab, memory, ProcsTypeOK
  <2> QED
    BY <1>0, <2>2, <2>3 DEF AfterClose
<1>3. CASE Closed' /\ Closed
  <2>1. /\ IF defect = "keeps-session" THEN shell[1] # 0 ELSE shell[1] = 0
        /\ defect = "keeps-shell" => dying = {} /\ oldShell[1] \in alive
        /\ defect \notin {"keeps-session", "keeps-shell"} => (oldShell[1] \in alive => oldShell[1] \in dying)
    BY <1>3 DEF AfterClose
  <2>2. UNCHANGED <<oldShell, defect>>
    BY <1>3, MemoryIsKept DEF memory
  <2>3. ASSUME UNCHANGED <<alive, dying, shell>> PROVE AfterClose'
    BY <2>1, <2>2, <2>3 DEF AfterClose
  <2>4. CASE ~Touches /\ ~Application
    BY <2>3, <2>4, Looks DEF procs
  <2>5. CASE Touches
    BY <1>3, <2>5 DEF Touches, Closed, TypeDetached, Shutdown, Start, Archive, Terminate,
       StopDaemon, TypeMarker, CloseTab
  <2>6. CASE Application
    <3>1. ASSUME NEW x, SpawnDaemon(x) PROVE AfterClose'
      <4>1. alive' = alive \cup {next} /\ next # oldShell[1] /\ UNCHANGED <<shell, dying>>
        BY <1>0, <3>1, FreshPid DEF SpawnDaemon
      <4> QED
        BY <2>1, <2>2, <4>1 DEF AfterClose
    <3>2. ASSUME NEW x, Exit(x) PROVE AfterClose'
      BY <2>1, <2>2, <3>2 DEF AfterClose, Exit
    <3>3. ASSUME NEW x, NEW p \in Panes, Replace(p, x) PROVE AfterClose'
      <4>1. p # 1 /\ shell[p] = 0
        BY <1>3, <3>3 DEF Replace, Closed
      <4>2. /\ next # oldShell[1] /\ alive' = alive \cup {next} /\ dying' = dying
            /\ shell' = [shell EXCEPT ![p] = next]
        BY <1>0, <3>3, <4>1, FreshPid DEF Replace
      <4>3. shell'[1] = shell[1]
        BY <1>0, <4>1, <4>2 DEF ProcsTypeOK
      <4> QED
        BY <2>1, <2>2, <4>2, <4>3 DEF AfterClose
    <3>4. ASSUME NEW p \in Panes, Continue(p) \/ Notice(p) \/ PrintMarker(p) \/ RunTyped(p) PROVE AfterClose'
      BY <2>3, <3>4 DEF Continue, Notice, PrintMarker, RunTyped, procs
    <3> QED
      BY <2>6, <3>1, <3>2, <3>3, <3>4, CalmApplication
  <2> QED
    BY <2>4, <2>5, <2>6
<1> QED
  BY <1>1, <1>2, <1>3

\* The keys are typed only after the daemon was stopped, and a mute shell does
\* not show them.
LEMMA TypingContinues ==
    ASSUME CalmStep
    PROVE  /\ Mutes => Mutes'
           /\ \A p \in Panes : typed[p] = "shown" => typed'[p] = "shown" \/ (TypeMarker /\ p = at)
           /\ \A p \in Panes : typed'[p] = "shown" /\ typed[p] # "shown" => RunTyped(p)
           /\ typed' = typed \/ TypeMarker \/ \E p \in Panes : RunTyped(p)
<1> USE DEF CalmStep, RestoreTypeOK, PanesTypeOK
<1>1. CASE ~Touches /\ ~Application
  BY <1>1, Looks DEF Mutes, panes
<1>2. CASE TypeDetached \/ Shutdown \/ Start \/ Archive \/ Terminate \/ StopDaemon \/ CloseTab
  BY <1>2 DEF TypeDetached, Shutdown, Start, Archive, Terminate, StopDaemon, CloseTab,
     panes, Mutes
<1>3. CASE TypeMarker
  <2>1. PICK t \in {"typed", "no"} : typed' = [typed EXCEPT ![at] = t]
    BY <1>3 DEF TypeMarker
  <2> QED
    BY <1>3, <2>1 DEF Mutes, CallsTypeOK
<1>4. CASE Application
  <2>1. ASSUME NEW p \in Panes, RunTyped(p)
        PROVE  /\ typed[p] = "typed" /\ defect # "mute" /\ typed' = [typed EXCEPT ![p] = "shown"]
    BY <2>1 DEF RunTyped
  <2>2. ASSUME \A p \in Panes : ~RunTyped(p) PROVE typed' = typed
    BY <1>4, <2>2, CalmApplication DEF SpawnDaemon, Exit, Replace, Continue, Notice,
       PrintMarker, panes
  <2> QED
    BY <2>1, <2>2 DEF Mutes
<1> QED
  BY <1>1, <1>2, <1>3, <1>4 DEF Touches

\* After sidecar_stop the old processes are on their way out, and new ones come.
LEMMA AfterStopContinues ==
    ASSUME CalmStep, defect # "new-shell", ServesAll, Remembers, AfterStop
    PROVE  AfterStop'
<1> USE LegOfCall DEF CalmStep, RestoreTypeOK
<1>1. PanesTypeOK /\ ProcsTypeOK /\ CallsTypeOK /\ at \in Panes /\ N \in Nat /\ Panes = 1..N
  BY RestoreAssumption DEF CallsTypeOK, Panes
\* Before, nothing is typed.
<1>2. (leg = "fault" /\ pc \in {"sessions", "daemon", "stop"} => \A p \in Panes : typed[p] = "no")'
  <2>1. SUFFICES ASSUME leg' = "fault", pc' \in {"sessions", "daemon", "stop"}
                 PROVE  \A p \in Panes : typed'[p] = "no"
    OBVIOUS
  <2>2. Serves' /\ kind = "fault"
    BY <2>1 DEF Serves, CallsTypeOK, Kinds
  <2>3. leg = "fault" /\ pc \in {"sessions", "daemon", "stop"}
    BY <2>2, ServesBefore DEF Serves
  <2>4. \A p \in Panes : typed[p] = "no"
    BY <2>3 DEF AfterStop
  <2>5. ~TypeMarker /\ \A p \in Panes : ~RunTyped(p)
    BY <2>3, <2>4 DEF TypeMarker, RunTyped
  <2> QED
    BY <2>4, <2>5, TypingContinues
<1>3. CASE ~Stopped'
  BY <1>2, <1>3 DEF AfterStop
<1>4. CASE Stopped' /\ ~Stopped
  <2>1. StopDaemon /\ pc = "stop" /\ leg = "fault"
    BY <1>4, LegsGoOn DEF StopDaemon
  <2>2. /\ daemon # 0 /\ daemon \in alive /\ dying = {} /\ oldDaemon = daemon
        /\ \A p \in Panes : shell[p] # 0 /\ shell[p] \in alive /\ shell[p] # daemon /\ oldShell[p] = shell[p]
        /\ \A p \in Panes : typed[p] = "no"
    <3>1. Serves
      BY <2>1 DEF Serves
    <3>2. oldDaemon = daemon /\ \A p \in Panes : oldShell[p] = shell[p]
      BY ONLY <2>1, Remembers DEF Remembers
    <3>3. \A p \in Panes : typed[p] = "no"
      BY <2>1 DEF AfterStop
    <3> QED
      BY <3>1, <3>2, <3>3 DEF ServesAll
  <2>3. /\ pc' = "activate" /\ at' = 1 /\ daemon' = 0 /\ shell' = All(0)
        /\ dying' = dying \cup Hangup /\ alive' = IF defect = "keeps-daemon" THEN alive ELSE alive \ {daemon}
        /\ UNCHANGED <<oldDaemon, oldShell, typed>>
    BY <2>1, <2>2 DEF StopDaemon, DaemonEnds, Enter, memory
  <2>4. \A p \in Panes : shell'[p] = 0 /\ ~(p < at')
    BY <1>1, <2>3 DEF All
  <2>5. /\ Hangup = {} \/ defect # "keeps-shell"
        /\ defect # "keeps-shell" => \A p \in Panes : shell[p] \in Hangup
        /\ daemon \notin Hangup
    BY <2>2 DEF Hangup
  <2> QED
    BY <1>2, <2>2, <2>3, <2>4, <2>5 DEF AfterStop
<1>5. CASE Stopped' /\ Stopped
  <2>1. /\ daemon # oldDaemon
        /\ IF defect = "keeps-daemon" THEN oldDaemon \in alive \ dying ELSE oldDaemon \notin alive
        /\ \A p \in Panes :
              /\ oldShell[p] # 0
              /\ shell[p] # 0 => daemon # 0 /\ shell[p] # oldShell[p]
              /\ typed[p] = "shown" => shell[p] # 0
              /\ p < at \/ pc \notin {"activate", "wait", "type", "shown"} => typed[p] = "shown"
              /\ IF defect = "keeps-shell" THEN dying = {} /\ oldShell[p] \in alive
                                           ELSE oldShell[p] \in alive => oldShell[p] \in dying
    BY <1>5 DEF AfterStop
  <2>2. UNCHANGED <<oldShell, oldDaemon, defect>>
    BY <1>5, MemoryIsKept DEF memory
  \* The loop goes on to the next pane when this one shows its marker.
  <2>3. \A p \in Panes : p < at' \/ pc' \notin {"activate", "wait", "type", "shown"} => typed'[p] = "shown"
    <3> USE DEF Goto, Enter, End, Error, Else, Loop
    <3>1. CASE Application \/ UNCHANGED vars
      <4>1. UNCHANGED <<pc, at>> /\ ~TypeMarker
        BY <3>1, CalmApplication DEF vars, harness, TypeMarker
      <4> QED
        BY <1>1, <2>1, <4>1, TypingContinues
    <3>2. CASE TypeMarker
      <4>1. pc' = "shown" /\ at' = at /\ pc = "type"
        BY <3>2 DEF TypeMarker
      <4> QED
        BY <1>1, <2>1, <4>1, TypingContinues
    <3>3. CASE WaitMarker
      <4>1. /\ typed[at] = "shown" /\ pc = "shown" /\ leg = "fault"
            /\ ((at < N /\ at' = at + 1) \/ ~(at < N))
        BY <1>5, <3>3 DEF WaitMarker, Stopped
      <4>2. \A p \in Panes : p <= at => typed[p] = "shown"
        BY <1>1, <2>1, <4>1
      <4>3. \A p \in Panes : p < at' \/ pc' \notin {"activate", "wait", "type", "shown"} => typed[p] = "shown"
        BY <1>1, <4>1, <4>2, <3>3 DEF WaitMarker
      <4> QED
        BY <4>1, <4>3, TypingContinues DEF TypeMarker
    <3>4. CASE ReadAfter \/ OldShellGone \/ NewDaemon \/ OldDaemonGone
      <4>1. pc \notin {"activate", "wait", "type", "shown"}
        BY <3>4 DEF ReadAfter, OldShellGone, NewDaemon, OldDaemonGone
      <4> QED
        BY <2>1, <4>1, TypingContinues DEF TypeMarker
    <3>5. CASE Activate \/ WaitLive
      <4>1. at' = at /\ pc \in {"activate", "wait"} /\ pc' \in {"activate", "wait", "type", "shown"}
        BY <1>5, <3>5 DEF Activate, WaitLive, Stopped
      <4> QED
        BY <1>1, <2>1, <4>1, TypingContinues DEF TypeMarker
    <3>6. ~(ReadShell \/ TypeDetached \/ WaitScheduled \/ Shutdown \/ Start \/ WaitWarm \/ SameShell \/ ReadScreen \/ Archive)
      BY <1>5 DEF ReadShell, TypeDetached, WaitScheduled, Shutdown, Start, WaitWarm,
         SameShell, ReadScreen, Archive, Stopped
    <3>7. ~(ArchivedFrame \/ VerifyCheckpoints \/ CheckpointRenamed \/ ReadDaemon \/ Terminate \/ StopDaemon)
      BY <1>5 DEF ArchivedFrame, VerifyCheckpoints, CheckpointRenamed, ReadDaemon,
         Terminate, StopDaemon, Stopped
    <3>8. ~(OtherShell \/ CountHistory \/ ReadSessions \/ CloseTab \/ ReadClosed \/ CallFails)
      BY <1>5 DEF OtherShell, CountHistory, ReadSessions, CloseTab, ReadClosed, CallFails,
         Stopped
    <3> QED
      BY <3>1, <3>2, <3>3, <3>4, <3>5, <3>6, <3>7, <3>8 DEF Next
  <2>4. ASSUME UNCHANGED <<daemon, alive, dying, shell>>,
               \A p \in Panes : typed'[p] = "shown" => typed[p] = "shown" \/ shell[p] # 0
        PROVE  AfterStop'
    BY ONLY <1>2, <2>1, <2>2, <2>3, <2>4 DEF AfterStop
  <2>5. CASE ~Touches /\ ~Application
    BY <2>4, <2>5, Looks DEF procs, panes
  <2>6. CASE Touches
    <3>1. TypeMarker
      BY <1>5, <2>6 DEF Touches, Stopped, TypeDetached, Shutdown, Start, Archive,
         Terminate, StopDaemon, TypeMarker, CloseTab
    <3> QED
      BY <2>4, <3>1, TypingContinues DEF TypeMarker, RunTyped, procs
  <2>7. CASE Application
    <3>1. ASSUME NEW x, SpawnDaemon(x) PROVE AfterStop'
      <4>1. daemon' = next /\ alive' = alive \cup {next} /\ next # oldDaemon /\ next # 0
            /\ UNCHANGED <<shell, dying, typed>> /\ next \notin alive /\ \A p \in Panes : next # oldShell[p]
        BY <3>1, FreshPid DEF SpawnDaemon, panes
      <4> QED
        BY ONLY <1>2, <2>1, <2>2, <2>3, <4>1 DEF AfterStop
    <3>2. ASSUME NEW x, Exit(x) PROVE AfterStop'
      <4>1. x \in dying /\ dying' = dying \ {x} /\ alive' = alive \ {x} /\ UNCHANGED <<daemon, shell, typed>>
        BY <3>2 DEF Exit, panes
      <4> QED
        BY ONLY <1>2, <2>1, <2>2, <2>3, <4>1 DEF AfterStop
    <3>3. ASSUME NEW x, NEW p \in Panes, Replace(p, x) PROVE AfterStop'
      <4>1. shell[p] = 0 /\ daemon # 0
        BY <3>3 DEF Replace
      <4>2. /\ next # oldDaemon /\ next # 0 /\ (\A q \in Panes : next # oldShell[q])
            /\ alive' = alive \cup {next} /\ dying' = dying
            /\ shell' = [shell EXCEPT ![p] = next] /\ UNCHANGED <<daemon, typed>>
        BY <3>3, <4>1, FreshPid DEF Replace
      <4>3. shell'[p] = next /\ \A q \in Panes : q # p => shell'[q] = shell[q]
        BY <1>1, <4>2 DEF ProcsTypeOK
      <4>4. \A q \in Panes : /\ shell'[q] # 0 => daemon # 0 /\ shell'[q] # oldShell[q]
                             /\ typed[q] = "shown" => shell'[q] # 0
        BY ONLY <2>1, <4>1, <4>2, <4>3
      <4> QED
        BY ONLY <1>2, <2>1, <2>2, <2>3, <4>2, <4>4 DEF AfterStop
    <3>4. ASSUME NEW p \in Panes, Continue(p) \/ Notice(p) \/ PrintMarker(p) PROVE AfterStop'
      BY <2>4, <3>4 DEF Continue, Notice, PrintMarker, procs
    <3>5. ASSUME NEW p \in Panes, RunTyped(p) PROVE AfterStop'
      <4>1. typed' = [typed EXCEPT ![p] = "shown"] /\ shell[p] # 0 /\ UNCHANGED <<daemon, alive, dying, shell>>
        BY <3>5 DEF RunTyped, procs
      <4> QED
        BY <1>1, <2>4, <4>1 DEF PanesTypeOK
    <3> QED
      BY <2>7, <3>1, <3>2, <3>3, <3>4, <3>5, CalmApplication
  <2> QED
    BY <2>5, <2>6, <2>7
<1> QED
  BY <1>3, <1>4, <1>5

\* A defect that a call finds ends the scenario there.
LEMMA NotPastContinues ==
    ASSUME CalmStep, defect # "new-shell", Archives, AfterKill, AfterStop, AfterClose,
    Mutes, NotPast
    PROVE  NotPast'
<1> USE LegOfCall DEF CalmStep, RestoreTypeOK
<1>1. SUFFICES ASSUME pc' # "done" PROVE NotPast'
  BY DEF NotPast
<1>2. PanesTypeOK /\ CallsTypeOK /\ at \in Panes
  BY DEF CallsTypeOK
<1> USE DEF Goto, Enter, End, Error, Else, Loop
<1>3. pc # "done"
  BY <1>1, OverIsOver DEF vars, harness
<1>4. /\ defect = "empty-archive" => leg \notin {"kill", "archived"} /\ (leg = "warm" => pc \notin {"files", "daemon"})
      /\ defect = "plain-archive" => leg \notin {"kill", "archived"} /\ (leg = "warm" => pc # "daemon")
      /\ defect = "incomplete" => leg \notin {"kill", "archived"} /\ (leg = "warm" => pc \in {"activate", "wait"})
      /\ defect \in {"drop-archive", "repeat-archive"} /\ leg = "archived" => pc \notin {"replaced", "gone"}
      /\ defect = "mute" /\ leg \in {"archived", "fault"} => pc \notin {"count", "after", "reaped", "replaced", "gone"}
      /\ defect = "keeps-shell" /\ leg = "fault" => pc \notin {"replaced", "gone"}
      /\ defect = "keeps-session" /\ leg = "close" => pc # "reaped"
  BY <1>3 DEF NotPast
<1>5. CASE ReadShell \/ TypeDetached \/ WaitScheduled \/ Shutdown \/ Start \/ Activate
  BY <1>4, <1>5 DEF ReadShell, TypeDetached, WaitScheduled, Shutdown, Start, Activate,
     NotPast
<1>6. CASE WaitWarm \/ SameShell \/ ReadScreen \/ Archive
  BY <1>1, <1>4, <1>6 DEF WaitWarm, SameShell, ReadScreen, Archive, NotPast, Archives, Complete
<1>7. CASE ArchivedFrame
  <2>1. pc = "frame" /\ leg = "warm" /\ checkpoint[at] = 1
    BY <1>1, <1>7 DEF ArchivedFrame
  <2>2. defect # "empty-archive"
    BY <2>1 DEF Archives
  <2>3. leg' = "warm" /\ pc' \in {"activate", "files"} /\ defect # "incomplete"
    BY <1>1, <1>4, <1>7, <2>1 DEF ArchivedFrame
  <2> QED
    BY <2>2, <2>3 DEF NotPast
<1>8. CASE VerifyCheckpoints
  <2>1. pc = "files" /\ leg = "warm" /\ leg' = "warm" /\ pc' = "daemon" /\ defect # "plain-archive"
    BY <1>1, <1>8 DEF VerifyCheckpoints
  <2> QED
    BY <1>4, <2>1 DEF NotPast
<1>9. CASE ReadDaemon \/ Terminate \/ StopDaemon
  BY <1>1, <1>4, <1>9 DEF ReadDaemon, Terminate, StopDaemon, NotPast
<1>10. CASE WaitLive \/ OtherShell \/ TypeMarker
  BY <1>1, <1>4, <1>10 DEF WaitLive, OtherShell, TypeMarker, NotPast
<1>11. CASE WaitMarker
  <2>1. defect # "mute"
    BY <1>2, <1>11 DEF WaitMarker, Mutes
  <2>2. leg' = leg /\ leg \in {"archived", "fault"} /\ pc' \in {"activate", "after", "count"}
    BY <1>11 DEF WaitMarker
  <2> QED
    BY <1>4, <2>1, <2>2 DEF NotPast
<1>12. CASE CountHistory
  <2>1. pc = "count" /\ leg = "archived" /\ leg' = "archived" /\ screen[at] = 1 /\ pc' \in {"activate", "replaced"}
    BY <1>1, <1>12 DEF CountHistory
  <2>2. Restored = 1
    BY <2>1 DEF AfterKill, Killed
  <2>3. defect \notin {"drop-archive", "repeat-archive"}
    BY <2>2 DEF Restored
  <2> QED
    BY <1>4, <2>1, <2>3 DEF NotPast
<1>13. CASE NewDaemon \/ ReadSessions \/ ReadAfter \/ CloseTab
  BY <1>1, <1>4, <1>13 DEF NewDaemon, ReadSessions, ReadAfter, CloseTab, NotPast
<1>14. CASE OldShellGone
  <2>1. pc = "reaped" /\ leg = "fault" /\ leg' = "fault" /\ oldShell[at] \notin alive /\ pc' \in {"reaped", "replaced"}
    BY <1>1, <1>14 DEF OldShellGone, processGone
  <2>2. defect # "keeps-shell"
    BY <1>2, <2>1 DEF AfterStop, Stopped
  <2> QED
    BY <1>4, <2>1, <2>2 DEF NotPast
<1>15. CASE ReadClosed
  <2>1. pc = "closed" /\ leg = "close" /\ leg' = "close" /\ shell[1] = 0
    BY <1>1, <1>15 DEF ReadClosed
  <2>2. defect # "keeps-session"
    BY <2>1 DEF AfterClose, Closed
  <2> QED
    BY <1>4, <2>1, <2>2 DEF NotPast
<1>16. CASE OldDaemonGone \/ CheckpointRenamed \/ CallFails
  BY <1>1, <1>16 DEF OldDaemonGone, CheckpointRenamed, CallFails
<1>17. CASE Application \/ UNCHANGED vars
  <2>1. UNCHANGED <<leg, pc>>
    BY <1>17, CalmApplication DEF vars, harness
  <2> QED
    BY <1>4, <2>1 DEF NotPast
<1> QED
  BY <1>5, <1>6, <1>7, <1>8, <1>9, <1>10, <1>11, <1>12, <1>13, <1>14, <1>15, <1>16,
     <1>17 DEF Next

\* A shell that is not the remembered one stays another one.
LEMMA NewShellContinues ==
    ASSUME CalmStep, NewShell PROVE NewShell'
<1> USE LegOfCall DEF CalmStep, RestoreTypeOK
<1>1. SUFFICES ASSUME defect = "new-shell", kind = "restore" PROVE NewShell'
  BY DEF NewShell
<1>2. /\ leg \in {"restore", "warm"}
      /\ leg = "warm" => /\ pc \in {"activate", "wait", "same", "done"}
                         /\ pc # "done" => \A p \in live : shell[p] # oldShell[p]
                         /\ pc = "same" => shell[at] # oldShell[at]
  BY <1>1 DEF NewShell
<1>3. PanesTypeOK /\ ProcsTypeOK /\ CallsTypeOK /\ at \in Panes
  BY DEF CallsTypeOK
<1> USE DEF Goto, Enter, End, Error, Else, Loop
<1>4. CASE leg = "restore"
  <2>1. CASE Start
    <3>1. pc = "start" /\ leg' = "warm" /\ pc' = "activate" /\ UNCHANGED <<live, shell, oldShell>>
      BY <1>4, <2>1 DEF Start, memory, procs, panes
    <3>2. live = {}
      BY <3>1 DEF Down
    <3> QED
      BY <3>1, <3>2 DEF NewShell
  <2>2. CASE ~Start
    <3>1. leg' = "restore"
      <4>1. CASE ~Touches /\ ~Application
        BY <1>4, <4>1 DEF Next, Touches, ReadShell, WaitScheduled, Activate, WaitWarm,
           SameShell, ReadScreen,
         ArchivedFrame, VerifyCheckpoints, CheckpointRenamed, ReadDaemon, WaitLive,
         OtherShell,
         WaitMarker, CountHistory, NewDaemon, OldDaemonGone, ReadSessions, ReadAfter,
         OldShellGone, ReadClosed, CallFails, vars, harness
      <4>2. CASE Touches
        BY <1>4, <2>2, <4>2 DEF Touches, TypeDetached, Shutdown, Archive, Terminate,
           StopDaemon, TypeMarker, CloseTab
      <4>3. CASE Application
        BY <1>4, <4>3, CalmApplication DEF harness
      <4> QED
        BY <4>1, <4>2, <4>3
    <3> QED
      BY <3>1 DEF NewShell
  <2> QED
    BY <2>1, <2>2
<1>5. CASE leg = "warm"
  <2>1. CASE pc = "done"
    BY <1>2, <2>1, OverIsOver DEF NewShell, vars, harness, procs, panes
  <2>2. CASE pc # "done"
    <3>1. \A p \in live : shell[p] # oldShell[p]
      BY <1>2, <1>5, <2>2
    <3>2. CASE Activate \/ WaitWarm
      BY <1>5, <3>1, <3>2 DEF Activate, WaitWarm, NewShell, memory, world, procs, panes
    <3>3. CASE SameShell
      <4>1. pc' = "done" /\ leg' = "warm"
        BY <1>2, <1>5, <3>3 DEF SameShell
      <4> QED
        BY <4>1 DEF NewShell
    <3>4. CASE CallFails
      BY <1>5, <3>4 DEF CallFails, NewShell
    <3>5. CASE UNCHANGED vars
      BY <1>2, <1>5, <3>5 DEF NewShell, vars, harness, procs, panes
    <3>6. CASE Application
      <4>1. UNCHANGED <<leg, pc, at, oldShell>>
        BY <3>6, CalmApplication DEF harness
      <4>2. ASSUME NEW x, SpawnDaemon(x) \/ Exit(x) PROVE NewShell'
        BY <1>2, <1>5, <4>1, <4>2 DEF SpawnDaemon, Exit, NewShell, panes
      <4>3. ASSUME NEW x, NEW p \in Panes, Replace(p, x) PROVE NewShell'
        <5>1. shell' = [shell EXCEPT ![p] = next] /\ next # oldShell[p] /\ live' = live \cup {p}
          BY <4>3, FreshPid DEF Replace
        <5>2. shell'[p] = next /\ \A q \in Panes : q # p => shell'[q] = shell[q]
          BY <1>3, <5>1 DEF ProcsTypeOK
        <5>3. live \subseteq Panes
          BY <1>3 DEF PanesTypeOK
        <5> QED
          BY ONLY <1>2, <1>3, <1>5, <2>2, <3>1, <4>1, <5>1, <5>2, <5>3 DEF NewShell
      <4>4. ASSUME NEW p \in Panes, Continue(p) PROVE NewShell'
        BY <1>1, <4>4 DEF Continue
      <4>5. ASSUME NEW p \in Panes, Notice(p) \/ PrintMarker(p) \/ RunTyped(p) PROVE NewShell'
        <5>1. live' \subseteq live /\ shell' = shell
          BY <4>5 DEF Notice, PrintMarker, RunTyped, procs
        <5> QED
          BY <1>2, <1>5, <3>1, <4>1, <5>1 DEF NewShell
      <4> QED
        BY <3>6, <4>2, <4>3, <4>4, <4>5, CalmApplication
    <3>7. ~(ReadShell \/ TypeDetached \/ WaitScheduled \/ Shutdown \/ Start \/ ReadScreen \/ Archive \/ ArchivedFrame \/ VerifyCheckpoints)
      BY <1>2, <1>5 DEF ReadShell, TypeDetached, WaitScheduled, Shutdown, Start,
         ReadScreen, Archive, ArchivedFrame, VerifyCheckpoints
    <3>8. ~(CheckpointRenamed \/ ReadDaemon \/ Terminate \/ StopDaemon \/ WaitLive \/ OtherShell \/ TypeMarker \/ WaitMarker \/ CountHistory)
      BY <1>2, <1>5 DEF CheckpointRenamed, ReadDaemon, Terminate, StopDaemon, WaitLive,
         OtherShell, TypeMarker, WaitMarker, CountHistory
    <3>9. ~(NewDaemon \/ OldDaemonGone \/ ReadSessions \/ ReadAfter \/ OldShellGone \/ CloseTab \/ ReadClosed)
      BY <1>2, <1>5 DEF NewDaemon, OldDaemonGone, ReadSessions, ReadAfter, OldShellGone,
         CloseTab, ReadClosed
    <3> QED
      BY <3>2, <3>3, <3>4, <3>5, <3>6, <3>7, <3>8, <3>9 DEF Next
  <2> QED
    BY <2>1, <2>2
<1> QED
  BY <1>2, <1>4, <1>5

\* A scenario that got to its end has found the defect on its way.
LEMMA PassIsCompleteContinues ==
    ASSUME CalmStep, PassIsComplete, NewShell,
           defect # "new-shell" => Archives /\ AfterStop /\ AfterClose /\ NotPast
    PROVE  PassIsComplete'
<1> USE LegOfCall DEF CalmStep, RestoreTypeOK
<1>1. SUFFICES ASSUME result' = "pass", pc # "done" PROVE (defect \notin Finds)'
  <2>1. CASE pc = "done"
    BY <2>1, OverIsOver DEF PassIsComplete, Finds, Calm, vars, harness, panes
  <2> QED
    BY <2>1 DEF PassIsComplete
<1>2. result = "none" /\ 1 \in Panes /\ at \in Panes /\ attended \subseteq Panes
  BY <1>1, Over, RestoreAssumption DEF CallsTypeOK, PanesTypeOK, Panes
<1> USE DEF Goto, Enter, End, Error, Else, Loop
<1>3. OldDaemonGone \/ (OldShellGone /\ kind = "close")
  <2>1. ~(ReadShell \/ TypeDetached \/ WaitScheduled \/ Shutdown \/ Start \/ Activate \/ WaitWarm \/ SameShell)
    BY <1>1, <1>2 DEF ReadShell, TypeDetached, WaitScheduled, Shutdown, Start, Activate,
       WaitWarm, SameShell
  <2>2. ~(ReadScreen \/ Archive \/ ArchivedFrame \/ VerifyCheckpoints \/ CheckpointRenamed \/ ReadDaemon \/ Terminate)
    BY <1>1, <1>2 DEF ReadScreen, Archive, ArchivedFrame, VerifyCheckpoints,
       CheckpointRenamed, ReadDaemon, Terminate
  <2>3. ~(StopDaemon \/ WaitLive \/ OtherShell \/ TypeMarker \/ WaitMarker \/ CountHistory \/ NewDaemon)
    BY <1>1, <1>2 DEF StopDaemon, WaitLive, OtherShell, TypeMarker, WaitMarker,
       CountHistory, NewDaemon
  <2>4. ~(ReadSessions \/ ReadAfter \/ CloseTab \/ ReadClosed \/ CallFails \/ UNCHANGED vars)
    BY <1>1, <1>2 DEF ReadSessions, ReadAfter, CloseTab, ReadClosed, CallFails, vars,
       harness
  <2>5. ~Application
    BY <1>1, <1>2, CalmApplication DEF harness
  <2>6. OldShellGone => kind = "close"
    BY <1>1, <1>2 DEF OldShellGone
  <2> QED
    BY <2>1, <2>2, <2>3, <2>4, <2>5, <2>6 DEF Next
<1>4. CASE OldDaemonGone
  <2>1. pc = "gone" /\ oldDaemon \notin alive /\ attended' = attended /\ leg \in {"archived", "fault"}
    BY <1>1, <1>2, <1>4 DEF OldDaemonGone, processGone, panes
  <2>2. CASE leg = "archived"
    <3>1. kind = "restore" /\ defect # "new-shell"
      BY <2>2 DEF NewShell
    <3>2. defect \notin {"empty-archive", "plain-archive", "drop-archive", "repeat-archive",
                       "incomplete", "mute"}
      BY <2>1, <2>2, <3>1 DEF NotPast
    <3>3. OutputDefect => attended = Panes
      BY <1>2, <2>2, <3>1 DEF Archives, Archived
    <3> QED
      BY <2>1, <3>1, <3>2, <3>3 DEF Finds, OutputDefect
  <2>3. CASE leg = "fault"
    <3>1. kind = "fault"
      BY <2>3
    <3>2. defect # "keeps-daemon"
      BY <2>1, <2>3 DEF AfterStop, Stopped
    <3>3. defect \notin {"keeps-shell", "mute"}
      BY <2>1, <2>3 DEF NotPast
    <3> QED
      BY <3>1, <3>2, <3>3 DEF Finds
  <2> QED
    BY <2>1, <2>2, <2>3
<1>5. CASE OldShellGone /\ kind = "close"
  <2>1. pc = "reaped" /\ leg = "close" /\ oldShell[1] \notin alive
    BY <1>1, <1>2, <1>5 DEF OldShellGone, processGone, CallsTypeOK
  <2>2. defect \notin {"keeps-shell", "keeps-session"}
    BY <2>1 DEF AfterClose, Closed, NotPast
  <2> QED
    BY <1>5, <2>2 DEF Finds
<1> QED
  BY <1>3, <1>4, <1>5

\* Whatever a call asks of an application without a defect is true when it asks.
LEMMA NoFalseAlarmContinues ==
    ASSUME CalmStep, NoFalseAlarm, excuses \subseteq excuses',
           defect # "new-shell" => ServesAll /\ Remembers /\ Markers /\ Archives /\ AfterKill /\ AfterStop /\ AfterClose
    PROVE  NoFalseAlarm'
<1> USE LegOfCall DEF CalmStep, RestoreTypeOK
<1>1. SUFFICES ASSUME result' = "error", defect = "none", excuses' = {} PROVE FALSE
  BY DEF NoFalseAlarm
<1>2. excuses = {} /\ pc # "done" /\ result = "none"
  <2>1. excuses = {}
    BY <1>1
  <2>2. CASE pc = "done"
    BY <1>1, <2>1, <2>2, OverIsOver DEF NoFalseAlarm, vars, harness
  <2> QED
    BY <2>1, <2>2, Over
<1>3. PanesTypeOK /\ ProcsTypeOK /\ CallsTypeOK /\ 1 \in Panes /\ at \in Panes
  BY RestoreAssumption DEF CallsTypeOK, Panes
<1>a. ServesAll /\ Remembers /\ Markers /\ Archives /\ AfterKill /\ AfterStop /\ AfterClose
  BY <1>1
<1> USE DEF Goto, Enter, End, Error, Else, Loop
<1>4. ~(TypeDetached \/ WaitScheduled \/ Shutdown \/ Start \/ Activate \/ Archive \/ StopDaemon \/ TypeMarker)
  BY <1>1, <1>2 DEF TypeDetached, WaitScheduled, Shutdown, Start, Activate, Archive,
     StopDaemon, TypeMarker
<1>5. ~(WaitMarker \/ CloseTab \/ CheckpointRenamed \/ CallFails \/ UNCHANGED vars \/ Application)
  BY <1>1, <1>2, CalmApplication DEF WaitMarker, CloseTab, CheckpointRenamed, CallFails,
     vars, harness
<1>6. CASE ReadShell \/ ReadDaemon \/ Terminate \/ ReadSessions
  <2>1. daemon # 0 /\ daemon \in alive /\ shell[at] # 0 /\ shell[1] # 0
    BY <1>3, <1>6, <1>a DEF ReadShell, ReadDaemon, Terminate, ReadSessions, ServesAll,
       Serves
  <2>2. pc = "terminate" => oldDaemon = daemon
    BY <1>a DEF Remembers
  <2> QED
    BY <1>1, <1>2, <1>6, <2>1, <2>2 DEF ReadShell, ReadDaemon, Terminate, ReadSessions
<1>7. CASE WaitWarm \/ SameShell \/ ReadScreen
  <2>1. leg = "warm" /\ pc \in {"wait", "same", "read"} /\ kind = "restore"
    BY <1>7 DEF WaitWarm, SameShell, ReadScreen
  <2>2. shell[at] # 0 /\ oldShell[at] = shell[at]
    BY <1>3, <1>a, <2>1 DEF ServesAll, Serves, Remembers
  <2>3. (\A p \in live : outcome[p] = "continued") /\ (pc = "read" => screen[at] > 0)
    BY <1>1, <1>a, <2>1 DEF Archives
  <2>4. screen[at] \in {0, 1}
    BY <1>1, <1>3, <1>a, <2>1 DEF Markers, Serves, OutputDefect
  <2> QED
    BY <1>1, <1>2, <1>7, <2>2, <2>3, <2>4 DEF WaitWarm, SameShell, ReadScreen, Complete
<1>8. CASE ArchivedFrame \/ VerifyCheckpoints
  <2>1. leg = "warm" /\ pc \in {"frame", "files"} /\ kind = "restore"
    BY <1>8 DEF ArchivedFrame, VerifyCheckpoints
  <2>2. shell[at] # 0
    BY <1>3, <1>a, <2>1 DEF ServesAll, Serves
  <2>3. pc = "frame" => checkpoint[at] = 1
    BY <1>1, <1>a, <2>1 DEF Archives
  <2>4. pc = "files" => \A p \in Panes : checkpoint[p] # NoArchive
    BY <1>a, <2>1 DEF Archives, Archived, NoArchive
  <2> QED
    BY <1>1, <1>2, <1>8, <2>2, <2>3, <2>4 DEF ArchivedFrame, VerifyCheckpoints
<1>9. CASE (WaitLive \/ OtherShell \/ CountHistory) /\ leg = "archived"
  <2>1. /\ \A p \in live : shell[p] # 0 /\ shell[p] # oldShell[p] /\ outcome[p] = "archived" /\ screen[p] = 1
        /\ pc \in {"other", "count"} => at \in live
    BY <1>1, <1>2, <1>9, <1>a DEF AfterKill, Killed, Restored
  <2> QED
    BY <1>1, <1>2, <1>9, <2>1 DEF WaitLive, OtherShell, CountHistory, Complete
<1>10. CASE (NewDaemon \/ OldDaemonGone) /\ leg = "archived"
  <2>1. /\ daemon # oldDaemon /\ (oldDaemon \in alive => oldDaemon \in dying)
        /\ pc \in {"replaced", "gone"} => daemon # 0
    BY <1>2, <1>10, <1>a DEF AfterKill, Killed
  <2> QED
    BY <1>1, <1>2, <1>10, <2>1 DEF NewDaemon, OldDaemonGone, Hasty, processGone
<1>11. CASE leg = "fault" /\ (WaitLive \/ NewDaemon \/ OldDaemonGone \/ ReadAfter \/ OldShellGone)
  <2>1. CASE WaitLive
    BY <1>1, <1>2, <1>11, <2>1 DEF WaitLive, Complete
  <2>2. Stopped
    BY <1>2, <1>11 DEF Stopped, WaitLive, NewDaemon, OldDaemonGone, ReadAfter, OldShellGone
  <2>3. /\ daemon # oldDaemon /\ oldDaemon \notin alive
        /\ \A p \in Panes :
              /\ oldShell[p] # 0
              /\ shell[p] # 0 => daemon # 0 /\ shell[p] # oldShell[p]
              /\ pc \notin {"activate", "wait", "type", "shown"} => shell[p] # 0
              /\ oldShell[p] \in alive => oldShell[p] \in dying
    BY <1>1, <1>a, <2>2 DEF AfterStop
  <2>4. CASE NewDaemon \/ OldDaemonGone
    BY <1>1, <1>2, <1>3, <2>3, <2>4 DEF NewDaemon, OldDaemonGone, processGone
  <2>5. CASE ReadAfter
    BY <1>1, <1>2, <2>3, <2>5 DEF ReadAfter
  <2>6. CASE OldShellGone
    BY <1>1, <1>2, <1>3, <2>3, <2>6 DEF OldShellGone, Hasty, processGone
  <2> QED
    BY <1>11, <2>1, <2>4, <2>5, <2>6
<1>12. CASE leg = "close" /\ (ReadClosed \/ OldShellGone)
  <2>1. Closed /\ at = 1
    BY <1>12 DEF Closed, ReadClosed, OldShellGone, CallsTypeOK
  <2>2. shell[1] = 0 /\ (oldShell[1] \in alive => oldShell[1] \in dying)
    BY <1>1, <1>a, <2>1 DEF AfterClose
  <2> QED
    BY <1>1, <1>2, <1>12, <2>1, <2>2 DEF ReadClosed, OldShellGone, Hasty, processGone
<1>13. /\ WaitLive => leg \in {"archived", "fault"}
       /\ OtherShell \/ CountHistory => leg = "archived"
       /\ NewDaemon \/ OldDaemonGone => leg \in {"archived", "fault"}
       /\ OldShellGone => leg \in {"fault", "close"}
       /\ ReadAfter => leg = "fault"
       /\ ReadClosed => leg = "close"
  BY DEF WaitLive, OtherShell, CountHistory, NewDaemon, OldDaemonGone, OldShellGone,
     ReadAfter, ReadClosed
<1> QED
  BY <1>4, <1>5, <1>6, <1>7, <1>8, <1>9, <1>10, <1>11, <1>12, <1>13 DEF Next

\* The invariant of the three scenarios.
LEMMA RestoreStarts == ASSUME Init PROVE RestoreInv
<1> USE RestoreAssumption DEF Init, Panes
<1>1. RestoreTypeOK
  BY DEF RestoreTypeOK, CallsTypeOK, Calls, Kinds, ProcsTypeOK, PanesTypeOK, All, NoArchive
<1>2. Down /\ Known
  BY DEF Down, Known, All
<1>3. FoundGone
  BY DEF FoundGone, NoOldProcess
<1>4. ServesAll
  BY DEF ServesAll
<1>5. Remembers
  BY DEF Remembers, Kinds
<1>6. Markers
  BY DEF Markers, All, OutputDefect
<1>7. Archives
  BY DEF Archives, Kinds
<1>8. AfterKill /\ AfterClose
  BY DEF AfterKill, Killed, AfterClose, Closed, Kinds
<1>9. AfterStop /\ Mutes
  BY DEF AfterStop, Stopped, Mutes, All, Kinds
<1>10. NotPast /\ NewShell /\ PassIsComplete /\ NoFalseAlarm
  BY DEF NotPast, NewShell, PassIsComplete, NoFalseAlarm, Kinds
<1> QED
  BY <1>1, <1>2, <1>3, <1>4, <1>5, <1>6, <1>7, <1>8, <1>9, <1>10 DEF RestoreInv, CalmInv

LEMMA RestoreGoesOn == ASSUME RestoreInv, [Next]_vars PROVE RestoreInv'
<1>1. RestoreTypeOK /\ Down /\ Known /\ FoundGone
  BY DEF RestoreInv
<1>2. RestoreTypeOK' /\ excuses \subseteq excuses' /\ UNCHANGED <<defect, kind>>
  BY <1>1, RestoreTypesContinue
<1>3. Down'
  BY <1>1, DownContinues DEF RestoreTypeOK
<1>4. Known'
  <2>1. CASE "reuse" \in excuses'
    BY <2>1 DEF Known
  <2>2. CASE "reuse" \notin excuses'
    BY <1>1, <1>2, <2>2, KnownContinues
  <2> QED
    BY <2>1, <2>2
<1>5. FoundGone'
  BY <1>1, <1>2, FoundGoneContinues
<1>6. CASE ~Calm'
  <2>1. NewShell' /\ PassIsComplete' /\ NoFalseAlarm'
    BY <1>6 DEF NewShell, PassIsComplete, NoFalseAlarm, Calm
  <2> QED
    BY <1>2, <1>3, <1>4, <1>5, <1>6, <2>1 DEF RestoreInv, CalmInv
<1>7. CASE Calm'
  <2>1. Calm /\ CalmStep
    BY <1>1, <1>2, <1>7 DEF Calm, CalmStep
  <2>2. /\ NewShell /\ PassIsComplete /\ NoFalseAlarm
        /\ defect # "new-shell" => /\ ServesAll /\ Remembers /\ Markers /\ Archives
                                   /\ AfterKill /\ AfterStop /\ AfterClose /\ NotPast /\ Mutes
    BY <2>1 DEF RestoreInv, CalmInv
  <2>3. NewShell' /\ PassIsComplete' /\ NoFalseAlarm'
    BY <1>2, <2>1, <2>2, NewShellContinues, PassIsCompleteContinues, NoFalseAlarmContinues
  <2>4. CASE defect = "new-shell"
    BY <1>2, <1>3, <1>4, <1>5, <2>3, <2>4 DEF RestoreInv, CalmInv
  <2>5. CASE defect # "new-shell"
    <3>1. ServesAll' /\ Remembers' /\ Markers' /\ Archives'
      BY <2>1, <2>2, <2>5, ServesAllContinues, RemembersContinues, MarkersContinue,
         ArchivesContinue
    <3>2. AfterKill' /\ AfterStop' /\ AfterClose' /\ Mutes'
      BY <2>1, <2>2, <2>5, AfterKillContinues, AfterStopContinues, AfterCloseContinues,
         TypingContinues
    <3>3. NotPast'
      BY <2>1, <2>2, <2>5, NotPastContinues
    <3> QED
      BY <1>2, <1>3, <1>4, <1>5, <2>3, <3>1, <3>2, <3>3 DEF RestoreInv, CalmInv
  <2> QED
    BY <2>4, <2>5
<1> QED
  BY <1>6, <1>7

\* The three scenarios keep their invariant, whatever the reload does.
LEMMA RestoreInvariant == ScenarioSpec => []RestoreInv
<1>1. ScenarioInit => RestoreInv
  BY RestoreStarts DEF ScenarioInit
<1>2. [ScenarioNext]_scenarioVars => [Next]_vars
  BY DEF ScenarioNext, scenarioVars
<1>3. RestoreInv /\ [Next]_vars => RestoreInv'
  BY RestoreGoesOn
<1> QED
  BY <1>1, <1>2, <1>3, PTL DEF ScenarioSpec

\* A scenario that passes has found every defect it is there to find, unless a pid
\* was used again or the daemon ended on its own.
THEOREM EveryDefectIsFound == ScenarioSpec => []PassIsComplete
<1>1. RestoreInv => PassIsComplete
  BY DEF RestoreInv, CalmInv
<1> QED
  BY <1>1, RestoreInvariant, PTL

\* An application that keeps its promises fails a scenario for one of the excuses only.
THEOREM EveryAlarmHasAnExcuse == ScenarioSpec => []NoFalseAlarm
<1>1. RestoreInv => NoFalseAlarm
  BY DEF RestoreInv, CalmInv
<1> QED
  BY <1>1, RestoreInvariant, PTL

\* When a scenario passes, the processes that it saw end do not exist any more,
\* unless a pid was used again.
THEOREM OldProcessesAreGone == ScenarioSpec => []NoOldProcess
<1>1. RestoreInv => NoOldProcess
  BY DEF RestoreInv, FoundGone, NoOldProcess
<1> QED
  BY <1>1, RestoreInvariant, PTL
================================================================================

------------------------------- MODULE Lifecycle -------------------------------
(***************************************************************************)
(* The test run of system/lifecycle.go: one harness goroutine drives the   *)
(* application it spawned through the control CLI, restarts it, and must   *)
(* leave nothing of its own behind.  The harness is sequential; the        *)
(* application, its windows and its sidecar processes move on their own    *)
(* between two of its calls, and every call may fail with or without its   *)
(* effect having happened.  `pc` names the call the harness is about to    *)
(* make; an exported method is a path through `pc` from "idle" to "idle".  *)
(***************************************************************************)
EXTENDS Naturals, FiniteSets

CONSTANTS Plugins,        \* terminal plugins; each owns the sidecar of its name
          Labels,         \* window labels window.open can hand out
          MaxStarts,      \* bound: application processes spawned in one run
          MaxPids,        \* bound: processes a sidecar goes through
          Lingering,      \* those whose sidecar_stop may answer before the exit
          ChildrenHoldStdout \* do sidecars inherit the application's stdout?

ASSUME LifecycleAssumption ==
    /\ MaxStarts \in Nat /\ MaxPids \in Nat
    /\ "none" \notin Labels /\ "main" \notin Labels
    /\ Lingering \subseteq Plugins /\ ChildrenHoldStdout \in BOOLEAN

VARIABLES pc,         \* next call of the harness
          op,         \* exported method being executed
          result,     \* what it returned: its name if nil, "error", or "none" yet
          cmd,        \* lifecycle.cmd: 0 (nil) or the number of the spawned process
          stdin,      \* lifecycle.stdin: "nil", "open" or "closed"
          window,     \* lifecycle.window, "none" for the empty string
          expected,   \* expectedWindow, the local of Start
          todo,       \* ids a quiesce loop still has to visit
          pids,       \* pids of the initial sidecar_status of stopTestSidecars
          commitOk,   \* did app.shutdown.commit answer without error
          shutdownOk, \* shutdownErr = nil in Finish
          reportRun,      \* process-window-ownership.json: the process it is
                          \* about (0: no file) ...
          reportGraceful, \* ... and its gracefulShutdown
          app,        \* the process: "none", "up", or how it ended
          starts,     \* processes spawned so far
          committed,  \* the application accepted app.shutdown.commit
          windows,    \* windows the application shows
          booted,     \* windows whose application and plugin boot completed
          saved,      \* workspace windows a restart restores
          enabled,    \* enabled plugins (persisted)
          tabs,       \* plugins with an open tab (persisted)
          open,       \* sidecars the application is connected to
          recorded,   \* sidecars recorded in the home directory
          live        \* sidecar processes, as <<sidecar, number>>

evidence == <<reportRun, reportGraceful>>
harness == <<pc, op, result, cmd, stdin, window, expected, todo, pids,
             commitOk, shutdownOk, evidence>>
process == <<app, starts, committed>>
view    == <<windows, booted, saved>>
runtime == <<enabled, tabs, open, recorded, live>>
vars    == <<harness, process, view, runtime>>

Ops      == {"Start", "OpenWorkspace", "AwaitWindow", "Shutdown", "Finish", "Close"}
Windows  == Labels \cup {"main"}
Pids     == Plugins \X (1..MaxPids)
Ended    == {"clean", "crashed", "killed"}

StartPc    == {"ready", "renderer", "boot", "windowOpen", "openRenderer"}
OpenPc     == {"wsOpen", "wsRenderer"}
AwaitPc    == {"awaitBoot", "awaitPlugins"}
QuiescePc  == {"tree", "closeTab", "disable", "stop", "gone"}
FinishPc   == {"before", "snapshot", "report"}
ShutdownPc == {"commit", "wait", "drain"}
ClosePc    == {"kill"}
\* Waits of the harness itself: a timer, a process that was killed, a system call
\* or a file.  Everywhere else it waits for one call of the CLI.
LocalPc == {"ready", "wait", "drain", "gone", "report", "kill"}
PCs == {"idle"} \cup StartPc \cup OpenPc \cup AwaitPc \cup QuiescePc
         \cup FinishPc \cup ShutdownPc \cup ClosePc

Init ==
    /\ pc = "idle" /\ op = "Close" /\ result = "none"
    /\ cmd = 0 /\ stdin = "nil" /\ window = "none" /\ expected = "none"
    /\ todo = {} /\ pids = {}
    /\ commitOk = FALSE /\ shutdownOk = FALSE /\ reportRun = 0 /\ reportGraceful = FALSE
    /\ app = "none" /\ starts = 0 /\ committed = FALSE
    /\ windows = {} /\ booted = {} /\ saved = {}
    /\ enabled = {} /\ tabs = {} /\ open = {} /\ recorded = {} /\ live = {}

--------------------------------------------------------------------------------
(* Control flow shared by the methods. *)

Up == app = "up"

Goto(p) == pc' = p /\ UNCHANGED <<op, result>>

Return(ok) ==
    /\ pc' = "idle"
    /\ result' = IF ok THEN op ELSE "error"
    /\ UNCHANGED op

\* A method begins: the previous outcome is forgotten.
Enter(method, p) ==
    /\ pc = "idle"
    /\ pc' = p /\ op' = method /\ result' = "none"

\* A method that returns at once.
Refuse(method, ok) ==
    /\ pc = "idle"
    /\ pc' = "idle" /\ op' = method
    /\ result' = IF ok THEN method ELSE "error"

\* stopTestSidecars failed: Finish returns the error, Close ignores it.
QuiesceFails ==
    /\ todo' = {}
    /\ IF op = "Close" THEN Goto("kill") ELSE Return(FALSE)
QuiesceDone == IF op = "Close" THEN Goto("kill") ELSE Goto("snapshot")

\* A call in lifecycle.window; the CLI refuses one without a window.
Reachable == Up /\ window # "none"

\* Any call may fail while the external state is what it was.
Fails(step) == pc = step /\ Return(FALSE)

\* The application process ends: so do its windows and its connections.  Its
\* sidecars do not.
Ends(how) == app' = how /\ windows' = {} /\ booted' = {} /\ open' = {}

sameStruct == UNCHANGED <<cmd, stdin, window, expected>>
sameLocals == UNCHANGED <<todo, pids, commitOk, shutdownOk, evidence>>
sameWorld  == UNCHANGED <<process, view, runtime>>

--------------------------------------------------------------------------------
(* Start *)

StartRefused ==
    /\ \/ cmd # 0
       \/ cmd = 0 /\ pc = "idle"      \* log, stdin pipe or exec failed
    /\ Refuse("Start", FALSE)
    /\ sameStruct /\ sameLocals /\ sameWorld

\* Fault: a second process is spawned over the first.
StartSpawnTwice ==
    /\ starts < MaxStarts
    /\ Enter("Start", "ready")
    /\ starts' = starts + 1 /\ app' = "up" /\ committed' = FALSE
    /\ cmd' = starts + 1 /\ stdin' = "open" /\ expected' = window
    /\ windows' = {"main"} \cup saved /\ booted' = {}
    /\ UNCHANGED <<window, saved, runtime>> /\ sameLocals

\* The process is spawned; the application restores the windows it saved.
StartSpawn ==
    /\ cmd = 0 /\ starts < MaxStarts
    /\ Enter("Start", "ready")
    /\ starts' = starts + 1 /\ app' = "up" /\ committed' = FALSE
    /\ cmd' = starts + 1 /\ stdin' = "open" /\ expected' = window
    /\ windows' = {"main"} \cup saved /\ booted' = {}
    /\ UNCHANGED <<window, saved, runtime>> /\ sameLocals

\* The ready event of this very process arrives within 45 seconds.
StartReady ==
    /\ pc = "ready" /\ Up
    /\ Goto("renderer")
    /\ sameStruct /\ sameLocals /\ sameWorld

\* Fault: a start that times out forgets the process it spawned.
StartNotReadyForgets ==
    /\ Fails("ready") /\ cmd' = 0
    /\ UNCHANGED <<stdin, window, expected>> /\ sameLocals /\ sameWorld

\* No event in time, or one of another process, socket or identifier.
StartNotReady ==
    /\ Fails("ready")
    /\ sameStruct /\ sameLocals /\ sameWorld

Target == IF expected = "none" THEN "main" ELSE expected

StartRenderer ==
    /\ pc = "renderer" /\ Up /\ Target \in windows
    /\ window' = Target
    /\ Goto("boot")
    /\ UNCHANGED <<cmd, stdin, expected>> /\ sameLocals /\ sameWorld

StartRendererFails ==
    /\ Fails("renderer")
    /\ sameStruct /\ sameLocals /\ sameWorld

StartBoot ==
    /\ pc = "boot" /\ Up
    /\ Goto(IF expected = "none" THEN "windowOpen" ELSE "awaitBoot")
    /\ sameStruct /\ sameLocals /\ sameWorld

StartBootFails ==
    /\ Fails("boot")
    /\ sameStruct /\ sameLocals /\ sameWorld

\* window.open: the application shows and saves a new window.
NewWindow(label) ==
    /\ Up /\ label \notin windows \cup saved
    /\ windows' = windows \cup {label} /\ saved' = saved \cup {label}
    /\ UNCHANGED <<process, booted, runtime>>

StartWindowOpen(label) ==
    /\ pc = "windowOpen" /\ NewWindow(label)
    /\ \/ window' = label /\ Goto("openRenderer")
       \/ UNCHANGED window /\ Return(FALSE)      \* the answer is lost
    /\ UNCHANGED <<cmd, stdin, expected>> /\ sameLocals

StartWindowOpenFails ==
    /\ Fails("windowOpen")
    /\ sameStruct /\ sameLocals /\ sameWorld

StartOpenRenderer ==
    /\ pc = "openRenderer"
    /\ \/ Up /\ window \in windows /\ Goto("awaitBoot")
       \/ Return(FALSE)
    /\ sameStruct /\ sameLocals /\ sameWorld

--------------------------------------------------------------------------------
(* OpenWorkspace and AwaitWindow *)

\* Fault: a window known by name is taken to be ready.
OpenWorkspaceTrusts ==
    /\ window \notin {"none", "main"}
    /\ Refuse("OpenWorkspace", TRUE)
    /\ sameStruct /\ sameLocals /\ sameWorld

OpenWorkspaceKnown ==
    /\ window \notin {"none", "main"}
    /\ Enter("OpenWorkspace", "awaitBoot")
    /\ sameStruct /\ sameLocals /\ sameWorld

OpenWorkspaceUnknown ==
    /\ window = "none"
    /\ Refuse("OpenWorkspace", FALSE)
    /\ sameStruct /\ sameLocals /\ sameWorld

OpenWorkspaceMain ==
    /\ window = "main"
    /\ Enter("OpenWorkspace", "wsOpen")
    /\ sameStruct /\ sameLocals /\ sameWorld

WorkspaceOpen(label) ==
    /\ pc = "wsOpen" /\ NewWindow(label)
    /\ \/ window' = label /\ Goto("wsRenderer")
       \/ UNCHANGED window /\ Return(FALSE)
    /\ UNCHANGED <<cmd, stdin, expected>> /\ sameLocals

WorkspaceOpenFails ==
    /\ Fails("wsOpen")
    /\ sameStruct /\ sameLocals /\ sameWorld

WorkspaceRenderer ==
    /\ pc = "wsRenderer"
    /\ \/ Up /\ window \in windows /\ Goto("awaitBoot")
       \/ Return(FALSE)
    /\ sameStruct /\ sameLocals /\ sameWorld

AwaitWindowEnter ==
    /\ \/ window = "none" /\ Refuse("AwaitWindow", FALSE)
       \/ window # "none" /\ Enter("AwaitWindow", "awaitBoot")
    /\ sameStruct /\ sameLocals /\ sameWorld

AwaitBoot ==
    /\ pc = "awaitBoot"
    /\ \/ Up /\ window \in windows /\ Goto("awaitPlugins")
       \/ Return(FALSE)
    /\ sameStruct /\ sameLocals /\ sameWorld

\* plugin.boot.wait answers once the plugins of the window have booted.
AwaitPlugins ==
    /\ pc = "awaitPlugins"
    /\ \/ /\ Up /\ window \in windows
          /\ booted' = booted \cup {window} /\ Return(TRUE)
       \/ UNCHANGED booted /\ Return(FALSE)
    /\ UNCHANGED <<process, windows, saved, runtime>>
    /\ sameStruct /\ sameLocals

--------------------------------------------------------------------------------
(* stopTestSidecars: quiesceTestRuntime *)

\* A failed call of the quiesce sequence.
QuiesceCallFails ==
    /\ pc \in QuiescePc
    /\ QuiesceFails
    /\ UNCHANGED <<pids, commitOk, shutdownOk, evidence>> /\ sameStruct /\ sameWorld

ReadTree ==
    /\ pc = "tree" /\ Reachable
    /\ todo' = tabs /\ Goto("closeTab")
    /\ UNCHANGED <<pids, commitOk, shutdownOk, evidence>> /\ sameStruct /\ sameWorld

\* Fault: a tab that does not close is passed over.
CloseTabPassesOver(p) ==
    /\ pc = "closeTab" /\ Up /\ p \in todo
    /\ tabs' \in {tabs, tabs \ {p}} /\ todo' = todo \ {p} /\ Goto("closeTab")
    /\ UNCHANGED <<pids, commitOk, shutdownOk, evidence, enabled, open, recorded, live>>
    /\ sameStruct /\ UNCHANGED <<process, view>>

\* tab.close of the next id; its answer may be lost.
CloseTab(p) ==
    /\ pc = "closeTab" /\ Up /\ p \in todo
    /\ tabs' = tabs \ {p}
    /\ \/ todo' = todo \ {p} /\ Goto("closeTab")
       \/ QuiesceFails
    /\ UNCHANGED <<pids, commitOk, shutdownOk, evidence, enabled, open, recorded, live>>
    /\ sameStruct /\ UNCHANGED <<process, view>>

\* Fault: the plugins stay enabled while their sidecars are stopped.
ReadPluginsSkips ==
    /\ pc = "closeTab" /\ todo = {} /\ Up
    /\ todo' = {} /\ Goto("disable")
    /\ UNCHANGED <<pids, commitOk, shutdownOk, evidence>> /\ sameStruct /\ sameWorld

ReadPlugins ==
    /\ pc = "closeTab" /\ todo = {} /\ Up
    /\ todo' = enabled /\ Goto("disable")
    /\ UNCHANGED <<pids, commitOk, shutdownOk, evidence>> /\ sameStruct /\ sameWorld

DisablePlugin(p) ==
    /\ pc = "disable" /\ Up /\ p \in todo
    /\ enabled' = enabled \ {p}
    /\ \/ todo' = todo \ {p} /\ Goto("disable")
       \/ QuiesceFails
    /\ UNCHANGED <<pids, commitOk, shutdownOk, evidence, tabs, open, recorded, live>>
    /\ sameStruct /\ UNCHANGED <<process, view>>

\* The answer names every open and every recorded sidecar; an open one comes
\* with its pid, a recorded one may come without.
ReadSidecars ==
    /\ pc = "disable" /\ todo = {} /\ Up
    /\ todo' = open \cup recorded
    /\ \E r \in SUBSET (recorded \ open) :
          pids' = {x \in live : x[1] \in open \cup r}
    /\ Goto("stop")
    /\ UNCHANGED <<commitOk, shutdownOk, evidence>> /\ sameStruct /\ sameWorld

\* sidecar_stop {running:false}: the process has exited, unless it lingers.
StopSidecar(s) ==
    /\ pc = "stop" /\ Up /\ s \in todo
    /\ open' = open \ {s} /\ recorded' = recorded \ {s}
    /\ \/ live' = {x \in live : x[1] # s}
       \/ s \in Lingering /\ UNCHANGED live
    /\ \/ todo' = todo \ {s} /\ Goto("stop")
       \/ QuiesceFails
    /\ UNCHANGED <<pids, commitOk, shutdownOk, evidence, enabled, tabs>>
    /\ sameStruct /\ UNCHANGED <<process, view>>

\* The second sidecar_status.
SidecarsStopped ==
    /\ pc = "stop" /\ todo = {} /\ Up
    /\ IF open \cup recorded = {}
         THEN Goto("gone") /\ UNCHANGED todo
         ELSE QuiesceFails
    /\ UNCHANGED <<pids, commitOk, shutdownOk, evidence>> /\ sameStruct /\ sameWorld

\* Fault: the answer running:false is believed.
PidsBelieved ==
    /\ pc = "gone" /\ QuiesceDone
    /\ UNCHANGED <<todo, pids, commitOk, shutdownOk, evidence>> /\ sameStruct /\ sameWorld

\* processGone for every pid of the first status.
PidsGone ==
    /\ pc = "gone"
    /\ IF pids \cap live = {} THEN QuiesceDone /\ UNCHANGED todo ELSE QuiesceFails
    /\ UNCHANGED <<pids, commitOk, shutdownOk, evidence>> /\ sameStruct /\ sameWorld

--------------------------------------------------------------------------------
(* Shutdown *)

ShutdownNothing ==
    /\ cmd = 0
    /\ Refuse("Shutdown", TRUE)
    /\ sameStruct /\ sameLocals /\ sameWorld

ShutdownEnter ==
    /\ cmd # 0
    /\ Enter("Shutdown", "commit")
    /\ sameStruct /\ sameLocals /\ sameWorld

\* app.shutdown.commit, then the stdin pipe is closed whatever it answered.
ShutdownCommit ==
    /\ pc = "commit"
    /\ \/ Up /\ committed' = TRUE /\ commitOk' \in BOOLEAN
       \/ UNCHANGED committed /\ commitOk' = FALSE
    /\ stdin' = "nil"
    /\ Goto("wait")
    /\ UNCHANGED <<cmd, window, expected, todo, pids, shutdownOk, evidence>>
    /\ UNCHANGED <<app, starts, view, runtime>>

\* The end of Shutdown: its caller is the test, or Finish.
Reaped(ok) ==
    /\ cmd' = 0 /\ commitOk' = FALSE
    /\ IF op = "Finish"
         THEN shutdownOk' = ok /\ Goto("report")
         ELSE UNCHANGED shutdownOk /\ Return(ok)
    /\ UNCHANGED <<stdin, window, expected, todo, pids, evidence>>

\* cmd.Wait copies stdout until nobody holds the pipe's other end.
WaitDone == app \in Ended /\ (ChildrenHoldStdout => live = {})

\* Fault: an exit status of zero hides that the commit was refused.
ShutdownWaitedForgives ==
    /\ pc = "wait" /\ WaitDone
    /\ Reaped(app = "clean")
    /\ sameWorld

ShutdownWaited ==
    /\ pc = "wait" /\ WaitDone
    /\ Reaped(commitOk /\ app = "clean")
    /\ sameWorld

\* 20 seconds passed: kill, then wait for the goroutine without a limit.
Killed == IF app = "up" THEN "killed" ELSE app

\* Fault: the timer fires and nothing is killed.
ShutdownTimeoutSpares ==
    /\ pc = "wait" /\ Goto("drain")
    /\ sameStruct /\ sameLocals /\ sameWorld

ShutdownTimeout ==
    /\ pc = "wait"
    /\ Ends(Killed)
    /\ Goto("drain")
    /\ sameStruct /\ sameLocals
    /\ UNCHANGED <<starts, committed, saved, enabled, tabs, recorded, live>>

ShutdownDrained ==
    /\ pc = "drain" /\ WaitDone
    /\ Reaped(FALSE)
    /\ sameWorld

--------------------------------------------------------------------------------
(* Finish and Close *)

FinishEnter ==
    /\ Enter("Finish", "before")
    /\ sameStruct /\ sameLocals /\ sameWorld

\* ownershipSnapshot before and after the sidecar stop.  When the second one
\* answers, lifecycle.cmd is not nil (NoOrphanApp), so Shutdown goes on.
Snapshot ==
    /\ pc \in {"before", "snapshot"}
    /\ \/ Reachable /\ Goto(IF pc = "before" THEN "tree" ELSE "commit")
       \/ Return(FALSE)
    /\ sameStruct /\ sameLocals /\ sameWorld

\* The evidence file; a failed write hides the outcome of Shutdown.
FinishReport ==
    /\ pc = "report"
    /\ \/ /\ reportRun' = starts /\ reportGraceful' = shutdownOk
          /\ Return(shutdownOk)
       \/ UNCHANGED evidence /\ Return(FALSE)
    /\ shutdownOk' = FALSE
    /\ UNCHANGED <<todo, pids, commitOk>> /\ sameStruct /\ sameWorld

CloseNothing ==
    /\ cmd = 0
    /\ Refuse("Close", TRUE)
    /\ sameStruct /\ sameLocals /\ sameWorld

CloseEnter ==
    /\ cmd # 0
    /\ Enter("Close", "tree")
    /\ sameStruct /\ sameLocals /\ sameWorld

\* Fault: Close waits with cmd.Wait, which waits for the pipes.
CloseKillWaitsForPipes ==
    /\ pc = "kill" /\ (ChildrenHoldStdout => live = {})
    /\ Ends(Killed)
    /\ cmd' = 0
    /\ stdin' = IF stdin = "nil" THEN "nil" ELSE "closed"
    /\ Return(TRUE)
    /\ UNCHANGED <<window, expected, starts, committed, saved, enabled, tabs, recorded, live>>
    /\ sameLocals

\* Kill and Process.Wait: the latter waits for the process, not for its pipes.
CloseKill ==
    /\ pc = "kill"
    /\ Ends(Killed)
    /\ cmd' = 0
    /\ stdin' = IF stdin = "nil" THEN "nil" ELSE "closed"
    /\ Return(TRUE)
    /\ UNCHANGED <<window, expected, starts, committed, saved, enabled, tabs, recorded, live>>
    /\ sameLocals

--------------------------------------------------------------------------------
(* The application, the user interface and the sidecars (external). *)

\* The scenario enables plugins and opens terminal tabs between methods.
EnablePlugin(p) ==
    /\ Up /\ pc = "idle" /\ enabled' = enabled \cup {p}
    /\ UNCHANGED <<harness, process, view, tabs, open, recorded, live>>

OpenTab(p) ==
    /\ Up /\ pc = "idle" /\ p \in enabled /\ tabs' = tabs \cup {p}
    /\ UNCHANGED <<harness, process, view, enabled, open, recorded, live>>

\* An enabled plugin connects its sidecar: the process that runs, or a new one.
SidecarConnect(p) ==
    /\ Up /\ p \in enabled /\ p \notin open
    /\ IF \E x \in live : x[1] = p
         THEN UNCHANGED live
         ELSE \E n \in 1..MaxPids :
                 /\ <<p, n>> \notin pids
                 /\ live' = live \cup {<<p, n>>}
    /\ open' = open \cup {p} /\ recorded' = recorded \cup {p}
    /\ UNCHANGED <<harness, process, view, enabled, tabs>>

SidecarDies(x) ==
    /\ x \in live
    /\ live' = live \ {x} /\ open' = open \ {x[1]}
    /\ UNCHANGED <<harness, process, view, enabled, tabs, recorded>>

\* The application ends by itself: after a commit, on the end of its stdin, or
\* by a crash.
AppEnds(how) ==
    /\ Up
    /\ how = "clean" => committed \/ stdin # "open"
    /\ Ends(how)
    /\ UNCHANGED <<harness, starts, committed, saved, enabled, tabs, recorded, live>>

\* A window of a restarted application may fail to come back.
WindowLost(w) ==
    /\ Up /\ w \in windows \ booted /\ pc = "ready"
    /\ windows' = windows \ {w}
    /\ UNCHANGED <<harness, process, booted, saved, runtime>>

--------------------------------------------------------------------------------
StartSteps ==
    \/ StartSpawn \/ StartRefused \/ StartReady \/ StartNotReady
    \/ StartRenderer \/ StartRendererFails \/ StartBoot \/ StartBootFails
    \/ \E w \in Labels : StartWindowOpen(w)
    \/ StartWindowOpenFails \/ StartOpenRenderer

OpenSteps ==
    \/ OpenWorkspaceKnown \/ OpenWorkspaceUnknown \/ OpenWorkspaceMain
    \/ \E w \in Labels : WorkspaceOpen(w)
    \/ WorkspaceOpenFails \/ WorkspaceRenderer
    \/ AwaitWindowEnter \/ AwaitBoot \/ AwaitPlugins

QuiesceSteps ==
    \/ ReadTree \/ ReadPlugins \/ ReadSidecars \/ SidecarsStopped \/ PidsGone
    \/ QuiesceCallFails
    \/ \E p \in Plugins : CloseTab(p) \/ DisablePlugin(p) \/ StopSidecar(p)

EndSteps ==
    \/ ShutdownNothing \/ ShutdownEnter \/ ShutdownCommit
    \/ ShutdownWaited \/ ShutdownTimeout \/ ShutdownDrained
    \/ FinishEnter \/ Snapshot \/ FinishReport
    \/ CloseNothing \/ CloseEnter \/ CloseKill

Environment ==
    \/ \E p \in Plugins : EnablePlugin(p) \/ OpenTab(p) \/ SidecarConnect(p)
    \/ \E x \in Pids : SidecarDies(x)
    \/ \E how \in {"clean", "crashed"} : AppEnds(how)
    \/ \E w \in Windows : WindowLost(w)

HarnessStep == StartSteps \/ OpenSteps \/ QuiesceSteps \/ EndSteps
Next == HarnessStep \/ Environment

Spec == Init /\ [][Next]_vars

\* The harness goes on where it does not wait for the CLI: its 45 and 20 second
\* timers fire and a wait for a process ends with the process.  A call of the CLI
\* is an external process without a limit; it may never return.
Continue == pc \in LocalPc /\ HarnessStep
FairSpec == Spec /\ WF_vars(Continue)
================================================================================

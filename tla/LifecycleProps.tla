---------------------------- MODULE LifecycleProps ----------------------------
(***************************************************************************)
(* What a system test relies on when it drives the life cycle.             *)
(***************************************************************************)
EXTENDS Lifecycle

ControlTypeOK ==
    /\ pc \in PCs /\ op \in Ops /\ result \in Ops \cup {"none", "error"}
    /\ stdin \in {"nil", "open", "closed"}
    /\ window \in Windows \cup {"none"} /\ expected \in Windows \cup {"none"}
    /\ todo \in SUBSET Plugins

FlagsTypeOK ==
    /\ commitOk \in BOOLEAN /\ shutdownOk \in BOOLEAN
    /\ reportGraceful \in BOOLEAN /\ committed \in BOOLEAN

CountersTypeOK ==
    cmd \in 0..MaxStarts /\ starts \in 0..MaxStarts /\ reportRun \in 0..MaxStarts

WorldTypeOK ==
    /\ app \in {"none", "up"} \cup Ended
    /\ windows \in SUBSET Windows /\ booted \in SUBSET Windows
    /\ saved \in SUBSET Labels
    /\ enabled \in SUBSET Plugins /\ tabs \in SUBSET Plugins
    /\ open \in SUBSET Plugins /\ recorded \in SUBSET Plugins
    /\ live \in SUBSET Pids /\ pids \in SUBSET Pids

TypeOK == ControlTypeOK /\ FlagsTypeOK /\ CountersTypeOK /\ WorldTypeOK

--------------------------------------------------------------------------------
(* The inductive invariant behind the safety properties.  Finish relies on   *)
(* what it established several calls earlier, so the invariant says what is  *)
(* already settled at each of its calls.                                     *)

\* Finish has verified the sidecars and is about to shut down, or has.
Settled ==
    \/ pc = "snapshot"
    \/ op = "Finish" /\ pc \in ShutdownPc \cup {"report"}

FinishProgress ==
    /\ pc \in StartPc \cup OpenPc \cup AwaitPc => op # "Finish"
    /\ pc \in QuiescePc => op \in {"Finish", "Close"}
    /\ pc \in FinishPc => op = "Finish"
    /\ pc \in ClosePc => op = "Close"
    /\ commitOk => committed /\ pc \in {"wait", "drain"}
    /\ Settled => pids \cap live = {}
    /\ pc = "report" /\ shutdownOk => app = "clean" /\ committed
    /\ result = "Finish" => pc = "idle" /\ app = "clean" /\ committed
                            /\ pids \cap live = {}

\* The loops of quiesceTestRuntime: what is still to be visited covers what is
\* still there, because nothing is opened or enabled under them.
QuiesceProgress ==
    /\ pc = "closeTab" => tabs \subseteq todo
    /\ pc = "disable" => tabs = {} /\ enabled \subseteq todo
    /\ pc \in {"stop", "gone"} \/ Settled => enabled = {}

\* A process whose sidecar_stop waits for the exit is gone with its record.
SidecarProgress ==
    /\ \A x \in live : x[1] \in recorded \cup Lingering
    /\ pc = "gone" \/ Settled \/ result = "Finish" => \A x \in live : x[1] \in Lingering

\* A method that ends with the boot of a window knows by then which one it is.
WindowProgress ==
    /\ result # "none" => pc = "idle"
    /\ pc \in StartPc => op = "Start"
    /\ pc \in OpenPc => op = "OpenWorkspace"
    /\ pc \in AwaitPc => op \in {"Start", "OpenWorkspace", "AwaitWindow"}
    /\ pc \in QuiescePc => op \in {"Finish", "Close"}
    /\ pc \in ShutdownPc => op \in {"Shutdown", "Finish"}
    /\ pc \in FinishPc => op = "Finish"
    /\ pc \in ClosePc => op = "Close"
    /\ op = "OpenWorkspace" /\ pc \in {"wsRenderer"} \cup AwaitPc => window \in Labels
    /\ pc \in {"windowOpen", "openRenderer"} => expected = "none"
    /\ op = "Start" /\ pc \in {"boot"} \cup AwaitPc => expected = "none" \/ window = expected

\* When Finish writes its report the process has ended, and the report is not of
\* one that is still to come.
ReportProgress ==
    /\ pc = "report" => app \in Ended
    /\ reportRun <= starts

--------------------------------------------------------------------------------
Returned(method) == result = method

\* The harness never loses track of an application process: while one runs,
\* lifecycle.cmd is that process, through every failed start, early return of
\* Finish, kill and restart.
NoOrphanApp == Up => cmd = starts /\ cmd # 0

\* Finish returned nil: the application accepted the shutdown and ended by
\* itself, and every process the first sidecar_status named is gone, even if
\* sidecar_stop answered before the process had exited.
FinishIsClean ==
    Returned("Finish") => /\ app = "clean" /\ committed
                          /\ pids \cap live = {}

\* Finish returned nil: no sidecar process of the run is left, those of an
\* earlier application process and those restarted meanwhile included, except
\* for a sidecar whose sidecar_stop answers before its process has exited.
NoSidecarLeft == Returned("Finish") => \A x \in live : x[1] \in Lingering

\* The ownership evidence tells the truth about the last process: it ended, and
\* it is called graceful only if the application accepted the shutdown and
\* was not killed.
ReportIsTrue ==
    reportRun # 0 /\ reportRun = starts =>
        /\ app \in Ended
        /\ reportGraceful => app = "clean" /\ committed

\* A method that returns nil leaves the struct on a window whose boot completed
\* in the process that runs now; OpenWorkspace on a workspace window, and Start
\* after a restart on the window the run was on before.
WindowIsReady ==
    /\ \A m \in {"Start", "OpenWorkspace", "AwaitWindow"} :
          Returned(m) /\ Up => window \in booted
    /\ Returned("OpenWorkspace") => window \in Labels
    /\ Returned("Start") /\ expected # "none" => window = expected

\* No plugin is disabled under an open tab of its own: stopTestSidecars closes
\* the tabs first, and a lost answer of tab.close stops the sequence.
TabsCloseFirst == [][\A p \in enabled \ enabled' : p \notin tabs]_vars

\* One call of the CLI never returns (cli.go sets no limit).  Loops over calls
\* are not meant: the harness stays at this one.
Hangs(calls) == \E call \in calls : <>[](pc = call)
Calls == PCs \ (LocalPc \cup {"idle"})

\* Shutdown waits for the process it killed until the last holder of its stdout
\* is gone.
WaitsForPipe == pc = "drain" /\ ChildrenHoldStdout /\ live # {}

\* A method returns unless one single call of the CLI hangs for ever, or it waits
\* for the pipe: no loop over calls goes on for ever, no wait is for something
\* that the harness does not bring about itself, whatever the calls answer and
\* however the application, its windows and its sidecars behave.
MethodsReturn == (pc # "idle" ~> pc = "idle" \/ WaitsForPipe) \/ Hangs(Calls)

\* Close ends without an application, whatever the calls of stopTestSidecars
\* answer and whoever holds the application's stdout: no failed call keeps it
\* from the kill, only one that never returns.
CloseReaps ==
    (pc = "tree" /\ op = "Close" ~> pc = "idle" /\ ~Up) \/ Hangs(QuiescePc \cap Calls)

\* The run implements the ownership protocol of RunOwnership.
Owner == INSTANCE RunOwnership WITH owned <- (cmd # 0), alive <- Up
OwnsOneApp == Owner!Spec
================================================================================

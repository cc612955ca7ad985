---------------------------- MODULE LifecycleProof ----------------------------
(***************************************************************************)
(* Proofs about the life cycle for every set of plugins and labels, every  *)
(* bound, and either answer to the two questions about the environment.    *)
(***************************************************************************)
EXTENDS LifecycleProps, TLAPS

\* A sidecar process is a sidecar and the number of the process.
LEMMA PidTypes == \A p \in Plugins : \A n \in 1..MaxPids : <<p, n>> \in Pids
BY DEF Pids

\* Every variable of the life cycle has its type: type correctness of the
\* Lifecycle struct, its locals and the state it reads from the application.
THEOREM TypeCorrect == Spec => []TypeOK
<1> USE LifecycleAssumption, PidTypes DEF LifecycleAssumption, TypeOK, ControlTypeOK, FlagsTypeOK,
        CountersTypeOK, WorldTypeOK, PCs, StartPc, OpenPc, AwaitPc, QuiescePc,
        FinishPc, ShutdownPc, ClosePc, Ops, Windows, Ended
<1>1. Init => TypeOK
  <2> SUFFICES ASSUME Init PROVE TypeOK
    OBVIOUS
  <2>1. ControlTypeOK
    BY DEF Init
  <2>2. CountersTypeOK
    BY DEF Init
  <2>3. WorldTypeOK
    BY DEF Init
  <2>4. FlagsTypeOK
    BY DEF Init
  <2> QED
    BY <2>1, <2>2, <2>3, <2>4
<1>2. TypeOK /\ [Next]_vars => TypeOK'
  <2> SUFFICES ASSUME TypeOK, [Next]_vars PROVE TypeOK'
    OBVIOUS
  <2> USE DEF Goto, Return, Enter, Refuse, Fails, QuiesceFails, QuiesceDone, Ends, NewWindow,
        Reaped, Killed, WaitDone, Target, Up, Reachable, sameStruct, sameLocals, sameWorld,
          evidence, harness, process, view, runtime
  <2>1. ASSUME StartSteps PROVE TypeOK'
    <3>1. CASE StartSpawn
      <4>1. ControlTypeOK'
        BY <3>1 DEF StartSpawn
      <4>2. CountersTypeOK'
        BY <3>1 DEF StartSpawn
      <4>3. WorldTypeOK'
        BY <3>1 DEF StartSpawn
      <4>4. FlagsTypeOK'
        BY <3>1 DEF StartSpawn
      <4> QED
        BY <4>1, <4>2, <4>3, <4>4
    <3>2. CASE StartRefused
      BY <3>2 DEF StartRefused
    <3>3. CASE StartReady
      BY <3>3 DEF StartReady
    <3>4. CASE StartNotReady
      BY <3>4 DEF StartNotReady
    <3>5. CASE StartRenderer
      BY <3>5 DEF StartRenderer
    <3>6. CASE StartRendererFails
      BY <3>6 DEF StartRendererFails
    <3>7. CASE StartBoot
      BY <3>7 DEF StartBoot
    <3>8. CASE StartBootFails
      BY <3>8 DEF StartBootFails
    <3>9. ASSUME NEW w \in Labels, StartWindowOpen(w) PROVE TypeOK'
      BY <3>9 DEF StartWindowOpen
    <3>10. CASE StartWindowOpenFails
      BY <3>10 DEF StartWindowOpenFails
    <3>11. CASE StartOpenRenderer
      BY <3>11 DEF StartOpenRenderer
    <3> QED
      BY <2>1, <3>1, <3>2, <3>3, <3>4, <3>5, <3>6, <3>7, <3>8, <3>9, <3>10, <3>11 DEF StartSteps
  <2>2. ASSUME OpenSteps PROVE TypeOK'
    <3>1. CASE OpenWorkspaceKnown
      BY <3>1 DEF OpenWorkspaceKnown
    <3>2. CASE OpenWorkspaceUnknown
      BY <3>2 DEF OpenWorkspaceUnknown
    <3>3. CASE OpenWorkspaceMain
      BY <3>3 DEF OpenWorkspaceMain
    <3>4. ASSUME NEW w \in Labels, WorkspaceOpen(w) PROVE TypeOK'
      BY <3>4 DEF WorkspaceOpen
    <3>5. CASE WorkspaceOpenFails
      BY <3>5 DEF WorkspaceOpenFails
    <3>6. CASE WorkspaceRenderer
      BY <3>6 DEF WorkspaceRenderer
    <3>7. CASE AwaitWindowEnter
      BY <3>7 DEF AwaitWindowEnter
    <3>8. CASE AwaitBoot
      BY <3>8 DEF AwaitBoot
    <3>9. CASE AwaitPlugins
      BY <3>9 DEF AwaitPlugins
    <3> QED
      BY <2>2, <3>1, <3>2, <3>3, <3>4, <3>5, <3>6, <3>7, <3>8, <3>9 DEF OpenSteps
  <2>3. ASSUME QuiesceSteps PROVE TypeOK'
    <3>1. CASE ReadTree
      BY <3>1 DEF ReadTree
    <3>2. CASE ReadPlugins
      BY <3>2 DEF ReadPlugins
    <3>3. CASE ReadSidecars
      BY <3>3 DEF ReadSidecars
    <3>4. CASE SidecarsStopped
      BY <3>4 DEF SidecarsStopped
    <3>5. CASE PidsGone
      BY <3>5 DEF PidsGone
    <3>6. CASE QuiesceCallFails
      BY <3>6 DEF QuiesceCallFails
    <3>7. ASSUME NEW p \in Plugins, CloseTab(p) PROVE TypeOK'
      BY <3>7 DEF CloseTab
    <3>8. ASSUME NEW p \in Plugins, DisablePlugin(p) PROVE TypeOK'
      BY <3>8 DEF DisablePlugin
    <3>9. ASSUME NEW p \in Plugins, StopSidecar(p) PROVE TypeOK'
      BY <3>9 DEF StopSidecar
    <3> QED
      BY <2>3, <3>1, <3>2, <3>3, <3>4, <3>5, <3>6, <3>7, <3>8, <3>9 DEF QuiesceSteps
  <2>4. ASSUME EndSteps PROVE TypeOK'
    <3>1. CASE ShutdownNothing
      BY <3>1 DEF ShutdownNothing
    <3>2. CASE ShutdownEnter
      BY <3>2 DEF ShutdownEnter
    <3>3. CASE ShutdownCommit
      <4>1. ControlTypeOK'
        BY <3>3 DEF ShutdownCommit
      <4>2. CountersTypeOK'
        BY <3>3 DEF ShutdownCommit
      <4>3. WorldTypeOK'
        BY <3>3 DEF ShutdownCommit
      <4>4. FlagsTypeOK'
        BY <3>3 DEF ShutdownCommit
      <4> QED
        BY <4>1, <4>2, <4>3, <4>4
    <3>4. CASE ShutdownWaited
      <4>1. ControlTypeOK'
        BY <3>4 DEF ShutdownWaited
      <4>2. CountersTypeOK'
        BY <3>4 DEF ShutdownWaited
      <4>3. WorldTypeOK'
        BY <3>4 DEF ShutdownWaited
      <4>4. FlagsTypeOK'
        BY <3>4 DEF ShutdownWaited
      <4> QED
        BY <4>1, <4>2, <4>3, <4>4
    <3>5. CASE ShutdownTimeout
      BY <3>5 DEF ShutdownTimeout
    <3>6. CASE ShutdownDrained
      <4>1. ControlTypeOK'
        BY <3>6 DEF ShutdownDrained
      <4>2. CountersTypeOK'
        BY <3>6 DEF ShutdownDrained
      <4>3. WorldTypeOK'
        BY <3>6 DEF ShutdownDrained
      <4>4. FlagsTypeOK'
        BY <3>6 DEF ShutdownDrained
      <4> QED
        BY <4>1, <4>2, <4>3, <4>4
    <3>7. CASE FinishEnter
      BY <3>7 DEF FinishEnter
    <3>8. CASE Snapshot
      BY <3>8 DEF Snapshot
    <3>9. CASE FinishReport
      <4>1. ControlTypeOK'
        BY <3>9 DEF FinishReport
      <4>2. CountersTypeOK'
        BY <3>9 DEF FinishReport
      <4>3. WorldTypeOK'
        BY <3>9 DEF FinishReport
      <4>4. FlagsTypeOK'
        BY <3>9 DEF FinishReport
      <4> QED
        BY <4>1, <4>2, <4>3, <4>4
    <3>10. CASE CloseNothing
      BY <3>10 DEF CloseNothing
    <3>11. CASE CloseEnter
      BY <3>11 DEF CloseEnter
    <3>12. CASE CloseKill
      BY <3>12 DEF CloseKill
    <3> QED
      BY <2>4, <3>1, <3>2, <3>3, <3>4, <3>5, <3>6, <3>7, <3>8, <3>9, <3>10, <3>11, <3>12 DEF EndSteps
  <2>5. ASSUME Environment PROVE TypeOK'
    <3>1. ASSUME NEW p \in Plugins, EnablePlugin(p) PROVE TypeOK'
      BY <3>1 DEF EnablePlugin
    <3>2. ASSUME NEW p \in Plugins, OpenTab(p) PROVE TypeOK'
      BY <3>2 DEF OpenTab
    <3>3. ASSUME NEW p \in Plugins, SidecarConnect(p) PROVE TypeOK'
      <4>1. ControlTypeOK'
        BY <3>3 DEF SidecarConnect
      <4>2. CountersTypeOK'
        BY <3>3 DEF SidecarConnect
      <4>3. WorldTypeOK'
        <5>1. live' \in SUBSET Pids
          <6>1. \/ live' = live
                \/ \E n \in 1..MaxPids : live' = live \cup {<<p, n>>}
            BY <3>3 DEF SidecarConnect
          <6>2. ASSUME NEW n \in 1..MaxPids PROVE <<p, n>> \in Pids
            BY PidTypes
          <6> QED
            BY <6>1, <6>2
        <5> QED
          BY <3>3, <5>1 DEF SidecarConnect
      <4>4. FlagsTypeOK'
        BY <3>3 DEF SidecarConnect
      <4> QED
        BY <4>1, <4>2, <4>3, <4>4
    <3>4. ASSUME NEW x \in Pids, SidecarDies(x) PROVE TypeOK'
      BY <3>4 DEF SidecarDies
    <3>5. ASSUME NEW how \in {"clean", "crashed"}, AppEnds(how) PROVE TypeOK'
      BY <3>5 DEF AppEnds
    <3>6. ASSUME NEW w \in Windows, WindowLost(w) PROVE TypeOK'
      BY <3>6 DEF WindowLost
    <3> QED
      BY <2>5, <3>1, <3>2, <3>3, <3>4, <3>5, <3>6 DEF Environment
  <2>6. CASE UNCHANGED vars
    BY <2>6 DEF vars
  <2> QED
    BY <2>1, <2>2, <2>3, <2>4, <2>5, <2>6 DEF Next, HarnessStep
<1> QED
  BY <1>1, <1>2, PTL DEF Spec

\* The harness never loses track of an application process: every step keeps
\* a running process in lifecycle.cmd, whatever failed before.
THEOREM Ownership == Spec => []NoOrphanApp
<1>1. Init => NoOrphanApp
  BY DEF Init, NoOrphanApp, Up
<1>2. TypeOK /\ NoOrphanApp /\ [Next]_vars => NoOrphanApp'
  <2> SUFFICES ASSUME CountersTypeOK, NoOrphanApp, [Next]_vars PROVE NoOrphanApp'
    BY DEF TypeOK
  <2> USE DEF CountersTypeOK, NoOrphanApp, Ended, Goto, Return, Enter, Refuse, Fails, QuiesceFails, QuiesceDone, Ends, NewWindow,
          Reaped, Killed, WaitDone, Target, Up, Reachable, sameStruct, sameLocals, sameWorld,
          evidence, harness, process, view, runtime
  <2>1. ASSUME StartSteps PROVE NoOrphanApp'
    <3>1. CASE StartSpawn
      BY <3>1 DEF StartSpawn
    <3>2. CASE StartRefused
      BY <3>2 DEF StartRefused
    <3>3. CASE StartReady
      BY <3>3 DEF StartReady
    <3>4. CASE StartNotReady
      BY <3>4 DEF StartNotReady
    <3>5. CASE StartRenderer
      BY <3>5 DEF StartRenderer
    <3>6. CASE StartRendererFails
      BY <3>6 DEF StartRendererFails
    <3>7. CASE StartBoot
      BY <3>7 DEF StartBoot
    <3>8. CASE StartBootFails
      BY <3>8 DEF StartBootFails
    <3>9. ASSUME NEW w \in Labels, StartWindowOpen(w) PROVE NoOrphanApp'
      BY <3>9 DEF StartWindowOpen
    <3>10. CASE StartWindowOpenFails
      BY <3>10 DEF StartWindowOpenFails
    <3>11. CASE StartOpenRenderer
      BY <3>11 DEF StartOpenRenderer
    <3> QED
      BY <2>1, <3>1, <3>2, <3>3, <3>4, <3>5, <3>6, <3>7, <3>8, <3>9, <3>10, <3>11 DEF StartSteps
  <2>2. ASSUME OpenSteps PROVE NoOrphanApp'
    <3>1. CASE OpenWorkspaceKnown
      BY <3>1 DEF OpenWorkspaceKnown
    <3>2. CASE OpenWorkspaceUnknown
      BY <3>2 DEF OpenWorkspaceUnknown
    <3>3. CASE OpenWorkspaceMain
      BY <3>3 DEF OpenWorkspaceMain
    <3>4. ASSUME NEW w \in Labels, WorkspaceOpen(w) PROVE NoOrphanApp'
      BY <3>4 DEF WorkspaceOpen
    <3>5. CASE WorkspaceOpenFails
      BY <3>5 DEF WorkspaceOpenFails
    <3>6. CASE WorkspaceRenderer
      BY <3>6 DEF WorkspaceRenderer
    <3>7. CASE AwaitWindowEnter
      BY <3>7 DEF AwaitWindowEnter
    <3>8. CASE AwaitBoot
      BY <3>8 DEF AwaitBoot
    <3>9. CASE AwaitPlugins
      BY <3>9 DEF AwaitPlugins
    <3> QED
      BY <2>2, <3>1, <3>2, <3>3, <3>4, <3>5, <3>6, <3>7, <3>8, <3>9 DEF OpenSteps
  <2>3. ASSUME QuiesceSteps PROVE NoOrphanApp'
    <3>1. CASE ReadTree
      BY <3>1 DEF ReadTree
    <3>2. CASE ReadPlugins
      BY <3>2 DEF ReadPlugins
    <3>3. CASE ReadSidecars
      BY <3>3 DEF ReadSidecars
    <3>4. CASE SidecarsStopped
      BY <3>4 DEF SidecarsStopped
    <3>5. CASE PidsGone
      BY <3>5 DEF PidsGone
    <3>6. CASE QuiesceCallFails
      BY <3>6 DEF QuiesceCallFails
    <3>7. ASSUME NEW p \in Plugins, CloseTab(p) PROVE NoOrphanApp'
      BY <3>7 DEF CloseTab
    <3>8. ASSUME NEW p \in Plugins, DisablePlugin(p) PROVE NoOrphanApp'
      BY <3>8 DEF DisablePlugin
    <3>9. ASSUME NEW p \in Plugins, StopSidecar(p) PROVE NoOrphanApp'
      BY <3>9 DEF StopSidecar
    <3> QED
      BY <2>3, <3>1, <3>2, <3>3, <3>4, <3>5, <3>6, <3>7, <3>8, <3>9 DEF QuiesceSteps
  <2>4. ASSUME EndSteps PROVE NoOrphanApp'
    <3>1. CASE ShutdownNothing
      BY <3>1 DEF ShutdownNothing
    <3>2. CASE ShutdownEnter
      BY <3>2 DEF ShutdownEnter
    <3>3. CASE ShutdownCommit
      BY <3>3 DEF ShutdownCommit
    <3>4. CASE ShutdownWaited
      BY <3>4 DEF ShutdownWaited
    <3>5. CASE ShutdownTimeout
      BY <3>5 DEF ShutdownTimeout
    <3>6. CASE ShutdownDrained
      BY <3>6 DEF ShutdownDrained
    <3>7. CASE FinishEnter
      BY <3>7 DEF FinishEnter
    <3>8. CASE Snapshot
      BY <3>8 DEF Snapshot
    <3>9. CASE FinishReport
      BY <3>9 DEF FinishReport
    <3>10. CASE CloseNothing
      BY <3>10 DEF CloseNothing
    <3>11. CASE CloseEnter
      BY <3>11 DEF CloseEnter
    <3>12. CASE CloseKill
      BY <3>12 DEF CloseKill
    <3> QED
      BY <2>4, <3>1, <3>2, <3>3, <3>4, <3>5, <3>6, <3>7, <3>8, <3>9, <3>10, <3>11, <3>12 DEF EndSteps
  <2>5. ASSUME Environment PROVE NoOrphanApp'
    <3>1. ASSUME NEW p \in Plugins, EnablePlugin(p) PROVE NoOrphanApp'
      BY <3>1 DEF EnablePlugin
    <3>2. ASSUME NEW p \in Plugins, OpenTab(p) PROVE NoOrphanApp'
      BY <3>2 DEF OpenTab
    <3>3. ASSUME NEW p \in Plugins, SidecarConnect(p) PROVE NoOrphanApp'
      BY <3>3 DEF SidecarConnect
    <3>4. ASSUME NEW x \in Pids, SidecarDies(x) PROVE NoOrphanApp'
      BY <3>4 DEF SidecarDies
    <3>5. ASSUME NEW how \in {"clean", "crashed"}, AppEnds(how) PROVE NoOrphanApp'
      BY <3>5 DEF AppEnds
    <3>6. ASSUME NEW w \in Windows, WindowLost(w) PROVE NoOrphanApp'
      BY <3>6 DEF WindowLost
    <3> QED
      BY <2>5, <3>1, <3>2, <3>3, <3>4, <3>5, <3>6 DEF Environment
  <2>6. CASE UNCHANGED vars
    BY <2>6 DEF vars
  <2> QED
    BY <2>1, <2>2, <2>3, <2>4, <2>5, <2>6 DEF Next, HarnessStep
<1> QED
  BY <1>1, <1>2, TypeCorrect, PTL DEF Spec

\* FinishProgress: what Finish has settled at each of its calls, from the
\* verified sidecars over the reaped process to its return.
LEMMA FinishProgresses == Spec => []FinishProgress
<1> USE DEF StartPc, OpenPc, AwaitPc, QuiescePc, FinishPc, ClosePc, ShutdownPc, Ended, Settled, FinishProgress
<1>1. Init => FinishProgress
  BY DEF Init
<1>2. FinishProgress /\ [Next]_vars => FinishProgress'
  <2> SUFFICES ASSUME FinishProgress, [Next]_vars PROVE FinishProgress'
    OBVIOUS
  <2> USE DEF Goto, Return, Enter, Refuse, Fails, QuiesceFails, QuiesceDone, Ends, NewWindow,
          Reaped, Killed, WaitDone, Target, Up, Reachable, sameStruct, sameLocals, sameWorld,
          evidence, harness, process, view, runtime
  <2>1. ASSUME StartSteps PROVE FinishProgress'
    <3>1. CASE StartSpawn
      BY <3>1 DEF StartSpawn
    <3>2. CASE StartRefused
      BY <3>2 DEF StartRefused
    <3>3. CASE StartReady
      BY <3>3 DEF StartReady
    <3>4. CASE StartNotReady
      BY <3>4 DEF StartNotReady
    <3>5. CASE StartRenderer
      BY <3>5 DEF StartRenderer
    <3>6. CASE StartRendererFails
      BY <3>6 DEF StartRendererFails
    <3>7. CASE StartBoot
      BY <3>7 DEF StartBoot
    <3>8. CASE StartBootFails
      BY <3>8 DEF StartBootFails
    <3>9. ASSUME NEW w \in Labels, StartWindowOpen(w) PROVE FinishProgress'
      BY <3>9 DEF StartWindowOpen
    <3>10. CASE StartWindowOpenFails
      BY <3>10 DEF StartWindowOpenFails
    <3>11. CASE StartOpenRenderer
      BY <3>11 DEF StartOpenRenderer
    <3> QED
      BY <2>1, <3>1, <3>2, <3>3, <3>4, <3>5, <3>6, <3>7, <3>8, <3>9, <3>10, <3>11 DEF StartSteps
  <2>2. ASSUME OpenSteps PROVE FinishProgress'
    <3>1. CASE OpenWorkspaceKnown
      BY <3>1 DEF OpenWorkspaceKnown
    <3>2. CASE OpenWorkspaceUnknown
      BY <3>2 DEF OpenWorkspaceUnknown
    <3>3. CASE OpenWorkspaceMain
      BY <3>3 DEF OpenWorkspaceMain
    <3>4. ASSUME NEW w \in Labels, WorkspaceOpen(w) PROVE FinishProgress'
      BY <3>4 DEF WorkspaceOpen
    <3>5. CASE WorkspaceOpenFails
      BY <3>5 DEF WorkspaceOpenFails
    <3>6. CASE WorkspaceRenderer
      BY <3>6 DEF WorkspaceRenderer
    <3>7. CASE AwaitWindowEnter
      BY <3>7 DEF AwaitWindowEnter
    <3>8. CASE AwaitBoot
      BY <3>8 DEF AwaitBoot
    <3>9. CASE AwaitPlugins
      BY <3>9 DEF AwaitPlugins
    <3> QED
      BY <2>2, <3>1, <3>2, <3>3, <3>4, <3>5, <3>6, <3>7, <3>8, <3>9 DEF OpenSteps
  <2>3. ASSUME QuiesceSteps PROVE FinishProgress'
    <3>1. CASE ReadTree
      BY <3>1 DEF ReadTree
    <3>2. CASE ReadPlugins
      BY <3>2 DEF ReadPlugins
    <3>3. CASE ReadSidecars
      BY <3>3 DEF ReadSidecars
    <3>4. CASE SidecarsStopped
      BY <3>4 DEF SidecarsStopped
    <3>5. CASE PidsGone
      BY <3>5 DEF PidsGone
    <3>6. CASE QuiesceCallFails
      BY <3>6 DEF QuiesceCallFails
    <3>7. ASSUME NEW p \in Plugins, CloseTab(p) PROVE FinishProgress'
      BY <3>7 DEF CloseTab
    <3>8. ASSUME NEW p \in Plugins, DisablePlugin(p) PROVE FinishProgress'
      BY <3>8 DEF DisablePlugin
    <3>9. ASSUME NEW p \in Plugins, StopSidecar(p) PROVE FinishProgress'
      BY <3>9 DEF StopSidecar
    <3> QED
      BY <2>3, <3>1, <3>2, <3>3, <3>4, <3>5, <3>6, <3>7, <3>8, <3>9 DEF QuiesceSteps
  <2>4. ASSUME EndSteps PROVE FinishProgress'
    <3>1. CASE ShutdownNothing
      BY <3>1 DEF ShutdownNothing
    <3>2. CASE ShutdownEnter
      BY <3>2 DEF ShutdownEnter
    <3>3. CASE ShutdownCommit
      BY <3>3 DEF ShutdownCommit
    <3>4. CASE ShutdownWaited
      BY <3>4 DEF ShutdownWaited
    <3>5. CASE ShutdownTimeout
      BY <3>5 DEF ShutdownTimeout
    <3>6. CASE ShutdownDrained
      BY <3>6 DEF ShutdownDrained
    <3>7. CASE FinishEnter
      BY <3>7 DEF FinishEnter
    <3>8. CASE Snapshot
      BY <3>8 DEF Snapshot
    <3>9. CASE FinishReport
      BY <3>9 DEF FinishReport
    <3>10. CASE CloseNothing
      BY <3>10 DEF CloseNothing
    <3>11. CASE CloseEnter
      BY <3>11 DEF CloseEnter
    <3>12. CASE CloseKill
      BY <3>12 DEF CloseKill
    <3> QED
      BY <2>4, <3>1, <3>2, <3>3, <3>4, <3>5, <3>6, <3>7, <3>8, <3>9, <3>10, <3>11, <3>12 DEF EndSteps
  <2>5. ASSUME Environment PROVE FinishProgress'
    <3>1. ASSUME NEW p \in Plugins, EnablePlugin(p) PROVE FinishProgress'
      BY <3>1 DEF EnablePlugin
    <3>2. ASSUME NEW p \in Plugins, OpenTab(p) PROVE FinishProgress'
      BY <3>2 DEF OpenTab
    <3>3. ASSUME NEW p \in Plugins, SidecarConnect(p) PROVE FinishProgress'
      BY <3>3 DEF SidecarConnect
    <3>4. ASSUME NEW x \in Pids, SidecarDies(x) PROVE FinishProgress'
      BY <3>4 DEF SidecarDies
    <3>5. ASSUME NEW how \in {"clean", "crashed"}, AppEnds(how) PROVE FinishProgress'
      BY <3>5 DEF AppEnds
    <3>6. ASSUME NEW w \in Windows, WindowLost(w) PROVE FinishProgress'
      BY <3>6 DEF WindowLost
    <3> QED
      BY <2>5, <3>1, <3>2, <3>3, <3>4, <3>5, <3>6 DEF Environment
  <2>6. CASE UNCHANGED vars
    BY <2>6 DEF vars
  <2> QED
    BY <2>1, <2>2, <2>3, <2>4, <2>5, <2>6 DEF Next, HarnessStep
<1> QED
  BY <1>1, <1>2, PTL DEF Spec

\* Finish returns nil only for a run that ended by itself after it accepted the
\* shutdown, and of whose sidecars no process of the first status is left.
THEOREM CleanFinish == Spec => []FinishIsClean
<1>1. FinishProgress => FinishIsClean
  BY DEF FinishProgress, FinishIsClean, Returned
<1> QED
  BY <1>1, FinishProgresses, PTL

\* QuiesceProgress: the tab and plugin loops of quiesceTestRuntime still have in
\* front of them whatever is open or enabled.
LEMMA QuiesceProgresses == Spec => []QuiesceProgress
<1> USE DEF QuiescePc, FinishPc, ShutdownPc, Settled, QuiesceProgress
<1>1. Init => QuiesceProgress
  BY DEF Init
<1>2. FinishProgress /\ QuiesceProgress /\ [Next]_vars => QuiesceProgress'
  <2> SUFFICES ASSUME FinishProgress, QuiesceProgress, [Next]_vars
               PROVE  QuiesceProgress'
    OBVIOUS
  <2> USE DEF FinishProgress, Goto, Return, Enter, Refuse, Fails, QuiesceFails, QuiesceDone, Ends, NewWindow,
          Reaped, Killed, WaitDone, Target, Up, Reachable, sameStruct, sameLocals, sameWorld,
          evidence, harness, process, view, runtime
  <2>1. ASSUME StartSteps PROVE QuiesceProgress'
    <3>1. CASE StartSpawn
      BY <3>1 DEF StartSpawn
    <3>2. CASE StartRefused
      BY <3>2 DEF StartRefused
    <3>3. CASE StartReady
      BY <3>3 DEF StartReady
    <3>4. CASE StartNotReady
      BY <3>4 DEF StartNotReady
    <3>5. CASE StartRenderer
      BY <3>5 DEF StartRenderer
    <3>6. CASE StartRendererFails
      BY <3>6 DEF StartRendererFails
    <3>7. CASE StartBoot
      BY <3>7 DEF StartBoot
    <3>8. CASE StartBootFails
      BY <3>8 DEF StartBootFails
    <3>9. ASSUME NEW w \in Labels, StartWindowOpen(w) PROVE QuiesceProgress'
      BY <3>9 DEF StartWindowOpen
    <3>10. CASE StartWindowOpenFails
      BY <3>10 DEF StartWindowOpenFails
    <3>11. CASE StartOpenRenderer
      BY <3>11 DEF StartOpenRenderer
    <3> QED
      BY <2>1, <3>1, <3>2, <3>3, <3>4, <3>5, <3>6, <3>7, <3>8, <3>9, <3>10, <3>11 DEF StartSteps
  <2>2. ASSUME OpenSteps PROVE QuiesceProgress'
    <3>1. CASE OpenWorkspaceKnown
      BY <3>1 DEF OpenWorkspaceKnown
    <3>2. CASE OpenWorkspaceUnknown
      BY <3>2 DEF OpenWorkspaceUnknown
    <3>3. CASE OpenWorkspaceMain
      BY <3>3 DEF OpenWorkspaceMain
    <3>4. ASSUME NEW w \in Labels, WorkspaceOpen(w) PROVE QuiesceProgress'
      BY <3>4 DEF WorkspaceOpen
    <3>5. CASE WorkspaceOpenFails
      BY <3>5 DEF WorkspaceOpenFails
    <3>6. CASE WorkspaceRenderer
      BY <3>6 DEF WorkspaceRenderer
    <3>7. CASE AwaitWindowEnter
      BY <3>7 DEF AwaitWindowEnter
    <3>8. CASE AwaitBoot
      BY <3>8 DEF AwaitBoot
    <3>9. CASE AwaitPlugins
      BY <3>9 DEF AwaitPlugins
    <3> QED
      BY <2>2, <3>1, <3>2, <3>3, <3>4, <3>5, <3>6, <3>7, <3>8, <3>9 DEF OpenSteps
  <2>3. ASSUME QuiesceSteps PROVE QuiesceProgress'
    <3>1. CASE ReadTree
      BY <3>1 DEF ReadTree
    <3>2. CASE ReadPlugins
      BY <3>2 DEF ReadPlugins
    <3>3. CASE ReadSidecars
      BY <3>3 DEF ReadSidecars
    <3>4. CASE SidecarsStopped
      BY <3>4 DEF SidecarsStopped
    <3>5. CASE PidsGone
      BY <3>5 DEF PidsGone
    <3>6. CASE QuiesceCallFails
      BY <3>6 DEF QuiesceCallFails
    <3>7. ASSUME NEW p \in Plugins, CloseTab(p) PROVE QuiesceProgress'
      BY <3>7 DEF CloseTab
    <3>8. ASSUME NEW p \in Plugins, DisablePlugin(p) PROVE QuiesceProgress'
      BY <3>8 DEF DisablePlugin
    <3>9. ASSUME NEW p \in Plugins, StopSidecar(p) PROVE QuiesceProgress'
      BY <3>9 DEF StopSidecar
    <3> QED
      BY <2>3, <3>1, <3>2, <3>3, <3>4, <3>5, <3>6, <3>7, <3>8, <3>9 DEF QuiesceSteps
  <2>4. ASSUME EndSteps PROVE QuiesceProgress'
    <3>1. CASE ShutdownNothing
      BY <3>1 DEF ShutdownNothing
    <3>2. CASE ShutdownEnter
      BY <3>2 DEF ShutdownEnter
    <3>3. CASE ShutdownCommit
      BY <3>3 DEF ShutdownCommit
    <3>4. CASE ShutdownWaited
      BY <3>4 DEF ShutdownWaited
    <3>5. CASE ShutdownTimeout
      BY <3>5 DEF ShutdownTimeout
    <3>6. CASE ShutdownDrained
      BY <3>6 DEF ShutdownDrained
    <3>7. CASE FinishEnter
      BY <3>7 DEF FinishEnter
    <3>8. CASE Snapshot
      BY <3>8 DEF Snapshot
    <3>9. CASE FinishReport
      BY <3>9 DEF FinishReport
    <3>10. CASE CloseNothing
      BY <3>10 DEF CloseNothing
    <3>11. CASE CloseEnter
      BY <3>11 DEF CloseEnter
    <3>12. CASE CloseKill
      BY <3>12 DEF CloseKill
    <3> QED
      BY <2>4, <3>1, <3>2, <3>3, <3>4, <3>5, <3>6, <3>7, <3>8, <3>9, <3>10, <3>11, <3>12 DEF EndSteps
  <2>5. ASSUME Environment PROVE QuiesceProgress'
    <3>1. ASSUME NEW p \in Plugins, EnablePlugin(p) PROVE QuiesceProgress'
      BY <3>1 DEF EnablePlugin
    <3>2. ASSUME NEW p \in Plugins, OpenTab(p) PROVE QuiesceProgress'
      BY <3>2 DEF OpenTab
    <3>3. ASSUME NEW p \in Plugins, SidecarConnect(p) PROVE QuiesceProgress'
      BY <3>3 DEF SidecarConnect
    <3>4. ASSUME NEW x \in Pids, SidecarDies(x) PROVE QuiesceProgress'
      BY <3>4 DEF SidecarDies
    <3>5. ASSUME NEW how \in {"clean", "crashed"}, AppEnds(how) PROVE QuiesceProgress'
      BY <3>5 DEF AppEnds
    <3>6. ASSUME NEW w \in Windows, WindowLost(w) PROVE QuiesceProgress'
      BY <3>6 DEF WindowLost
    <3> QED
      BY <2>5, <3>1, <3>2, <3>3, <3>4, <3>5, <3>6 DEF Environment
  <2>6. CASE UNCHANGED vars
    BY <2>6 DEF vars
  <2> QED
    BY <2>1, <2>2, <2>3, <2>4, <2>5, <2>6 DEF Next, HarnessStep
<1> QED
  BY <1>1, <1>2, FinishProgresses, PTL DEF Spec

\* No plugin is disabled under an open tab of its own.
THEOREM TabsFirst == Spec => TabsCloseFirst
<1> DEFINE A == \A p \in enabled \ enabled' : p \notin tabs
<1>1. QuiesceProgress /\ [Next]_vars => [A]_vars
  <2> SUFFICES ASSUME QuiesceProgress, [Next]_vars PROVE A \/ UNCHANGED vars
    OBVIOUS
  <2> USE DEF QuiesceProgress, Goto, Return, Enter, Refuse, Fails, QuiesceFails, QuiesceDone, Ends, NewWindow,
          Reaped, Killed, WaitDone, Target, Up, Reachable, sameStruct, sameLocals, sameWorld,
          evidence, harness, process, view, runtime
  <2>1. ASSUME StartSteps PROVE A
    <3>1. CASE StartSpawn
      BY <3>1 DEF StartSpawn
    <3>2. CASE StartRefused
      BY <3>2 DEF StartRefused
    <3>3. CASE StartReady
      BY <3>3 DEF StartReady
    <3>4. CASE StartNotReady
      BY <3>4 DEF StartNotReady
    <3>5. CASE StartRenderer
      BY <3>5 DEF StartRenderer
    <3>6. CASE StartRendererFails
      BY <3>6 DEF StartRendererFails
    <3>7. CASE StartBoot
      BY <3>7 DEF StartBoot
    <3>8. CASE StartBootFails
      BY <3>8 DEF StartBootFails
    <3>9. ASSUME NEW w \in Labels, StartWindowOpen(w) PROVE A
      BY <3>9 DEF StartWindowOpen
    <3>10. CASE StartWindowOpenFails
      BY <3>10 DEF StartWindowOpenFails
    <3>11. CASE StartOpenRenderer
      BY <3>11 DEF StartOpenRenderer
    <3> QED
      BY <2>1, <3>1, <3>2, <3>3, <3>4, <3>5, <3>6, <3>7, <3>8, <3>9, <3>10, <3>11 DEF StartSteps
  <2>2. ASSUME OpenSteps PROVE A
    <3>1. CASE OpenWorkspaceKnown
      BY <3>1 DEF OpenWorkspaceKnown
    <3>2. CASE OpenWorkspaceUnknown
      BY <3>2 DEF OpenWorkspaceUnknown
    <3>3. CASE OpenWorkspaceMain
      BY <3>3 DEF OpenWorkspaceMain
    <3>4. ASSUME NEW w \in Labels, WorkspaceOpen(w) PROVE A
      BY <3>4 DEF WorkspaceOpen
    <3>5. CASE WorkspaceOpenFails
      BY <3>5 DEF WorkspaceOpenFails
    <3>6. CASE WorkspaceRenderer
      BY <3>6 DEF WorkspaceRenderer
    <3>7. CASE AwaitWindowEnter
      BY <3>7 DEF AwaitWindowEnter
    <3>8. CASE AwaitBoot
      BY <3>8 DEF AwaitBoot
    <3>9. CASE AwaitPlugins
      BY <3>9 DEF AwaitPlugins
    <3> QED
      BY <2>2, <3>1, <3>2, <3>3, <3>4, <3>5, <3>6, <3>7, <3>8, <3>9 DEF OpenSteps
  <2>3. ASSUME QuiesceSteps PROVE A
    <3>1. CASE ReadTree
      BY <3>1 DEF ReadTree
    <3>2. CASE ReadPlugins
      BY <3>2 DEF ReadPlugins
    <3>3. CASE ReadSidecars
      BY <3>3 DEF ReadSidecars
    <3>4. CASE SidecarsStopped
      BY <3>4 DEF SidecarsStopped
    <3>5. CASE PidsGone
      BY <3>5 DEF PidsGone
    <3>6. CASE QuiesceCallFails
      BY <3>6 DEF QuiesceCallFails
    <3>7. ASSUME NEW p \in Plugins, CloseTab(p) PROVE A
      BY <3>7 DEF CloseTab
    <3>8. ASSUME NEW p \in Plugins, DisablePlugin(p) PROVE A
      BY <3>8 DEF DisablePlugin
    <3>9. ASSUME NEW p \in Plugins, StopSidecar(p) PROVE A
      BY <3>9 DEF StopSidecar
    <3> QED
      BY <2>3, <3>1, <3>2, <3>3, <3>4, <3>5, <3>6, <3>7, <3>8, <3>9 DEF QuiesceSteps
  <2>4. ASSUME EndSteps PROVE A
    <3>1. CASE ShutdownNothing
      BY <3>1 DEF ShutdownNothing
    <3>2. CASE ShutdownEnter
      BY <3>2 DEF ShutdownEnter
    <3>3. CASE ShutdownCommit
      BY <3>3 DEF ShutdownCommit
    <3>4. CASE ShutdownWaited
      BY <3>4 DEF ShutdownWaited
    <3>5. CASE ShutdownTimeout
      BY <3>5 DEF ShutdownTimeout
    <3>6. CASE ShutdownDrained
      BY <3>6 DEF ShutdownDrained
    <3>7. CASE FinishEnter
      BY <3>7 DEF FinishEnter
    <3>8. CASE Snapshot
      BY <3>8 DEF Snapshot
    <3>9. CASE FinishReport
      BY <3>9 DEF FinishReport
    <3>10. CASE CloseNothing
      BY <3>10 DEF CloseNothing
    <3>11. CASE CloseEnter
      BY <3>11 DEF CloseEnter
    <3>12. CASE CloseKill
      BY <3>12 DEF CloseKill
    <3> QED
      BY <2>4, <3>1, <3>2, <3>3, <3>4, <3>5, <3>6, <3>7, <3>8, <3>9, <3>10, <3>11, <3>12 DEF EndSteps
  <2>5. ASSUME Environment PROVE A
    <3>1. ASSUME NEW p \in Plugins, EnablePlugin(p) PROVE A
      BY <3>1 DEF EnablePlugin
    <3>2. ASSUME NEW p \in Plugins, OpenTab(p) PROVE A
      BY <3>2 DEF OpenTab
    <3>3. ASSUME NEW p \in Plugins, SidecarConnect(p) PROVE A
      BY <3>3 DEF SidecarConnect
    <3>4. ASSUME NEW x \in Pids, SidecarDies(x) PROVE A
      BY <3>4 DEF SidecarDies
    <3>5. ASSUME NEW how \in {"clean", "crashed"}, AppEnds(how) PROVE A
      BY <3>5 DEF AppEnds
    <3>6. ASSUME NEW w \in Windows, WindowLost(w) PROVE A
      BY <3>6 DEF WindowLost
    <3> QED
      BY <2>5, <3>1, <3>2, <3>3, <3>4, <3>5, <3>6 DEF Environment
  <2>6. CASE UNCHANGED vars
    BY <2>6
  <2> QED
    BY <2>1, <2>2, <2>3, <2>4, <2>5, <2>6 DEF Next, HarnessStep
<1> QED
  BY <1>1, QuiesceProgresses, PTL DEF Spec, TabsCloseFirst

\* SidecarProgress: a live process of a sidecar whose stop waits for the exit is
\* recorded, and after the second sidecar_status none of these is left.
LEMMA SidecarProgresses == Spec => []SidecarProgress
<1> USE DEF AwaitPc, QuiescePc, FinishPc, ShutdownPc, ClosePc, Settled, SidecarProgress
<1>1. Init => SidecarProgress
  BY DEF Init
<1>2. FinishProgress /\ QuiesceProgress /\ SidecarProgress /\ [Next]_vars
        => SidecarProgress'
  <2> SUFFICES ASSUME FinishProgress, QuiesceProgress, SidecarProgress, [Next]_vars
               PROVE  SidecarProgress'
    OBVIOUS
  <2> USE DEF FinishProgress, QuiesceProgress, Goto, Return, Enter, Refuse, Fails, QuiesceFails, QuiesceDone, Ends, NewWindow,
          Reaped, Killed, WaitDone, Target, Up, Reachable, sameStruct, sameLocals, sameWorld,
          evidence, harness, process, view, runtime
  <2>1. ASSUME StartSteps PROVE SidecarProgress'
    <3>1. CASE StartSpawn
      BY <3>1 DEF StartSpawn
    <3>2. CASE StartRefused
      BY <3>2 DEF StartRefused
    <3>3. CASE StartReady
      BY <3>3 DEF StartReady
    <3>4. CASE StartNotReady
      BY <3>4 DEF StartNotReady
    <3>5. CASE StartRenderer
      BY <3>5 DEF StartRenderer
    <3>6. CASE StartRendererFails
      BY <3>6 DEF StartRendererFails
    <3>7. CASE StartBoot
      BY <3>7 DEF StartBoot
    <3>8. CASE StartBootFails
      BY <3>8 DEF StartBootFails
    <3>9. ASSUME NEW w \in Labels, StartWindowOpen(w) PROVE SidecarProgress'
      BY <3>9 DEF StartWindowOpen
    <3>10. CASE StartWindowOpenFails
      BY <3>10 DEF StartWindowOpenFails
    <3>11. CASE StartOpenRenderer
      BY <3>11 DEF StartOpenRenderer
    <3> QED
      BY <2>1, <3>1, <3>2, <3>3, <3>4, <3>5, <3>6, <3>7, <3>8, <3>9, <3>10, <3>11 DEF StartSteps
  <2>2. ASSUME OpenSteps PROVE SidecarProgress'
    <3>1. CASE OpenWorkspaceKnown
      BY <3>1 DEF OpenWorkspaceKnown
    <3>2. CASE OpenWorkspaceUnknown
      BY <3>2 DEF OpenWorkspaceUnknown
    <3>3. CASE OpenWorkspaceMain
      BY <3>3 DEF OpenWorkspaceMain
    <3>4. ASSUME NEW w \in Labels, WorkspaceOpen(w) PROVE SidecarProgress'
      BY <3>4 DEF WorkspaceOpen
    <3>5. CASE WorkspaceOpenFails
      BY <3>5 DEF WorkspaceOpenFails
    <3>6. CASE WorkspaceRenderer
      BY <3>6 DEF WorkspaceRenderer
    <3>7. CASE AwaitWindowEnter
      BY <3>7 DEF AwaitWindowEnter
    <3>8. CASE AwaitBoot
      BY <3>8 DEF AwaitBoot
    <3>9. CASE AwaitPlugins
      BY <3>9 DEF AwaitPlugins
    <3> QED
      BY <2>2, <3>1, <3>2, <3>3, <3>4, <3>5, <3>6, <3>7, <3>8, <3>9 DEF OpenSteps
  <2>3. ASSUME QuiesceSteps PROVE SidecarProgress'
    <3>1. CASE ReadTree
      BY <3>1 DEF ReadTree
    <3>2. CASE ReadPlugins
      BY <3>2 DEF ReadPlugins
    <3>3. CASE ReadSidecars
      BY <3>3 DEF ReadSidecars
    <3>4. CASE SidecarsStopped
      BY <3>4 DEF SidecarsStopped
    <3>5. CASE PidsGone
      BY <3>5 DEF PidsGone
    <3>6. CASE QuiesceCallFails
      BY <3>6 DEF QuiesceCallFails
    <3>7. ASSUME NEW p \in Plugins, CloseTab(p) PROVE SidecarProgress'
      BY <3>7 DEF CloseTab
    <3>8. ASSUME NEW p \in Plugins, DisablePlugin(p) PROVE SidecarProgress'
      BY <3>8 DEF DisablePlugin
    <3>9. ASSUME NEW p \in Plugins, StopSidecar(p) PROVE SidecarProgress'
      BY <3>9 DEF StopSidecar
    <3> QED
      BY <2>3, <3>1, <3>2, <3>3, <3>4, <3>5, <3>6, <3>7, <3>8, <3>9 DEF QuiesceSteps
  <2>4. ASSUME EndSteps PROVE SidecarProgress'
    <3>1. CASE ShutdownNothing
      BY <3>1 DEF ShutdownNothing
    <3>2. CASE ShutdownEnter
      BY <3>2 DEF ShutdownEnter
    <3>3. CASE ShutdownCommit
      BY <3>3 DEF ShutdownCommit
    <3>4. CASE ShutdownWaited
      BY <3>4 DEF ShutdownWaited
    <3>5. CASE ShutdownTimeout
      BY <3>5 DEF ShutdownTimeout
    <3>6. CASE ShutdownDrained
      BY <3>6 DEF ShutdownDrained
    <3>7. CASE FinishEnter
      BY <3>7 DEF FinishEnter
    <3>8. CASE Snapshot
      BY <3>8 DEF Snapshot
    <3>9. CASE FinishReport
      BY <3>9 DEF FinishReport
    <3>10. CASE CloseNothing
      BY <3>10 DEF CloseNothing
    <3>11. CASE CloseEnter
      BY <3>11 DEF CloseEnter
    <3>12. CASE CloseKill
      BY <3>12 DEF CloseKill
    <3> QED
      BY <2>4, <3>1, <3>2, <3>3, <3>4, <3>5, <3>6, <3>7, <3>8, <3>9, <3>10, <3>11, <3>12 DEF EndSteps
  <2>5. ASSUME Environment PROVE SidecarProgress'
    <3>1. ASSUME NEW p \in Plugins, EnablePlugin(p) PROVE SidecarProgress'
      BY <3>1 DEF EnablePlugin
    <3>2. ASSUME NEW p \in Plugins, OpenTab(p) PROVE SidecarProgress'
      BY <3>2 DEF OpenTab
    <3>3. ASSUME NEW p \in Plugins, SidecarConnect(p) PROVE SidecarProgress'
      <4>1. pc' = pc /\ op' = op /\ result' = result /\ enabled # {}
        BY <3>3 DEF SidecarConnect
      <4>2. ~(pc = "gone" \/ Settled \/ result = "Finish")
        BY <3>3, <4>1 DEF SidecarConnect
      <4>3. \A x \in live' : x \in live \/ \E n \in 1..MaxPids : x = <<p, n>>
        BY <3>3 DEF SidecarConnect
      <4>4. recorded' = recorded \cup {p}
        BY <3>3 DEF SidecarConnect
      <4>5. \A x \in live' : x[1] \in recorded' \cup Lingering
        BY <4>3, <4>4
      <4> QED
        BY <4>1, <4>2, <4>5
    <3>4. ASSUME NEW x \in Pids, SidecarDies(x) PROVE SidecarProgress'
      BY <3>4 DEF SidecarDies
    <3>5. ASSUME NEW how \in {"clean", "crashed"}, AppEnds(how) PROVE SidecarProgress'
      BY <3>5 DEF AppEnds
    <3>6. ASSUME NEW w \in Windows, WindowLost(w) PROVE SidecarProgress'
      BY <3>6 DEF WindowLost
    <3> QED
      BY <2>5, <3>1, <3>2, <3>3, <3>4, <3>5, <3>6 DEF Environment
  <2>6. CASE UNCHANGED vars
    BY <2>6 DEF vars
  <2> QED
    BY <2>1, <2>2, <2>3, <2>4, <2>5, <2>6 DEF Next, HarnessStep
<1> QED
  BY <1>1, <1>2, FinishProgresses, QuiesceProgresses, PTL DEF Spec

\* No sidecar process of the run is left when Finish returns nil, if its
\* sidecar_stop waits for the exit, as LIFECYCLE.md says it does.
THEOREM NothingLeft == Spec => []NoSidecarLeft
<1>1. SidecarProgress => NoSidecarLeft
  BY DEF SidecarProgress, NoSidecarLeft, Returned
<1> QED
  BY <1>1, SidecarProgresses, PTL

\* The run implements RunOwnership: one application at a time, let go of only
\* once it has ended.
THEOREM OneApp == Spec => OwnsOneApp
<1>1. Init => Owner!Init
  BY DEF Init, Owner!Init, Up
<1>2. TypeOK /\ NoOrphanApp /\ [Next]_vars => [Owner!Next]_Owner!vars
  <2> DEFINE Goal == \/ Owner!Launch \/ Owner!End \/ Owner!Reap
                     \/ UNCHANGED <<cmd # 0, Up>>
  <2> SUFFICES ASSUME CountersTypeOK, NoOrphanApp, [Next]_vars PROVE Goal
    BY DEF TypeOK, Owner!Next, Owner!vars
  <2> USE DEF CountersTypeOK, NoOrphanApp, Ended, Owner!Launch, Owner!End,
          Owner!Reap, Goto, Return, Enter, Refuse, Fails, QuiesceFails, QuiesceDone, Ends, NewWindow,
          Reaped, Killed, WaitDone, Target, Up, Reachable, sameStruct, sameLocals, sameWorld,
          evidence, harness, process, view, runtime
  <2>1. ASSUME StartSteps PROVE Goal
    <3>1. CASE StartSpawn
      BY <3>1 DEF StartSpawn
    <3>2. CASE StartRefused
      BY <3>2 DEF StartRefused
    <3>3. CASE StartReady
      BY <3>3 DEF StartReady
    <3>4. CASE StartNotReady
      BY <3>4 DEF StartNotReady
    <3>5. CASE StartRenderer
      BY <3>5 DEF StartRenderer
    <3>6. CASE StartRendererFails
      BY <3>6 DEF StartRendererFails
    <3>7. CASE StartBoot
      BY <3>7 DEF StartBoot
    <3>8. CASE StartBootFails
      BY <3>8 DEF StartBootFails
    <3>9. ASSUME NEW w \in Labels, StartWindowOpen(w) PROVE Goal
      BY <3>9 DEF StartWindowOpen
    <3>10. CASE StartWindowOpenFails
      BY <3>10 DEF StartWindowOpenFails
    <3>11. CASE StartOpenRenderer
      BY <3>11 DEF StartOpenRenderer
    <3> QED
      BY <2>1, <3>1, <3>2, <3>3, <3>4, <3>5, <3>6, <3>7, <3>8, <3>9, <3>10, <3>11 DEF StartSteps
  <2>2. ASSUME OpenSteps PROVE Goal
    <3>1. CASE OpenWorkspaceKnown
      BY <3>1 DEF OpenWorkspaceKnown
    <3>2. CASE OpenWorkspaceUnknown
      BY <3>2 DEF OpenWorkspaceUnknown
    <3>3. CASE OpenWorkspaceMain
      BY <3>3 DEF OpenWorkspaceMain
    <3>4. ASSUME NEW w \in Labels, WorkspaceOpen(w) PROVE Goal
      BY <3>4 DEF WorkspaceOpen
    <3>5. CASE WorkspaceOpenFails
      BY <3>5 DEF WorkspaceOpenFails
    <3>6. CASE WorkspaceRenderer
      BY <3>6 DEF WorkspaceRenderer
    <3>7. CASE AwaitWindowEnter
      BY <3>7 DEF AwaitWindowEnter
    <3>8. CASE AwaitBoot
      BY <3>8 DEF AwaitBoot
    <3>9. CASE AwaitPlugins
      BY <3>9 DEF AwaitPlugins
    <3> QED
      BY <2>2, <3>1, <3>2, <3>3, <3>4, <3>5, <3>6, <3>7, <3>8, <3>9 DEF OpenSteps
  <2>3. ASSUME QuiesceSteps PROVE Goal
    <3>1. CASE ReadTree
      BY <3>1 DEF ReadTree
    <3>2. CASE ReadPlugins
      BY <3>2 DEF ReadPlugins
    <3>3. CASE ReadSidecars
      BY <3>3 DEF ReadSidecars
    <3>4. CASE SidecarsStopped
      BY <3>4 DEF SidecarsStopped
    <3>5. CASE PidsGone
      BY <3>5 DEF PidsGone
    <3>6. CASE QuiesceCallFails
      BY <3>6 DEF QuiesceCallFails
    <3>7. ASSUME NEW p \in Plugins, CloseTab(p) PROVE Goal
      BY <3>7 DEF CloseTab
    <3>8. ASSUME NEW p \in Plugins, DisablePlugin(p) PROVE Goal
      BY <3>8 DEF DisablePlugin
    <3>9. ASSUME NEW p \in Plugins, StopSidecar(p) PROVE Goal
      BY <3>9 DEF StopSidecar
    <3> QED
      BY <2>3, <3>1, <3>2, <3>3, <3>4, <3>5, <3>6, <3>7, <3>8, <3>9 DEF QuiesceSteps
  <2>4. ASSUME EndSteps PROVE Goal
    <3>1. CASE ShutdownNothing
      BY <3>1 DEF ShutdownNothing
    <3>2. CASE ShutdownEnter
      BY <3>2 DEF ShutdownEnter
    <3>3. CASE ShutdownCommit
      BY <3>3 DEF ShutdownCommit
    <3>4. CASE ShutdownWaited
      BY <3>4 DEF ShutdownWaited
    <3>5. CASE ShutdownTimeout
      BY <3>5 DEF ShutdownTimeout
    <3>6. CASE ShutdownDrained
      BY <3>6 DEF ShutdownDrained
    <3>7. CASE FinishEnter
      BY <3>7 DEF FinishEnter
    <3>8. CASE Snapshot
      BY <3>8 DEF Snapshot
    <3>9. CASE FinishReport
      BY <3>9 DEF FinishReport
    <3>10. CASE CloseNothing
      BY <3>10 DEF CloseNothing
    <3>11. CASE CloseEnter
      BY <3>11 DEF CloseEnter
    <3>12. CASE CloseKill
      BY <3>12 DEF CloseKill
    <3> QED
      BY <2>4, <3>1, <3>2, <3>3, <3>4, <3>5, <3>6, <3>7, <3>8, <3>9, <3>10, <3>11, <3>12 DEF EndSteps
  <2>5. ASSUME Environment PROVE Goal
    <3>1. ASSUME NEW p \in Plugins, EnablePlugin(p) PROVE Goal
      BY <3>1 DEF EnablePlugin
    <3>2. ASSUME NEW p \in Plugins, OpenTab(p) PROVE Goal
      BY <3>2 DEF OpenTab
    <3>3. ASSUME NEW p \in Plugins, SidecarConnect(p) PROVE Goal
      BY <3>3 DEF SidecarConnect
    <3>4. ASSUME NEW x \in Pids, SidecarDies(x) PROVE Goal
      BY <3>4 DEF SidecarDies
    <3>5. ASSUME NEW how \in {"clean", "crashed"}, AppEnds(how) PROVE Goal
      BY <3>5 DEF AppEnds
    <3>6. ASSUME NEW w \in Windows, WindowLost(w) PROVE Goal
      BY <3>6 DEF WindowLost
    <3> QED
      BY <2>5, <3>1, <3>2, <3>3, <3>4, <3>5, <3>6 DEF Environment
  <2>6. CASE UNCHANGED vars
    BY <2>6 DEF vars
  <2> QED
    BY <2>1, <2>2, <2>3, <2>4, <2>5, <2>6 DEF Next, HarnessStep
<1> QED
  BY <1>1, <1>2, TypeCorrect, Ownership, PTL DEF Spec, OwnsOneApp, Owner!Spec

--------------------------------------------------------------------------------
\* The types it takes for granted, and the invariant with the property.
WindowTypes == window \in Windows \cup {"none"} /\ result \in Ops \cup {"none", "error"}
WindowInv == WindowProgress /\ WindowIsReady

\* WindowProgress: a window is known before its boot is awaited.
LEMMA WindowsProgress == Spec => []WindowInv
<1> USE DEF StartPc, OpenPc, AwaitPc, QuiescePc, FinishPc, ClosePc, ShutdownPc, Ended, WindowTypes, WindowInv, WindowProgress, WindowIsReady, Returned, Windows
<1>1. Init => WindowInv
  BY DEF Init
<1>2. WindowTypes /\ WindowInv /\ [Next]_vars => WindowInv'
  <2> SUFFICES ASSUME WindowTypes /\ WindowInv, [Next]_vars PROVE WindowInv'
    OBVIOUS
  <2> USE DEF Goto, Return, Enter, Refuse, Fails, QuiesceFails, QuiesceDone, Ends, NewWindow,
          Reaped, Killed, WaitDone, Target, Up, Reachable, sameStruct, sameLocals, sameWorld,
          evidence, harness, process, view, runtime
  <2>1. ASSUME StartSteps PROVE WindowInv'
    <3>1. CASE StartSpawn
      BY <3>1 DEF StartSpawn
    <3>2. CASE StartRefused
      BY <3>2 DEF StartRefused
    <3>3. CASE StartReady
      BY <3>3 DEF StartReady
    <3>4. CASE StartNotReady
      BY <3>4 DEF StartNotReady
    <3>5. CASE StartRenderer
      BY <3>5 DEF StartRenderer
    <3>6. CASE StartRendererFails
      BY <3>6 DEF StartRendererFails
    <3>7. CASE StartBoot
      BY <3>7 DEF StartBoot
    <3>8. CASE StartBootFails
      BY <3>8 DEF StartBootFails
    <3>9. ASSUME NEW w \in Labels, StartWindowOpen(w) PROVE WindowInv'
      BY <3>9 DEF StartWindowOpen
    <3>10. CASE StartWindowOpenFails
      BY <3>10 DEF StartWindowOpenFails
    <3>11. CASE StartOpenRenderer
      BY <3>11 DEF StartOpenRenderer
    <3> QED
      BY <2>1, <3>1, <3>2, <3>3, <3>4, <3>5, <3>6, <3>7, <3>8, <3>9, <3>10, <3>11 DEF StartSteps
  <2>2. ASSUME OpenSteps PROVE WindowInv'
    <3>1. CASE OpenWorkspaceKnown
      BY <3>1 DEF OpenWorkspaceKnown
    <3>2. CASE OpenWorkspaceUnknown
      BY <3>2 DEF OpenWorkspaceUnknown
    <3>3. CASE OpenWorkspaceMain
      BY <3>3 DEF OpenWorkspaceMain
    <3>4. ASSUME NEW w \in Labels, WorkspaceOpen(w) PROVE WindowInv'
      BY <3>4 DEF WorkspaceOpen
    <3>5. CASE WorkspaceOpenFails
      BY <3>5 DEF WorkspaceOpenFails
    <3>6. CASE WorkspaceRenderer
      BY <3>6 DEF WorkspaceRenderer
    <3>7. CASE AwaitWindowEnter
      BY <3>7 DEF AwaitWindowEnter
    <3>8. CASE AwaitBoot
      BY <3>8 DEF AwaitBoot
    <3>9. CASE AwaitPlugins
      BY <3>9 DEF AwaitPlugins
    <3> QED
      BY <2>2, <3>1, <3>2, <3>3, <3>4, <3>5, <3>6, <3>7, <3>8, <3>9 DEF OpenSteps
  <2>3. ASSUME QuiesceSteps PROVE WindowInv'
    <3>1. CASE ReadTree
      BY <3>1 DEF ReadTree
    <3>2. CASE ReadPlugins
      BY <3>2 DEF ReadPlugins
    <3>3. CASE ReadSidecars
      BY <3>3 DEF ReadSidecars
    <3>4. CASE SidecarsStopped
      BY <3>4 DEF SidecarsStopped
    <3>5. CASE PidsGone
      BY <3>5 DEF PidsGone
    <3>6. CASE QuiesceCallFails
      BY <3>6 DEF QuiesceCallFails
    <3>7. ASSUME NEW p \in Plugins, CloseTab(p) PROVE WindowInv'
      BY <3>7 DEF CloseTab
    <3>8. ASSUME NEW p \in Plugins, DisablePlugin(p) PROVE WindowInv'
      BY <3>8 DEF DisablePlugin
    <3>9. ASSUME NEW p \in Plugins, StopSidecar(p) PROVE WindowInv'
      BY <3>9 DEF StopSidecar
    <3> QED
      BY <2>3, <3>1, <3>2, <3>3, <3>4, <3>5, <3>6, <3>7, <3>8, <3>9 DEF QuiesceSteps
  <2>4. ASSUME EndSteps PROVE WindowInv'
    <3>1. CASE ShutdownNothing
      BY <3>1 DEF ShutdownNothing
    <3>2. CASE ShutdownEnter
      BY <3>2 DEF ShutdownEnter
    <3>3. CASE ShutdownCommit
      BY <3>3 DEF ShutdownCommit
    <3>4. CASE ShutdownWaited
      BY <3>4 DEF ShutdownWaited
    <3>5. CASE ShutdownTimeout
      BY <3>5 DEF ShutdownTimeout
    <3>6. CASE ShutdownDrained
      BY <3>6 DEF ShutdownDrained
    <3>7. CASE FinishEnter
      BY <3>7 DEF FinishEnter
    <3>8. CASE Snapshot
      BY <3>8 DEF Snapshot
    <3>9. CASE FinishReport
      BY <3>9 DEF FinishReport
    <3>10. CASE CloseNothing
      BY <3>10 DEF CloseNothing
    <3>11. CASE CloseEnter
      BY <3>11 DEF CloseEnter
    <3>12. CASE CloseKill
      BY <3>12 DEF CloseKill
    <3> QED
      BY <2>4, <3>1, <3>2, <3>3, <3>4, <3>5, <3>6, <3>7, <3>8, <3>9, <3>10, <3>11, <3>12 DEF EndSteps
  <2>5. ASSUME Environment PROVE WindowInv'
    <3>1. ASSUME NEW p \in Plugins, EnablePlugin(p) PROVE WindowInv'
      BY <3>1 DEF EnablePlugin
    <3>2. ASSUME NEW p \in Plugins, OpenTab(p) PROVE WindowInv'
      BY <3>2 DEF OpenTab
    <3>3. ASSUME NEW p \in Plugins, SidecarConnect(p) PROVE WindowInv'
      BY <3>3 DEF SidecarConnect
    <3>4. ASSUME NEW x \in Pids, SidecarDies(x) PROVE WindowInv'
      BY <3>4 DEF SidecarDies
    <3>5. ASSUME NEW how \in {"clean", "crashed"}, AppEnds(how) PROVE WindowInv'
      BY <3>5 DEF AppEnds
    <3>6. ASSUME NEW w \in Windows, WindowLost(w) PROVE WindowInv'
      BY <3>6 DEF WindowLost
    <3> QED
      BY <2>5, <3>1, <3>2, <3>3, <3>4, <3>5, <3>6 DEF Environment
  <2>6. CASE UNCHANGED vars
    BY <2>6 DEF vars
  <2> QED
    BY <2>1, <2>2, <2>3, <2>4, <2>5, <2>6 DEF Next, HarnessStep
<1>3. TypeOK => WindowTypes
  BY DEF TypeOK, ControlTypeOK
<1> HIDE DEF WindowTypes, WindowInv
<1> QED
  BY <1>1, <1>2, <1>3, TypeCorrect, PTL DEF Spec

\* A method that returns nil leaves the struct on a window that has booted in the
\* process that runs, through restarts and lost windows.
THEOREM ReadyWindow == Spec => []WindowIsReady
<1>1. WindowInv => WindowIsReady
  BY DEF WindowInv
<1> QED
  BY <1>1, WindowsProgress, PTL

ReportInv == ReportProgress /\ ReportIsTrue

\* ReportProgress: the report is written once the process has ended.
LEMMA ReportsProgress == Spec => []ReportInv
<1> USE DEF StartPc, OpenPc, AwaitPc, QuiescePc, FinishPc, ClosePc, ShutdownPc, Ended, CountersTypeOK, FinishProgress, ReportInv, ReportProgress, ReportIsTrue, Settled
<1>1. Init => ReportInv
  BY DEF Init
<1>2. CountersTypeOK /\ FinishProgress /\ ReportInv /\ [Next]_vars => ReportInv'
  <2> SUFFICES ASSUME CountersTypeOK /\ FinishProgress /\ ReportInv, [Next]_vars PROVE ReportInv'
    OBVIOUS
  <2> USE DEF Goto, Return, Enter, Refuse, Fails, QuiesceFails, QuiesceDone, Ends, NewWindow,
          Reaped, Killed, WaitDone, Target, Up, Reachable, sameStruct, sameLocals, sameWorld,
          evidence, harness, process, view, runtime
  <2>1. ASSUME StartSteps PROVE ReportInv'
    <3>1. CASE StartSpawn
      BY <3>1 DEF StartSpawn
    <3>2. CASE StartRefused
      BY <3>2 DEF StartRefused
    <3>3. CASE StartReady
      BY <3>3 DEF StartReady
    <3>4. CASE StartNotReady
      BY <3>4 DEF StartNotReady
    <3>5. CASE StartRenderer
      BY <3>5 DEF StartRenderer
    <3>6. CASE StartRendererFails
      BY <3>6 DEF StartRendererFails
    <3>7. CASE StartBoot
      BY <3>7 DEF StartBoot
    <3>8. CASE StartBootFails
      BY <3>8 DEF StartBootFails
    <3>9. ASSUME NEW w \in Labels, StartWindowOpen(w) PROVE ReportInv'
      BY <3>9 DEF StartWindowOpen
    <3>10. CASE StartWindowOpenFails
      BY <3>10 DEF StartWindowOpenFails
    <3>11. CASE StartOpenRenderer
      BY <3>11 DEF StartOpenRenderer
    <3> QED
      BY <2>1, <3>1, <3>2, <3>3, <3>4, <3>5, <3>6, <3>7, <3>8, <3>9, <3>10, <3>11 DEF StartSteps
  <2>2. ASSUME OpenSteps PROVE ReportInv'
    <3>1. CASE OpenWorkspaceKnown
      BY <3>1 DEF OpenWorkspaceKnown
    <3>2. CASE OpenWorkspaceUnknown
      BY <3>2 DEF OpenWorkspaceUnknown
    <3>3. CASE OpenWorkspaceMain
      BY <3>3 DEF OpenWorkspaceMain
    <3>4. ASSUME NEW w \in Labels, WorkspaceOpen(w) PROVE ReportInv'
      BY <3>4 DEF WorkspaceOpen
    <3>5. CASE WorkspaceOpenFails
      BY <3>5 DEF WorkspaceOpenFails
    <3>6. CASE WorkspaceRenderer
      BY <3>6 DEF WorkspaceRenderer
    <3>7. CASE AwaitWindowEnter
      BY <3>7 DEF AwaitWindowEnter
    <3>8. CASE AwaitBoot
      BY <3>8 DEF AwaitBoot
    <3>9. CASE AwaitPlugins
      BY <3>9 DEF AwaitPlugins
    <3> QED
      BY <2>2, <3>1, <3>2, <3>3, <3>4, <3>5, <3>6, <3>7, <3>8, <3>9 DEF OpenSteps
  <2>3. ASSUME QuiesceSteps PROVE ReportInv'
    <3>1. CASE ReadTree
      BY <3>1 DEF ReadTree
    <3>2. CASE ReadPlugins
      BY <3>2 DEF ReadPlugins
    <3>3. CASE ReadSidecars
      BY <3>3 DEF ReadSidecars
    <3>4. CASE SidecarsStopped
      BY <3>4 DEF SidecarsStopped
    <3>5. CASE PidsGone
      BY <3>5 DEF PidsGone
    <3>6. CASE QuiesceCallFails
      BY <3>6 DEF QuiesceCallFails
    <3>7. ASSUME NEW p \in Plugins, CloseTab(p) PROVE ReportInv'
      BY <3>7 DEF CloseTab
    <3>8. ASSUME NEW p \in Plugins, DisablePlugin(p) PROVE ReportInv'
      BY <3>8 DEF DisablePlugin
    <3>9. ASSUME NEW p \in Plugins, StopSidecar(p) PROVE ReportInv'
      BY <3>9 DEF StopSidecar
    <3> QED
      BY <2>3, <3>1, <3>2, <3>3, <3>4, <3>5, <3>6, <3>7, <3>8, <3>9 DEF QuiesceSteps
  <2>4. ASSUME EndSteps PROVE ReportInv'
    <3>1. CASE ShutdownNothing
      BY <3>1 DEF ShutdownNothing
    <3>2. CASE ShutdownEnter
      BY <3>2 DEF ShutdownEnter
    <3>3. CASE ShutdownCommit
      BY <3>3 DEF ShutdownCommit
    <3>4. CASE ShutdownWaited
      BY <3>4 DEF ShutdownWaited
    <3>5. CASE ShutdownTimeout
      BY <3>5 DEF ShutdownTimeout
    <3>6. CASE ShutdownDrained
      BY <3>6 DEF ShutdownDrained
    <3>7. CASE FinishEnter
      BY <3>7 DEF FinishEnter
    <3>8. CASE Snapshot
      BY <3>8 DEF Snapshot
    <3>9. CASE FinishReport
      BY <3>9 DEF FinishReport
    <3>10. CASE CloseNothing
      BY <3>10 DEF CloseNothing
    <3>11. CASE CloseEnter
      BY <3>11 DEF CloseEnter
    <3>12. CASE CloseKill
      BY <3>12 DEF CloseKill
    <3> QED
      BY <2>4, <3>1, <3>2, <3>3, <3>4, <3>5, <3>6, <3>7, <3>8, <3>9, <3>10, <3>11, <3>12 DEF EndSteps
  <2>5. ASSUME Environment PROVE ReportInv'
    <3>1. ASSUME NEW p \in Plugins, EnablePlugin(p) PROVE ReportInv'
      BY <3>1 DEF EnablePlugin
    <3>2. ASSUME NEW p \in Plugins, OpenTab(p) PROVE ReportInv'
      BY <3>2 DEF OpenTab
    <3>3. ASSUME NEW p \in Plugins, SidecarConnect(p) PROVE ReportInv'
      BY <3>3 DEF SidecarConnect
    <3>4. ASSUME NEW x \in Pids, SidecarDies(x) PROVE ReportInv'
      BY <3>4 DEF SidecarDies
    <3>5. ASSUME NEW how \in {"clean", "crashed"}, AppEnds(how) PROVE ReportInv'
      BY <3>5 DEF AppEnds
    <3>6. ASSUME NEW w \in Windows, WindowLost(w) PROVE ReportInv'
      BY <3>6 DEF WindowLost
    <3> QED
      BY <2>5, <3>1, <3>2, <3>3, <3>4, <3>5, <3>6 DEF Environment
  <2>6. CASE UNCHANGED vars
    BY <2>6 DEF vars
  <2> QED
    BY <2>1, <2>2, <2>3, <2>4, <2>5, <2>6 DEF Next, HarnessStep
<1>3. TypeOK => CountersTypeOK
  BY DEF TypeOK
<1> HIDE DEF CountersTypeOK, FinishProgress, ReportInv
<1> QED
  BY <1>1, <1>2, <1>3, TypeCorrect, FinishProgresses, PTL DEF Spec

\* The ownership report tells the truth about the last process, whatever Finish
\* returns after writing it.
THEOREM TrueReport == Spec => []ReportIsTrue
<1>1. ReportInv => ReportIsTrue
  BY DEF ReportInv
<1> QED
  BY <1>1, ReportsProgress, PTL
================================================================================

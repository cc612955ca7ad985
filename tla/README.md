# Verification of soksak-terminal-tests

The repository is a Go test harness for the terminal fleet of the Soksak
application: it composes candidate plans from release artifacts, installs them
through the application's control CLI, drives the running application through
restarts, faults, reloads and resizes, audits and stages releases, and leaves
evidence files behind.  This directory holds TLA+ modules of its parts, the TLC
configurations that model-check them and TLAPS proofs of the properties that
matter most.

The harness is sequential almost everywhere.  What makes it hard is what it
drives: an application process, its windows, its sidecar processes, artifact
transactions, terminals that print, release servers, directories others publish
into, other invocations on the same files.  All of them move between two calls
of the harness, and each call may fail before or after it took effect.  So the
modules keep the control of the Go code (one action per call, each early return,
each deferred call) and let the environment move freely in between.

## Inventory

| part | source | state | operations | what is hard | correct when |
|---|---|---|---|---|---|
| life cycle | `system/lifecycle.go` | `Lifecycle{cmd, stdin, log, window}`, ownership report | `Start`, `OpenWorkspace`, `AwaitWindow`, `Shutdown`, `Finish`, `Close` | failures half way through `Start`; restarts; sidecars outlive the application; early answers; the 20 s kill | no process is lost track of; `nil` from `Finish` means that nothing is left; the report is true |
| readiness | `system/process_readiness.go` | pending bytes, channel of one event | `Write`; receive in `Start` | chunks cut anywhere; several events | the first event reaches `Start` |
| candidate installation | `system/candidate_install.go` | prepared digests, revision, store, transaction | `InstallCandidateFleet` | time of check and use; optimistic commit; lost answers; deferred clean-up | what is committed is what was digested; no foreign commit is buried; nothing is left behind |
| fleet installation | `system/install_fleet.go` | progress sequence, phase | `InstallConfiguredTerminalFleet`, `InstallTerminalFleet`, `EnableCandidateTerminalFleet`, `InstallPlugin` | a wait that fails races with a commit; skipped sequences; refused consents; commits between transaction and enabling | `nil` means a ready fleet; no false alarm; what is enabled is what was prepared |
| composition | `candidate/*.go`, `system/candidate_profile.go` | verified artifacts, plan | `Compose`, `ComposeLocal`, acceptance by a run | closure by count; sidecars shared by plugins; two composers for one reader | a written plan is closed, complete and accepted |
| local release store | `candidate/local_release_store.go` | decoded document, verified files | `resolveLocalRelease`, `pluginManifestContract` | three reads of a directory others publish into | what is resolved is what was selected |
| write-once files | `candidate/local_candidate_plan.go`, `candidate/compose.go`, `releaseaudit/audit.go` | the file | `writeImmutablePlan`, end of `Compose`, `WriteEvidence` | concurrent invocations; partial writes; kills | success means one's own bytes |
| release audit | `releaseaudit/audit.go`, `cmd/audit-sidecar-releases` | fleet report | `AuditCurrentFleet`, the command | auditors that fail; partial reports; evidence that cannot be written | a pass is recorded, whole and clean |
| release publication | `release/fleet_release.go`, `cmd/verify-fleet` | temporary archive, stage | `Verify`, `VerifyAndStage` | servers that serve anything; clearing before extraction | `nil` means pinned bytes; the last stage survives a bad release |
| marker counting | `system/terminal_restore.go` | positions, offset | `countExactLineInTerminalHistory`, `countExactLineInRecoveryHistory` | output moves the history under the scan; overlapping pages | exact when quiet, never too low otherwise |
| terminal commands, resize and output evidence | `system/terminal_commands.go`, `terminal_resize_evidence.go`, `terminal_output_evidence.go` | wide, narrow and restored samples; baseline of the output | `VerifyTerminalCommands`, `failureBoundary` of both | two-call samples over five layers that follow one another; waits that run out; a source that changes | a pass is complete; a failure has a cause and leaves evidence |
| restore, PTY fault, tab close | `system/terminal_restore.go`, `terminal_pty_fault.go`, `terminal_tab_close.go` | remembered pids of shells and daemon | the three scenarios | kills between two processes; pids used again; exits that take a moment; stale phases | a pass has found no defect it is there to find; a failure has a cause |
| plugin reload | `system/terminal_plugin_reload.go` | baseline of realms, streams, shell | `VerifyPluginReloadLifetime` | leaks that show late; views that attach late; other plugins in the same counters | every leak is found; no false leak |
| checkpoint check | `system/checkpoint_encryption.go` | directory scan | `verifyEncryptedCheckpoints` | renames during the scan | every checkpoint is counted once |
| installed matrix | `installedmatrix/*.go` | report | `Verify` | a global setting; executables replaced under running processes | every engine is verified with a terminal of its own |
| profile, benchmark reports | `fleet/profile.go`, `benchmark/reports.go` | none | validation | - | accepts exactly the valid ones |
| theme, visibility, panes, keyboard, UI acceptance, CLI, addresses, shell commands | the rest of `system/` | none | read and compare, process launch, formatting | timing of the application | - |

How they interact: a run composes a plan (`Compose`, `ComposeLocal`, which
resolves releases of a local store), whose file is written once;
`Lifecycle.Start` spawns the application and waits for the event that
`controlReadyWriter` finds in its output; the fleet is installed from the plan or
from the catalogue and enabled; scenarios work on terminals, among them the
terminal commands, the reload and the restores, which call `Shutdown` and `Start`
again and count markers; `Finish` stops the sidecars, shuts down and writes the
ownership report; `Close` is the clean-up of every test.  Three commands work on
released fleets without a run: the audit, the verification of release bytes and
the matrix of installed engines.

The hazards, each with its line and the properties aimed at it, are listed in
`PROJECT.json`; where a property has an exception or none covers the hazard, the
entry says why.

## Modules

| module | models | variables that are the code's | how actions correspond |
|---|---|---|---|
| `Lifecycle` | `system/lifecycle.go` | `cmd`, `stdin`, `window` are the struct; `expected`, `todo`, `pids`, `commitOk`, `shutdownOk` are locals; `reportRun` and `reportGraceful` the evidence file | `pc` names the next CLI call; one action per call, one for its failure; an exported method is a path from `idle` to `idle`; `CloseTab`, `DisablePlugin` and `StopSidecar` are one iteration of their loops each |
| `LifecycleProps` | its properties and inductive invariants | | |
| `RunOwnership` | abstract: a run owns at most one process and lets go of it once it has ended | | `OwnsOneApp` is the refinement, with `owned <- cmd # 0` |
| `ReadyWriter` | `process_readiness.go` | bytes in `pending`, the event in `channel` | `Write(n)` is one call with any number of bytes; `Receive` and `Timeout` are the arms of the `select` |
| `CandidateInstall` | `candidate_install.go` | `digest`, `revision`, `known` (transaction id), `committed` | one action per artifact or call; `Leave` is a return, which runs the deferred calls registered by then, last first |
| `FleetInstall` | `install_fleet.go` | `sequence`, `ungranted` (consents) | one action per call; `status` is the look at `plugin.install.status` after a failed progress wait; `PlanReturned` is the way in when there is a candidate plan |
| `Installation` | `InstallConfiguredTerminalFleet`: the two together over one environment | `environment`, what the application has of each component | `CandidateCommit` is a step of both; `HandOver` the return of the one and the start of the other; `ForeignCommit` may come at any moment |
| `WriteOnce` | the three exclusive writers | `pc` of each invocation | look, exclusive creation, write, close; `Dies` is an error or a kill |
| `FleetAudit` | the audit over `WriteOnce` | `report` is `FleetReport.Results`, `failed` the error kept for the exit | one action per repository; `WriteEvidence` calls the writer of `WriteOnce` and `Exit` reads its result |
| `ReleaseStore` | the resolution of one local release | `document`, files `checked`, `program` | one action per file read; `Publish` writes any file in between |
| `ReleaseStage` | `Verify` and `VerifyAndStage` | `temp` is the downloaded archive, `dest` the stage | one action per request, inspection, clearing and extraction; `Leave` is the return of `verifyComponent` with its deferred removal |
| `FleetTools` | the commands over a released fleet; `tool` says which | | their steps side by side |
| `CandidatePlan` | both composers and the acceptance of a plan | `verified`, `used`, `plan`; `kind` is what each release states of itself | one action per directory or selected release, and one that emits |
| `HistoryScan` | both scans | `positions`, `offset`, `size`, `rows` of the last page | one action per call; `kind` is which of the two functions runs; a page has as many lines as its answer |
| `Readers` | a run has one of the two readers, `HistoryScan` or `ReadyWriter`; `reader` says which | | their steps side by side |
| `ResizeProbe` | the resize leg and its evidence | `wide`, `narrow`, `restored`, `evidence` | one action per call; a measurement is two; `failureBoundary` is the Go function, condition by condition |
| `TerminalCommands` | `VerifyTerminalCommands` around and after that leg | `base`, `seen`, `status`, `outEvidence` | `leg` names the next call; the resize leg runs as `ResizeProbe!Next`; the wait that runs out is an action of its own |
| `Restore` | the restore, PTY fault and tab close scenarios | `oldShell`, `oldDaemon` | one action per call, pane by pane; `kind` is the scenario, `leg` its part; processes are their pids |
| `PluginReload` | `VerifyPluginReloadLifetime` | `baseOpen`, `baseStreams`, `basePid`, `attempt` | one action per call or wait; a defect may take effect any time before the next reload |
| `TerminalScenarios` | a run has one of the two; `scenario` says which | | their steps side by side |
| `InstalledMatrix` | `Verify` and `verifyEngine` | `engine`, `found`, `report` | one action per call; other clients select, replace and restart in between |
| `MC*` | constants of the instances | | |
| `*Proof` | TLAPS proofs | | |

Definitions under a comment that begins with "Fault" are mutants: what a
plausible slip in the code would make of the definition below them.  Nothing
uses them but the `mutants` of `PROJECT.json`, each of which replaces one
definition and must make one property fail.

What is abstracted: contents of messages, paths, identities and formats are
model values or one verdict ("the envelope verifies"); a digest stands for the
bytes it was computed from; sizes of panes are narrow or wide, with rows left
out; parsing of an answer is part of the call, and a malformed answer is a call
that fails.  Diagnostics that only enrich an error text are left out.

External actions (the application, its windows and sidecars, transactions, the
layers of a terminal, other clients, builds, servers, publications) are modelled
from how the code calls and expects them, and are marked so.

## Runs

| run | instance | question |
|---|---|---|
| `LifecycleWindows` | 2 processes, 2 labels, 1 plugin whose sidecar holds the application's stdout, fairness of the harness's own waits | process ownership, windows, report, refinement of `RunOwnership`; a method that does not return is in one call that hangs or in the wait for the pipe; `Close` gets rid of the application unless a call hangs |
| `LifecycleSidecars` | 2 processes, 2 plugins, a process number per sidecar, one sidecar may answer its stop early | `Finish` is clean; nothing left after it; order of tabs and plugins |
| `Installation` | 2 plugins, genuine and foreign contents, 2 consents they may share, 2 revisions, sequence up to 3, fairness of the harness's own work | the candidate transaction and the fleet installation, together: what is committed, what is enabled, what is left behind, no false alarm; an installation that does not end stays in one call or one wait |
| `FleetTools` | 3 composers (one that does not look first) or 2 audits of 2 repositories on one path; a plugin and a sidecar to stage; a release of 4 files to resolve | success, recorded passes, resolved releases, pinned and kept stages |
| `Readers` | a screen of 2 rows, 3 lines of history above it, pages of any length, every placement of the marker, endless output; or 4 lines of 3 bytes, every chunking, every set of ready events | exactness, no marker overlooked, termination; first event, no event lost |
| `TerminalCommands` | 2 sizes, up to 3 outputs, any set of stalled layers, a payload of 2, lost output, writes that fail, a source that changes | a pass is complete, a failure has a cause and is recorded, the verdict over the output is right |
| `TerminalScenarios` | 2 panes, 8 pids, at most one defect, one crash of the daemon or one pid used again; 3 reloads with 2 changes by other plugins | the scenarios find what they are there to find; no false alarm; no old process; every leak and no other |
| `CandidatePlan` | 2 plugins, 2 sidecars, 1 base, 1 stranger, up to 6 entries, at most one of which states another kind than it is listed under; symmetric in plugins and in sidecars | closure, completeness and acceptance |
| `InstalledMatrix` | 2 engines with a declared build each, of the same version, and an older build; 3 units of `sidecar.status`, one of which may lose its identity | what a report certifies; no false alarm |
| `CandidateProgram` | 1 plugin, 2 sidecars, 1 base, up to 4 entries | violated: see Findings |
| `ResizeBoundary` | up to 2 outputs | violated: see Findings |
| `ResizeTimeout` | up to 2 outputs | violated: see Findings |

The exact values are in the `.cfg` files.  Why the bounds are enough: two
processes are needed to see a stale window or a leftover sidecar; one process
number per sidecar shows a sidecar that outlives the application it belongs to,
and two plugins show that the loops are left half way, a mixed plan and a shared
consent; two revisions are the harness's own commit and one foreign commit before
or after it; two panes take each loop of the restore scenarios once around, and
eight pids serve two daemons, the shells of both and two more; three invocations
are one more than any conflict over a file takes; two repositories and two engines
take each loop around once with something that was there before; three reloads
show a leak in the first, in a middle and in the last sample; three lines of history above a
screen of two, read in pages of one or two, show the overlap at the top, a page in
between and, under output, the oldest line dropped; lines of three bytes can
be cut inside and at each end; a payload of two can be lost in half.  No counter
of the code wraps at these sizes; every bound is a named constant (`MaxStarts`,
`MaxPids`, `MaxRevision`, `MaxOutput`, `MaxSequence`, `MaxEntries`,
`MaxPid`, `MaxTrouble`, `MaxNoise`, `Attempts`, `Payload`, `Repositories`, `Last`,
`Lines`).  `Scrollback` is no bound of the model but the terminal's own limit.
`MaxSequence` limits the progress events TLC looks at, and what ends only because of
it is not claimed to end: see Fairness.

`CHECK_DEADLOCK FALSE` is set where a behaviour ends: a scan, a leg, a scenario, a
plan, an installation, a matrix or a stream that is over.  The life cycle can
always start another method and a tool another invocation: both are checked for
deadlock.

Fairness.  `cli.go:55` runs the CLI as an external process without a limit, and many
calls (`app.shutdown.commit`, `window.open`, `state.tree`, `tab.close`,
`plugin.list`, `plugin.disable`, `sidecar.status`, the calls of the installation)
carry no `timeoutMs` either.  So no call is assumed to answer.  What is fair is what
the harness does by itself, with the timers of `Start` (45 s) and `Shutdown` (20 s), the
death of a process it has killed, its own computation and its own files: `LocalPc` in
`Lifecycle`, `Continue` there and the local steps of the installation.  The
liveness properties therefore do not say that a method returns.  They say what is
the only alternative: one single call that hangs for ever.

* `MethodsReturn` rules out a loop over calls that never ends and a wait for
  something the harness does not bring about, and has one more exception: after its
  kill, `Shutdown` waits for `cmd.Wait` without a limit, and if sidecars inherit the
  application's standard output (`ChildrenHoldStdout`) that wait lasts as long as one of
  them lives.
* `CloseReaps` shows that `Close`, which waits for the process only, has no such
  dependence; its kill comes after the calls of `stopTestSidecars`, one of which may
  hang.
* `EndsOrWaits` says that no failed call and no answer sends an installation back to
  where it has been; it may stay for ever in one call, or in the wait for one more
  progress event, whose loop (`install_fleet.go:90`) has no limit.
* `ScanEnds` needs no fairness and no bound on the output: a page moves the scan on by
  a line at least, and the top is never further than what the terminal keeps.

## Findings

* `CandidateProgram`: `Compose` writes plugin components without `program`
  (`candidate/compose.go:318`), and the run that is given the plan refuses them
  (`system/candidate_install.go:323`, `system/candidate_profile.go:24`), although
  the candidate workflow composes exactly for that run.
* `ResizeBoundary`: the evidence of a resize that stopped at the PTY, the recovery
  sidecar or the renderer names `plugin-size` and not the first boundary that did
  not advance (`README.md:73`), because the reported columns are the rendered
  ones.
* `ResizeTimeout`: a resize whose first wait runs out (`terminal_commands.go:165`)
  returns the bare timeout and writes no `<plugin-id>-resize.json`, although
  `README.md:69-74` promises one for every resize and says that a timeout without its
  coordinates is not a verdict.

Exceptions are written into properties that hold, and are what a reader of the
code should know:

* `MethodsReturn`, `CloseReaps`, `EndsOrWaits`: a call that hangs, and the waits above.
* `FailureIsRecorded`: the first wait, which is the finding above, and a write that
  fails, whose error the code ignores beside the one it returns
  (`terminal_commands.go:173` and its like).
* `PlanIsClosed`: the dependencies of a component are compared if its release states
  that it is a plugin (`compose.go:326`); a release listed as a plugin that calls
  itself a sidecar is composed without that comparison, and by that kind.
* `PassIsRecorded`: it is about the exit of the audit.  The file of an auditor that
  failed without naming a failure names none either.
* `PassIsComplete` of `Restore`: a pane that comes back incomplete after a PTY fault may
  pass, because its wait may be answered from before the fault; and detached output is
  tested only if a marker was printed while no application was there.
* `EnablesWhatWasPrepared`: the commit of another client between the candidate
  transaction and the enabling is not noticed; the enabling goes by ids.
* `ReleaseIsSelected`: a `release.json` that is rewritten between its two reads,
  or a manifest rewritten before the program is read, is not noticed.
* `ReportIsOfItsEngines`: the matrix digests the file on disk, not what the process
  was started from.
* `ReloadFinds`: a leak that another plugin makes up for, and a runtime that is
  replaced cleanly while the answer says `unchanged`, pass.
* `OutputVerdict`: if the source of the sequences changes between baseline and
  status, a pass means a payload since the baseline that was read, which need not be
  the true one.
* `NoneOverlooked`: output between the last scroll answer and its read may hide a
  marker.
* `NoFalseAlarm` of `ResizeProbe`: the narrow sample may catch the recovery sidecar
  behind the source, and the leg then fails without a cause in the resize; so it does
  when the recovery sidecar has lost output.
* `NoFalseAlarm` of `InstalledMatrix`: a selection between set and open, the end of the
  sidecar that is looked at, and a unit of any engine without its exact identity.
* the `excuses` of `Restore`, above all a look at a process that is about to exit, a
  checkpoint renamed under the scan and a pid used again; and a detached marker that
  is due before the application is down.

## Proofs

All theorems hold for every value of the constants under the named assumptions
of each module, which only say what the constants are.  `PlanAssumption` keeps
plugins and sidecars apart because a component is an id with its kind, as in the
directories of the local store, and a source plan names each id once.

* `LifecycleProof`.  `TypeCorrect` is inductive by itself.  `Ownership` needs
  that `cmd` is zero or the last process started, and that a process that runs is
  the last one; it is kept by every failed start because `cmd` is assigned before
  any call.  `CleanFinish` is not inductive: when `Finish` returns it relies on
  pids compared several calls earlier.  `FinishProgress` says what is settled at
  each call: a settled run has no remembered pid alive, and that stays true
  because a sidecar process that starts later is a new one.  `NothingLeft` adds
  `QuiesceProgress` (what the loops have still to visit covers what is still
  open or enabled, so after them no plugin can connect a sidecar) and
  `SidecarProgress` (a live process is recorded, unless its sidecar is one of
  `Lingering`, whose stop may be answered before the exit).  `TabsFirst` follows from
  `QuiesceProgress`.  `ReadyWindow` rests on `WindowProgress` (which method a step
  belongs to, and that its window is the one it will end with), `TrueReport` on
  `ReportProgress`.  `OneApp` is the refinement, each action mapped to a step of
  `RunOwnership` or a stutter.
* `ReadyWriterProof`.  `Accounted` relates what is written to the lines split off
  (a product plus a rest below one line), so that a line is split off as soon as it
  is whole; `FirstIsKept` says that the channel holds the first event of those lines
  while `Start` waits.  That a set of lines has a first one comes from the
  well-foundedness of the numbers.
* `InstallationProof`, the candidate transaction first.  `CommittedIsPrepared` rests on
  `StagedIsVerified`: what left the staging loop has the prepared digest and the
  identity, and nothing is staged or verified before.  `OptimisticCommit` rests on
  `RevisionIsCounted`: until the commit, the environment moved on by the others'
  commits only.  `ReturnsClean` and `RollbackBeforeRemoval` rest on `OwesByStep`: which
  deferred calls are owed at each step.  Then the fleet.  `FleetInv`: where the harness is says how far it has come
  (`Progressing`); what is enabled is installed and consented (`EnabledIsReady`); an
  error has a reason (`Reasons`).  `NilMeansReady` and `ErrorsHaveReasons` follow.
  `ImplementsItsParts`: the composition implements both components, the fleet's
  assumption about the candidate (`nil` means installed) being discharged by
  `CommitInstalls`; so the invariants of both hold of it (`InstallationIsSafe`).
  `EnabledIsPrepared` is about the two together: `EnvironmentIsStaged` after the
  commit, `HandedOverAfterNil` before the enabling.
* `FleetToolsProof`.  `Holder`: between the exclusive creation and the close there is
  one invocation, and the file is its own.  `ToolsAreWriters` shows that composers
  and audits implement that protocol, so that its theorems hold of them; with
  `EvidenceIsReport` (an audit's body is its report, its result the writer's)
  `PassesAreRecorded` follows.  `StagedSoFar` says what left the loop of `verify` and
  when the archive exists; `ComparedSoFar` that what a resolution compared is still
  so or was rewritten since.  `ComposedPlanIsClosed` and `LocalPlanHoldsWhatItNeeds`
  are about the composers whose plans these tools write.  The code decides the closure
  of a composed plan by counting; the argument is one about finite sets: what was
  verified is wanted, each id of it comes from one directory only, and it is as many
  as are wanted, so it is the wanted ones.
* `HistoryScanProof`.  `ExactCount` rests on `PagesCovered`: while nothing is printed,
  every marker below the current page has been found and nothing else.
  `NoCopyIsOverlooked` cannot say where a copy was found, because output moves it away
  from there.  `Progress` keeps a function from the copies passed so far to the
  positions recorded for them: different copies have different positions, none above
  where its copy is by now, all below the page that comes next.  A page extends it, a
  printed line leaves it true, though it drops the oldest copy when the terminal keeps
  no more, and at the top of the history it is an injection of all copies that are
  still there into the positions that are counted.
* `InstalledMatrixProof`.  `ReportSoFar`: what the calls so far have established of the
  current engine, and that the engines before it have passed; `AsDeclared`: without
  trouble, which only interference at a moment that matters brings, the product is as
  declared and does what it is asked.
* `TerminalScenariosProof`.  `Balanced`: while no other plugin moves, an application
  that keeps its promise keeps its balance (a view that is about to attach is counted
  with `Missing`), and a defect can only raise it.  `Exposed`: a defect shows late,
  but not later than the next reload, and the comparison that follows stops the
  scenario.  `LeaksAreFound` and `NoLeakIsInvented` follow.  The restart, the fault and
  the closed tab share `RestoreInv`.  `Known` says that every pid the scenario or the
  application holds was given out before, so that a new process has another one as
  long as no pid is used again; with it, `FoundGone` (what a call found gone stays so)
  gives `OldProcessesAreGone`, crash or not.  The verdicts need more.  While neither a
  crash nor a reuse has come (`Calm`), the legs fall into two parts.  Before the end of
  the daemon (`Serves`) no process changes at all, what is remembered is what is there
  (`Remembers`), each marker is printed once (`Markers`) and each archive has it
  (`Archives`).  Afterwards (`AfterKill`, `AfterStop`, `AfterClose`) the old processes
  are gone or on their way out, and every pane that is live has a new shell and, after
  the kill, its archive.  `NotPast` and `NewShell` name the call that each defect does
  not get past.  `EveryDefectIsFound` reads a pass against them; for
  `EveryAlarmHasAnExcuse` they make true what each call asks of an application without
  a defect.
* `TerminalCommandsProof`.  Output and sizes pass the layers in their order, so that no
  layer is ahead of the one before it (`InStep`), and a size that has reached the
  renderer is at every layer (`LayersByCall`); a sample taken then shows it
  (`SamplesByCall`).  The two lemmas about `failureBoundary` (`NamedOrNone`,
  `TheConditions`, and the same for the output) say when it names nothing at all:
  a pass and a missing evidence are both that case.  `PassSawEveryLayer` and
  `FailsForAReason` follow.  `BaselineByLeg` keeps the baseline at or below what the PTY
  has printed, whatever source it was read from; with what the tail wait saw
  (`TailByLeg`), `OutputVerdictIsTrue` follows, and `EvidenceOfEveryFailure` from both
  legs.

Checked by TLC only: liveness (`MethodsReturn`, `CloseReaps`, `ScanEnds`,
`EndsOrWaits`), which is out of the proof system's reach here, and the three
properties the code violates.  Every safety property of a passing run is a theorem.

## Plan

Done first, because every test depends on it: the life cycle, then the
installations, the files written once, the scans, the resize leg, the plans and
the restores.  Then: the composition of the two installations, the rest of the
terminal commands with the output evidence, the plugin reload, the audit, the
release store, the staging, the installed matrix, and the proofs of the parts
with a transaction, a file or a report.

Then the proofs of the composers, of the scans under output, of the terminal commands
and of the restart, fault and close scenarios.

Next, in this order:

1. Lemmas that bound the work left in the loops of the scans and of the installation,
   as far as they are safety: what TLC's liveness runs rest on.
2. Visibility and the acceptance of the user interface, if their waits gain a
   state of their own.
3. The validations of profiles and reports as operators against a reference.

## What is not modelled

Image comparison, colour arithmetic, keyboard layouts and shell quoting have no
state.  Visibility, pane switch, theme and keyboard checks and the user interface
acceptance read once and compare.  Profiles and benchmark reports are validated
field by field.  Launching the CLI is a call that may fail.  The application
itself, its sidecars, release servers and the CLI are not part of this repository
and appear as environment.  Workflows and scripts only order the commands.

-------------------------------- MODULE Restore --------------------------------
(***************************************************************************)
(* The three scenarios about the PTY daemon and its shells:                *)
(* VerifyWarmAndArchivedRestore (terminal_restore.go) restarts the         *)
(* application over living shells, archives the panes, kills the daemon    *)
(* and restarts again; VerifyPtyFaultRecovery (terminal_pty_fault.go)      *)
(* stops the daemon under a running application; and                       *)
(* VerifyTerminalTabCloseReaps (terminal_tab_close.go) closes a tab.       *)
(* They tell processes apart by their pids, which are used again.          *)
(***************************************************************************)
EXTENDS Naturals, FiniteSets

CONSTANTS N,         \* panes, one per terminal plugin
          MaxPid,    \* bound: pids that are given out
          MaxTrouble \* bound: kinds of trouble, each of which comes once

ASSUME RestoreAssumption == N \in Nat \ {0} /\ MaxPid \in Nat /\ MaxPid > N
                     /\ MaxTrouble \in 0..2

Panes == 1..N
Pids  == 1..MaxPid
Kinds == {"restore", "fault", "close"}

\* What may be wrong with the application under test, one thing at a time.
Defects == {"new-shell", "drop-output", "repeat-output", "empty-archive",
            "plain-archive", "drop-archive", "repeat-archive",
            "incomplete", "mute", "keeps-daemon", "keeps-shell", "keeps-session"}

VARIABLES kind, pc, leg,       \* scenario, its next call, its leg
          at,                  \* the loops are at this pane
          oldShell, oldDaemon, \* pids the scenario remembers; 0 for none
          result,              \* "none" yet, "pass" or "error"
          excuses,             \* what went wrong besides the defect
          defect,              \* "none" or the defect of the application
          app,                 \* is the application up?
          next, alive, dying,  \* next new pid; processes; those about to exit
          daemon, shell,       \* pids in sidecar_status and pty.status
          live, outcome,       \* panes in phase live; how they came back
          due, attended,       \* detached markers not yet printed; those
                               \* printed in front of the application
          screen, checkpoint,  \* how often a marker is in history and archive
          typed                \* is the second marker typed, or shown?

harness == <<kind, pc, leg, at, oldShell, oldDaemon, result>>
procs   == <<next, alive, dying, daemon, shell>>
panes   == <<live, outcome, due, attended, screen, checkpoint, typed>>
vars    == <<harness, excuses, defect, app, procs, panes>>

NoArchive == 3
All(v) == [p \in Panes |-> v]

Init ==
    /\ kind \in Kinds /\ defect \in Defects \cup {"none"}
    /\ leg = kind /\ at = 1 /\ result = "none" /\ excuses = {}
    /\ pc = IF kind = "restore" THEN "shell" ELSE "sessions"
    /\ oldShell = All(0) /\ oldDaemon = 0
    /\ app = TRUE /\ next = N + 2 /\ alive = 1..(N + 1) /\ dying = {}
    /\ daemon = 1 /\ shell = [p \in Panes |-> p + 1]
    /\ live = Panes /\ outcome = All("none") /\ due = {} /\ attended = {}
    /\ screen = All(0) /\ checkpoint = All(NoArchive) /\ typed = All("no")

--------------------------------------------------------------------------------
\* Each call in turn.
Goto(p) == pc' = p /\ UNCHANGED <<kind, leg, at, result>>
Enter(l, p) == pc' = p /\ leg' = l /\ at' = 1 /\ UNCHANGED <<kind, result>>
End(r) == pc' = "done" /\ result' = r /\ UNCHANGED <<kind, leg, at>>
Error == End("error")
Else(ok, move) == IF ok THEN move ELSE Error
Loop(p, after) ==
    IF at < N THEN pc' = p /\ at' = at + 1 /\ UNCHANGED <<kind, leg, result>>
              ELSE after

memory == <<oldShell, oldDaemon>>
world  == <<excuses, defect, app, procs, panes>>

WaitPc == {"scheduled", "activate", "wait", "shown"}

\* Any call may fail, and any wait may reach its time limit.
CallFails ==
    /\ pc # "done" /\ Error
    /\ \/ excuses' = excuses \cup {"call"}
       \/ pc \in WaitPc /\ excuses' = excuses \cup {"late"}
    /\ UNCHANGED <<memory, defect, app, procs, panes>>

\* kill(pid, 0) succeeds for a process that has not exited yet.
processGone(pid) == pid \notin alive
\* It has been ended, but a moment ago.
Hasty(pid) == excuses' = IF pid \in dying THEN excuses \cup {"hasty"} ELSE excuses

--------------------------------------------------------------------------------
(* VerifyWarmAndArchivedRestore: the first loop. *)

\* ptyStatus and shellPID.
ReadShell ==
    /\ pc = "shell"
    /\ oldShell' = [oldShell EXCEPT ![at] = shell[at]]
    /\ Else(shell[at] # 0, Goto("detach"))
    /\ UNCHANGED <<oldDaemon, world>>

\* A command that prints the marker ten seconds later.
TypeDetached ==
    /\ pc = "detach" /\ Goto("scheduled")
    /\ due' = IF shell[at] # 0 THEN due \cup {at} ELSE due
    /\ UNCHANGED <<memory, excuses, defect, app, procs, live, outcome, attended,
                   screen, checkpoint, typed>>

WaitScheduled ==
    /\ pc = "scheduled" /\ Loop("shell", Goto("shutdown"))
    /\ UNCHANGED <<memory, world>>

\* lifecycle.Shutdown: the daemon and its shells stay.
Shutdown ==
    /\ pc = "shutdown" /\ app' = FALSE /\ live' = {}
    /\ Goto(IF leg = "restore" THEN "start" ELSE "terminate")
    /\ UNCHANGED <<memory, excuses, defect, procs, outcome, due, attended, screen,
                   checkpoint, typed>>

\* lifecycle.Start and AwaitWindow.
Start ==
    /\ pc = "start" /\ app' = TRUE
    /\ Enter(IF leg = "restore" THEN "warm" ELSE "archived", "activate")
    /\ UNCHANGED <<memory, excuses, defect, procs, panes>>

\* activateRestoredTerminal and tab.mount.wait.
Activate ==
    /\ pc = "activate" /\ Goto("wait")
    /\ UNCHANGED <<memory, world>>

\* The fidelity that a wait reports: complete, but for a pane that the application
\* did not bring back whole.
Complete(p) == outcome[p] = "none" \/ defect # "incomplete"

\* Fault: the wait does not ask for the marker.
WaitWarmHalf ==
    /\ pc = "wait" /\ leg = "warm" /\ at \in live
    /\ Else(outcome[at] = "continued" /\ Complete(at), Goto("same"))
    /\ UNCHANGED <<memory, world>>

\* The marker printed meanwhile is there, and the terminal was continued.
WaitWarm ==
    /\ pc = "wait" /\ leg = "warm" /\ at \in live /\ screen[at] > 0
    /\ Else(outcome[at] = "continued" /\ Complete(at), Goto("same"))
    /\ UNCHANGED <<memory, world>>

\* Fault: any shell will do.
SameShellOrOther ==
    /\ pc = "same" /\ Else(shell[at] # 0, Goto("read"))
    /\ UNCHANGED <<memory, world>>

SameShell ==
    /\ pc = "same" /\ Else(shell[at] # 0 /\ shell[at] = oldShell[at], Goto("read"))
    /\ UNCHANGED <<memory, world>>

ReadScreen ==
    /\ pc = "read" /\ Else(screen[at] = 1, Goto("archive"))
    /\ UNCHANGED <<memory, world>>

Archive ==
    /\ pc = "archive" /\ Goto("frame")
    /\ checkpoint' = [checkpoint EXCEPT ![at] = IF defect = "empty-archive" THEN 0
                                                                  ELSE screen[at]]
    /\ UNCHANGED <<memory, excuses, defect, app, procs, live, outcome, due, attended,
                   screen, typed>>

\* writeArchivedCheckpointEvidence needs the pane's session for its window label.
ArchivedFrame ==
    /\ pc = "frame"
    /\ Else(shell[at] # 0 /\ checkpoint[at] = 1, Loop("activate", Goto("files")))
    /\ UNCHANGED <<memory, world>>

\* verifyEncryptedCheckpoints: one encrypted file per pane.
VerifyCheckpoints ==
    /\ pc = "files"
    /\ Else(/\ \A p \in Panes : checkpoint[p] # NoArchive
            /\ defect # "plain-archive", Goto("daemon"))
    /\ UNCHANGED <<memory, world>>

\* A temporary file that was listed is renamed before it is opened.
CheckpointRenamed ==
    /\ pc = "files" /\ Error /\ excuses' = excuses \cup {"renamed"}
    /\ UNCHANGED <<memory, defect, app, procs, panes>>

--------------------------------------------------------------------------------
(* The daemon, and what becomes of its shells. *)

\* runningSidecarPID.
ReadDaemon ==
    /\ pc = "daemon" /\ oldDaemon' = daemon
    /\ Else(daemon # 0, IF leg = "fault" THEN Goto("stop")
                                         ELSE Enter("kill", "shutdown"))
    /\ UNCHANGED <<oldShell, world>>

\* A daemon that ends takes its sessions along; their shells are hung up.
Hangup == IF defect = "keeps-shell" THEN {} ELSE {shell[p] : p \in Panes} \ {0}
DaemonEnds ==
    /\ daemon' = 0 /\ shell' = All(0) /\ due' = {} /\ UNCHANGED next

\* terminateProcess: SIGKILL to whatever has that pid now.
Terminate ==
    /\ pc = "terminate" /\ Else(oldDaemon \in alive, Goto("start"))
    /\ IF oldDaemon \notin alive THEN UNCHANGED <<procs, due>>
       ELSE IF oldDaemon = daemon
         THEN DaemonEnds /\ dying' = dying \cup Hangup \cup {oldDaemon} /\ UNCHANGED alive
         ELSE /\ dying' = dying \cup {oldDaemon}
              /\ shell' = [p \in Panes |-> IF shell[p] = oldDaemon THEN 0 ELSE shell[p]]
              /\ UNCHANGED <<next, alive, daemon, due>>
    /\ UNCHANGED <<memory, excuses, defect, app, live, outcome, attended, screen,
                   checkpoint, typed>>

\* sidecar_stop answers when the process has exited.
StopDaemon ==
    /\ pc = "stop" /\ Enter("fault", "activate")
    /\ IF daemon = 0 THEN UNCHANGED <<procs, due>>
         ELSE /\ DaemonEnds /\ dying' = dying \cup Hangup
              /\ alive' = IF defect = "keeps-daemon" THEN alive ELSE alive \ {daemon}
    /\ UNCHANGED <<memory, excuses, defect, app, live, outcome, attended, screen,
                   checkpoint, typed>>

--------------------------------------------------------------------------------
(* After the archived restart, and after the fault. *)

\* recoveryOutcome is asked for after a restart only.  After a fault the pane may
\* still be live from before it, with the fidelity that it had then.
WaitLive ==
    /\ pc = "wait" /\ leg \in {"archived", "fault"} /\ at \in live
    /\ IF leg = "fault" THEN Else(Complete(at), Goto("type"))
                        ELSE Else(outcome[at] = "archived" /\ Complete(at), Goto("other"))
    /\ UNCHANGED <<memory, world>>

OtherShell ==
    /\ pc = "other" /\ Else(shell[at] # 0 /\ shell[at] # oldShell[at], Goto("type"))
    /\ UNCHANGED <<memory, world>>

\* Without a session, the application may keep the keys or lose them.
TypeMarker ==
    /\ pc = "type" /\ Goto("shown")
    /\ typed' \in {[typed EXCEPT ![at] = t] :
                      t \in IF shell[at] # 0 THEN {"typed"} ELSE {"typed", "no"}}
    /\ UNCHANGED <<memory, excuses, defect, app, procs, live, outcome, due, attended,
                   screen, checkpoint>>

WaitMarker ==
    /\ pc = "shown" /\ at \in live /\ typed[at] = "shown"
    /\ IF leg = "fault" THEN Loop("activate", Enter("fault", "after")) ELSE Goto("count")
    /\ UNCHANGED <<memory, world>>

\* countExactLineInTerminalHistory, which HistoryScan models.
CountHistory ==
    /\ pc = "count" /\ Else(screen[at] = 1, Loop("activate", Goto("replaced")))
    /\ UNCHANGED <<memory, world>>

NewDaemon ==
    /\ pc = "replaced" /\ Else(daemon # 0 /\ daemon # oldDaemon, Goto("gone"))
    /\ UNCHANGED <<memory, world>>

\* Fault: a new pid is taken for the end of the old process.
OldDaemonReplaced ==
    /\ pc = "gone" /\ End("pass")
    /\ UNCHANGED <<memory, excuses, defect, app, procs, panes>>

OldDaemonGone ==
    /\ pc = "gone" /\ Hasty(oldDaemon)
    /\ IF processGone(oldDaemon) THEN End("pass") ELSE Error
    /\ UNCHANGED <<memory, defect, app, procs, panes>>

--------------------------------------------------------------------------------
(* VerifyPtyFaultRecovery and VerifyTerminalTabCloseReaps: the sessions before
   and after. *)

\* ptyFaultSessions; closing looks at the first pane only.
ReadSessions ==
    /\ pc = "sessions" /\ oldShell' = shell
    /\ IF kind = "fault" THEN Goto("daemon") ELSE Else(shell[1] # 0, Goto("close"))
    /\ UNCHANGED <<oldDaemon, world>>

\* As many sessions as before and as views, each with another shell.  The code
\* compares each view's session right before it looks for its old shell; all of
\* them come from the two status answers, so that only the error it names differs.
ReadAfter ==
    /\ pc = "after"
    /\ Else(\A p \in Panes : shell[p] # 0 /\ oldShell[p] # 0 /\ shell[p] # oldShell[p],
            Goto("reaped"))
    /\ UNCHANGED <<memory, world>>

OldShellGone ==
    /\ pc = "reaped" /\ Hasty(oldShell[at])
    /\ IF ~processGone(oldShell[at]) THEN Error
       ELSE IF kind = "close" THEN End("pass") ELSE Loop("reaped", Goto("replaced"))
    /\ UNCHANGED <<memory, defect, app, procs, panes>>

CloseTab ==
    /\ pc = "close" /\ Goto("closed")
    /\ shell' = [shell EXCEPT ![1] = IF defect = "keeps-session" THEN @ ELSE 0]
    /\ dying' = IF defect \in {"keeps-session", "keeps-shell"} THEN dying
                                             ELSE dying \cup ({shell[1]} \ {0})
    /\ live' = live \ {1}
    /\ UNCHANGED <<memory, excuses, defect, app, next, alive, daemon, outcome, due,
                   attended, screen, checkpoint, typed>>

ReadClosed ==
    /\ pc = "closed" /\ Else(shell[1] = 0, Goto("reaped"))
    /\ UNCHANGED <<memory, world>>

--------------------------------------------------------------------------------
(* The application and its processes (external). *)

Trouble(t) ==
    /\ t \notin excuses /\ Cardinality(excuses \cap {"crash", "reuse"}) < MaxTrouble
    /\ excuses' = excuses \cup {t}

\* A new process gets a new pid, or one that is free again.
New(x) ==
    /\ alive' = alive \cup {x}
    /\ \/ x = next /\ next' = next + 1 /\ UNCHANGED excuses
       \/ x \in (1..(next - 1)) \ alive /\ Trouble("reuse") /\ UNCHANGED next

SpawnDaemon(x) ==
    /\ app /\ daemon = 0 /\ New(x) /\ daemon' = x
    /\ UNCHANGED <<harness, defect, app, dying, shell, panes>>

\* A pane with a session goes on with it.
Continue(p) ==
    /\ app /\ daemon # 0 /\ p \notin live /\ shell[p] # 0 /\ defect # "new-shell"
    /\ live' = live \cup {p} /\ outcome' = [outcome EXCEPT ![p] = "continued"]
    /\ UNCHANGED <<harness, excuses, defect, app, procs, due, attended, screen,
                   checkpoint, typed>>

\* Without one it gets a new shell, and its screen from the archive if there is one.
Replace(p, x) ==
    /\ app /\ daemon # 0 /\ p \notin live /\ (kind = "close" => p # 1)
    /\ shell[p] # 0 => defect = "new-shell"
    /\ New(x) /\ shell' = [shell EXCEPT ![p] = x]
    /\ dying' = dying \cup ({shell[p]} \ {0})
    /\ live' = live \cup {p}
    /\ outcome' = [outcome EXCEPT ![p] = IF shell[p] # 0 THEN "continued"
                       ELSE IF checkpoint[p] # NoArchive THEN "archived" ELSE "fresh"]
    /\ screen' = [screen EXCEPT ![p] =
                     CASE checkpoint[p] = NoArchive -> @
                       [] defect = "drop-archive"   -> 0
                       [] defect = "repeat-archive" -> 2
                       [] OTHER -> checkpoint[p]]
    /\ UNCHANGED <<harness, defect, app, daemon, due, attended, checkpoint, typed>>

\* A running application finds out that a session is gone.
Notice(p) ==
    /\ p \in live /\ shell[p] = 0 /\ live' = live \ {p}
    /\ UNCHANGED <<harness, excuses, defect, app, procs, outcome, due, attended, screen,
                   checkpoint, typed>>

\* The ten seconds are over.
PrintMarker(p) ==
    /\ p \in due /\ due' = due \ {p}
    /\ attended' = IF app THEN attended \cup {p} ELSE attended
    /\ screen' = [screen EXCEPT ![p] = IF app THEN @ + 1
                     ELSE CASE defect = "drop-output"   -> @
                            [] defect = "repeat-output" -> @ + 2
                            [] OTHER                    -> @ + 1]
    /\ UNCHANGED <<harness, excuses, defect, app, procs, live, outcome, checkpoint, typed>>

RunTyped(p) ==
    /\ typed[p] = "typed" /\ shell[p] # 0 /\ defect # "mute"
    /\ typed' = [typed EXCEPT ![p] = "shown"]
    /\ UNCHANGED <<harness, excuses, defect, app, procs, live, outcome, due, attended,
                   screen, checkpoint>>

Exit(x) ==
    /\ x \in dying /\ dying' = dying \ {x} /\ alive' = alive \ {x}
    /\ UNCHANGED <<harness, excuses, defect, app, next, daemon, shell, panes>>

\* The daemon ends on its own.
Crash ==
    /\ daemon # 0 /\ Trouble("crash")
    /\ DaemonEnds /\ alive' = alive \ {daemon} /\ dying' = dying \cup Hangup
    /\ UNCHANGED <<harness, defect, app, live, outcome, attended, screen, checkpoint, typed>>

Application ==
    /\ result = "none"
    /\ \/ \E x \in Pids : SpawnDaemon(x) \/ Exit(x) \/ \E p \in Panes : Replace(p, x)
       \/ \E p \in Panes : Continue(p) \/ Notice(p) \/ PrintMarker(p) \/ RunTyped(p)
       \/ Crash

Next ==
    \/ ReadShell \/ TypeDetached \/ WaitScheduled \/ Shutdown \/ Start \/ Activate
    \/ WaitWarm \/ SameShell \/ ReadScreen \/ Archive \/ ArchivedFrame
    \/ VerifyCheckpoints \/ CheckpointRenamed \/ ReadDaemon \/ Terminate \/ StopDaemon \/ WaitLive
    \/ OtherShell \/ TypeMarker \/ WaitMarker \/ CountHistory \/ NewDaemon
    \/ OldDaemonGone \/ ReadSessions \/ ReadAfter \/ OldShellGone \/ CloseTab
    \/ ReadClosed \/ CallFails \/ Application

Spec == Init /\ [][Next]_vars

--------------------------------------------------------------------------------
\* A scenario that passes has told the application's defects apart from the
\* promised behaviour, each that it is there to find.  Output that is lost or
\* repeated while the application is down is found unless the ten seconds of
\* every marker ended while it was up; a pid that is used again or a daemon that
\* ends on its own may deceive it.  A pane that comes back incomplete after a
\* fault is not found for sure: its wait may be answered before the application
\* knows of the fault.
Finds ==
    CASE kind = "restore" ->
            {"new-shell", "empty-archive", "plain-archive", "drop-archive",
             "repeat-archive", "incomplete", "mute"}
            \cup IF attended = Panes THEN {} ELSE {"drop-output", "repeat-output"}
      [] kind = "fault" -> {"keeps-daemon", "keeps-shell", "mute"}
      [] kind = "close" -> {"keeps-shell", "keeps-session"}
PassIsComplete ==
    result = "pass" /\ excuses \cap {"reuse", "crash"} = {} => defect \notin Finds

\* An application that does what it promises fails a scenario only if a call
\* failed, a wait ran out, the daemon ended on its own, a pid was used again,
\* processGone looked once at a process that was about to exit, or a checkpoint
\* got its final name while the directory was read.
NoFalseAlarm == result = "error" /\ defect = "none" => excuses # {}

\* When a scenario passes, the old daemon does not exist any more, and after a
\* fault or a closed tab neither does a shell that was hung up, even if the
\* daemon ended once more on its own meanwhile.
NoOldProcess ==
    result = "pass" /\ "reuse" \notin excuses =>
        /\ kind # "close" => oldDaemon \notin alive
        /\ kind = "fault" => \A p \in Panes : oldShell[p] \notin alive
        /\ kind = "close" => oldShell[1] \notin alive
================================================================================

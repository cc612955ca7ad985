---------------------------- MODULE TerminalCommands ----------------------------
(***************************************************************************)
(* VerifyTerminalCommands for one plugin: the pane is split and widened,   *)
(* the resize leg runs (ResizeProbe), and then a high-output command: its  *)
(* output passes through the same layers, the harness waits for its tail,  *)
(* reads the plugin's status and writes what it saw as evidence, with the  *)
(* boundary it holds responsible (terminal_output_evidence.go).            *)
(***************************************************************************)
EXTENDS ResizeProbe

CONSTANT Payload  \* output events of the high-output command

ASSUME CommandsAssumption == Payload \in Nat \ {0}

VARIABLES leg,      \* next call outside of the resize leg; "resize" inside of it
          verdict,  \* "none" yet, "pass" or "error"
          broken,   \* a call failed
          base,     \* beforeOutput.Source.OutputSequence
          seen,     \* MarkerObserved
          slow,     \* the throughput is below its minimum
          status,   \* the layers in the status after the wait
          outEvidence, \* boundary of the output file, "unwritten" without a file
          running,  \* output the command has still to print
          tail,     \* sequence of its tail, 0 before it is printed
          origin,   \* true output sequence when the baseline was read
          unsteady  \* the PTY came to or left the status after the baseline

output   == <<base, seen, slow, status, outEvidence, running, tail, origin, unsteady>>
commands == <<leg, verdict, broken>>
allVars  == <<vars, commands, output>>

NoStatus == [source |-> 0, recovery |-> 0, rendered |-> 0, gaps |-> FALSE]

CommandsInit ==
    /\ Init
    /\ leg = "open" /\ verdict = "none" /\ broken = FALSE
    /\ base = 0 /\ seen = FALSE /\ slow = FALSE /\ status = NoStatus
    /\ outEvidence = "unwritten" /\ running = 0 /\ tail = 0 /\ origin = 0
    /\ unsteady = FALSE

At(l, next) == leg = l /\ leg' = next /\ UNCHANGED <<verdict, broken>>
End(v) == leg' = "end" /\ verdict' = v

--------------------------------------------------------------------------------
(* The preparation of the first terminal's pane; the others are opened in it.  *)
(* A layer stalls, if at all, when the panes are ready.                        *)

Prepared == <<harness, stalled, hasPty, gaps, requested, pty, recovery, rendered, output>>

\* tab.open, tab.activate, tab.list and the wait for phase live.
OpenTab == (At("open", "split") \/ At("open", "ready")) /\ UNCHANGED <<layout, Prepared>>

SplitPane == At("split", "shrunk") /\ layout' = Narrow /\ UNCHANGED Prepared

ExpandPane == At("expand", "expanded") /\ layout' = Wide /\ UNCHANGED Prepared

Follow(size) ==
    /\ requested' = size /\ pty' = [pty EXCEPT !.size = size, !.event = @ + 1]
    /\ recovery' = pty' /\ rendered' = pty'

\* The two waits return when the renderer has followed.
WaitFollowed ==
    /\ \/ At("shrunk", "expand") /\ Follow(Narrow)
       \/ At("expanded", "ready") /\ Follow(Wide)
    /\ UNCHANGED <<harness, stalled, hasPty, gaps, layout, output>>

\* pane.resize to the same ratio, the marker, its fidelity and columns, ui.tree.
MarkerReady ==
    /\ At("ready", "resize") /\ readyCols' = rendered.size
    /\ UNCHANGED <<pc, point, dom, wide, narrow, restored, marker, failed, late, evidence, result>>
    /\ UNCHANGED <<world, output>>

--------------------------------------------------------------------------------
\* terminalOutputEvidence.failureBoundary: the first condition that fails.
OutputBoundaries == <<"source-output", "recovery-output", "renderer-output",
                      "composition-throughput">>

FirstThatFails(conditions) ==
    LET fails == {i \in 1..4 : ~conditions[i]}
    IN  IF fails = {} THEN ""
        ELSE OutputBoundaries[CHOOSE i \in fails : \A j \in fails : i <= j]

\* Fault: the whole sequence counts, not what came since the baseline.
OutputConditionsFromZero(s) ==
    << s.source >= Payload,
       ~s.gaps /\ s.recovery <= s.source /\ (seen \/ s.recovery = s.source),
       s.rendered <= s.recovery /\ (seen \/ s.rendered = s.recovery),
       ~slow >>

OutputConditions(s) ==
    << s.source # 0 /\ s.source >= base + Payload,
       ~s.gaps /\ s.recovery <= s.source /\ (seen \/ s.recovery = s.source),
       s.rendered <= s.recovery /\ (seen \/ s.rendered = s.recovery),
       ~slow >>

outputBoundary(s) == FirstThatFails(OutputConditions(s))

\* The resize leg has ended.  Its samples are in the file; nothing reads them
\* again.
ResizeEnds ==
    /\ leg = "resize" /\ pc = "done"
    /\ IF result = "pass"
         THEN /\ leg' = "read" /\ UNCHANGED verdict
              /\ wide' = NoSample /\ narrow' = NoSample /\ restored' = NoSample
              /\ result' = "none" /\ evidence' = "unwritten" /\ dom' = 0 /\ marker' = 0
         ELSE End("error") /\ UNCHANGED <<wide, narrow, restored, result, evidence, dom, marker>>
    /\ UNCHANGED <<broken, pc, point, readyCols, failed, late, world, output>>

\* read, focus, status.
ReadMarker == At("read", "baseline") /\ UNCHANGED <<vars, output>>

\* terminalOutputStatus: the PTY of the status, or what recovery says of it.
Source == IF hasPty THEN pty.out ELSE recovery.out

ReadBaseline ==
    /\ At("baseline", "enter")
    /\ base' = Source /\ origin' = pty.out
    /\ UNCHANGED <<vars, seen, slow, status, outEvidence, running, tail, unsteady>>

\* The command starts; it may print less than it should.
PressEnter ==
    /\ At("enter", "tail")
    /\ running' \in (1..Payload)
    /\ UNCHANGED <<vars, base, seen, slow, status, outEvidence, tail, origin, unsteady>>

WaitTail ==
    /\ At("tail", "status")
    /\ tail # 0 /\ rendered.out >= tail
    /\ seen' = TRUE /\ slow' \in BOOLEAN
    /\ UNCHANGED <<vars, base, status, outEvidence, running, tail, origin, unsteady>>

\* 20 seconds are over.
WaitTailEnds ==
    /\ At("tail", "status")
    /\ seen' = FALSE /\ slow' = TRUE
    /\ UNCHANGED <<vars, base, status, outEvidence, running, tail, origin, unsteady>>

\* Fault: a wait that ran out ends the leg.
ReadOutputStatusOrGiveUp ==
    /\ leg = "status"
    /\ IF ~seen THEN End("error") /\ UNCHANGED <<status, outEvidence, broken>>
         ELSE /\ status' = [source |-> Source, recovery |-> recovery.out,
                            rendered |-> rendered.out, gaps |-> gaps]
              /\ outEvidence' = outputBoundary(status') /\ UNCHANGED broken
              /\ IF outEvidence' = "" THEN leg' = "nodes" /\ UNCHANGED verdict ELSE End("error")
    /\ UNCHANGED <<vars, base, seen, slow, running, tail, origin, unsteady>>

\* The status is read whether or not the wait succeeded, and so is the evidence
\* written; a status that fails has no source.
ReadOutputStatus ==
    /\ leg = "status"
    /\ \/ /\ status' = [source |-> Source, recovery |-> recovery.out,
                        rendered |-> rendered.out, gaps |-> gaps]
          /\ UNCHANGED broken
       \/ status' = NoStatus /\ broken' = TRUE
    /\ outEvidence' = outputBoundary(status')
    /\ IF seen /\ outEvidence' = "" THEN leg' = "nodes" /\ UNCHANGED verdict ELSE End("error")
    /\ UNCHANGED <<vars, base, seen, slow, running, tail, origin, unsteady>>

\* Nodes and their accessibility, snapshot and recording.
VerifyNodes == At("nodes", "capture") /\ UNCHANGED <<vars, output>>

CaptureTerminal == leg = "capture" /\ End("pass") /\ UNCHANGED <<broken, vars, output>>

\* A call, a file or a wait of the preparation fails.
StepFails ==
    /\ leg \notin {"resize", "tail", "end"}
    /\ End("error") /\ broken' = TRUE
    /\ UNCHANGED <<vars, output>>

--------------------------------------------------------------------------------
(* The terminal (external). *)

PrintPayload ==
    /\ running > 0
    /\ pty' = [pty EXCEPT !.out = @ + 1] /\ running' = running - 1
    /\ tail' = IF running' = 0 THEN pty'.out ELSE tail
    /\ UNCHANGED <<harness, stalled, hasPty, gaps, layout, requested, recovery, rendered,
                   commands, base, seen, slow, status, outEvidence, origin, unsteady>>

\* Output passes through the layers, or is lost on its way.
OutputMoves ==
    /\ leg \in {"read", "baseline", "enter", "tail", "status"}
    /\ \/ pty.out < MaxOutput /\ pty' = [pty EXCEPT !.out = @ + 1]
          /\ UNCHANGED <<harness, stalled, hasPty, gaps, layout, requested, recovery, rendered>>
       \/ Recover \/ Render \/ (leg \in {"tail", "status"} /\ LosesOutput)
    /\ UNCHANGED <<commands, output>>

\* The plugin begins or ceases to say anything of the PTY.
StatusChanges ==
    /\ leg = "tail" /\ hasPty' = ~hasPty /\ unsteady' = TRUE
    /\ UNCHANGED <<harness, stalled, gaps, layers, commands, base, seen, slow, status,
                   outEvidence, running, tail, origin, gaps>>

CommandsNext ==
    \/ OpenTab \/ SplitPane \/ ExpandPane \/ WaitFollowed \/ MarkerReady
    \/ leg = "resize" /\ Next /\ UNCHANGED <<commands, output>>
    \/ ResizeEnds \/ ReadMarker \/ ReadBaseline \/ PressEnter \/ WaitTail \/ WaitTailEnds
    \/ ReadOutputStatus \/ VerifyNodes \/ CaptureTerminal \/ StepFails
    \/ PrintPayload \/ OutputMoves \/ StatusChanges

CommandsSpec == CommandsInit /\ [][CommandsNext]_allVars

--------------------------------------------------------------------------------
\* README.md:69-74: a verdict has its coordinates.  A resize leg that fails has
\* written its evidence, unless a call or the write failed or its first wait ran out
\* (what that wait does is TimeoutHasCoordinates); the output leg, whose wait may run
\* out as well, has written a file that names a boundary.
FailureIsRecorded ==
    /\ result = "error" /\ ~failed /\ (late => point # "narrow") => evidence # "unwritten"
    /\ verdict = "error" /\ result = "none" /\ ~broken => outEvidence \notin {"unwritten", ""}

\* A pass means that the tail came through all layers without a loss, and that a
\* payload was printed since the baseline, which is the true one if the PTY itself
\* was asked both times; and a prompt terminal that prints its payload and loses
\* nothing is not failed, whichever of the two sources was asked.
OutputVerdict ==
    status # NoStatus =>
        /\ outEvidence = "" =>
              /\ seen /\ ~status.gaps /\ rendered.out >= tail /\ tail # 0
              /\ pty.out >= base + Payload
              /\ hasPty /\ ~unsteady => pty.out >= origin + Payload
        /\ seen /\ ~slow /\ ~status.gaps /\ tail >= origin + Payload => outEvidence = ""
================================================================================

------------------------------ MODULE ResizeProbe ------------------------------
(***************************************************************************)
(* The resize leg of VerifyTerminalCommands and its evidence               *)
(* (terminal_resize_evidence.go).  A resize travels through five layers:   *)
(* the core's layout, the plugin's request, the PTY, the recovery sidecar  *)
(* and the renderer, each of which follows the one before it in its own    *)
(* time.  The harness resizes the pane, samples the layers with two calls, *)
(* waits, and names the boundary at which a resize stopped.                *)
(***************************************************************************)
EXTENDS Naturals, FiniteSets, Sequences

CONSTANT MaxOutput \* bound: output events of the terminal

ASSUME ProbeAssumption == MaxOutput \in Nat \ {0}

\* A size is a pair of columns and rows that belong together: the pane changes its
\* width only, and a layer that has one of them has both.
Narrow == 1
Wide   == 2
Layers == {"core-layout", "plugin-request", "source-observation",
           "recovery-observation", "rendered-frame"}

VARIABLES pc,        \* next call of the harness
          point,     \* which sample a measurement is for
          dom,       \* answer of ui.measure
          wide, narrow, restored,  \* samples of the evidence
          marker,    \* output sequence of the resize marker
          readyCols, \* columns of the wait that saw the first marker
          failed,    \* a call, or the write of the evidence, failed
          late,      \* a wait reached its time limit
          evidence,  \* failureBoundary of the file, "unwritten" without a file
          result,    \* "none" yet, "pass" or "error"
          stalled,   \* layers that do not follow a resize
          hasPty,    \* does the plugin's status show the PTY?
          gaps,      \* the recovery sidecar has lost output
          layout, requested, pty, recovery, rendered  \* the layers: size, and
                     \* for the last three the sequences of events and output

harness == <<pc, point, dom, wide, narrow, restored, marker, readyCols, failed, late,
             evidence, result>>
layers  == <<layout, requested, pty, recovery, rendered>>
vars    == <<harness, stalled, hasPty, gaps, layers>>

NoLayer  == [size |-> 0, event |-> 0, out |-> 0]
NoSample == [dom |-> 0, cols |-> 0, requested |-> 0, pty |-> NoLayer,
             recovery |-> NoLayer, gaps |-> FALSE, rendered |-> NoLayer]

Init ==
    /\ pc = "measure" /\ point = "wide" /\ dom = 0
    /\ wide = NoSample /\ narrow = NoSample /\ restored = NoSample
    /\ marker = 0 /\ readyCols = Wide /\ failed = FALSE /\ late = FALSE
    /\ evidence = "unwritten" /\ result = "none"
    /\ stalled \in SUBSET Layers /\ hasPty \in BOOLEAN /\ gaps = FALSE
    /\ layout = Wide /\ requested = Wide
    /\ pty = [size |-> Wide, event |-> 1, out |-> 1]
    /\ recovery = pty /\ rendered = pty

--------------------------------------------------------------------------------
(* terminalResizeEvidence.failureBoundary: the first condition that fails. *)

Boundaries == <<"core-layout", "plugin-size", "plugin-request", "source-observation",
                "recovery-observation", "rendered-frame", "restore-observation",
                "core-layout-restore", "plugin-size-restore">>

Observed(n) == IF n.pty # NoLayer THEN n.pty ELSE n.recovery

\* Fault: recovery and source are compared by their sizes only.
ConditionsBySize(w, n, r) ==
    << n.dom < w.dom,
       n.cols < w.cols,
       n.requested # 0,
       Observed(n) # NoLayer /\ Observed(n).size = n.requested,
       n.recovery # NoLayer /\ ~n.gaps /\ n.recovery.size = Observed(n).size,
       /\ n.rendered # NoLayer /\ n.rendered.size = n.recovery.size
       /\ n.rendered.out > 0 /\ n.rendered.out <= n.recovery.out,
       r # NoSample,
       r.dom >= w.dom,
       r.cols = w.cols >>

Conditions(w, n, r) ==
    << n.dom < w.dom,
       n.cols < w.cols,
       n.requested # 0,
       Observed(n) # NoLayer /\ Observed(n).size = n.requested,
       n.recovery # NoLayer /\ ~n.gaps /\ n.recovery = Observed(n),
       /\ n.rendered # NoLayer /\ n.rendered.size = n.recovery.size
       /\ n.rendered.out > 0 /\ n.rendered.out <= n.recovery.out,
       r # NoSample,
       r.dom >= w.dom,
       r.cols = w.cols >>

failureBoundary(w, n, r) ==
    LET fails == {i \in 1..9 : ~Conditions(w, n, r)[i]}
    IN  IF fails = {} THEN "" ELSE Boundaries[CHOOSE i \in fails : \A j \in fails : i <= j]

--------------------------------------------------------------------------------
\* The evidence file, unless it cannot be written.
Write(n, r) == evidence' \in {failureBoundary(wide, n, r), "unwritten"}
Unwritten == evidence' = "unwritten"
Error == pc' = "done" /\ result' = "error"
MeasureFor(p) == pc' = "measure" /\ point' = p /\ UNCHANGED result
Goto(p) == pc' = p /\ UNCHANGED <<point, result>>

world == <<stalled, hasPty, gaps, layers>>

\* measureTerminalResize: ui.measure, and then the plugin's status, which comes
\* from another moment.  ReportedCols is what the renderer shows; a size is columns
\* and rows, which no layer takes over one without the other.
MeasureNode ==
    /\ pc = "measure"
    /\ dom' = layout /\ Goto("status")
    /\ UNCHANGED <<wide, narrow, restored, marker, readyCols, failed, late, evidence, world>>

Sample == [dom |-> dom, cols |-> rendered.size, requested |-> requested,
           pty |-> IF hasPty THEN pty ELSE NoLayer,
           recovery |-> recovery, gaps |-> gaps, rendered |-> rendered]

MeasureWide ==
    /\ pc = "status" /\ point = "wide"
    /\ wide' = Sample /\ Goto("narrow")
    /\ UNCHANGED <<dom, narrow, restored, marker, readyCols, failed, late, evidence, world>>

\* The first narrow sample decides whether the layout moved at all.
MeasureNarrow ==
    /\ pc = "status" /\ point = "narrow"
    /\ narrow' = Sample
    /\ IF failureBoundary(wide, narrow', restored) = "core-layout"
         THEN Write(narrow', restored) /\ failed' = Unwritten /\ Error /\ UNCHANGED point
         ELSE Goto("type") /\ UNCHANGED <<evidence, failed>>
    /\ UNCHANGED <<dom, wide, restored, marker, readyCols, late, world>>

\* After a wait for fewer columns that ran out, and after one that succeeded.
MeasureLate ==
    /\ pc = "status" /\ point = "late"
    /\ narrow' = Sample /\ Write(narrow', restored) /\ failed' = Unwritten /\ Error
    /\ UNCHANGED <<point, dom, wide, restored, marker, readyCols, late, world>>

MeasureNarrowed ==
    /\ pc = "status" /\ point = "narrowed"
    /\ narrow' = Sample /\ Goto("widen")
    /\ UNCHANGED <<dom, wide, restored, marker, readyCols, failed, late, evidence, world>>

\* After the wait for the wide size: the verdict, which a failed write makes an
\* error, or after its time limit.
MeasureRestored ==
    /\ pc = "status" /\ point \in {"restored", "restoredLate"}
    /\ restored' = Sample /\ Write(narrow, restored') /\ failed' = Unwritten
    /\ IF point = "restored" /\ evidence' = ""
         THEN pc' = "done" /\ result' = "pass"
         ELSE Error
    /\ UNCHANGED <<point, dom, wide, narrow, marker, readyCols, late, world>>

\* Either call of a measurement fails.  Late in the leg the evidence is written
\* with what there is; the sample of a failed one is empty.
MeasureFails ==
    /\ pc \in {"measure", "status"}
    /\ failed' = TRUE /\ Error
    /\ narrow' = IF point = "late" THEN NoSample ELSE narrow
    /\ IF point \in {"late", "restored", "restoredLate"}
         THEN Write(narrow', restored)
         ELSE UNCHANGED evidence
    /\ UNCHANGED <<point, dom, wide, restored, marker, readyCols, late, world>>

--------------------------------------------------------------------------------
\* resizePane: pane.resize and ui.layout.wait-settled.
Layout(size) == layout' = IF "core-layout" \in stalled THEN layout ELSE size

ResizeNarrow ==
    /\ pc = "narrow"
    /\ Layout(Narrow) /\ MeasureFor("narrow")
    /\ UNCHANGED <<dom, wide, narrow, restored, marker, readyCols, failed, late, evidence,
                   stalled, hasPty, gaps, requested, pty, recovery, rendered>>

ResizeWide ==
    /\ pc = "widen"
    /\ Layout(Wide) /\ Goto("wideWait")
    /\ UNCHANGED <<dom, wide, narrow, restored, marker, readyCols, failed, late, evidence,
                   stalled, hasPty, gaps, requested, pty, recovery, rendered>>

\* The command that prints the resize marker.
TypeMarker ==
    /\ pc = "type" /\ pty.out < MaxOutput
    /\ pty' = [pty EXCEPT !.out = @ + 1] /\ marker' = pty.out + 1
    /\ Goto("contains")
    /\ UNCHANGED <<dom, wide, narrow, restored, readyCols, failed, late, evidence,
                   stalled, hasPty, gaps, layout, requested, recovery, rendered>>

\* Resizing or typing fails: an error, and no evidence.
CallFails ==
    /\ pc \in {"narrow", "type", "widen"}
    /\ failed' = TRUE /\ Error
    /\ UNCHANGED <<point, dom, wide, narrow, restored, marker, readyCols, late, evidence, world>>

\* Fault: the marker is taken for the end of the resize.
WaitContainsOnly ==
    /\ pc = "contains" /\ rendered.out >= marker
    /\ MeasureFor("narrowed")
    /\ UNCHANGED <<dom, wide, narrow, restored, marker, readyCols, failed, late, evidence, world>>

WaitContains ==
    /\ pc = "contains" /\ rendered.out >= marker
    /\ Goto("narrowWait")
    /\ UNCHANGED <<dom, wide, narrow, restored, marker, readyCols, failed, late, evidence, world>>

WaitNarrow ==
    /\ pc = "narrowWait" /\ rendered.size < readyCols
    /\ MeasureFor("narrowed")
    /\ UNCHANGED <<dom, wide, narrow, restored, marker, readyCols, failed, late, evidence, world>>

WaitWide ==
    /\ pc = "wideWait" /\ rendered.size = readyCols
    /\ MeasureFor("restored")
    /\ UNCHANGED <<dom, wide, narrow, restored, marker, readyCols, failed, late, evidence, world>>

\* A wait of 8 seconds runs out.
WaitEnds ==
    /\ late' = TRUE
    /\ \/ pc = "contains" /\ Error /\ UNCHANGED point
       \/ pc = "narrowWait" /\ MeasureFor("late")
       \/ pc = "wideWait" /\ MeasureFor("restoredLate")
    /\ UNCHANGED <<dom, wide, narrow, restored, marker, readyCols, failed, evidence, world>>

--------------------------------------------------------------------------------
(* The terminal (external).  A stalled layer passes output on, but not sizes. *)

Size(layer, new, old) == IF layer \in stalled THEN old ELSE new

Request ==
    /\ requested' = Size("plugin-request", layout, requested)
    /\ UNCHANGED <<harness, stalled, hasPty, gaps, layout, pty, recovery, rendered>>

ApplyToPty ==
    /\ pty.size # requested /\ "source-observation" \notin stalled
    /\ pty' = [pty EXCEPT !.size = requested, !.event = @ + 1]
    /\ UNCHANGED <<harness, stalled, hasPty, gaps, layout, requested, recovery, rendered>>

PrintOutput ==
    /\ pty.out < MaxOutput /\ pc # "done"
    /\ pty' = [pty EXCEPT !.out = @ + 1]
    /\ UNCHANGED <<harness, stalled, hasPty, gaps, layout, requested, recovery, rendered>>

Recover ==
    /\ recovery' = [pty EXCEPT !.size = Size("recovery-observation", pty.size, recovery.size)]
    /\ UNCHANGED <<harness, stalled, hasPty, gaps, layout, requested, pty, rendered>>

Render ==
    /\ rendered' = [recovery EXCEPT !.size = Size("rendered-frame", recovery.size, rendered.size)]
    /\ UNCHANGED <<harness, stalled, hasPty, gaps, layout, requested, pty, recovery>>

LosesOutput ==
    /\ gaps' = TRUE
    /\ UNCHANGED <<harness, stalled, hasPty, layers>>

Terminal == Request \/ ApplyToPty \/ PrintOutput \/ Recover \/ Render \/ LosesOutput

Next ==
    \/ MeasureNode \/ MeasureWide \/ MeasureNarrow \/ MeasureLate \/ MeasureNarrowed
    \/ MeasureRestored \/ MeasureFails
    \/ ResizeNarrow \/ ResizeWide \/ TypeMarker \/ CallFails
    \/ WaitContains \/ WaitNarrow \/ WaitWide \/ WaitEnds
    \/ Terminal

Spec == Init /\ [][Next]_vars

--------------------------------------------------------------------------------
\* A passing leg has seen the resize arrive everywhere and come back: every
\* layer was at the narrow size in one sample, with the recovery sidecar level
\* with the source and without a loss, and the renderer is wide again; no layer was
\* stalled.
PassIsComplete ==
    result = "pass" =>
        /\ stalled = {} /\ ~late /\ ~failed
        /\ narrow.requested = Narrow /\ narrow.rendered.size = Narrow
        /\ narrow.recovery = Observed(narrow) /\ ~narrow.gaps
        /\ restored.rendered.size = Wide

\* A terminal that follows every resize and loses nothing fails the leg only if a
\* call or a write failed, a wait ran out, or the narrow sample caught the recovery
\* sidecar behind the source: no other interleaving of the two-call samples is held
\* against it.
Behind == hasPty /\ narrow.recovery # narrow.pty
NoFalseAlarm ==
    result = "error" /\ stalled = {} /\ ~gaps => failed \/ late \/ Behind

\* README.md:73-74, "A plain timeout without these coordinates is not a verdict": a
\* leg that ends because a wait ran out leaves its evidence.
TimeoutHasCoordinates ==
    result = "error" /\ late /\ ~failed => evidence # "unwritten"

\* README.md:73, "Failure names the first boundary that did not advance": the
\* evidence of a wait for the narrow size that ran out names the first layer
\* that the sample shows at another size.
NamesFirstBoundary ==
    LET sizes == << narrow.dom, narrow.requested, Observed(narrow).size,
                    narrow.recovery.size, narrow.rendered.size >>
        names == << {"core-layout"}, {"plugin-size", "plugin-request"},
                    {"source-observation"}, {"recovery-observation"}, {"rendered-frame"} >>
    IN  evidence # "unwritten" /\ point = "late" /\ ~failed =>
            \A i \in 1..5 :
                sizes[i] # Narrow /\ (\A j \in 1..(i - 1) : sizes[j] = Narrow)
                    => evidence \in names[i]
================================================================================

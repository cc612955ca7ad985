-------------------------- MODULE TerminalCommandsProof --------------------------
(***************************************************************************)
(* Proofs about the terminal commands, for a payload of any size and any   *)
(* amount of other output: the resize leg with its two-call samples, the   *)
(* high-output leg, and the evidence each of them leaves.                  *)
(***************************************************************************)
EXTENDS TerminalCommands, Integers, WellFoundedInduction, TLAPS

--------------------------------------------------------------------------------
(* The first condition that fails. *)

\* Numbers have a first one.
LEMMA FirstOf ==
    ASSUME NEW S \in SUBSET Nat, S # {}
    PROVE  \E i \in S : \A j \in S : i <= j
<1> DEFINE less == OpToRel(<, Nat)
<1>1. \E x \in S : \A y \in S : <<y, x>> \notin less
  <2>1. IsWellFoundedOn(less, Nat)
    BY NatLessThanWellFounded
  <2> HIDE DEF less
  <2> QED
    BY <2>1, WFMin
<1>2. \A x, y \in Nat : <<y, x>> \notin less => x <= y
  BY DEF OpToRel
<1> QED
  BY <1>1, <1>2

\* The evidence names a boundary unless every condition holds.
LEMMA NamedOrNone ==
    ASSUME NEW w, NEW n, NEW r
    PROVE  /\ failureBoundary(w, n, r) # "unwritten"
           /\ failureBoundary(w, n, r) = "" <=> \A i \in 1..9 : Conditions(w, n, r)[i]
<1> DEFINE fails == {i \in 1..9 : ~Conditions(w, n, r)[i]}
           first == CHOOSE i \in fails : \A j \in fails : i <= j
<1>1. ASSUME fails # {} PROVE first \in 1..9
  <2> HIDE DEF fails
  <2>1. \E i \in fails : \A j \in fails : i <= j
    BY <1>1, FirstOf DEF fails
  <2>2. first \in fails
    BY <2>1
  <2> QED
    BY <2>2 DEF fails
<1>2. \A i \in 1..9 : Boundaries[i] \notin {"", "unwritten"}
  <2>1. /\ Boundaries[1] = "core-layout" /\ Boundaries[2] = "plugin-size"
        /\ Boundaries[3] = "plugin-request" /\ Boundaries[4] = "source-observation"
        /\ Boundaries[5] = "recovery-observation" /\ Boundaries[6] = "rendered-frame"
        /\ Boundaries[7] = "restore-observation" /\ Boundaries[8] = "core-layout-restore"
        /\ Boundaries[9] = "plugin-size-restore"
    BY DEF Boundaries
  <2>2. \A i \in 1..9 : i = 1 \/ i = 2 \/ i = 3 \/ i = 4 \/ i = 5 \/ i = 6 \/ i = 7 \/ i = 8 \/ i = 9
    OBVIOUS
  <2>3. TAKE i \in 1..9
  <2> QED
    BY <2>1, <2>2
<1>3. failureBoundary(w, n, r) = IF fails = {} THEN "" ELSE Boundaries[first]
  BY DEF failureBoundary
<1>4. fails = {} <=> \A i \in 1..9 : Conditions(w, n, r)[i]
  OBVIOUS
<1> HIDE DEF fails, first
<1> QED
  BY <1>1, <1>2, <1>3, <1>4

\* The conditions one by one.
AllAdvanced(w, n, r) ==
    /\ n.dom < w.dom /\ n.cols < w.cols /\ n.requested # 0
    /\ Observed(n) # NoLayer /\ Observed(n).size = n.requested
    /\ n.recovery # NoLayer /\ ~n.gaps /\ n.recovery = Observed(n)
    /\ n.rendered # NoLayer /\ n.rendered.size = n.recovery.size
    /\ n.rendered.out > 0 /\ n.rendered.out <= n.recovery.out
    /\ r # NoSample /\ r.dom >= w.dom /\ r.cols = w.cols

LEMMA TheConditions ==
    ASSUME NEW w, NEW n, NEW r
    PROVE  failureBoundary(w, n, r) = "" <=> AllAdvanced(w, n, r)
<1> DEFINE C == Conditions(w, n, r)
<1>0. (\A i \in 1..9 : C[i]) <=> C[1] /\ C[2] /\ C[3] /\ C[4] /\ C[5] /\ C[6] /\ C[7] /\ C[8] /\ C[9]
  <2> HIDE DEF C
  <2>1. 1..9 = {1, 2, 3, 4, 5, 6, 7, 8, 9}
    OBVIOUS
  <2> QED
    BY <2>1, Zenon
<1>1. C[1] <=> n.dom < w.dom
  BY DEF Conditions
<1>2. C[2] <=> n.cols < w.cols
  BY DEF Conditions
<1>3. C[3] <=> n.requested # 0
  BY DEF Conditions
<1>4. C[4] <=> Observed(n) # NoLayer /\ Observed(n).size = n.requested
  BY DEF Conditions
<1>5. C[5] <=> n.recovery # NoLayer /\ ~n.gaps /\ n.recovery = Observed(n)
  BY DEF Conditions
<1>6. C[6] <=> /\ n.rendered # NoLayer /\ n.rendered.size = n.recovery.size
               /\ n.rendered.out > 0 /\ n.rendered.out <= n.recovery.out
  BY DEF Conditions
<1>7. C[7] <=> r # NoSample
  BY DEF Conditions
<1>8. C[8] <=> r.dom >= w.dom
  BY DEF Conditions
<1>9. C[9] <=> r.cols = w.cols
  BY DEF Conditions
<1>10. AllAdvanced(w, n, r) <=> \A i \in 1..9 : C[i]
  BY <1>0, <1>1, <1>2, <1>3, <1>4, <1>5, <1>6, <1>7, <1>8, <1>9 DEF AllAdvanced
<1> QED
  BY <1>10, NamedOrNone

--------------------------------------------------------------------------------
(* The resize leg. *)

Layer  == [size : {Narrow, Wide}, event : Nat, out : Nat \ {0}]
Before == {"open", "split", "shrunk", "expand", "expanded", "ready"}
After  == {"read", "baseline", "enter", "tail", "status", "nodes", "capture"}

\* Output only follows: no layer is ahead of the one before it.
InStep == rendered.out <= recovery.out /\ recovery.out <= pty.out

LayersTypeOK ==
    /\ stalled \subseteq Layers /\ hasPty \in BOOLEAN /\ gaps \in BOOLEAN
    /\ layout \in {Narrow, Wide} /\ requested \in {Narrow, Wide}
    /\ pty \in Layer /\ recovery \in Layer /\ rendered \in Layer

ControlTypeOK ==
    /\ leg \in Before \cup After \cup {"resize", "end"}
    /\ pc \in {"measure", "status", "narrow", "type", "contains", "narrowWait",
               "widen", "wideWait", "done"}
    /\ point \in {"wide", "narrow", "late", "narrowed", "restored", "restoredLate"}
    /\ result \in {"none", "pass", "error"} /\ verdict \in {"none", "pass", "error"}

\* Every layer is at one size, and so is a sample of such a moment.
AllAt(s) ==
    /\ layout = s /\ requested = s
    /\ pty.size = s /\ recovery.size = s /\ rendered.size = s
SampleAt(x, s) ==
    /\ x.dom = s /\ x.cols = s /\ x.requested = s
    /\ x.recovery \in Layer /\ x.recovery.size = s
    /\ x.rendered \in Layer /\ x.rendered.size = s /\ x.rendered.out <= x.recovery.out
    /\ IF hasPty THEN x.pty \in Layer /\ x.pty.size = s ELSE x.pty = NoLayer
    /\ x.gaps => gaps

\* A size has passed the layers in their order, and none that is stalled.
Passed(s) ==
    /\ rendered.size = s => recovery.size = s
    /\ recovery.size = s => pty.size = s
    /\ pty.size = s => requested = s
    /\ requested = s => layout = s
StalledAreWide ==
    /\ IF "core-layout" \in stalled THEN layout = Wide ELSE layout = Narrow
    /\ "plugin-request" \in stalled => requested = Wide
    /\ "source-observation" \in stalled => pty.size = Wide
    /\ "recovery-observation" \in stalled => recovery.size = Wide
    /\ "rendered-frame" \in stalled => rendered.size = Wide

\* Which sample belongs to which call.
CallsInOrder ==
    /\ pc = "narrow" => point = "wide"
    /\ pc \in {"type", "contains", "narrowWait"} => point = "narrow"
    /\ pc \in {"widen", "wideWait"} => point = "narrowed"
    /\ pc # "done" =>
          result = "none" /\ evidence = "unwritten" /\ ~failed
          /\ (late <=> point \in {"late", "restoredLate"})
    /\ pc = "done" => result # "none"
    /\ pc = "status" => dom = layout

\* The layers at each call.  The wait for fewer columns ends at a renderer that is
\* narrow, and so are then all layers, none of which can be stalled.
LayersByCall ==
    /\ pc \in {"measure", "status", "narrow"} /\ point = "wide" => AllAt(Wide)
    /\ pc # "done" /\ point = "narrow" => Passed(Narrow) /\ StalledAreWide
    /\ pc \in {"measure", "status", "widen"} /\ point = "narrowed"
          => AllAt(Narrow) /\ stalled = {}
    /\ pc = "wideWait" \/ (pc # "done" /\ point = "restoredLate")
          => Passed(Wide) /\ layout = Wide /\ stalled = {}
    /\ pc # "done" /\ point = "restored" => AllAt(Wide) /\ stalled = {}

\* The columns and the samples taken so far.
SamplesByCall ==
    /\ readyCols = Wide
    /\ pc # "done" /\ ~(pc \in {"measure", "status"} /\ point = "wide")
          => SampleAt(wide, Wide)
    /\ pc \in {"widen", "wideWait"} \/ (pc # "done" /\ point \in {"restored", "restoredLate"})
          => SampleAt(narrow, Narrow)

\* The panes are ready when the leg begins, and nothing is left of it after a pass.
AroundTheLeg ==
    /\ leg \in {"open", "split", "ready"} => AllAt(Wide)
    /\ leg = "expanded" => layout = Wide
    /\ leg \in Before => pc = "measure" /\ point = "wide" /\ ~failed /\ ~late
                         /\ evidence = "unwritten"
    /\ leg \notin {"resize", "end"} => result = "none" /\ verdict = "none"
    /\ leg = "end" => result # "pass"

Leg == CallsInOrder /\ LayersByCall /\ SamplesByCall

\* What its end says.
LegIsRecorded ==
    result = "error" /\ ~failed /\ (late => point # "narrow") => evidence # "unwritten"
Outcome == PassIsComplete /\ NoFalseAlarm /\ LegIsRecorded

Types == LayersTypeOK /\ InStep /\ ControlTypeOK
ResizeInv ==
    /\ Types /\ AroundTheLeg /\ Outcome
    /\ leg = "resize" => Leg /\ verdict = "none"

\* A layer takes a size.
LEMMA TakesSize ==
    ASSUME NEW l \in Layer, NEW s \in {Narrow, Wide}
    PROVE  LET m == [l EXCEPT !.size = s, !.event = @ + 1]
           IN  m \in Layer /\ m.size = s /\ m.out = l.out
<1> DEFINE sized == [l EXCEPT !.size = s]
           moved == [sized EXCEPT !.event = @ + 1]
<1>1. sized \in Layer /\ sized.size = s /\ sized.out = l.out /\ sized.event = l.event
  BY DEF Layer
<1>2. [l EXCEPT !.size = s, !.event = @ + 1] = moved
  BY <1>1 DEF Layer
<1> HIDE DEF sized
<1>3. moved \in Layer /\ moved.size = sized.size /\ moved.out = sized.out
  BY <1>1 DEF Layer
<1> HIDE DEF moved
<1> QED
  BY <1>1, <1>2, <1>3

\* The steps of the terminal, whichever leg they belong to.
LEMMA LayersKeepStep ==
    ASSUME LayersTypeOK, InStep, [CommandsNext]_allVars
    PROVE  /\ LayersTypeOK' /\ InStep'
           /\ pty.out <= pty'.out /\ rendered.out <= rendered'.out
<1> USE DEF LayersTypeOK, InStep, Layer
<1>1. CASE Recover
  BY <1>1 DEF Recover, Size
<1>2. CASE Render
  BY <1>2 DEF Render, Size
<1>3. CASE Request
  BY <1>3 DEF Request, Size
<1>4. CASE ApplyToPty
  <2>1. pty' \in Layer /\ pty'.out = pty.out
    <3> HIDE DEF Layer
    <3> QED
      BY <1>4, TakesSize DEF ApplyToPty
  <2> QED
    BY <1>4, <2>1 DEF ApplyToPty
<1>5. CASE /\ pty' = [pty EXCEPT !.out = @ + 1]
           /\ UNCHANGED <<stalled, hasPty, gaps, layout, requested, recovery, rendered>>
  BY <1>5
<1>16. CASE LosesOutput
  BY <1>16 DEF LosesOutput, layers
<1>6. CASE ResizeNarrow \/ ResizeWide
  BY <1>6 DEF ResizeNarrow, ResizeWide, Layout
<1>7. CASE UNCHANGED world
  BY <1>7 DEF world, layers
<1>8. CASE SplitPane \/ ExpandPane
  BY <1>8 DEF SplitPane, ExpandPane, Prepared
<1>9. CASE WaitFollowed
  <2>1. PICK size \in {Narrow, Wide} : Follow(size)
    BY <1>9 DEF WaitFollowed
  <2> QED
    <3>1. pty' \in Layer /\ pty'.out = pty.out /\ recovery' = pty' /\ rendered' = pty'
          /\ requested' = size
      <4> HIDE DEF Layer
      <4> QED
        BY <2>1, TakesSize DEF Follow
    <3>2. UNCHANGED <<stalled, hasPty, gaps, layout>>
      BY <1>9 DEF WaitFollowed
    <3> QED
      BY <3>1, <3>2
<1>10. CASE StatusChanges
  BY <1>10 DEF StatusChanges, layers
<1>11. CASE Next
  BY <1>1, <1>2, <1>3, <1>4, <1>5, <1>6, <1>7, <1>11, <1>16
     DEF Next, Terminal, PrintOutput, TypeMarker, MeasureNode, MeasureWide,
         MeasureNarrow, MeasureLate, MeasureNarrowed, MeasureRestored, MeasureFails, CallFails,
         WaitContains, WaitNarrow, WaitWide, WaitEnds
<1>12. CASE OutputMoves
  BY <1>1, <1>2, <1>5, <1>12, <1>16 DEF OutputMoves
<1>13. CASE PrintPayload
  BY <1>5, <1>13 DEF PrintPayload
<1>14. CASE UNCHANGED allVars
  BY <1>7, <1>14 DEF allVars, vars, world
<1>15. CASE OpenTab \/ MarkerReady \/ ResizeEnds \/ ReadMarker \/ ReadBaseline \/ PressEnter
             \/ WaitTail \/ WaitTailEnds \/ ReadOutputStatus \/ VerifyNodes \/ CaptureTerminal
             \/ StepFails
  BY <1>7, <1>15
     DEF OpenTab, MarkerReady, ResizeEnds, ReadMarker, ReadBaseline, PressEnter, WaitTail,
         WaitTailEnds, ReadOutputStatus, VerifyNodes, CaptureTerminal, StepFails,
         Prepared, vars, world, layers
<1> QED
  BY <1>8, <1>9, <1>10, <1>11, <1>12, <1>13, <1>14, <1>15 DEF CommandsNext

\* Control takes one of its values.
LEMMA ControlKeepsStep ==
    ASSUME ControlTypeOK, [CommandsNext]_allVars
    PROVE  ControlTypeOK'
<1> USE DEF ControlTypeOK, Before, After
<1>1. CASE Next /\ UNCHANGED <<commands, output>>
  <2> USE DEF commands
  <2>1. CASE MeasureNode \/ MeasureWide \/ MeasureNarrow \/ MeasureLate \/ MeasureNarrowed
    BY <1>1, <2>1 DEF MeasureNode, MeasureWide, MeasureNarrow, MeasureLate, MeasureNarrowed,
                      Goto, Error
  <2>2. CASE MeasureRestored \/ MeasureFails \/ CallFails
    BY <1>1, <2>2 DEF MeasureRestored, MeasureFails, CallFails, Error
  <2>3. CASE ResizeNarrow \/ ResizeWide \/ TypeMarker
    BY <1>1, <2>3 DEF ResizeNarrow, ResizeWide, TypeMarker, Goto, MeasureFor
  <2>4. CASE WaitContains \/ WaitNarrow \/ WaitWide \/ WaitEnds
    BY <1>1, <2>4 DEF WaitContains, WaitNarrow, WaitWide, WaitEnds, Goto, MeasureFor, Error
  <2>5. CASE Terminal
    BY <1>1, <2>5 DEF Terminal, Request, ApplyToPty, PrintOutput, Recover, Render,
                      LosesOutput, harness
  <2> QED
    BY <1>1, <2>1, <2>2, <2>3, <2>4, <2>5 DEF Next
<1>2. CASE OpenTab \/ SplitPane \/ ExpandPane \/ WaitFollowed \/ MarkerReady
  BY <1>2 DEF OpenTab, SplitPane, ExpandPane, WaitFollowed, MarkerReady, At, Prepared, vars, harness
<1>3. CASE ResizeEnds
  BY <1>3 DEF ResizeEnds, End
<1>4. CASE ReadMarker \/ ReadBaseline \/ PressEnter \/ WaitTail \/ WaitTailEnds \/ VerifyNodes
  BY <1>4 DEF ReadMarker, ReadBaseline, PressEnter, WaitTail, WaitTailEnds, VerifyNodes, At, vars, harness
<1>5. CASE ReadOutputStatus \/ CaptureTerminal \/ StepFails
  BY <1>5 DEF ReadOutputStatus, CaptureTerminal, StepFails, End, vars, harness
<1>6. CASE PrintPayload \/ StatusChanges
  BY <1>6 DEF PrintPayload, StatusChanges, commands, vars, harness
<1>7. CASE OutputMoves
  BY <1>7 DEF OutputMoves, Recover, Render, LosesOutput, commands, harness
<1>8. CASE UNCHANGED allVars
  BY <1>8 DEF allVars, commands, vars, harness
<1> QED
  BY <1>1, <1>2, <1>3, <1>4, <1>5, <1>6, <1>7, <1>8 DEF CommandsNext

\* The terminal moves under the leg.
LEMMA LegUnderTerminal ==
    ASSUME Types, LayersTypeOK', Leg, Outcome, Terminal
    PROVE  Leg' /\ Outcome'
<1> USE DEF Types
<1>1. UNCHANGED <<harness, stalled, hasPty, layout>> /\ (gaps => gaps')
  BY DEF Terminal, Request, ApplyToPty, PrintOutput, Recover, Render, LosesOutput, layers
<1>2. CallsInOrder' /\ Outcome'
  BY <1>1 DEF Leg, Outcome, CallsInOrder, harness, PassIsComplete, NoFalseAlarm, Behind,
              LegIsRecorded, Observed
<1>3. SamplesByCall'
  BY <1>1 DEF Leg, SamplesByCall, SampleAt, harness
<1>4. ASSUME NEW s \in {Narrow, Wide}, AllAt(s), stalled = {} \/ s = Wide
      PROVE  AllAt(s)'
  <2> USE <1>4 DEF AllAt, Size, LayersTypeOK, Layer
  <2>1. CASE Request
    BY <2>1 DEF Request
  <2>2. CASE ApplyToPty
    BY <2>2 DEF ApplyToPty
  <2>3. CASE PrintOutput
    BY <2>3 DEF PrintOutput
  <2>4. CASE Recover
    BY <2>4 DEF Recover
  <2>5. CASE Render
    BY <2>5 DEF Render
  <2>6. CASE LosesOutput
    BY <2>6 DEF LosesOutput, layers
  <2> QED
    BY <2>1, <2>2, <2>3, <2>4, <2>5, <2>6 DEF Terminal
<1>5. ASSUME NEW s \in {Narrow, Wide}, Passed(s), s = Narrow => StalledAreWide, s = Wide => stalled = {}
      PROVE  Passed(s)' /\ (s = Narrow => StalledAreWide')
  <2> USE <1>5, <1>1 DEF Passed, StalledAreWide, Size, LayersTypeOK, Layer
  <2>1. CASE Request
    BY <2>1 DEF Request
  <2>2. CASE ApplyToPty
    BY <2>2 DEF ApplyToPty
  <2>3. CASE PrintOutput
    BY <2>3 DEF PrintOutput
  <2>4. CASE Recover
    BY <2>4 DEF Recover
  <2>5. CASE Render
    BY <2>5 DEF Render
  <2>6. CASE LosesOutput
    BY <2>6 DEF LosesOutput, layers
  <2> QED
    BY <2>1, <2>2, <2>3, <2>4, <2>5, <2>6 DEF Terminal
<1>6. LayersByCall'
  BY <1>1, <1>4, <1>5 DEF Leg, LayersByCall, harness, Narrow, Wide
<1> QED
  BY <1>2, <1>3, <1>6 DEF Leg

\* A sample of a moment when every layer is at one size.
LEMMA SampleOfMoment ==
    ASSUME LayersTypeOK, InStep, NEW s \in {Narrow, Wide}, AllAt(s), dom = layout
    PROVE  SampleAt(Sample, s) /\ Sample # NoSample
BY DEF LayersTypeOK, InStep, AllAt, Sample, SampleAt, NoSample, Narrow, Wide

\* No layer of such a sample is missing.
LEMMA LayerIsThere ==
    ASSUME NEW l \in Layer
    PROVE  l # NoLayer /\ l.out > 0
<1>1. l.size # NoLayer.size
  BY DEF Layer, NoLayer, Narrow, Wide
<1> QED
  BY <1>1 DEF Layer

\* If the layout moved, it is not the boundary.
LEMMA LayoutIsFirst ==
    ASSUME NEW w, NEW n, NEW r, failureBoundary(w, n, r) = "core-layout"
    PROVE  ~(n.dom < w.dom)
<1> DEFINE fails == {i \in 1..9 : ~Conditions(w, n, r)[i]}
           first == CHOOSE i \in fails : \A j \in fails : i <= j
<1>1. fails # {} /\ Boundaries[first] = "core-layout"
  BY DEF failureBoundary
<1>2. first \in fails
  <2>1. fails \in SUBSET Nat
    OBVIOUS
  <2> HIDE DEF fails
  <2>2. \E i \in fails : \A j \in fails : i <= j
    BY <1>1, <2>1, FirstOf
  <2> QED
    BY <2>2
<1>3. \A i \in 1..9 : Boundaries[i] = "core-layout" => i = 1
  <2>1. \A i \in 1..9 : i = 1 \/ i = 2 \/ i = 3 \/ i = 4 \/ i = 5 \/ i = 6 \/ i = 7 \/ i = 8 \/ i = 9
    OBVIOUS
  <2> QED
    BY <2>1 DEF Boundaries
<1>4. ~Conditions(w, n, r)[1]
  BY <1>1, <1>2, <1>3
<1> QED
  BY <1>4 DEF Conditions

\* Each call of the leg.
LEMMA LegByCall ==
    ASSUME Types, Leg, Outcome, Next, ~Terminal
    PROVE  Leg' /\ Outcome'
<1> USE DEF Types, Leg, Outcome, CallsInOrder, LegIsRecorded, world, layers
<1>1. CASE MeasureNode
  <2> USE <1>1 DEF MeasureNode, Goto
  <2>1. LayersByCall'
    BY DEF LayersByCall, AllAt, Passed, StalledAreWide
  <2>2. SamplesByCall'
    BY DEF SamplesByCall, SampleAt
  <2>3. CallsInOrder' /\ Outcome'
    BY DEF PassIsComplete, NoFalseAlarm
  <2> QED
    BY <2>1, <2>2, <2>3
<1>2. CASE MeasureWide
  <2> USE <1>2 DEF MeasureWide, Goto
  <2>1. LayersByCall'
    BY DEF LayersByCall, AllAt, Passed, StalledAreWide
  <2>2. SamplesByCall'
    <3>1. SampleAt(Sample, Wide)
      BY SampleOfMoment DEF LayersByCall
    <3> QED
      BY <3>1 DEF SamplesByCall, SampleAt
  <2>3. CallsInOrder' /\ Outcome'
    BY DEF PassIsComplete, NoFalseAlarm
  <2> QED
    BY <2>1, <2>2, <2>3
<1>3. CASE MeasureNarrow
  <2> USE <1>3 DEF MeasureNarrow, Goto, Error, Write, Unwritten
  <2>1. LayersByCall'
    BY DEF LayersByCall, AllAt, Passed, StalledAreWide
  <2>2. SamplesByCall'
    BY DEF SamplesByCall, SampleAt
  <2>3. pc' = "done" => stalled # {}
    <3>1. wide.dom = Wide
      BY DEF SamplesByCall, SampleAt
    <3>2. stalled = {} => narrow'.dom = Narrow
      BY DEF LayersByCall, StalledAreWide, Sample
    <3> QED
      BY <3>1, <3>2, LayoutIsFirst DEF Narrow, Wide
  <2>4. CallsInOrder' /\ Outcome'
    BY <2>3, NamedOrNone DEF PassIsComplete, NoFalseAlarm
  <2> QED
    BY <2>1, <2>2, <2>4
<1>4. CASE MeasureLate
  <2> USE <1>4 DEF MeasureLate, Error, Write, Unwritten
  <2>1. LayersByCall' /\ SamplesByCall'
    BY DEF LayersByCall, SamplesByCall
  <2>2. CallsInOrder' /\ Outcome'
    BY NamedOrNone DEF PassIsComplete, NoFalseAlarm
  <2> QED
    BY <2>1, <2>2
<1>5. CASE MeasureNarrowed
  <2> USE <1>5 DEF MeasureNarrowed, Goto
  <2>1. LayersByCall'
    BY DEF LayersByCall, AllAt, Passed, StalledAreWide
  <2>2. SamplesByCall'
    <3>1. SampleAt(Sample, Narrow)
      BY SampleOfMoment DEF LayersByCall
    <3> QED
      BY <3>1 DEF SamplesByCall, SampleAt
  <2>3. CallsInOrder' /\ Outcome'
    BY DEF PassIsComplete, NoFalseAlarm
  <2> QED
    BY <2>1, <2>2, <2>3
<1>6. CASE MeasureRestored
  <2> USE <1>6 DEF MeasureRestored, Error, Write, Unwritten
  <2>1. LayersByCall' /\ SamplesByCall'
    BY DEF LayersByCall, SamplesByCall
  <2>2. SampleAt(wide, Wide) /\ SampleAt(narrow, Narrow)
    BY DEF SamplesByCall
  <2>3. point = "restored" => SampleAt(restored', Wide) /\ restored' # NoSample /\ stalled = {}
    BY SampleOfMoment DEF LayersByCall
  <2>0. /\ evidence' = "" => AllAdvanced(wide, narrow, restored')
        /\ evidence' \notin {"", "unwritten"} => ~AllAdvanced(wide, narrow, restored')
    BY TheConditions
  <2>4. evidence' = "" => narrow.recovery = Observed(narrow) /\ ~narrow.gaps
    BY <2>0 DEF AllAdvanced
  <2>5. ASSUME point = "restored", evidence' \notin {"", "unwritten"}, ~gaps
        PROVE  hasPty /\ narrow.recovery # narrow.pty
    <3>1. SampleAt(restored', Wide) /\ restored' # NoSample
      BY <2>3, <2>5
    <3>2. Observed(narrow) # NoLayer /\ Observed(narrow).size = narrow.requested
      BY <2>2, LayerIsThere DEF SampleAt, Observed
    <3>3. narrow.recovery # NoLayer /\ narrow.rendered # NoLayer /\ narrow.rendered.out > 0
      BY <2>2, LayerIsThere DEF SampleAt
    <3>4. narrow.recovery # Observed(narrow)
      <4>1. /\ narrow.dom < wide.dom /\ narrow.cols < wide.cols /\ narrow.requested # 0
            /\ narrow.rendered.size = narrow.recovery.size
            /\ narrow.rendered.out <= narrow.recovery.out
        BY ONLY <2>2 DEF SampleAt, Narrow, Wide
      <4>2. restored'.dom >= wide.dom /\ restored'.cols = wide.cols
        BY ONLY <2>2, <3>1 DEF SampleAt, Narrow, Wide
      <4>3. ~AllAdvanced(wide, narrow, restored')
        BY <2>5, <2>0
      <4>4. ~narrow.gaps
        BY ONLY <2>2, <2>5, Zenon DEF SampleAt
      <4> QED
        BY ONLY <3>1, <3>2, <3>3, <4>1, <4>2, <4>3, <4>4 DEF AllAdvanced
    <3> QED
      BY <2>2, <3>4 DEF SampleAt, Observed
  <2>6. CallsInOrder'
    OBVIOUS
  <2>7. Outcome'
    <3>1. CASE result' = "pass"
      BY <2>2, <2>3, <2>4, <3>1 DEF PassIsComplete, NoFalseAlarm, SampleAt, Observed
    <3>2. CASE result' = "error"
      BY <2>5, <3>2, NamedOrNone DEF PassIsComplete, NoFalseAlarm, Behind
    <3> QED
      BY <3>1, <3>2
  <2> QED
    BY <2>1, <2>6, <2>7
<1>7. CASE MeasureFails \/ CallFails
  <2> USE <1>7 DEF MeasureFails, CallFails, Error
  <2>1. LayersByCall' /\ SamplesByCall'
    BY DEF LayersByCall, SamplesByCall
  <2>2. CallsInOrder' /\ Outcome'
    BY DEF PassIsComplete, NoFalseAlarm
  <2> QED
    BY <2>1, <2>2
<1>8. CASE ResizeNarrow
  <2> USE <1>8 DEF ResizeNarrow, MeasureFor, Layout
  <2>1. LayersByCall'
    BY DEF LayersByCall, AllAt, Passed, StalledAreWide, Narrow, Wide
  <2>2. SamplesByCall'
    BY DEF SamplesByCall, SampleAt
  <2>3. CallsInOrder' /\ Outcome'
    BY DEF PassIsComplete, NoFalseAlarm
  <2> QED
    BY <2>1, <2>2, <2>3
<1>9. CASE ResizeWide
  <2> USE <1>9 DEF ResizeWide, Goto, Layout
  <2>1. LayersByCall'
    BY DEF LayersByCall, AllAt, Passed, StalledAreWide, Narrow, Wide
  <2>2. SamplesByCall'
    BY DEF SamplesByCall, SampleAt
  <2>3. CallsInOrder' /\ Outcome'
    BY DEF PassIsComplete, NoFalseAlarm
  <2> QED
    BY <2>1, <2>2, <2>3
<1>10. CASE TypeMarker
  <2> USE <1>10 DEF TypeMarker, Goto
  <2>1. LayersByCall'
    BY DEF LayersByCall, AllAt, Passed, StalledAreWide, LayersTypeOK, Layer
  <2>2. SamplesByCall'
    BY DEF SamplesByCall, SampleAt
  <2>3. CallsInOrder' /\ Outcome'
    BY DEF PassIsComplete, NoFalseAlarm
  <2> QED
    BY <2>1, <2>2, <2>3
<1>11. CASE WaitContains
  <2> USE <1>11 DEF WaitContains, Goto
  <2>1. LayersByCall'
    BY DEF LayersByCall, AllAt, Passed, StalledAreWide
  <2>2. SamplesByCall'
    BY DEF SamplesByCall, SampleAt
  <2>3. CallsInOrder' /\ Outcome'
    BY DEF PassIsComplete, NoFalseAlarm
  <2> QED
    BY <2>1, <2>2, <2>3
<1>12. CASE WaitNarrow
  <2> USE <1>12 DEF WaitNarrow, MeasureFor
  <2>1. AllAt(Narrow)
    <3>1. readyCols = Wide
      BY DEF SamplesByCall
    <3>2. rendered.size = Narrow
      BY <3>1 DEF LayersTypeOK, Layer, Narrow, Wide
    <3> QED
      BY <3>2 DEF LayersByCall, Passed, AllAt
  <2>2. stalled = {}
    BY <2>1 DEF LayersByCall, StalledAreWide, AllAt, LayersTypeOK, Layers, Narrow, Wide
  <2>3. LayersByCall'
    BY <2>1, <2>2 DEF LayersByCall, AllAt
  <2>4. SamplesByCall'
    BY DEF SamplesByCall, SampleAt
  <2>5. CallsInOrder' /\ Outcome'
    BY DEF PassIsComplete, NoFalseAlarm
  <2> QED
    BY <2>3, <2>4, <2>5
<1>13. CASE WaitWide
  <2> USE <1>13 DEF WaitWide, MeasureFor
  <2>1. AllAt(Wide) /\ stalled = {}
    <3>1. rendered.size = Wide
      BY DEF SamplesByCall, SampleAt
    <3> QED
      BY <3>1 DEF LayersByCall, Passed, AllAt
  <2>2. LayersByCall'
    BY <2>1 DEF LayersByCall, AllAt
  <2>3. SamplesByCall'
    BY DEF SamplesByCall, SampleAt
  <2>4. CallsInOrder' /\ Outcome'
    BY DEF PassIsComplete, NoFalseAlarm
  <2> QED
    BY <2>2, <2>3, <2>4
<1>14. CASE WaitEnds
  <2> USE <1>14 DEF WaitEnds, MeasureFor, Error
  <2>1. LayersByCall'
    BY DEF LayersByCall, AllAt, Passed
  <2>2. SamplesByCall'
    BY DEF SamplesByCall, SampleAt
  <2>3. CallsInOrder' /\ Outcome'
    BY DEF PassIsComplete, NoFalseAlarm
  <2> QED
    BY <2>1, <2>2, <2>3
<1> QED
  BY <1>1, <1>2, <1>3, <1>4, <1>5, <1>6, <1>7, <1>8, <1>9, <1>10, <1>11, <1>12, <1>13, <1>14
     DEF Next

LegStep == leg = "resize" /\ Next /\ UNCHANGED <<commands, output>>

\* Outside of the leg its harness stands still.
LEMMA OutsideTheLeg ==
    ASSUME ResizeInv, LayersTypeOK', [CommandsNext]_allVars, ~LegStep
    PROVE  AroundTheLeg' /\ Outcome' /\ (leg' = "resize" => Leg' /\ verdict' = "none")
<1> USE DEF ResizeInv, Types, AroundTheLeg, Outcome, LegIsRecorded,
        PassIsComplete, NoFalseAlarm, Behind, Before
<1>1. CASE OpenTab
  BY <1>1 DEF OpenTab, At, Prepared, harness, AllAt
<1>2. CASE SplitPane \/ ExpandPane
  BY <1>2 DEF SplitPane, ExpandPane, At, Prepared, harness, AllAt
<1>3. CASE WaitFollowed
  <2>1. UNCHANGED <<harness, stalled, hasPty, layout>> /\ leg' \in {"expand", "ready"}
    BY <1>3 DEF WaitFollowed, At
  <2>2. leg' = "ready" => AllAt(Wide)'
    <3>1. ASSUME leg' = "ready"
          PROVE  layout' = Wide /\ requested' = Wide /\ pty' = [pty EXCEPT !.size = Wide, !.event = @ + 1]
                 /\ recovery' = pty' /\ rendered' = pty'
      BY <1>3, <3>1 DEF WaitFollowed, At, Follow
    <3>2. [pty EXCEPT !.size = Wide, !.event = @ + 1].size = Wide
      BY TakesSize DEF LayersTypeOK
    <3> QED
      BY <3>1, <3>2 DEF AllAt
  <2>3. verdict' = verdict /\ leg \in Before
    BY <1>3 DEF WaitFollowed, At
  <2> QED
    BY <2>1, <2>2, <2>3 DEF harness
<1>4. CASE MarkerReady
  <2>1. pc = "measure" /\ point = "wide" /\ result = "none" /\ AllAt(Wide)
    BY <1>4 DEF MarkerReady, At
  <2>2. /\ UNCHANGED <<pc, point, dom, wide, narrow, restored, failed, late, evidence, result>>
        /\ UNCHANGED <<stalled, hasPty, gaps, layers>>
        /\ leg' = "resize" /\ verdict' = "none" /\ readyCols' = rendered.size
    BY <1>4 DEF MarkerReady, At, world
  <2>3. CallsInOrder' /\ LayersByCall' /\ SamplesByCall'
    BY <1>4, <2>1, <2>2 DEF MarkerReady, At, CallsInOrder, LayersByCall, SamplesByCall, AllAt, layers
  <2> QED
    BY <2>2, <2>3 DEF Leg, Observed
<1>5. CASE ResizeEnds
  BY <1>5 DEF ResizeEnds, End, Leg, CallsInOrder, world
<1>6. CASE ReadMarker \/ ReadBaseline \/ PressEnter \/ WaitTail \/ WaitTailEnds \/ VerifyNodes
  BY <1>6 DEF ReadMarker, ReadBaseline, PressEnter, WaitTail, WaitTailEnds, VerifyNodes, At,
              vars, harness
<1>7. CASE ReadOutputStatus \/ CaptureTerminal
  BY <1>7 DEF ReadOutputStatus, CaptureTerminal, End, vars, harness
<1>8. CASE StepFails
  BY <1>8 DEF StepFails, End, vars, harness
<1>10. CASE StatusChanges
  BY <1>10 DEF StatusChanges, commands, harness
<1>11. CASE OutputMoves
  BY <1>11 DEF OutputMoves, Recover, Render, LosesOutput, commands, harness
<1>12. CASE PrintPayload
  <2>1. UNCHANGED <<harness, commands, stalled, hasPty, gaps, layout, requested, recovery, rendered>>
        /\ pty' = [pty EXCEPT !.out = @ + 1]
    BY <1>12 DEF PrintPayload
  <2>2. pty'.size = pty.size
    BY <2>1 DEF LayersTypeOK, Layer
  <2>3. leg = "resize" => Leg'
    BY <2>1, <2>2 DEF Leg, CallsInOrder, LayersByCall, SamplesByCall, AllAt, Passed, StalledAreWide,
                      SampleAt, harness
  <2> QED
    BY <2>1, <2>2, <2>3 DEF AllAt, harness, commands
<1>13. CASE UNCHANGED allVars
  <2>1. UNCHANGED <<harness, commands, stalled, hasPty, gaps, layers>>
    BY <1>13 DEF allVars, vars
  <2>2. leg = "resize" => Leg'
    BY <2>1 DEF Leg, CallsInOrder, LayersByCall, SamplesByCall, AllAt, Passed, StalledAreWide,
                SampleAt, harness, layers
  <2> QED
    BY <2>1, <2>2 DEF AllAt, harness, commands, layers
<1> QED
  BY <1>1, <1>2, <1>3, <1>4, <1>5, <1>6, <1>7, <1>8, <1>10, <1>11, <1>12, <1>13
     DEF CommandsNext, LegStep

\* The invariant of the resize leg.
LEMMA ResizeLeg == CommandsSpec => []ResizeInv
<1>1. CommandsInit => ResizeInv
  <2> SUFFICES ASSUME CommandsInit PROVE ResizeInv
    OBVIOUS
  <2> USE DEF CommandsInit, Init
  <2>1. Types
    <3>1. gaps \in BOOLEAN /\ hasPty \in BOOLEAN
      OBVIOUS
    <3>2. InStep /\ ControlTypeOK
      BY DEF InStep, ControlTypeOK, Before
    <3>3. LayersTypeOK
      BY <3>1 DEF LayersTypeOK, Layer, Narrow, Wide
    <3> QED
      BY <3>2, <3>3 DEF Types
  <2>2. AroundTheLeg /\ leg # "resize"
    BY DEF AroundTheLeg, AllAt, Before
  <2>3. Outcome
    BY DEF Outcome, PassIsComplete, NoFalseAlarm, LegIsRecorded
  <2> QED
    BY <2>1, <2>2, <2>3 DEF ResizeInv
<1>2. ResizeInv /\ [CommandsNext]_allVars => ResizeInv'
  <2> SUFFICES ASSUME ResizeInv, [CommandsNext]_allVars PROVE ResizeInv'
    OBVIOUS
  <2>1. Types'
    BY LayersKeepStep, ControlKeepsStep DEF ResizeInv, Types
  <2>2. CASE LegStep
    <3>1. UNCHANGED commands /\ leg = "resize" /\ Next
      BY <2>2 DEF LegStep
    <3> QED
      BY <2>1, <3>1, LegByCall, LegUnderTerminal
         DEF ResizeInv, Types, AroundTheLeg, Before, commands
  <2>3. CASE ~LegStep
    BY <2>1, <2>3, OutsideTheLeg DEF ResizeInv, Types
  <2> QED
    BY <2>2, <2>3
<1> QED
  BY <1>1, <1>2, PTL DEF CommandsSpec

\* A passing leg has seen the resize arrive everywhere and come back.
THEOREM PassSawEveryLayer == CommandsSpec => []PassIsComplete
<1>1. ResizeInv => PassIsComplete
  BY DEF ResizeInv, Outcome
<1> QED
  BY <1>1, ResizeLeg, PTL

\* A terminal that follows every resize fails the leg only for a named reason.
THEOREM FailsForAReason == CommandsSpec => []NoFalseAlarm
<1>1. ResizeInv => NoFalseAlarm
  BY DEF ResizeInv, Outcome
<1> QED
  BY <1>1, ResizeLeg, PTL

--------------------------------------------------------------------------------
(* The high-output leg. *)

\* The conditions of the output evidence one by one.
OutputAdvanced(s) ==
    /\ s.source # 0 /\ s.source >= base + Payload
    /\ ~s.gaps /\ s.recovery <= s.source /\ (seen \/ s.recovery = s.source)
    /\ s.rendered <= s.recovery /\ (seen \/ s.rendered = s.recovery)
    /\ ~slow

LEMMA TheOutputConditions ==
    ASSUME NEW s
    PROVE  /\ outputBoundary(s) # "unwritten"
           /\ outputBoundary(s) = "" <=> OutputAdvanced(s)
<1> DEFINE C == OutputConditions(s)
           fails == {i \in 1..4 : ~C[i]}
           first == CHOOSE i \in fails : \A j \in fails : i <= j
<1>1. outputBoundary(s) = IF fails = {} THEN "" ELSE OutputBoundaries[first]
  BY DEF outputBoundary, FirstThatFails
<1>2. fails # {} => first \in 1..4
  <2> HIDE DEF C
  <2> SUFFICES ASSUME fails # {} PROVE first \in 1..4
    OBVIOUS
  <2>1. fails \in SUBSET Nat
    OBVIOUS
  <2> HIDE DEF fails
  <2>2. \E i \in fails : \A j \in fails : i <= j
    BY <2>1, FirstOf
  <2>3. first \in fails
    BY <2>2
  <2> QED
    BY <2>3 DEF fails
<1>3. \A i \in 1..4 : OutputBoundaries[i] \notin {"", "unwritten"}
  <2>1. \A i \in 1..4 : i = 1 \/ i = 2 \/ i = 3 \/ i = 4
    OBVIOUS
  <2>2. /\ OutputBoundaries[1] = "source-output" /\ OutputBoundaries[2] = "recovery-output"
        /\ OutputBoundaries[3] = "renderer-output" /\ OutputBoundaries[4] = "composition-throughput"
    BY DEF OutputBoundaries
  <2>3. TAKE i \in 1..4
  <2> QED
    BY <2>1, <2>2
<1>4. fails = {} <=> C[1] /\ C[2] /\ C[3] /\ C[4]
  <2> HIDE DEF C
  <2>1. 1..4 = {1, 2, 3, 4}
    OBVIOUS
  <2> QED
    BY <2>1, Zenon
<1>5. C[1] <=> s.source # 0 /\ s.source >= base + Payload
  BY DEF OutputConditions
<1>6. C[2] <=> ~s.gaps /\ s.recovery <= s.source /\ (seen \/ s.recovery = s.source)
  BY DEF OutputConditions
<1>7. C[3] <=> s.rendered <= s.recovery /\ (seen \/ s.rendered = s.recovery)
  BY DEF OutputConditions
<1>8. C[4] <=> ~slow
  BY DEF OutputConditions
<1>9. fails = {} <=> OutputAdvanced(s)
  BY <1>4, <1>5, <1>6, <1>7, <1>8 DEF OutputAdvanced
<1> HIDE DEF C, fails, first
<1> QED
  BY <1>1, <1>2, <1>3, <1>9

OutputTypeOK ==
    /\ base \in Nat /\ origin \in Nat /\ tail \in Nat /\ running \in Nat
    /\ seen \in BOOLEAN /\ slow \in BOOLEAN

\* What the harness has seen of the tail stays so.
TailByLeg ==
    /\ leg \in Before \cup {"resize", "read", "baseline", "enter"}
          => tail = 0 /\ running = 0 /\ ~unsteady /\ ~seen
    /\ tail # 0 => running = 0
    /\ seen => tail # 0 /\ rendered.out >= tail
    /\ leg \in {"status", "nodes", "capture"} /\ ~slow => seen

\* The baseline is not ahead of the PTY, and level with it if the PTY was asked.
BaselineByLeg ==
    leg \in {"enter", "tail", "status"} =>
        /\ base <= origin /\ origin <= pty.out
        /\ hasPty /\ ~unsteady => base = origin

EvidenceByLeg ==
    leg \notin {"nodes", "capture", "end"} => status = NoStatus /\ outEvidence = "unwritten"

OutputIsRecorded ==
    verdict = "error" /\ result = "none" /\ ~broken => outEvidence \notin {"unwritten", ""}

OutputInv ==
    /\ OutputTypeOK /\ TailByLeg /\ BaselineByLeg /\ EvidenceByLeg
    /\ OutputVerdict /\ OutputIsRecorded

\* Output that goes on takes nothing back.
LEMMA OutputGoesOn ==
    ASSUME Types, Types', OutputInv,
           pty.out <= pty'.out, rendered.out <= rendered'.out,
           UNCHANGED <<leg, hasPty, base, origin, tail, running, seen, slow, status,
                       outEvidence, unsteady>>
    PROVE  OutputTypeOK' /\ TailByLeg' /\ BaselineByLeg' /\ EvidenceByLeg' /\ OutputVerdict'
<1> USE DEF OutputInv
<1>0. pty.out \in Nat /\ pty'.out \in Nat /\ rendered.out \in Nat /\ rendered'.out \in Nat
  BY DEF Types, LayersTypeOK, Layer
<1>1. OutputTypeOK' /\ EvidenceByLeg'
  BY DEF OutputTypeOK, EvidenceByLeg
<1>2. TailByLeg'
  BY <1>0 DEF OutputTypeOK, TailByLeg
<1>3. BaselineByLeg'
  BY <1>0 DEF OutputTypeOK, BaselineByLeg
<1>4. OutputVerdict'
  <2>1. rendered.out >= tail => rendered'.out >= tail
    BY <1>0 DEF OutputTypeOK
  <2>2. \A n \in Nat : pty.out >= n => pty'.out >= n
    BY <1>0
  <2>3. base + Payload \in Nat /\ origin + Payload \in Nat
    BY CommandsAssumption DEF OutputTypeOK
  <2>4. OutputVerdict
    OBVIOUS
  <2>5. UNCHANGED <<hasPty, base, origin, tail, seen, slow, status, outEvidence, unsteady>>
    OBVIOUS
  <2> QED
    BY ONLY <2>1, <2>2, <2>3, <2>4, <2>5 DEF OutputVerdict
<1> QED
  BY <1>1, <1>2, <1>3, <1>4

\* The steps of the two legs, and what each of them leaves behind.
LEMMA OutputKeepsStep ==
    ASSUME ResizeInv, Types', OutputInv, OutputIsRecorded', [CommandsNext]_allVars,
           pty.out <= pty'.out, rendered.out <= rendered'.out
    PROVE  OutputTypeOK' /\ TailByLeg' /\ BaselineByLeg' /\ EvidenceByLeg' /\ OutputVerdict'
<1>0. /\ pty.out \in Nat \ {0} /\ recovery.out \in Nat \ {0} /\ rendered.out \in Nat \ {0}
      /\ rendered.out <= recovery.out /\ recovery.out <= pty.out
      /\ leg \in Before \cup After \cup {"resize", "end"}
  BY DEF ResizeInv, Types, InStep, LayersTypeOK, ControlTypeOK, Layer
<1>1. CASE \/ LegStep \/ OutputMoves \/ UNCHANGED allVars
  <2>1. UNCHANGED <<leg, hasPty, base, origin, tail, running, seen, slow, status,
                    outEvidence, unsteady>>
    <3>1. CASE LegStep
      BY <3>1 DEF LegStep, Next, MeasureNode, MeasureWide, MeasureNarrow, MeasureLate,
                  MeasureNarrowed, MeasureRestored, MeasureFails, ResizeNarrow, ResizeWide,
                  TypeMarker, CallFails, WaitContains, WaitNarrow, WaitWide, WaitEnds, Terminal,
                  Request, ApplyToPty, PrintOutput, Recover, Render, LosesOutput, commands, output,
                  world
    <3>2. CASE OutputMoves
      BY <3>2 DEF OutputMoves, Recover, Render, LosesOutput, commands, output
    <3>3. CASE UNCHANGED allVars
      BY <3>3 DEF allVars, vars, commands, output
    <3> QED
      BY <1>1, <3>1, <3>2, <3>3
  <2> QED
    BY <2>1, OutputGoesOn DEF ResizeInv
<1>2. ASSUME leg \in Before \cup {"resize", "read"},
             leg' \in Before \cup {"resize", "read", "baseline", "end"},
             UNCHANGED output
      PROVE  OutputTypeOK' /\ TailByLeg' /\ BaselineByLeg' /\ EvidenceByLeg' /\ OutputVerdict'
  BY <1>2 DEF output, OutputInv, OutputTypeOK, TailByLeg, BaselineByLeg, EvidenceByLeg,
              OutputVerdict, Before
<1>3. CASE OpenTab \/ SplitPane \/ ExpandPane \/ WaitFollowed \/ MarkerReady \/ ReadMarker
  BY <1>2, <1>3 DEF OpenTab, SplitPane, ExpandPane, WaitFollowed, MarkerReady, ReadMarker, At,
                    Prepared, Before
<1>4. CASE ResizeEnds
  BY <1>2, <1>4 DEF ResizeEnds, End, Before
<1>5. CASE ReadBaseline
  <2> USE <1>5, <1>0 DEF ReadBaseline, At, OutputInv
  <2>1. leg = "baseline" /\ leg' = "enter" /\ base' = Source /\ origin' = pty.out
        /\ UNCHANGED <<vars, seen, slow, status, outEvidence, tail, running, unsteady>>
    OBVIOUS
  <2>2. Source \in Nat /\ Source <= pty.out /\ (hasPty => Source = pty.out)
    BY DEF Source
  <2>3. OutputTypeOK' /\ TailByLeg'
    BY <2>1, <2>2 DEF OutputTypeOK, TailByLeg, vars, layers, Before
  <2>4. BaselineByLeg'
    BY <2>1, <2>2 DEF BaselineByLeg, vars, layers
  <2>5. EvidenceByLeg' /\ OutputVerdict'
    BY <2>1 DEF EvidenceByLeg, OutputVerdict
  <2> QED
    BY <2>3, <2>4, <2>5
<1>6. CASE PressEnter
  <2> USE <1>6 DEF PressEnter, At, OutputInv
  <2>1. running' \in Nat
    BY CommandsAssumption
  <2>2. OutputTypeOK' /\ TailByLeg'
    BY <2>1 DEF OutputTypeOK, TailByLeg, Before, vars, layers
  <2>3. BaselineByLeg'
    BY DEF BaselineByLeg, vars, layers
  <2>4. EvidenceByLeg' /\ OutputVerdict'
    BY DEF EvidenceByLeg, OutputVerdict
  <2> QED
    BY <2>2, <2>3, <2>4
<1>7. CASE WaitTail \/ WaitTailEnds
  <2> USE <1>7 DEF WaitTail, WaitTailEnds, At, OutputInv
  <2>1. OutputTypeOK'
    BY DEF OutputTypeOK
  <2>2. TailByLeg'
    BY DEF TailByLeg, Before, vars, layers
  <2>3. BaselineByLeg'
    BY DEF BaselineByLeg, vars, layers
  <2>4. EvidenceByLeg' /\ OutputVerdict'
    BY DEF EvidenceByLeg, OutputVerdict
  <2> QED
    BY <2>1, <2>2, <2>3, <2>4
<1>8. CASE ReadOutputStatus
  <2> USE DEF OutputInv
  <2>1. /\ leg = "status" /\ leg' \in {"nodes", "end"} /\ outEvidence' = outputBoundary(status')
        /\ leg' = "nodes" => seen
        /\ UNCHANGED <<vars, base, seen, slow, running, tail, origin, unsteady>>
    BY <1>8 DEF ReadOutputStatus, End
  <2>2. OutputTypeOK' /\ TailByLeg' /\ BaselineByLeg' /\ EvidenceByLeg'
    BY <2>1 DEF OutputTypeOK, TailByLeg, BaselineByLeg, EvidenceByLeg, Before, vars, layers
  <2>3. ASSUME status' # NoStatus
        PROVE  OutputVerdict'
    <3> DEFINE read == [source |-> Source, recovery |-> recovery.out,
                        rendered |-> rendered.out, gaps |-> gaps]
    <3>1. status' = read
      BY <1>8, <2>3 DEF ReadOutputStatus
    <3>2. /\ read.source = Source /\ read.recovery = recovery.out
          /\ read.rendered = rendered.out /\ read.gaps = gaps
      OBVIOUS
    <3> HIDE DEF read
    <3>3. /\ Source \in Nat /\ Source # 0 /\ Source <= pty.out /\ recovery.out <= Source
      BY <1>0 DEF Source
    <3>4. OutputAdvanced(read) <=> outEvidence' = ""
      BY <2>1, <3>1, TheOutputConditions
    <3>5. /\ base <= origin /\ (hasPty /\ ~unsteady => base = origin)
          /\ base \in Nat /\ origin \in Nat /\ tail \in Nat /\ Payload \in Nat
          /\ seen => tail # 0 /\ rendered.out >= tail
          /\ ~slow => seen
      BY <2>1, CommandsAssumption DEF OutputTypeOK, BaselineByLeg, TailByLeg
    <3>6. UNCHANGED <<base, seen, slow, tail, origin, unsteady, hasPty, pty, rendered>>
      BY <2>1 DEF vars, layers
    <3>7. ASSUME OutputAdvanced(read)
          PROVE  /\ seen /\ ~gaps /\ rendered.out >= tail /\ tail # 0
                 /\ pty.out >= base + Payload
                 /\ hasPty /\ ~unsteady => pty.out >= origin + Payload
      <4>1. ~slow /\ ~gaps /\ Source >= base + Payload
        BY <3>2, <3>7 DEF OutputAdvanced
      <4>2. pty.out >= base + Payload
        BY <1>0, <3>3, <3>5, <4>1
      <4> QED
        BY <3>5, <4>1, <4>2
    <3>8. ASSUME seen, ~slow, ~gaps, tail >= origin + Payload
          PROVE  OutputAdvanced(read)
      <4>1. Source >= base + Payload
        BY <1>0, <3>3, <3>5, <3>8
      <4> QED
        BY <1>0, <3>2, <3>3, <3>8, <4>1 DEF OutputAdvanced
    <3> QED
      BY ONLY <3>1, <3>2, <3>4, <3>6, <3>7, <3>8 DEF OutputVerdict
  <2>4. status' = NoStatus => OutputVerdict'
    BY DEF OutputVerdict
  <2> QED
    BY <2>2, <2>3, <2>4
<1>9. CASE VerifyNodes \/ CaptureTerminal \/ StepFails
  <2>1. leg' \in {"capture", "end"} /\ (leg' = "capture" => leg = "nodes") /\ UNCHANGED <<vars, output>>
    BY <1>9 DEF VerifyNodes, CaptureTerminal, StepFails, At, End
  <2>2. UNCHANGED <<hasPty, pty, rendered, base, origin, tail, running, seen, slow, status,
                    outEvidence, unsteady>>
    BY <2>1 DEF vars, layers, output
  <2>3. TailByLeg' /\ BaselineByLeg' /\ EvidenceByLeg' /\ OutputTypeOK'
    BY <2>1, <2>2 DEF OutputInv, OutputTypeOK, TailByLeg, BaselineByLeg, EvidenceByLeg, Before
  <2>4. OutputVerdict'
    BY <2>2 DEF OutputInv, OutputVerdict
  <2> QED
    BY <2>3, <2>4
<1>10. CASE PrintPayload
  <2> USE <1>10 DEF PrintPayload, OutputInv
  <2>1. running > 0 /\ tail = 0 /\ ~seen /\ running' = running - 1
        /\ pty' = [pty EXCEPT !.out = @ + 1]
        /\ UNCHANGED <<rendered, hasPty, leg, base, seen, slow, status, outEvidence, origin,
                       unsteady>>
    BY DEF commands, TailByLeg, OutputTypeOK
  <2>2. pty'.out \in Nat /\ tail' = (IF running' = 0 THEN pty'.out ELSE tail)
    BY DEF Types, LayersTypeOK, Layer
  <2>3. OutputTypeOK'
    BY <2>1, <2>2 DEF OutputTypeOK
  <2>4. TailByLeg'
    BY <2>1, <2>2 DEF OutputTypeOK, TailByLeg
  <2>5. BaselineByLeg'
    BY <1>0, <2>1, <2>2 DEF OutputTypeOK, BaselineByLeg
  <2>6. EvidenceByLeg' /\ OutputVerdict'
    <3>1. EvidenceByLeg'
      BY <2>1 DEF EvidenceByLeg
    <3>2. ~seen' /\ (status' # NoStatus => outEvidence' # "")
      <4>1. OutputVerdict /\ UNCHANGED <<seen, status, outEvidence>> /\ ~seen
        BY <2>1
      <4> QED
        BY ONLY <4>1, Zenon DEF OutputVerdict
    <3>3. OutputVerdict'
      BY ONLY <3>2 DEF OutputVerdict
    <3> QED
      BY <3>1, <3>3
  <2> QED
    BY <2>3, <2>4, <2>5, <2>6
<1>11. CASE StatusChanges
  <2>1. /\ leg = "tail" /\ unsteady'
        /\ UNCHANGED <<leg, pty, rendered, base, seen, slow, status, outEvidence, running, tail, origin>>
    BY <1>11 DEF StatusChanges, commands, layers
  <2> USE DEF OutputInv
  <2>2. EvidenceByLeg' /\ OutputTypeOK'
    BY <2>1 DEF OutputTypeOK, EvidenceByLeg
  <2>3. TailByLeg'
    BY <2>1 DEF TailByLeg, Before
  <2>4. BaselineByLeg'
    BY <2>1 DEF BaselineByLeg
  <2>5. OutputVerdict'
    BY <2>1 DEF OutputVerdict, EvidenceByLeg
  <2> QED
    BY <2>2, <2>3, <2>4, <2>5
<1> QED
  BY <1>1, <1>3, <1>4, <1>5, <1>6, <1>7, <1>8, <1>9, <1>10, <1>11 DEF CommandsNext, LegStep

\* An error of the output leg is a failed call, or has its evidence: the verdict of
\* the status names a boundary unless everything advanced, and then it was seen.
LEMMA OutputIsRecordedStep ==
    ASSUME ResizeInv, OutputInv, [CommandsNext]_allVars
    PROVE  OutputIsRecorded'
<1> USE DEF OutputInv, OutputIsRecorded
<1>1. CASE LegStep
  <2>1. verdict' = "none"
    BY <1>1 DEF LegStep, ResizeInv, commands
  <2> QED
    BY <2>1
<1>2. CASE ResizeEnds
  <2>1. verdict' = "error" => result' # "none"
    BY <1>2 DEF ResizeEnds, End, ResizeInv, Leg, CallsInOrder
  <2> QED
    BY <2>1
<1>3. CASE ReadOutputStatus
  <2>1. ASSUME verdict' = "error", ~broken'
        PROVE  outEvidence' \notin {"unwritten", ""}
    <3>2. leg = "status" /\ (~slow => seen)
      BY <1>3 DEF ReadOutputStatus, TailByLeg
    <3>3. outEvidence' = "" => seen
      BY <1>3, <3>2, TheOutputConditions DEF ReadOutputStatus, OutputAdvanced
    <3>4. verdict = "none"
      BY <3>2 DEF ResizeInv, AroundTheLeg
    <3> QED
      BY <1>3, <2>1, <3>3, <3>4, TheOutputConditions DEF ReadOutputStatus, End
  <2> QED
    BY <2>1
<1>4. CASE CaptureTerminal \/ StepFails
  BY <1>4 DEF CaptureTerminal, StepFails, End
<1>5. CASE \/ OpenTab \/ SplitPane \/ ExpandPane \/ WaitFollowed \/ MarkerReady \/ ReadMarker
           \/ ReadBaseline \/ PressEnter \/ WaitTail \/ WaitTailEnds \/ VerifyNodes
  <2>1. verdict' = "none"
    BY <1>5 DEF OpenTab, SplitPane, ExpandPane, WaitFollowed, MarkerReady, ReadMarker, ReadBaseline,
                PressEnter, WaitTail, WaitTailEnds, VerifyNodes, At, ResizeInv, AroundTheLeg,
                Types, ControlTypeOK
  <2> QED
    BY <2>1
<1>6. CASE PrintPayload \/ OutputMoves \/ StatusChanges
  <2>1. UNCHANGED <<verdict, result, broken, outEvidence>>
    BY <1>6 DEF PrintPayload, OutputMoves, Recover, Render, LosesOutput, StatusChanges, commands,
                vars, harness, output
  <2> QED
    BY <2>1
<1>7. CASE UNCHANGED allVars
  BY <1>7 DEF allVars, vars, harness, commands, output
<1> QED
  BY <1>1, <1>2, <1>3, <1>4, <1>5, <1>6, <1>7 DEF CommandsNext, LegStep

\* The invariant of both legs.
LEMMA BothLegs == CommandsSpec => [](ResizeInv /\ OutputInv)
<1>1. CommandsInit => OutputInv
  <2> SUFFICES ASSUME CommandsInit PROVE OutputInv
    OBVIOUS
  <2> USE DEF CommandsInit
  <2>1. OutputTypeOK /\ TailByLeg /\ BaselineByLeg /\ EvidenceByLeg
    BY DEF OutputTypeOK, TailByLeg, BaselineByLeg, EvidenceByLeg, Before
  <2>2. OutputVerdict /\ OutputIsRecorded
    BY DEF OutputVerdict, OutputIsRecorded
  <2> QED
    BY <2>1, <2>2 DEF OutputInv
<1>2. ResizeInv /\ ResizeInv' /\ OutputInv /\ [CommandsNext]_allVars => OutputInv'
  <2> SUFFICES ASSUME ResizeInv, ResizeInv', OutputInv, [CommandsNext]_allVars PROVE OutputInv'
    OBVIOUS
  <2>1. OutputIsRecorded'
    BY OutputIsRecordedStep
  <2>2. Types' /\ pty.out <= pty'.out /\ rendered.out <= rendered'.out
    BY LayersKeepStep DEF ResizeInv, Types
  <2> QED
    BY <2>1, <2>2, OutputKeepsStep DEF OutputInv
<1> QED
  BY <1>1, <1>2, ResizeLeg, PTL DEF CommandsSpec

\* Every failure of either leg that is not a failed call leaves its evidence
\* (terminal_resize_evidence.go, terminal_output_evidence.go).
THEOREM EvidenceOfEveryFailure == CommandsSpec => []FailureIsRecorded
<1>1. ResizeInv /\ OutputInv => FailureIsRecorded
  BY DEF ResizeInv, Outcome, LegIsRecorded, OutputInv, OutputIsRecorded, FailureIsRecorded
<1> QED
  BY <1>1, BothLegs, PTL

\* What the verdict of the output leg means, and that a prompt terminal passes,
\* whatever the plugin's status says of the PTY meanwhile.
THEOREM OutputVerdictIsTrue == CommandsSpec => []OutputVerdict
<1>1. OutputInv => OutputVerdict
  BY DEF OutputInv
<1> QED
  BY <1>1, BothLegs, PTL
================================================================================

----------------------------- MODULE InstalledMatrix -----------------------------
(***************************************************************************)
(* installedmatrix/matrix.go: Verify takes one engine after the other      *)
(* through a running product.  It selects the engine in a setting that is  *)
(* global, opens a tab, waits until it is live and shows its prompt, reads *)
(* status, text and sidecar, digests the executable the sidecar names, and *)
(* takes a snapshot of a settled layout.  Nobody stops other clients from  *)
(* changing the setting, or an update from replacing an executable.        *)
(***************************************************************************)
EXTENDS Naturals

CONSTANTS Last,     \* the engines are 1..Last, in their canonical order
          Builds,   \* bytes an executable may have
          Declared, \* the build of each engine whose digest is declared
          Version(_), \* version a build reports
          NoBuild   \* no process runs

Engines == 1..Last
Units   == 0..Last  \* sidecars: 0 stands for those of no engine

ASSUME MatrixAssumption ==
    Last \in Nat \ {0} /\ Declared \in [Engines -> Builds] /\ NoBuild \notin Builds

VARIABLES pc,        \* next call of verifyEngine
          engine,    \* expected.Engine
          found,     \* build of the process that sidecar.status named
          report,    \* report.Engines: for each engine what its result rests on
          outcome,   \* what Verify returned: "none" yet, "report" or "error"
          trouble,   \* something happened that a failure may be blamed on
          setting,   \* the engine selected in the product
          view,      \* the tab that was opened
          exe,       \* bytes of each engine's executable
          image,     \* bytes its running process was started from
          odd,       \* units that status does not give the exact identity of
          layout     \* "sound", "moving" or "violated"

matrix  == <<pc, engine, found, report, outcome>>
product == <<setting, view, exe, image, odd, layout>>
vars    == <<matrix, trouble, product>>

NoView == [engine |-> 0, phase |-> "none", prompt |-> FALSE, gaps |-> FALSE]
Nothing == [view |-> 0, found |-> NoBuild, digest |-> NoBuild]

Init ==
    /\ pc = "validate" /\ engine = 1 /\ found = NoBuild
    /\ report = [e \in Engines |-> Nothing] /\ outcome = "none"
    /\ setting \in Engines /\ view = NoView /\ layout = "sound"
    /\ exe \in [Engines -> Builds] /\ image \in [Engines -> Builds \cup {NoBuild}]
    /\ odd = {}
    /\ trouble = \E e \in Engines : \/ exe[e] # Declared[e]
                                   \/ image[e] \notin {Declared[e], NoBuild}

--------------------------------------------------------------------------------
Fail == pc' = "done" /\ outcome' = "error"
Goto(p) == pc' = p /\ UNCHANGED outcome

\* The configuration is refused, a call fails or a wait runs out.
CallFails ==
    /\ pc # "done"
    /\ Fail /\ trouble' = TRUE
    /\ UNCHANGED <<engine, found, report, product>>

Validate ==
    /\ pc = "validate"
    /\ Goto("set")
    /\ UNCHANGED <<engine, found, report, trouble, product>>

\* Fault: the engine is selected before the loop.
SelectFirstEngine ==
    /\ pc = "set"
    /\ setting' = IF engine = 1 THEN engine ELSE setting
    /\ Goto("open")
    /\ UNCHANGED <<engine, found, report, trouble, view, exe, image, odd, layout>>

SelectEngine ==
    /\ pc = "set"
    /\ setting' = engine
    /\ Goto("open")
    /\ UNCHANGED <<engine, found, report, trouble, view, exe, image, odd, layout>>

\* tab.open: the tab takes the engine selected at this moment and starts its
\* sidecar, unless it runs already.
OpenTab ==
    /\ pc = "open"
    /\ view' = [engine |-> setting, phase |-> "starting", prompt |-> FALSE, gaps |-> FALSE]
    /\ image' = [image EXCEPT ![setting] = IF @ = NoBuild THEN exe[setting] ELSE @]
    /\ Goto("wait")
    /\ UNCHANGED <<engine, found, report, trouble, setting, exe, odd, layout>>

\* Fault: which engine answers is not compared.
LiveAny == view.phase = "live"

\* validateLiveWait, validateStatus: live, without a failure, of this engine.
Live == view.phase = "live" /\ view.engine = engine

WaitLive ==
    /\ pc = "wait" /\ view.phase = "live" /\ view.prompt
    /\ IF Live THEN Goto("status") ELSE Fail
    /\ UNCHANGED <<engine, found, report, trouble, product>>

ReadStatus ==
    /\ pc = "status"
    /\ IF Live /\ ~view.gaps THEN Goto("read") ELSE Fail
    /\ UNCHANGED <<engine, found, report, trouble, product>>

ReadText ==
    /\ pc = "read"
    /\ IF view.prompt THEN Goto("sidecars") ELSE Fail
    /\ UNCHANGED <<engine, found, report, trouble, product>>

\* validateSidecars: every unit has its exact identity, those of the engines
\* before and of no engine included, and there is a process of this engine's
\* sidecar, of the declared version.
ReadSidecars ==
    /\ pc = "sidecars"
    /\ found' = image[engine]
    /\ IF /\ \A u \in odd : u # 0 /\ image[u] = NoBuild
          /\ found' # NoBuild /\ Version(found') = Version(Declared[engine])
         THEN Goto("digest") ELSE Fail
    /\ UNCHANGED <<engine, report, trouble, product>>

\* The executable at the path of that process, as it is on disk now.
DigestArtifact ==
    /\ pc = "digest"
    /\ report' = [report EXCEPT ![engine] =
                    [view |-> view.engine, found |-> found, digest |-> exe[engine]]]
    /\ IF exe[engine] = Declared[engine] THEN Goto("settled") ELSE Fail
    /\ UNCHANGED <<engine, found, trouble, product>>

WaitSettled ==
    /\ pc = "settled"
    /\ IF layout # "moving" THEN Goto("composition") ELSE Fail
    /\ UNCHANGED <<engine, found, report, trouble, product>>

ReadComposition ==
    /\ pc = "composition"
    /\ IF layout # "violated" THEN Goto("snapshot") ELSE Fail
    /\ UNCHANGED <<engine, found, report, trouble, product>>

Snapshot ==
    /\ pc = "snapshot"
    /\ IF engine < Last
         THEN Goto("set") /\ engine' = engine + 1
         ELSE pc' = "done" /\ outcome' = "report" /\ UNCHANGED engine
    /\ UNCHANGED <<found, report, trouble, product>>

--------------------------------------------------------------------------------
(* The product and its other clients (external). *)

ViewChanges ==
    /\ view' \in {[view EXCEPT !.phase = "live"], [view EXCEPT !.prompt = TRUE],
                  [view EXCEPT !.phase = "failed"], [view EXCEPT !.prompt = FALSE],
                  [view EXCEPT !.gaps = TRUE]}
    /\ view.phase \notin {"none", "failed"}
    /\ trouble' = (trouble \/ view'.phase = "failed" \/ view'.gaps \/ (view.prompt /\ ~view'.prompt))
    /\ UNCHANGED <<matrix, setting, exe, image, odd, layout>>

\* It matters between the selection of an engine and the opening of its tab.
OtherSelects(e) ==
    /\ setting' = e /\ trouble' = (trouble \/ (pc = "open" /\ e # engine))
    /\ UNCHANGED <<matrix, view, exe, image, odd, layout>>

\* An update replaces the executable, under a running process or not.
Replace(e, build) ==
    /\ exe' = [exe EXCEPT ![e] = build] /\ trouble' = (trouble \/ build # Declared[e])
    /\ UNCHANGED <<matrix, setting, view, image, odd, layout>>

\* A sidecar ends, or starts from what is on disk.  The end matters from the
\* opening of its engine's tab until its process has been asked for.
SidecarChanges(e) ==
    /\ \/ /\ image' = [image EXCEPT ![e] = NoBuild]
          /\ trouble' = (trouble \/ (e = engine /\ pc \in {"wait", "status", "read", "sidecars"}))
       \/ image' = [image EXCEPT ![e] = exe[e]] /\ UNCHANGED trouble
    /\ UNCHANGED <<matrix, setting, view, exe, odd, layout>>

\* The status of one sidecar, of any, is not the exact identity for a while.
UnitChanges(u) ==
    /\ odd' \in {{}, {u}} /\ trouble' = (trouble \/ odd' # {})
    /\ UNCHANGED <<matrix, setting, view, exe, image, layout>>

LayoutChanges ==
    /\ layout' \in {"sound", "moving", "violated"} /\ trouble' = (trouble \/ layout' # "sound")
    /\ UNCHANGED <<matrix, setting, view, exe, image, odd>>

Step ==
    \/ CallFails \/ Validate \/ SelectEngine \/ OpenTab \/ WaitLive \/ ReadStatus
    \/ ReadText \/ ReadSidecars \/ DigestArtifact \/ WaitSettled \/ ReadComposition
    \/ Snapshot

World ==
    /\ pc # "done"
    /\ \/ ViewChanges \/ LayoutChanges
       \/ \E e \in Engines : OtherSelects(e) \/ SidecarChanges(e)
       \/ \E u \in Units : UnitChanges(u)
       \/ \E e \in Engines, build \in Builds : Replace(e, build)

Next == Step \/ World

Spec == Init /\ [][Next]_vars

--------------------------------------------------------------------------------
TypeOK ==
    /\ pc \in {"validate", "set", "open", "wait", "status", "read", "sidecars",
               "digest", "settled", "composition", "snapshot", "done"}
    /\ engine \in Engines /\ found \in Builds \cup {NoBuild}
    /\ report \in [Engines -> [view : 0..Last, found : Builds \cup {NoBuild},
                               digest : Builds \cup {NoBuild}]]
    /\ outcome \in {"none", "report", "error"} /\ trouble \in BOOLEAN
    /\ setting \in Engines
    /\ view \in [engine : 0..Last, phase : {"none", "starting", "live", "failed"},
                 prompt : BOOLEAN, gaps : BOOLEAN]
    /\ exe \in [Engines -> Builds] /\ image \in [Engines -> Builds \cup {NoBuild}]
    /\ odd \in SUBSET Units /\ layout \in {"sound", "moving", "violated"}

\* A report covers every engine with a terminal of that engine, whatever other
\* clients select meanwhile, with a sidecar of the declared version and with the
\* declared bytes on disk.  It does not say that the process runs those bytes:
\* the executable may have been replaced under it by the declared one.
ReportIsOfItsEngines ==
    outcome = "report" =>
        \A e \in Engines : /\ report[e].view = e /\ report[e].digest = Declared[e]
                           /\ Version(report[e].found) = Version(Declared[e])

\* With a product that is as declared, the matrix fails only for a call or for
\* interference at a moment when it matters: another selection between set and
\* open, the end of the sidecar that is being looked at, a unit without its exact
\* identity.  What earlier engines left behind, other selections at any other
\* moment and restarts of other sidecars do not disturb it.
NoFalseAlarm == outcome = "error" => trouble
================================================================================

--------------------------- MODULE InstalledMatrixProof ---------------------------
(***************************************************************************)
(* Proofs about the installed matrix, for any number of engines and builds *)
(* and any versions they report.                                           *)
(***************************************************************************)
EXTENDS InstalledMatrix, TLAPS

\* The type invariant in two parts, for the provers.
MatrixTypeOK ==
    /\ pc \in {"validate", "set", "open", "wait", "status", "read", "sidecars",
               "digest", "settled", "composition", "snapshot", "done"}
    /\ engine \in Engines /\ found \in Builds \cup {NoBuild}
    /\ report \in [Engines -> [view : 0..Last, found : Builds \cup {NoBuild},
                               digest : Builds \cup {NoBuild}]]
    /\ outcome \in {"none", "report", "error"} /\ trouble \in BOOLEAN
ProductTypeOK ==
    /\ setting \in Engines
    /\ view \in [engine : 0..Last, phase : {"none", "starting", "live", "failed"},
                 prompt : BOOLEAN, gaps : BOOLEAN]
    /\ exe \in [Engines -> Builds] /\ image \in [Engines -> Builds \cup {NoBuild}]
    /\ odd \in SUBSET Units /\ layout \in {"sound", "moving", "violated"}

\* What the report says of an engine that has passed.
Good(e) ==
    /\ report[e].view = e /\ report[e].digest = Declared[e]
    /\ Version(report[e].found) = Version(Declared[e])

\* The engines before the current one have passed, and the calls so far have
\* established of the current one what the report is going to say.
ReportSoFar ==
    /\ pc \in {"status", "read", "sidecars", "digest"} => view.engine = engine
    /\ pc = "digest" => Version(found) = Version(Declared[engine])
    /\ pc \in {"settled", "composition", "snapshot"} => Good(engine)
    /\ \A e \in Engines : e < engine => Good(e)
    /\ outcome = "report" => engine = Last /\ Good(Last)
    /\ pc # "done" => outcome = "none"

\* Without trouble the product is as declared and does what the harness asks.
AsDeclared ==
    ~trouble =>
        /\ \A e \in Engines : exe[e] = Declared[e] /\ image[e] \in {Declared[e], NoBuild}
        /\ layout = "sound" /\ odd = {} /\ ~view.gaps /\ view.phase # "failed"
        /\ pc = "open" => setting = engine
        /\ pc \in {"wait", "status", "read", "sidecars"} =>
              view.engine = engine /\ image[engine] = Declared[engine]
        /\ pc \in {"status", "read"} => view.phase = "live" /\ view.prompt
        /\ outcome # "error"

\* The harness keeps its types.
LEMMA MatrixTypes ==
    ASSUME MatrixTypeOK, ProductTypeOK, [Next]_vars PROVE MatrixTypeOK'
<1> USE MatrixAssumption DEF MatrixAssumption, Engines, Units, MatrixTypeOK, ProductTypeOK, Fail, Goto, matrix, product
<1>1. CASE CallFails
  BY <1>1 DEF CallFails
<1>2. CASE Validate
  BY <1>2 DEF Validate
<1>3. CASE SelectEngine
  BY <1>3 DEF SelectEngine
<1>4. CASE OpenTab
  BY <1>4 DEF OpenTab
<1>5. CASE WaitLive
  BY <1>5 DEF WaitLive, Live
<1>6. CASE ReadStatus
  BY <1>6 DEF ReadStatus, Live
<1>7. CASE ReadText
  BY <1>7 DEF ReadText
<1>8. CASE ReadSidecars
  BY <1>8 DEF ReadSidecars
<1>9. CASE DigestArtifact
  BY <1>9 DEF DigestArtifact
<1>10. CASE WaitSettled
  BY <1>10 DEF WaitSettled
<1>11. CASE ReadComposition
  BY <1>11 DEF ReadComposition
<1>12. CASE Snapshot
  BY <1>12 DEF Snapshot
<1>13. CASE ViewChanges
  BY <1>13 DEF ViewChanges
<1>14. CASE LayoutChanges
  BY <1>14 DEF LayoutChanges
<1>15. ASSUME NEW e \in Engines, OtherSelects(e) PROVE MatrixTypeOK'
  BY <1>15 DEF OtherSelects
<1>16. ASSUME NEW e \in Engines, SidecarChanges(e) PROVE MatrixTypeOK'
  BY <1>16 DEF SidecarChanges
<1>17. ASSUME NEW e \in Engines, NEW build \in Builds, Replace(e, build) PROVE MatrixTypeOK'
  BY <1>17 DEF Replace
<1>18. ASSUME NEW u \in Units, UnitChanges(u) PROVE MatrixTypeOK'
  BY <1>18 DEF UnitChanges
<1>19. CASE UNCHANGED vars
  BY <1>19 DEF vars
<1> QED
  BY <1>1, <1>2, <1>3, <1>4, <1>5, <1>6, <1>7, <1>8, <1>9, <1>10, <1>11, <1>12, <1>13, <1>14, <1>15, <1>16, <1>17, <1>18, <1>19 DEF Next, Step, World

\* So does the product.
LEMMA ProductTypes ==
    ASSUME MatrixTypeOK, ProductTypeOK, [Next]_vars PROVE ProductTypeOK'
<1> USE MatrixAssumption DEF MatrixAssumption, Engines, Units, MatrixTypeOK, ProductTypeOK, Fail, Goto, matrix, product
<1>1. CASE CallFails
  BY <1>1 DEF CallFails
<1>2. CASE Validate
  BY <1>2 DEF Validate
<1>3. CASE SelectEngine
  BY <1>3 DEF SelectEngine
<1>4. CASE OpenTab
  BY <1>4 DEF OpenTab
<1>5. CASE WaitLive
  BY <1>5 DEF WaitLive, Live
<1>6. CASE ReadStatus
  BY <1>6 DEF ReadStatus, Live
<1>7. CASE ReadText
  BY <1>7 DEF ReadText
<1>8. CASE ReadSidecars
  BY <1>8 DEF ReadSidecars
<1>9. CASE DigestArtifact
  BY <1>9 DEF DigestArtifact
<1>10. CASE WaitSettled
  BY <1>10 DEF WaitSettled
<1>11. CASE ReadComposition
  BY <1>11 DEF ReadComposition
<1>12. CASE Snapshot
  BY <1>12 DEF Snapshot
<1>13. CASE ViewChanges
  BY <1>13 DEF ViewChanges
<1>14. CASE LayoutChanges
  BY <1>14 DEF LayoutChanges
<1>15. ASSUME NEW e \in Engines, OtherSelects(e) PROVE ProductTypeOK'
  BY <1>15 DEF OtherSelects
<1>16. ASSUME NEW e \in Engines, SidecarChanges(e) PROVE ProductTypeOK'
  BY <1>16 DEF SidecarChanges
<1>17. ASSUME NEW e \in Engines, NEW build \in Builds, Replace(e, build) PROVE ProductTypeOK'
  BY <1>17 DEF Replace
<1>18. ASSUME NEW u \in Units, UnitChanges(u) PROVE ProductTypeOK'
  BY <1>18 DEF UnitChanges
<1>19. CASE UNCHANGED vars
  BY <1>19 DEF vars
<1> QED
  BY <1>1, <1>2, <1>3, <1>4, <1>5, <1>6, <1>7, <1>8, <1>9, <1>10, <1>11, <1>12, <1>13, <1>14, <1>15, <1>16, <1>17, <1>18, <1>19 DEF Next, Step, World

\* The report grows engine by engine; no client reaches what is in it.
LEMMA KeepsReport ==
    ASSUME MatrixTypeOK, ProductTypeOK, ReportSoFar, [Next]_vars PROVE ReportSoFar'
<1> USE MatrixAssumption DEF MatrixAssumption, Engines, Units, MatrixTypeOK, ProductTypeOK, ReportSoFar, Good, Fail, Goto, matrix, product
<1>1. CASE CallFails
  BY <1>1 DEF CallFails
<1>2. CASE Validate
  BY <1>2 DEF Validate
<1>3. CASE SelectEngine
  BY <1>3 DEF SelectEngine
<1>4. CASE OpenTab
  BY <1>4 DEF OpenTab
<1>5. CASE WaitLive
  BY <1>5 DEF WaitLive, Live
<1>6. CASE ReadStatus
  BY <1>6 DEF ReadStatus, Live
<1>7. CASE ReadText
  BY <1>7 DEF ReadText
<1>8. CASE ReadSidecars
  BY <1>8 DEF ReadSidecars
<1>9. CASE DigestArtifact
  BY <1>9 DEF DigestArtifact
<1>10. CASE WaitSettled
  BY <1>10 DEF WaitSettled
<1>11. CASE ReadComposition
  BY <1>11 DEF ReadComposition
<1>12. CASE Snapshot
  BY <1>12 DEF Snapshot
<1>13. CASE ViewChanges
  BY <1>13 DEF ViewChanges
<1>14. CASE LayoutChanges
  BY <1>14 DEF LayoutChanges
<1>15. ASSUME NEW e \in Engines, OtherSelects(e) PROVE ReportSoFar'
  BY <1>15 DEF OtherSelects
<1>16. ASSUME NEW e \in Engines, SidecarChanges(e) PROVE ReportSoFar'
  BY <1>16 DEF SidecarChanges
<1>17. ASSUME NEW e \in Engines, NEW build \in Builds, Replace(e, build) PROVE ReportSoFar'
  BY <1>17 DEF Replace
<1>18. ASSUME NEW u \in Units, UnitChanges(u) PROVE ReportSoFar'
  BY <1>18 DEF UnitChanges
<1>19. CASE UNCHANGED vars
  BY <1>19 DEF vars
<1> QED
  BY <1>1, <1>2, <1>3, <1>4, <1>5, <1>6, <1>7, <1>8, <1>9, <1>10, <1>11, <1>12, <1>13, <1>14, <1>15, <1>16, <1>17, <1>18, <1>19 DEF Next, Step, World

\* Only trouble takes the product away from what is declared, or the harness from
\* its way.
LEMMA KeepsDeclared ==
    ASSUME MatrixTypeOK, ProductTypeOK, AsDeclared, [Next]_vars PROVE AsDeclared'
<1> USE MatrixAssumption DEF MatrixAssumption, Engines, Units, MatrixTypeOK, ProductTypeOK, AsDeclared, Fail, Goto, matrix, product
<1>1. CASE CallFails
  BY <1>1 DEF CallFails
<1>2. CASE Validate
  BY <1>2 DEF Validate
<1>3. CASE SelectEngine
  BY <1>3 DEF SelectEngine
<1>4. CASE OpenTab
  BY <1>4 DEF OpenTab
<1>5. CASE WaitLive
  BY <1>5 DEF WaitLive, Live
<1>6. CASE ReadStatus
  BY <1>6 DEF ReadStatus, Live
<1>7. CASE ReadText
  BY <1>7 DEF ReadText
<1>8. CASE ReadSidecars
  BY <1>8 DEF ReadSidecars
<1>9. CASE DigestArtifact
  BY <1>9 DEF DigestArtifact
<1>10. CASE WaitSettled
  BY <1>10 DEF WaitSettled
<1>11. CASE ReadComposition
  BY <1>11 DEF ReadComposition
<1>12. CASE Snapshot
  BY <1>12 DEF Snapshot
<1>13. CASE ViewChanges
  BY <1>13 DEF ViewChanges
<1>14. CASE LayoutChanges
  BY <1>14 DEF LayoutChanges
<1>15. ASSUME NEW e \in Engines, OtherSelects(e) PROVE AsDeclared'
  BY <1>15 DEF OtherSelects
<1>16. ASSUME NEW e \in Engines, SidecarChanges(e) PROVE AsDeclared'
  <2>1. CASE /\ image' = [image EXCEPT ![e] = NoBuild]
             /\ trouble' = (trouble \/ (e = engine /\ pc \in {"wait", "status", "read", "sidecars"}))
    <3>1. ~trouble' => ~trouble /\ (pc \in {"wait", "status", "read", "sidecars"} => e # engine)
      BY ONLY <2>1, Zenon
    <3> QED
      BY <1>16, <2>1, <3>1 DEF SidecarChanges
  <2>2. CASE image' = [image EXCEPT ![e] = exe[e]] /\ UNCHANGED trouble
    BY <1>16, <2>2 DEF SidecarChanges
  <2> QED
    BY <1>16, <2>1, <2>2 DEF SidecarChanges
<1>17. ASSUME NEW e \in Engines, NEW build \in Builds, Replace(e, build) PROVE AsDeclared'
  BY <1>17 DEF Replace
<1>18. ASSUME NEW u \in Units, UnitChanges(u) PROVE AsDeclared'
  BY <1>18 DEF UnitChanges
<1>19. CASE UNCHANGED vars
  BY <1>19 DEF vars
<1> QED
  BY <1>1, <1>2, <1>3, <1>4, <1>5, <1>6, <1>7, <1>8, <1>9, <1>10, <1>11, <1>12, <1>13, <1>14, <1>15, <1>16, <1>17, <1>18, <1>19 DEF Next, Step, World

\* The inductive invariant of the matrix.
THEOREM MatrixInvariant ==
    Spec => [](MatrixTypeOK /\ ProductTypeOK /\ ReportSoFar /\ AsDeclared)
<1> DEFINE IInv == MatrixTypeOK /\ ProductTypeOK /\ ReportSoFar /\ AsDeclared
<1>1. Init => IInv
  <2> SUFFICES ASSUME Init PROVE IInv
    OBVIOUS
  <2> USE MatrixAssumption DEF MatrixAssumption, Engines, Units, Init, NoView, Nothing
  <2>1. MatrixTypeOK
    BY DEF MatrixTypeOK
  <2>2. ProductTypeOK
    BY DEF ProductTypeOK
  <2>3. ReportSoFar
    BY DEF ReportSoFar
  <2>4. AsDeclared
    BY DEF AsDeclared
  <2> QED
    BY <2>1, <2>2, <2>3, <2>4
<1>2. IInv /\ [Next]_vars => IInv'
  BY MatrixTypes, ProductTypes, KeepsReport, KeepsDeclared
<1> QED
  BY <1>1, <1>2, PTL DEF Spec

\* Every variable of the matrix has its type.
THEOREM MatrixIsTyped == Spec => []TypeOK
<1>1. MatrixTypeOK /\ ProductTypeOK => TypeOK
  BY DEF MatrixTypeOK, ProductTypeOK, TypeOK
<1> QED
  BY <1>1, MatrixInvariant, PTL

\* Whatever other clients select and whatever is replaced meanwhile: a report is
\* of terminals of its engines, of the declared version and digest.
THEOREM ReportsAreTrue == Spec => []ReportIsOfItsEngines
<1>1. MatrixTypeOK /\ ReportSoFar => ReportIsOfItsEngines
  <2> SUFFICES ASSUME MatrixTypeOK, ReportSoFar, outcome = "report", NEW e \in Engines
               PROVE  Good(e)
    BY DEF ReportIsOfItsEngines, Good
  <2> QED
    BY MatrixAssumption DEF MatrixAssumption, MatrixTypeOK, ReportSoFar, Engines
<1> QED
  BY <1>1, MatrixInvariant, PTL

\* A failure has its reason in a call, in the product, or in interference at a
\* moment when it matters, for any number of engines.
THEOREM FailuresHaveReasons == Spec => []NoFalseAlarm
<1>1. MatrixTypeOK /\ AsDeclared => NoFalseAlarm
  BY DEF MatrixTypeOK, AsDeclared, NoFalseAlarm
<1> QED
  BY <1>1, MatrixInvariant, PTL
================================================================================

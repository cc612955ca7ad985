----------------------------- MODULE CandidatePlan -----------------------------
(***************************************************************************)
(* The two composers of candidate plans and what becomes of a plan.        *)
(* Compose (candidate/compose.go) visits the directories of the downloaded *)
(* artifacts and closes them against the source plan; ComposeLocal         *)
(* (candidate/local_candidate_plan.go) resolves the releases a selection   *)
(* names.  The installer and the profile of a system run then accept the   *)
(* plan or refuse it.                                                      *)
(***************************************************************************)
EXTENDS Naturals, FiniteSets

CONSTANTS Plugins, Sidecars, \* components of the terminal fleet
          Bases, Contract,   \* spec, contract and kit of the source plan
          Strangers,         \* components of no plan
          MaxEntries         \* bound: directories, or entries of the selection

ASSUME PlanAssumption ==
    /\ IsFiniteSet(Plugins \cup Sidecars \cup Bases) /\ MaxEntries \in Nat
    /\ Plugins \cap Sidecars = {} /\ (Plugins \cup Sidecars) \cap Bases = {}
    /\ Contract \in Bases

VARIABLES composer, \* "native" (Compose) or "local" (ComposeLocal)
          id,       \* component of each entry, in the order they are visited
          kind,     \* kind the release of each entry states
          broken,   \* entries that fail verification
          stale,    \* entries built against another contract or kit
          needs,    \* runtime dependencies of each plugin's release
          todo,     \* entries still to visit
          verified, \* entries verified so far
          used,     \* sidecars some plugin uses (usedSidecars)
          plan,     \* components of the written plan, with their program
          outcome   \* "none" yet, "written" or "error"

inputs == <<composer, id, kind, broken, stale, needs>>
composeVars == <<inputs, todo, verified, used, plan, outcome>>

Entries == DOMAIN id
wanted == Plugins \cup Sidecars \cup Bases
Ids(S) == {id[e] : e \in S}
Left(some) == {e \in todo : id[e] \in some}
Composed == {e \in verified : id[e] \in Plugins \cup Sidecars}
Foremost(e, S) == e \in S /\ \A d \in S : e <= d

\* The kind each component has in the source plan.
OwnKinds == [e \in Entries |->
    CASE id[e] \in Plugins -> "plugin" [] id[e] \in Sidecars -> "sidecar"
      [] id[e] = Contract -> "contract" [] OTHER -> "other"]

\* One entry at most is wrong: broken, or stale, misnamed in its kind, or both.
ComposeInit ==
    /\ composer \in {"native", "local"}
    /\ \E n \in 0..MaxEntries :
          id \in [1..n -> IF composer = "native" THEN wanted \cup Strangers
                                                 ELSE Plugins \cup Sidecars]
    /\ CASE composer = "native" -> needs = [p \in Plugins |-> Sidecars]
         [] composer = "local" -> needs \in [Plugins -> SUBSET Sidecars]
    /\ broken \in {{}} \cup {{e} : e \in Entries}
    /\ \/ stale = {} /\ kind = OwnKinds
       \/ /\ composer = "native" /\ broken = {}
          /\ \E e \in Entries, other \in {"plugin", "sidecar", "other"} :
                /\ kind = [OwnKinds EXCEPT ![e] = other]
                /\ stale \in {{}, {e}}
    /\ todo = Entries /\ verified = {} /\ used = {} /\ plan = {} /\ outcome = "none"

--------------------------------------------------------------------------------
Refuse == outcome' = "error" /\ UNCHANGED <<inputs, todo, verified, used, plan>>

Running(c) == composer = c /\ outcome = "none"

\* Any file may be unreadable or malformed.
ReadFails == outcome = "none" /\ Refuse

Verify(e) ==
    /\ verified' = verified \cup {e} /\ todo' = todo \ {e}
    /\ UNCHANGED <<inputs, plan, outcome>>

\* Fault: a component may come twice.
VisitDirectoryTwice(e) ==
    /\ Running("native") /\ Foremost(e, todo)
    /\ IF id[e] \in wanted /\ e \notin broken THEN Verify(e) /\ UNCHANGED used ELSE Refuse

\* Compose: one directory of the artifact root, checked by verifyEnvelope.
VisitDirectory(e) ==
    /\ Running("native") /\ Foremost(e, todo)
    /\ IF id[e] \in wanted /\ id[e] \notin Ids(verified) /\ e \notin broken
         THEN Verify(e) /\ UNCHANGED used
         ELSE Refuse

\* The closure is a count; then the contract must be one, and each component of
\* the fleet must state that it is a sidecar, or a plugin built against the
\* contract and the kit of the source plan.  Its kind is the one it states,
\* whatever list it is in, and no component has a program.
EmitPlan ==
    /\ Running("native") /\ todo = {}
    /\ IF /\ Cardinality(Ids(verified)) = Cardinality(wanted)
          /\ \A e \in verified : id[e] = Contract => kind[e] = "contract"
          /\ \A e \in Composed : \/ kind[e] = "sidecar"
                                 \/ kind[e] = "plugin" /\ e \notin stale
         THEN /\ plan' = {[id |-> id[e], kind |-> kind[e], program |-> FALSE] : e \in Composed}
              /\ outcome' = "written"
              /\ UNCHANGED <<inputs, todo, verified, used>>
         ELSE Refuse

\* ComposeLocal: sidecars first, none twice; broken is what resolveLocalRelease
\* refuses.
ResolveSidecar(e) ==
    /\ Running("local") /\ Foremost(e, Left(Sidecars))
    /\ IF id[e] \notin Ids(verified) /\ e \notin broken
         THEN Verify(e) /\ UNCHANGED used
         ELSE Refuse

\* validateRuntimeDependencies: every dependency selected, and at least one.
ResolvePlugin(e) ==
    /\ Running("local") /\ Left(Sidecars) = {} /\ Foremost(e, Left(Plugins))
    /\ IF /\ id[e] \notin Ids(verified) /\ e \notin broken
          /\ needs[id[e]] # {} /\ needs[id[e]] \subseteq Ids(verified)
         THEN Verify(e) /\ used' = used \cup needs[id[e]]
         ELSE Refuse

LocalComponents ==
    {[id |-> id[e], kind |-> kind[e], program |-> kind[e] = "plugin"] : e \in verified}

\* Fault: a sidecar nobody needs is kept.
EmitLocalPlanWithUnused ==
    /\ Running("local") /\ todo = {}
    /\ plan' = LocalComponents
    /\ outcome' = "written"
    /\ UNCHANGED <<inputs, todo, verified, used>>

\* No sidecar may be unused; a plugin gets the program of its manifest.
EmitLocalPlan ==
    /\ Running("local") /\ todo = {}
    /\ IF /\ Ids(Entries) \cap Plugins # {} /\ Ids(Entries) \cap Sidecars # {}
          /\ Cardinality(used) = Cardinality(Ids(verified) \cap Sidecars)
         THEN /\ plan' = LocalComponents
              /\ outcome' = "written"
              /\ UNCHANGED <<inputs, todo, verified, used>>
         ELSE Refuse

ComposeNext ==
    \/ \E e \in Entries : VisitDirectory(e) \/ ResolveSidecar(e) \/ ResolvePlugin(e)
    \/ EmitPlan \/ EmitLocalPlan \/ ReadFails

ComposeSpec == ComposeInit /\ [][ComposeNext]_composeVars

--------------------------------------------------------------------------------
\* prepareCandidate and applyCandidateProfile: a plugin needs a program, a
\* sidecar has none, and there is one of each at least.
Accepts(p) ==
    /\ \A c \in p : c.program <=> c.kind = "plugin"
    /\ \E c \in p : c.kind = "plugin"
    /\ \E c \in p : c.kind = "sidecar"

--------------------------------------------------------------------------------
\* A plan of Compose is closed: the directories are those of the source plan,
\* one each, all verified, the contract states that it is one, and the plan names
\* the whole fleet.  What is built against another contract or kit is in it only
\* when its release states that it is a sidecar.
PlanIsClosed ==
    composer = "native" /\ outcome = "written" =>
        /\ Ids(Entries) = wanted /\ broken = {}
        /\ \A d, e \in Entries : id[d] = id[e] => d = e
        /\ \A e \in Entries : id[e] = Contract => kind[e] = "contract"
        /\ {c.id : c \in plan} = Plugins \cup Sidecars
        /\ \A e \in stale : id[e] \in Plugins \cup Sidecars => kind[e] = "sidecar"

\* A plan of ComposeLocal holds exactly the sidecars its plugins need, whatever
\* the order in which they are selected, and a run that is given it accepts it.
LocalPlanIsComplete ==
    composer = "local" /\ outcome = "written" =>
        /\ Ids(Entries) \cap Sidecars = UNION {needs[p] : p \in Ids(Entries) \cap Plugins}
        /\ \A d, e \in Entries : id[d] = id[e] => d = e
        /\ broken = {} /\ Accepts(plan)

\* The workflow darwin-candidate-native-input.yml composes "the installer
\* candidate plan" with Compose and runs the scenarios with it: they accept it.
ComposedPlanIsAccepted ==
    composer = "native" /\ outcome = "written" => Accepts(plan)
================================================================================

------------------------------ MODULE ReleaseStage ------------------------------
(***************************************************************************)
(* release/fleet_release.go: Verify and VerifyAndStage fetch the registry  *)
(* and, component by component, release.json and the artifact it selects,  *)
(* all pinned by the digests of the profile; the artifact is downloaded    *)
(* into a temporary file, inspected and, when staging, extracted over what *)
(* the stage held before.  The server may serve anything, an archive may   *)
(* turn out bad at any entry, and the disk may fail.                       *)
(***************************************************************************)
EXTENDS Naturals, FiniteSets

CONSTANTS Fleet,      \* plugins and sidecars of the profile
          NoComponent \* between two components

ASSUME StageAssumption == NoComponent \notin Fleet

VARIABLES stage,     \* next step of verify; "done" when it has returned
          staging,   \* VerifyAndStage, not Verify
          rest,      \* components the loops still have to visit
          component, \* the one verifyComponent is at
          temp,      \* bytes of its temporary file, "none" without one
          dest,      \* what the stage holds of each component
          answer     \* what the call returned: "none" yet, "nil" or "error"

stageVars == <<stage, staging, rest, component, temp, dest, answer>>

\* Bytes: those the profile pins, or any others.
Bytes == {"pinned", "alien"}

StageInit ==
    /\ stage = "done" /\ staging = FALSE /\ rest = {} /\ component = NoComponent
    /\ temp = "none" /\ dest = [c \in Fleet |-> "none"] /\ answer = "none"

--------------------------------------------------------------------------------
\* A call on the same stage follows another.
Call ==
    /\ stage = "done"
    /\ staging' \in BOOLEAN
    /\ stage' = "registry" /\ rest' = Fleet /\ component' = NoComponent
    /\ answer' = "none"
    /\ UNCHANGED <<temp, dest>>

\* verifyComponent has returned, with its deferred removal of the archive.
Leave(ok) ==
    /\ temp' = "none"
    /\ IF ok
         THEN /\ rest' = rest \ {component} /\ component' = NoComponent
              /\ stage' = "next" /\ UNCHANGED answer
         ELSE /\ stage' = "done" /\ answer' = "error"
              /\ UNCHANGED <<rest, component>>

\* The request fails, or its bytes are not those of the profile.
Refused ==
    /\ stage \in {"registry", "release"}
    /\ stage' = "done" /\ answer' = "error"
    /\ UNCHANGED <<staging, rest, component, temp, dest>>

GetRegistry ==
    /\ stage = "registry"
    /\ stage' = "next"
    /\ UNCHANGED <<staging, rest, component, temp, dest, answer>>

VerifyComponent(c) ==
    /\ stage = "next" /\ c \in rest
    /\ component' = c /\ stage' = "release"
    /\ UNCHANGED <<staging, rest, temp, dest, answer>>

\* Fault: the destination is cleared as soon as the release is known.
GetReleaseClears ==
    /\ stage = "release"
    /\ stage' = "artifact"
    /\ dest' = IF staging THEN [dest EXCEPT ![component] = "none"] ELSE dest
    /\ UNCHANGED <<staging, rest, component, temp, answer>>

\* release.json is the pinned one and selects one artifact for the target.
GetRelease ==
    /\ stage = "release"
    /\ stage' = "artifact"
    /\ UNCHANGED <<staging, rest, component, temp, dest, answer>>

\* Fault: what arrives is not digested.
DownloadUnchecked ==
    /\ stage = "artifact"
    /\ \/ temp' \in Bytes /\ stage' = "inspect" /\ UNCHANGED <<rest, component, answer>>
       \/ Leave(FALSE)
    /\ UNCHANGED <<staging, dest>>

\* download: what arrives is written and digested at once; if it is not what
\* release.json says the file is removed.
Download ==
    /\ stage = "artifact"
    /\ \/ temp' = "pinned" /\ stage' = "inspect" /\ UNCHANGED <<rest, component, answer>>
       \/ Leave(FALSE)
    /\ UNCHANGED <<staging, dest>>

\* inspectArchive: entries, manifest, identity, process of the platform.
InspectArchive ==
    /\ stage = "inspect"
    /\ \/ staging /\ stage' = "clear" /\ UNCHANGED <<rest, component, temp, answer>>
       \/ ~staging /\ Leave(TRUE)                 \* Verify asks for no more
       \/ Leave(FALSE)                            \* unfit
    /\ UNCHANGED <<staging, dest>>

\* os.RemoveAll and os.MkdirAll of the destination.
ClearDestination ==
    /\ stage = "clear"
    /\ \/ /\ dest' = [dest EXCEPT ![component] = "none"]
          /\ stage' = "extract" /\ UNCHANGED <<rest, component, temp, answer>>
       \/ /\ \E d \in {"none", "partial", dest[component]} :
                dest' = [dest EXCEPT ![component] = d]
          /\ Leave(FALSE)
    /\ UNCHANGED staging

\* extractArchive writes entry by entry and gives up where it is.
ExtractArchive ==
    /\ stage = "extract"
    /\ \/ dest' = [dest EXCEPT ![component] = temp] /\ Leave(TRUE)
       \/ dest' = [dest EXCEPT ![component] = "partial"] /\ Leave(FALSE)
    /\ UNCHANGED staging

Verified ==
    /\ stage = "next" /\ rest = {}
    /\ stage' = "done" /\ answer' = "nil"
    /\ UNCHANGED <<staging, rest, component, temp, dest>>

StageNext ==
    \/ Call \/ Refused \/ GetRegistry \/ GetRelease \/ Download \/ InspectArchive
    \/ ClearDestination \/ ExtractArchive \/ Verified
    \/ \E c \in Fleet : VerifyComponent(c)

StageSpec == StageInit /\ [][StageNext]_stageVars

--------------------------------------------------------------------------------
\* When VerifyAndStage returns nil, the stage holds the pinned bytes of every
\* component, complete; and no temporary file is left by any return.
StagedIsPinned ==
    stage = "done" =>
        /\ temp = "none"
        /\ answer = "nil" /\ staging => \A c \in Fleet : dest[c] = "pinned"

\* What the stage holds of a component is given up only for a verified archive
\* of it that is on disk already: a registry, a server or an archive that is bad
\* leaves the last good stage alone.
KeepsLastStage ==
    [][\A c \in Fleet : dest'[c] # dest[c] => component = c /\ temp = "pinned"]_stageVars
================================================================================

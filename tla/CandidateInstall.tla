---------------------------- MODULE CandidateInstall ----------------------------
(***************************************************************************)
(* InstallCandidateFleet of system/candidate_install.go: the artifacts of  *)
(* a candidate plan are read and digested, copied into a temporary store   *)
(* and installed by the application in one transaction, staged one by one  *)
(* and committed against the environment revision read at the start.       *)
(* Meanwhile the artifacts may be rebuilt, another installer may commit,   *)
(* and every call may fail with or without its effect.                     *)
(***************************************************************************)
EXTENDS Naturals, FiniteSets

CONSTANTS Components,  \* components of the plan
          PluginsOf,   \* those of kind "plugin"
          Contents,    \* bytes an artifact file may have
          Genuine,     \* contents whose manifest carries the plan's identity
          NoContent,   \* no bytes
          MaxRevision  \* bound: commits to the environment

ASSUME CandidateAssumption ==
    /\ Components # {} /\ PluginsOf \subseteq Components
    /\ Genuine \subseteq Contents /\ NoContent \notin Contents
    /\ MaxRevision \in Nat

VARIABLES pc,        \* next step of InstallCandidateFleet
          todo,      \* components the current loop still has to visit
          outcome,   \* what it returned: "none" yet, "nil" or "error"
          digest,    \* prepared[c].digest, as the bytes it stands for
          revision,  \* expectedRevision
          known,     \* the transaction id is known to the harness
          committed, \* the local `committed`
          asked,     \* the deferred rollback has been called
          file,      \* the artifact files of the plan's directory
          store,     \* the temporary store; NoContent where nothing was copied
          storeUp,   \* does the store directory exist
          txn,       \* the transaction at the application
          staged,    \* what it holds for each component
          current,   \* the environment revision
          foreign    \* commits of others since `revision` was read

locals    == <<pc, todo, outcome, digest, revision, known, committed, asked>>
installer == <<txn, staged, current, foreign>>
vars      == <<locals, file, store, storeUp, installer>>

Nothing == [c \in Components |-> NoContent]

Init ==
    /\ pc = "prepare" /\ todo = Components /\ outcome = "none"
    /\ digest = Nothing /\ revision = 0 /\ known = FALSE
    /\ committed = FALSE /\ asked = FALSE
    /\ file \in [Components -> Contents]
    /\ store = Nothing /\ storeUp = FALSE
    /\ txn = "none" /\ staged = Nothing /\ current = 0 /\ foreign = 0

--------------------------------------------------------------------------------
(* Every early return runs the deferred calls that are registered by then, the *)
(* last one first: the rollback, then the removal of the store.                *)

Owes == known /\ ~committed /\ ~asked

\* Faults: the deferred calls are registered the other way round, or the
\* rollback is not deferred at all.
DeferredReversed(owes, up) ==
    IF up THEN "remove" ELSE IF owes THEN "rollback" ELSE "done"
DeferredWithoutRollback(owes, up) == IF up THEN "remove" ELSE "done"

Deferred(owes, up) == IF owes THEN "rollback" ELSE IF up THEN "remove" ELSE "done"

Leave(result) == outcome' = result /\ pc' = Deferred(Owes, storeUp)

Fail ==
    /\ pc \notin {"rollback", "remove", "done"}
    /\ Leave("error")
    /\ UNCHANGED <<todo, digest, revision, known, committed, asked, file, store, storeUp, installer>>

Rollback ==
    /\ pc = "rollback"
    /\ txn' \in (IF txn = "open" THEN {"open", "rolledBack"} ELSE {txn})
    /\ asked' = TRUE
    /\ pc' = Deferred(FALSE, storeUp)
    /\ UNCHANGED <<todo, outcome, digest, revision, known, committed, file, store,
                   storeUp, staged, current, foreign>>

RemoveStore ==
    /\ pc = "remove"
    /\ storeUp' = FALSE /\ store' = Nothing
    /\ pc' = Deferred(Owes, FALSE)
    /\ UNCHANGED <<todo, outcome, digest, revision, known, committed, asked, file, installer>>

--------------------------------------------------------------------------------
(* prepareCandidate: the file is read once and digested. *)
Prepare(c) ==
    /\ pc = "prepare" /\ c \in todo
    /\ digest' = [digest EXCEPT ![c] = file[c]]
    /\ todo' = todo \ {c}
    /\ UNCHANGED <<pc, outcome, revision, known, committed, asked, file, store, storeUp, installer>>

\* The transaction root is the first plugin; without one the plan fails.
ReadRevision ==
    /\ pc = "prepare" /\ todo = {}
    /\ PluginsOf # {}
    /\ revision' = current /\ foreign' = 0
    /\ pc' = "copy" /\ todo' = Components /\ storeUp' = TRUE
    /\ UNCHANGED <<outcome, digest, known, committed, asked, file, store, txn, staged, current>>

\* materializeCandidateStore reads the file a second time.
Copy(c) ==
    /\ pc = "copy" /\ c \in todo
    /\ store' = [store EXCEPT ![c] = file[c]]
    /\ todo' = todo \ {c}
    /\ UNCHANGED <<pc, outcome, digest, revision, known, committed, asked, file, storeUp, installer>>

\* Fault: the revision is read when the transaction begins, not at the start.
BeginRereads ==
    /\ pc = "copy" /\ todo = {}
    /\ txn' = "open" /\ revision' = current
    /\ known' = TRUE /\ pc' = "stage" /\ todo' = Components
    /\ UNCHANGED <<outcome, digest, committed, asked, file, store, storeUp, staged, current, foreign>>

Begin ==
    /\ pc = "copy" /\ todo = {}
    /\ txn' = "open"
    /\ \/ known' = TRUE /\ pc' = "stage" /\ todo' = Components /\ UNCHANGED outcome
       \/ UNCHANGED <<known, todo>> /\ Leave("error")    \* the answer is lost
    /\ UNCHANGED <<digest, revision, committed, asked, file, store, storeUp, staged, current, foreign>>

\* Fault: the digest of the answer is not compared.
StageUnchecked(c) ==
    /\ pc = "stage" /\ c \in todo
    /\ staged' = [staged EXCEPT ![c] = store[c]] /\ pc' = "manifest"
    /\ UNCHANGED <<outcome, todo, digest, revision, known, committed, asked, file, store, storeUp,
                   txn, current, foreign>>

\* artifact_install_stage: the application stages the store's copy and answers
\* with its digest and size, which must be the prepared ones.
Stage(c) ==
    /\ pc = "stage" /\ c \in todo
    /\ staged' = [staged EXCEPT ![c] = store[c]]
    /\ IF staged'[c] = digest[c]
         THEN pc' = "manifest" /\ UNCHANGED outcome
         ELSE Leave("error")
    /\ UNCHANGED <<todo, digest, revision, known, committed, asked, file, store, storeUp, txn, current, foreign>>

\* The staged manifest must carry the identity of the plan.
ReadManifest(c) ==
    /\ pc = "manifest" /\ c \in todo /\ staged[c] # NoContent
    /\ IF staged[c] \in Genuine
         THEN pc' = "stage" /\ todo' = todo \ {c} /\ UNCHANGED outcome
         ELSE Leave("error") /\ UNCHANGED todo
    /\ UNCHANGED <<digest, revision, known, committed, asked, file, store, storeUp, installer>>

\* artifact_install_commit: the application commits only at expectedRevision.
Commit ==
    /\ pc = "stage" /\ todo = {}
    /\ revision = current /\ current < MaxRevision
    /\ txn' = "committed" /\ current' = current + 1
    /\ \/ committed' = TRUE /\ pc' = "reload" /\ UNCHANGED outcome
       \/ UNCHANGED committed /\ Leave("error")          \* the answer is lost
    /\ UNCHANGED <<todo, digest, revision, known, asked, file, store, storeUp, staged, foreign>>

\* plugin.reload: nothing rejected and every plugin of the plan reloaded.
Reload ==
    /\ pc = "reload"
    /\ Leave("nil")
    /\ UNCHANGED <<todo, digest, revision, known, committed, asked, file, store, storeUp, installer>>

--------------------------------------------------------------------------------
(* The world around it (external). *)

\* A build writes a plan's artifact anew.
Rebuild(c, content) ==
    /\ file' = [file EXCEPT ![c] = content]
    /\ UNCHANGED <<locals, store, storeUp, installer>>

\* Another client commits to the same environment.
OtherCommit ==
    /\ current < MaxRevision
    /\ current' = current + 1
    /\ foreign' = IF txn = "committed" THEN foreign ELSE foreign + 1
    /\ UNCHANGED <<locals, file, store, storeUp, txn, staged>>

Next ==
    \/ \E c \in Components :
          \/ Prepare(c) \/ Copy(c) \/ Stage(c) \/ ReadManifest(c)
          \/ \E content \in Contents : Rebuild(c, content)
    \/ ReadRevision \/ Begin \/ Commit \/ Reload
    \/ Fail \/ Rollback \/ RemoveStore
    \/ OtherCommit

Spec == Init /\ [][Next]_vars

--------------------------------------------------------------------------------
RevisionsTypeOK ==
    revision \in 0..MaxRevision /\ current \in 0..MaxRevision /\ foreign \in Nat

ArtifactsTypeOK ==
    /\ pc \in {"prepare", "copy", "stage", "manifest", "reload", "rollback",
               "remove", "done"}
    /\ todo \subseteq Components /\ outcome \in {"none", "nil", "error"}
    /\ digest \in [Components -> Contents \cup {NoContent}]
    /\ known \in BOOLEAN /\ committed \in BOOLEAN /\ asked \in BOOLEAN /\ storeUp \in BOOLEAN
    /\ file \in [Components -> Contents]
    /\ store \in [Components -> Contents \cup {NoContent}]
    /\ staged \in [Components -> Contents \cup {NoContent}]
    /\ txn \in {"none", "open", "committed", "rolledBack"}

TypeOK == RevisionsTypeOK /\ ArtifactsTypeOK

\* What the staging loop has established: what left the loop is verified, what
\* is staged has the prepared digest, and nothing is staged before.
StagedIsVerified ==
    /\ pc \in {"prepare", "copy"} => staged = Nothing /\ txn = "none"
    /\ pc \in {"stage", "manifest"} =>
          \A c \in Components :
             /\ c \notin todo => staged[c] = digest[c] /\ staged[c] \in Genuine
             /\ staged[c] # NoContent => staged[c] = digest[c]
    /\ txn = "committed" => pc \notin {"stage", "manifest"}

\* Until the commit, the environment moved on by the others' commits only.
RevisionIsCounted == txn # "committed" => current = revision + foreign

\* What the application commits is, component by component, the bytes whose
\* digest the harness computed, and they carry the identity of the plan, even
\* if an artifact is rebuilt between the digest and the copy.
CommitsWhatWasPrepared ==
    txn = "committed" =>
        \A c \in Components : staged[c] = digest[c] /\ staged[c] \in Genuine

\* The commit never buries the commit of another client that happened after
\* this installation looked at the environment.
NoLostUpdate == txn = "committed" => foreign = 0

\* The deferred rollback runs before the deferred removal: the application rolls
\* back while the store it staged from is still there.
RollbackSeesStore == [][asked' /\ ~asked => storeUp]_vars

\* When the function has returned, the store is gone, a transaction whose id it
\* learnt is committed or was asked to roll back, and nil means committed.
CleansUp ==
    pc = "done" =>
        /\ ~storeUp /\ outcome # "none"
        /\ known => asked # committed
        /\ outcome = "nil" => txn = "committed"
================================================================================

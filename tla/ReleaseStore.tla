------------------------------ MODULE ReleaseStore ------------------------------
(***************************************************************************)
(* candidate/local_release_store.go: ComposeLocal resolves a release that  *)
(* its selection names by id, version and digest.  release.json is read    *)
(* first, every file it declares is digested, the directory is listed, and *)
(* only then release.json is digested, from a second read; of a plugin the *)
(* manifest is read once more for its program.  The store is a directory,  *)
(* and whoever publishes into it does not wait.                            *)
(***************************************************************************)
EXTENDS Naturals, Sequences

\* What a release directory holds; the last three are declared by release.json
\* and verified in this order.
Declared == <<"manifest", "artifact", "evidence">>
Files == {"release.json", "manifest", "artifact", "evidence"}

\* Bytes of a file: of the release that is selected, of another one with the
\* same id and version, or no file.
FileBytes == {"selected", "another", "missing"}

VARIABLES reading,   \* next step of readLocalRelease, "program" or "done"
          isPlugin,  \* a plugin is resolved, not a sidecar
          document,  \* the release.json that was decoded
          checked,   \* files of Declared verified so far
          program,   \* the manifest the program was taken from
          resolved,  \* "none" yet, "nil" or "error"
          disk,      \* the files of the directory
          stray,     \* it has an entry that is not one of Files
          rewritten  \* files written since the resolution began

storeVars == <<reading, isPlugin, document, checked, program, resolved, disk, stray, rewritten>>
directory == <<disk, stray, rewritten>>

StoreInit ==
    /\ reading = "done" /\ isPlugin = FALSE
    /\ document = "missing" /\ checked = 0 /\ program = "missing" /\ resolved = "none"
    /\ disk \in [Files -> FileBytes] /\ stray \in BOOLEAN /\ rewritten = {}

--------------------------------------------------------------------------------
ReadOn(step) == reading' = step /\ UNCHANGED resolved
Resolved(r) == reading' = "done" /\ resolved' = r

\* resolveLocalRelease: the directory is there.
Resolve ==
    /\ reading = "done" /\ reading' = "document" /\ isPlugin' \in BOOLEAN
    /\ document' = "missing" /\ checked' = 0 /\ program' = "missing" /\ resolved' = "none"
    /\ rewritten' = {}
    /\ UNCHANGED <<disk, stray>>

\* A file cannot be read, or the document does not fit the selection.
ResolveFails ==
    /\ reading # "done" /\ Resolved("error")
    /\ UNCHANGED <<isPlugin, document, checked, program, directory>>

\* decodeStrict, and the identity: id and version are those of the selection.
DecodeDocument ==
    /\ reading = "document" /\ disk["release.json"] # "missing"
    /\ document' = disk["release.json"] /\ ReadOn("files")
    /\ UNCHANGED <<isPlugin, checked, program, directory>>

\* Fault: the evidence is not looked at.
VerifyLocalFileNoEvidence ==
    /\ reading = "files" /\ checked < Len(Declared)
    /\ checked' = checked + 1
    /\ IF disk[Declared[checked + 1]] = document \/ checked = 2
         THEN UNCHANGED <<reading, resolved>> ELSE Resolved("error")
    /\ UNCHANGED <<isPlugin, document, program, directory>>

\* verifyLocalFile: the bytes on disk are those the document declares.
VerifyLocalFile ==
    /\ reading = "files" /\ checked < Len(Declared)
    /\ checked' = checked + 1
    /\ IF disk[Declared[checked + 1]] = document
         THEN UNCHANGED <<reading, resolved>> ELSE Resolved("error")
    /\ UNCHANGED <<isPlugin, document, program, directory>>

\* os.ReadDir: every file is declared, and none is missing.
ListDirectory ==
    /\ reading = "files" /\ checked = Len(Declared)
    /\ IF ~stray /\ \A f \in Files : disk[f] # "missing"
         THEN ReadOn("digest") ELSE Resolved("error")
    /\ UNCHANGED <<isPlugin, document, checked, program, directory>>

\* fileDigest of release.json, as it is by now.
DigestDocument ==
    /\ reading = "digest"
    /\ IF disk["release.json"] # "selected" THEN Resolved("error")
       ELSE IF isPlugin THEN ReadOn("program") ELSE Resolved("nil")
    /\ UNCHANGED <<isPlugin, document, checked, program, directory>>

\* pluginManifestContract: the program, from the manifest as it is by now.
ReadProgram ==
    /\ reading = "program" /\ disk["manifest"] # "missing"
    /\ program' = disk["manifest"] /\ Resolved("nil")
    /\ UNCHANGED <<isPlugin, document, checked, directory>>

\* Another publication into the directory (external).
Publish ==
    /\ reading # "done"
    /\ \/ \E f \in Files, b \in FileBytes :
             /\ disk[f] # b /\ disk' = [disk EXCEPT ![f] = b]
             /\ rewritten' = rewritten \cup {f} /\ UNCHANGED stray
       \/ stray' = ~stray /\ UNCHANGED <<disk, rewritten>>
    /\ UNCHANGED <<reading, isPlugin, document, checked, program, resolved>>

StoreNext ==
    \/ Resolve \/ ResolveFails \/ DecodeDocument \/ VerifyLocalFile \/ ListDirectory
    \/ DigestDocument \/ ReadProgram \/ Publish

StoreSpec == StoreInit /\ [][StoreNext]_storeVars

--------------------------------------------------------------------------------
\* A resolution that succeeds took everything from the selected release: the
\* document, the files it declares and the program.  A publication meanwhile can
\* spoil only what it writes itself: another document takes a rewritten
\* release.json, another program a rewritten manifest, and a file that is not
\* the document's a rewrite of that file.
ReleaseIsSelected ==
    resolved = "nil" =>
        /\ document = "selected" \/ "release.json" \in rewritten
        /\ isPlugin => program = document \/ "manifest" \in rewritten
        /\ \A f \in Files \ {"release.json"} : disk[f] = document \/ f \in rewritten
================================================================================

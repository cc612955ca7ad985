------------------------------- MODULE WriteOnce -------------------------------
(***************************************************************************)
(* The files that are written once: the candidate plan of ComposeLocal     *)
(* (writeImmutablePlan), the plan of Compose and the audit evidence        *)
(* (WriteEvidence).  Each invocation is a process of its own: it may look  *)
(* at the file first, creates it exclusively, writes the bytes and closes  *)
(* it, and it may fail or be killed at any step.                           *)
(***************************************************************************)
EXTENDS Naturals

CONSTANTS Writers,   \* invocations that may run at the same time
          Comparing, \* those that read the file first (Compose does not)
          Bodies,    \* what they may want to write
          NoBody     \* no bytes at all

ASSUME WriteOnceAssumption == Comparing \subseteq Writers /\ NoBody \notin Bodies

VARIABLES pc,      \* next step of each invocation
          body,    \* the bytes it wants in the file
          result,  \* what it returned, "none" while it runs
          owner,   \* body of the invocation that created the file, or NoBody
          full     \* are all of its bytes in the file?

vars == <<pc, body, result, owner, full>>

Init ==
    /\ pc = [w \in Writers |-> "idle"]
    /\ body = [w \in Writers |-> NoBody]
    /\ result = [w \in Writers |-> "none"]
    /\ owner = NoBody /\ full = FALSE

Goto(w, p) == pc' = [pc EXCEPT ![w] = p]
Return(w, r) == Goto(w, "idle") /\ result' = [result EXCEPT ![w] = r]

Invoke(w, b) ==
    /\ pc[w] = "idle"
    /\ body' = [body EXCEPT ![w] = b]
    /\ result' = [result EXCEPT ![w] = "none"]
    /\ Goto(w, IF w \in Comparing THEN "compare" ELSE "create")
    /\ UNCHANGED <<owner, full>>

\* Fault: a file that exists is taken to be the right one.
CompareNames(w) ==
    /\ pc[w] = "compare"
    /\ IF owner = NoBody THEN Goto(w, "create") /\ UNCHANGED result ELSE Return(w, "unchanged")
    /\ UNCHANGED <<body, owner, full>>

\* os.ReadFile: equal bytes are fine, others (a partial file too) are refused.
Compare(w) ==
    /\ pc[w] = "compare"
    /\ IF owner = NoBody
         THEN Goto(w, "create") /\ UNCHANGED result
         ELSE Return(w, IF full /\ owner = body[w] THEN "unchanged" ELSE "error")
    /\ UNCHANGED <<body, owner, full>>

\* os.OpenFile with O_EXCL.
Create(w) ==
    /\ pc[w] = "create"
    /\ IF owner = NoBody
         THEN owner' = body[w] /\ full' = FALSE /\ Goto(w, "write") /\ UNCHANGED result
         ELSE Return(w, "error") /\ UNCHANGED <<owner, full>>
    /\ UNCHANGED body

\* file.Write: everything, or an error after a prefix.
Write(w) ==
    /\ pc[w] = "write"
    /\ \/ full' = TRUE /\ Goto(w, "close") /\ UNCHANGED result
       \/ full' \in BOOLEAN /\ Return(w, "error")
    /\ UNCHANGED <<body, owner>>

\* Sync, for the evidence, and Close.
Close(w) ==
    /\ pc[w] = "close"
    /\ Return(w, "written")
    /\ UNCHANGED <<body, owner, full>>

\* An unreadable path, no space, or the process is killed.
Dies(w) ==
    /\ pc[w] # "idle"
    /\ Return(w, "error")
    /\ UNCHANGED <<body, owner, full>>

Next == \E w \in Writers :
            \/ \E b \in Bodies : Invoke(w, b)
            \/ Compare(w) \/ Create(w) \/ Write(w) \/ Close(w) \/ Dies(w)

Spec == Init /\ [][Next]_vars

--------------------------------------------------------------------------------
TypeOK ==
    /\ pc \in [Writers -> {"idle", "compare", "create", "write", "close"}]
    /\ body \in [Writers -> Bodies \cup {NoBody}]
    /\ result \in [Writers -> {"none", "written", "unchanged", "error"}]
    /\ owner \in Bodies \cup {NoBody} /\ full \in BOOLEAN

\* Why it holds: between the exclusive creation and the close there is one
\* invocation, the file is its own, and nobody else gets that far.
Inside(w) == pc[w] \in {"write", "close"}
Holder ==
    /\ \A w \in Writers : pc[w] # "idle" => body[w] \in Bodies /\ result[w] = "none"
    /\ \A w \in Writers : Inside(w) => owner = body[w]
    /\ \A w \in Writers : pc[w] = "close" => full
    /\ \A w \in Writers : pc[w] = "write" => ~full
    /\ \A v, w \in Writers : Inside(v) /\ Inside(w) => v = w
    /\ \A w \in Writers : result[w] \in {"written", "unchanged"} =>
          full /\ owner = body[w] /\ pc[w] = "idle"
    /\ \A v, w \in Writers : result[v] = "written" /\ Inside(w) => FALSE
    /\ owner = NoBody => ~full

\* An invocation that reports success, "written" or "unchanged", leaves its own
\* bytes in the file, all of them, whoever else wrote at the same time.
SuccessIsOwnBytes ==
    \A w \in Writers : result[w] \in {"written", "unchanged"} => full /\ owner = body[w]

\* At most one invocation reports that it wrote the file.
OneWriter ==
    \A v, w \in Writers : result[v] = "written" /\ result[w] = "written" => v = w

\* The file is immutable: its bytes never give way to others, and a complete
\* file stays complete, through failures, kills and further invocations.
Immutable ==
    [][owner # NoBody => owner' = owner /\ (full => full')]_vars
================================================================================

------------------------------ MODULE HistoryScan ------------------------------
(***************************************************************************)
(* Counting a marker line in a terminal's history, page by page from the   *)
(* bottom to the top: countExactLineInTerminalHistory scrolls the view and *)
(* reads what it shows, countExactLineInRecoveryHistory asks the recovery  *)
(* sidecar for one frame after another.  The terminal goes on meanwhile:   *)
(* every line of output moves the history by one, until the terminal has    *)
(* all the history it keeps and drops its oldest line for each new one.  A *)
(* position counts lines from the bottom of the buffer, where the newest   *)
(* line is 0.                                                              *)
(***************************************************************************)
EXTENDS Naturals, FiniteSets

CONSTANTS Rows,       \* rows of the terminal
          Scrollback  \* lines the terminal keeps above its bottom page

ASSUME HistoryAssumption == Rows \in Nat \ {0} /\ Scrollback \in Nat

VARIABLES kind,      \* "terminal" or "recovery": which of the two functions
          pc,        \* its next call
          offset,    \* offset of the last scroll answer / of the next request
          size,      \* historySize of the last scroll answer
          rows,      \* lines of the last page that was read
          positions, \* positions found so far
          outcome,   \* "none" yet, "count" (len(positions)) or "error"
          view,      \* offset of the page the terminal shows
          history,   \* lines above the bottom page
          marks,     \* positions of the marker line
          there,     \* those of them that were there when the scan began
          quiet,     \* nothing has been printed since
          late       \* a line was, between a scroll answer and its read

scan     == <<kind, pc, offset, size, rows, positions, outcome>>
terminal == <<view, history, marks, there, quiet, late>>
vars     == <<scan, terminal>>

AtMost(a, b) == IF a < b THEN a ELSE b
Buffer(h) == 0..(h + Rows - 1)

Init ==
    /\ kind \in {"terminal", "recovery"}
    /\ pc = "start" /\ offset = 0 /\ size = 0 /\ rows = 0 /\ positions = {} /\ outcome = "none"
    /\ history \in 0..Scrollback /\ view \in 0..history
    /\ marks \in SUBSET Buffer(history) /\ there = marks
    /\ quiet = TRUE /\ late = FALSE

--------------------------------------------------------------------------------
(* The application scrolls the view and answers with its offset and history. *)
Scroll(o) ==
    /\ view' = o /\ offset' = o /\ size' = history
    /\ late' = FALSE /\ pc' = "read"
    /\ UNCHANGED <<kind, rows, positions, outcome, history, marks, there, quiet>>

ScrollBottom == kind = "terminal" /\ pc = "start" /\ Scroll(0)

\* Faults: the next page is taken to be a screen away, or is the same page again.
ScrollOnByScreen == pc = "scroll" /\ Scroll(AtMost(offset + Rows, size))
ScrollOnStays    == pc = "scroll" /\ Scroll(AtMost(offset, size))

\* On by as many lines as the page had.
ScrollOn == pc = "scroll" /\ Scroll(AtMost(offset + rows, size))

\* The answer to a page has all its lines from the bottom row up, and may have
\* fewer of them than the screen has rows unless it is the top of the history
\* (external).
PageRows(o) == IF o < history THEN 1..Rows ELSE {Rows}
Page(o, n)  == {m \in marks : m >= o /\ m < o + n}

\* Fault: the last page is taken to be reached one page early.
ReadPageStopsEarly ==
    /\ pc = "read"
    /\ rows' \in PageRows(view)
    /\ positions' = positions \cup {offset + (m - view) : m \in Page(view, rows')}
    /\ IF offset + Rows >= size
         THEN pc' = "leave" /\ outcome' = "count"
         ELSE pc' = "scroll" /\ UNCHANGED outcome
    /\ UNCHANGED <<kind, offset, size, terminal>>

\* recordExactLinePositions: the page's bottom row is at the offset the scroll
\* was answered with, whatever the view shows by now.
ReadPage ==
    /\ pc = "read"
    /\ rows' \in PageRows(view)
    /\ positions' = positions \cup {offset + (m - view) : m \in Page(view, rows')}
    /\ IF offset = size
         THEN pc' = "leave" /\ outcome' = "count"
         ELSE pc' = "scroll" /\ UNCHANGED outcome
    /\ UNCHANGED <<kind, offset, size, terminal>>

\* The deferred scroll back to the bottom; its failure is ignored.
Leave ==
    /\ pc = "leave"
    /\ view' \in {0, view} /\ pc' = "done"
    /\ UNCHANGED <<kind, offset, size, rows, positions, outcome, history, marks, there, quiet, late>>

ScanFails ==
    /\ pc \in {"start", "read", "scroll", "write"}
    /\ outcome' = "error"
    /\ pc' = IF kind = "terminal" /\ pc # "start" THEN "leave" ELSE "done"
    /\ UNCHANGED <<kind, offset, size, rows, positions, terminal>>

\* terminal.frame answers with lines, rows, offset and history of one moment; the
\* offset is the requested one, or the top of the history.
Frame ==
    /\ kind = "recovery" /\ pc = "start"
    /\ LET o == AtMost(offset, history) IN
         /\ rows' \in PageRows(o)
         /\ positions' = positions \cup Page(o, rows')
         /\ offset' = AtMost(o + rows', history)
         /\ pc' = IF o = history THEN "write" ELSE "start"
    /\ UNCHANGED <<kind, size, outcome, terminal>>

\* The recovery-history evidence file; a failed write is ScanFails.
WritePages ==
    /\ pc = "write"
    /\ pc' = "done" /\ outcome' = "count"
    /\ UNCHANGED <<kind, offset, size, rows, positions, terminal>>

\* The terminal prints a line, the marker or another (external), and drops the
\* oldest one when it keeps no more.  A view that is scrolled up keeps its offset
\* or keeps its content.
PrintLine ==
    /\ pc # "done"
    /\ quiet' = FALSE /\ history' = AtMost(history + 1, Scrollback)
    /\ LET Moved(set) == {m + 1 : m \in set} \cap Buffer(history') IN
         /\ there' = Moved(there)
         /\ marks' \in {Moved(marks), {0} \cup Moved(marks)}
    /\ view' \in (IF view = 0 THEN {0} ELSE {view, AtMost(view + 1, history')})
    /\ late' = (late \/ pc = "read")
    /\ UNCHANGED scan

Step == ScrollBottom \/ ScrollOn \/ ReadPage \/ Leave \/ ScanFails \/ Frame \/ WritePages
Next == Step \/ PrintLine

Spec == Init /\ [][Next]_vars

--------------------------------------------------------------------------------
TagsTypeOK ==
    /\ kind \in {"terminal", "recovery"}
    /\ pc \in {"start", "read", "scroll", "leave", "write", "done"}
    /\ outcome \in {"none", "count", "error"} /\ quiet \in BOOLEAN /\ late \in BOOLEAN

PositionsTypeOK ==
    /\ history \in 0..Scrollback /\ view \in 0..history /\ size \in 0..history
    /\ offset \in Nat /\ rows \in 0..Rows
    /\ positions \in SUBSET Nat
    /\ marks \in SUBSET Buffer(history) /\ there \in SUBSET Nat

TypeOK == TagsTypeOK /\ PositionsTypeOK

\* While nothing is printed, every marker below the current page is found and
\* nothing else is.
Below(n) == \A m \in marks : m < n => m \in positions
PagesCovered ==
    quiet =>
        /\ positions \subseteq marks
        /\ pc \in {"read", "scroll"} => kind = "terminal" /\ size = history /\ offset <= size
        /\ pc = "read" => view = offset /\ Below(offset)
        /\ pc = "scroll" => Below(offset + rows)
        /\ pc = "start" => offset <= history /\ Below(offset)
        /\ pc = "write" \/ outcome = "count" => Below(history + Rows)

\* On a quiet terminal the count is exact, however many lines each answer has:
\* the pages overlap at the top of the history, but no line is counted twice and
\* none is skipped.
CountIsExact == outcome = "count" /\ quiet => positions = marks

\* Under output the count may be too high, never too low: a marker that was
\* there at the start, and that the terminal still keeps, is found, so that a
\* count of one excludes a second copy.  The exception is output between the last
\* scroll answer and its read.
NoneOverlooked ==
    outcome = "count" /\ ~late => Cardinality(positions) >= Cardinality(there)

\* The scan ends even under endless output, unless one of its calls never
\* returns: each page moves it on, and the top it makes for is never further than
\* what the terminal keeps.
ScanEnds ==
    \/ <>(pc = "done")
    \/ \E call \in {"start", "read", "scroll", "leave", "write"}, o \in 0..Scrollback :
          <>[](pc = call /\ offset = o)
================================================================================

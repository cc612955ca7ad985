---------------------------- MODULE HistoryScanProof ----------------------------
(***************************************************************************)
(* The page-by-page count, proved for any number of rows, any history and  *)
(* any amount of output.                                                   *)
(***************************************************************************)
EXTENDS HistoryScan, Integers, FiniteSetTheorems, TLAPS

\* What the position types say of each number, as natural numbers.
LEMMA ScanNumbers ==
    PositionsTypeOK =>
        /\ Rows \in Nat /\ Rows > 0 /\ Scrollback \in Nat
        /\ offset \in Nat /\ size \in Nat /\ rows \in Nat /\ history \in Nat /\ view \in Nat
        /\ rows <= Rows /\ size <= history /\ view <= history /\ history <= Scrollback
        /\ \A m \in marks : m \in Nat /\ m < history + Rows
  BY HistoryAssumption DEF HistoryAssumption, PositionsTypeOK, Buffer

\* The lesser of two numbers.
LEMMA LesserOfTwo ==
    \A a, b \in Nat : AtMost(a, b) \in Nat /\ AtMost(a, b) <= a /\ AtMost(a, b) <= b
  BY DEF AtMost

\* How many lines a page may have; the page at the top has all of them.
LEMMA PageHasRows ==
    \A o, n : n \in PageRows(o) =>
        /\ n \in 0..Rows
        /\ o \in Nat /\ history \in Nat /\ history <= o => n = Rows
  BY HistoryAssumption DEF HistoryAssumption, PageRows

\* A page holds markers of the buffer, those of its rows.
LEMMA PageIsOfMarks ==
    \A o, n : Page(o, n) \subseteq marks /\ \A m \in marks : m \in Page(o, n) <=> m >= o /\ m < o + n
  BY DEF Page

\* The tags of control keep their types.
LEMMA ScanTags == Spec => []TagsTypeOK
<1>1. Init => TagsTypeOK
  BY DEF Init, TagsTypeOK
<1>2. TagsTypeOK /\ [Next]_vars => TagsTypeOK'
  BY DEF TagsTypeOK, Next, Step, ScrollBottom, ScrollOn, Scroll, ReadPage, Leave,
         ScanFails, Frame, WritePages, PrintLine, scan, terminal, vars
<1> QED BY <1>1, <1>2, PTL DEF Spec

\* Offsets and positions stay natural numbers, the marker inside the buffer.
LEMMA ScanPositions == Spec => []PositionsTypeOK
<1>1. Init => PositionsTypeOK
  BY HistoryAssumption DEF HistoryAssumption, Init, PositionsTypeOK, Buffer
<1>2. PositionsTypeOK /\ [Next]_vars => PositionsTypeOK'
  <2> SUFFICES ASSUME PositionsTypeOK, [Next]_vars PROVE PositionsTypeOK'
    OBVIOUS
  <2>n. /\ Rows \in Nat /\ Rows > 0 /\ Scrollback \in Nat
        /\ offset \in Nat /\ size \in Nat /\ rows \in Nat /\ history \in Nat /\ view \in Nat
        /\ rows <= Rows /\ size <= history /\ view <= history /\ history <= Scrollback
        /\ \A m \in marks : m \in Nat /\ m < history + Rows
    BY ScanNumbers
  <2>1. ASSUME NEW o \in 0..history, Scroll(o) PROVE PositionsTypeOK'
    BY <2>n, <2>1 DEF Scroll, PositionsTypeOK, Buffer
  <2>2. CASE ScrollBottom \/ ScrollOn
    <3>1. AtMost(offset + rows, size) \in 0..history /\ 0 \in 0..history
      BY <2>n DEF AtMost
    <3> QED BY <2>1, <2>2, <3>1 DEF ScrollBottom, ScrollOn
  <2>3. CASE ReadPage
    <3>0. UNCHANGED <<offset, size, terminal>> /\ rows' \in 0..Rows
      BY <2>3, PageHasRows DEF ReadPage
    <3>1. \A m \in Page(view, rows') : offset + (m - view) \in Nat
      BY <2>n, <3>0 DEF Page
    <3>2. positions' = positions \cup {offset + (m - view) : m \in Page(view, rows')}
      BY <2>3 DEF ReadPage
    <3>3. positions' \in SUBSET Nat
      BY <3>1, <3>2 DEF PositionsTypeOK
    <3> QED BY <3>0, <3>3 DEF terminal, PositionsTypeOK, Buffer
  <2>4. CASE Leave
    BY <2>n, <2>4 DEF Leave, PositionsTypeOK, Buffer
  <2>5. CASE ScanFails \/ WritePages
    BY <2>5 DEF ScanFails, WritePages, terminal, PositionsTypeOK, Buffer
  <2>6. CASE Frame
    <3>1. PICK o \in Nat : o = AtMost(offset, history)
      BY <2>n DEF AtMost
    <3>2. /\ positions' = positions \cup Page(o, rows') /\ rows' \in PageRows(o)
          /\ offset' = AtMost(o + rows', history) /\ UNCHANGED <<size, terminal>>
      BY <2>6, <3>1 DEF Frame
    <3>3. Page(o, rows') \subseteq Nat
      BY <2>n, PageIsOfMarks
    <3>4. PICK r \in 0..Rows : r = rows'
      BY <3>2, PageHasRows
    <3>5. offset' \in Nat
      <4>1. AtMost(o + r, history) \in Nat
        BY <2>n DEF AtMost
      <4> QED BY <3>2, <3>4, <4>1
    <3>6. positions' \in SUBSET Nat
      BY <3>2, <3>3 DEF PositionsTypeOK
    <3> QED BY <3>2, <3>4, <3>5, <3>6 DEF terminal, PositionsTypeOK, Buffer
  <2>8. CASE PrintLine
    <3>0. history' \in 0..Scrollback /\ history' >= history /\ 0 \in Buffer(history')
      BY <2>n, <2>8 DEF PrintLine, AtMost, Buffer
    <3>1. there' \in SUBSET Nat /\ marks' \in SUBSET Buffer(history')
      <4> DEFINE Moved(set) == {m + 1 : m \in set} \cap Buffer(history')
      <4>1. there' = Moved(there) /\ marks' \in {Moved(marks), {0} \cup Moved(marks)}
        BY <2>8 DEF PrintLine
      <4>2. \A m \in there : m + 1 \in Nat
        BY DEF PositionsTypeOK
      <4> QED BY <3>0, <4>1, <4>2
    <3>3. view' \in 0..history'
      BY <2>n, <2>8, <3>0 DEF PrintLine, AtMost
    <3>4. UNCHANGED scan
      BY <2>8 DEF PrintLine
    <3> QED BY <2>n, <3>0, <3>1, <3>3, <3>4 DEF scan, PositionsTypeOK
  <2>9. CASE UNCHANGED vars
    BY <2>9 DEF vars, scan, terminal, PositionsTypeOK, Buffer
  <2> QED BY <2>2, <2>3, <2>4, <2>5, <2>6, <2>8, <2>9 DEF Next, Step
<1> QED BY <1>1, <1>2, PTL DEF Spec

\* The variables keep their types.
THEOREM ScanTypes == Spec => []TypeOK
<1>1. TagsTypeOK /\ PositionsTypeOK => TypeOK
  BY DEF TypeOK
<1> QED BY <1>1, ScanTags, ScanPositions, PTL

\* The loop invariant: until something is printed, every marker below the page
\* that comes next is found and nothing else is.
LEMMA Covering == Spec => []PagesCovered
<1>1. Init => PagesCovered
  BY HistoryAssumption DEF HistoryAssumption, Init, PagesCovered, Below, Buffer
<1>2. PositionsTypeOK /\ PositionsTypeOK' /\ PagesCovered /\ [Next]_vars
        => PagesCovered'
  <2> SUFFICES ASSUME PositionsTypeOK, PositionsTypeOK', PagesCovered, [Next]_vars,
                      quiet'
               PROVE PagesCovered'
    BY DEF PagesCovered
  <2>o. quiet
    <3>1. CASE PrintLine
      BY <3>1 DEF PrintLine
    <3>2. CASE ~PrintLine
      BY <3>2 DEF Next, Step, ScrollBottom, ScrollOn, Scroll, ReadPage, Leave, ScanFails,
                 Frame, WritePages, terminal, vars
    <3> QED BY <3>1, <3>2
  <2>n. /\ Rows \in Nat /\ Rows > 0
        /\ offset \in Nat /\ size \in Nat /\ rows \in Nat /\ history \in Nat /\ view \in Nat
        /\ \A m \in marks : m \in Nat /\ m < history + Rows
    BY ScanNumbers
  <2> USE <2>o, <2>n DEF PagesCovered, Below
  <2>1. CASE ScrollBottom
    BY <2>1 DEF ScrollBottom, Scroll
  <2>2. CASE ScrollOn
    BY <2>2 DEF ScrollOn, Scroll, AtMost
  <2>3. CASE ReadPage
    \* The view is where the scroll answer said: the page adds its own markers.
    <3>1. pc = "read" /\ view = offset /\ size = history /\ offset <= size
      BY <2>3 DEF ReadPage
    <3>2. positions' = positions \cup Page(offset, rows')
      <4>1. positions' = positions \cup {offset + (m - view) : m \in Page(view, rows')}
        BY <2>3 DEF ReadPage
      <4>2. \A n \in marks : offset + (n - view) = n
        BY <3>1
      <4>3. Page(view, rows') \subseteq marks
        BY PageIsOfMarks
      <4> HIDE <2>n DEF PagesCovered
      <4> QED BY <3>1, <4>1, <4>2, <4>3
    <3>6. PICK r \in Nat : r = rows' /\ (offset = size => r = Rows)
      BY <2>3, <3>1, PageHasRows DEF ReadPage
    <3>3. /\ positions \subseteq positions' /\ positions' \subseteq marks
          /\ \A m \in marks : m < offset + r => m \in positions'
      <4>1. positions \subseteq marks /\ \A m \in marks : m < offset => m \in positions
        BY <3>1
      <4>2. \A m \in marks : m \in Page(offset, r) <=> m >= offset /\ m < offset + r
        BY PageIsOfMarks
      <4> QED BY <3>2, <3>6, <4>1, <4>2, PageIsOfMarks
    <3>4. UNCHANGED <<marks, history, view, offset, size, kind>>
      BY <2>3 DEF ReadPage, terminal
    <3>5. \/ offset = size /\ pc' = "leave" /\ outcome' = "count"
          \/ offset # size /\ pc' = "scroll" /\ outcome' = outcome
      BY <2>3 DEF ReadPage
    <3> QED BY <3>1, <3>3, <3>4, <3>5, <3>6
  <2>4. CASE Leave
    BY <2>4 DEF Leave
  <2>5. CASE ScanFails
    BY <2>5 DEF ScanFails, terminal
  <2>6. CASE Frame
    <3>1. AtMost(offset, history) = offset
      BY <2>6 DEF Frame, AtMost
    <3>2. positions' = positions \cup Page(offset, rows')
      BY <2>6, <3>1 DEF Frame
    <3>6. PICK r \in Nat : r = rows' /\ (offset = history => r = Rows)
      BY <2>6, <3>1, PageHasRows DEF Frame
    <3>3. positions' \subseteq marks /\ \A m \in marks : m < offset + r => m \in positions'
      <4>1. positions \subseteq marks /\ \A m \in marks : m < offset => m \in positions
        BY <2>6 DEF Frame
      <4>2. \A m \in marks : m \in Page(offset, r) <=> m >= offset /\ m < offset + r
        BY PageIsOfMarks
      <4> QED BY <3>2, <3>6, <4>1, <4>2, PageIsOfMarks
    <3>4. /\ offset' = AtMost(offset + r, history)
          /\ pc' = IF offset = history THEN "write" ELSE "start"
          /\ UNCHANGED <<kind, size, outcome, marks, history, view>>
      BY <2>6, <3>1, <3>6 DEF Frame, terminal
    <3>5. offset' <= history' /\ \A m \in marks : m < offset' => m \in positions'
      <4> HIDE DEF PagesCovered
      <4>1. PICK n \in Nat : n = offset + r
        OBVIOUS
      <4>2. AtMost(n, history) \in Nat /\ AtMost(n, history) <= n /\ AtMost(n, history) <= history
        BY LesserOfTwo
      <4> QED BY <3>3, <3>4, <4>1, <4>2
    <3> QED BY <2>6, <3>3, <3>4, <3>5, <3>6 DEF Frame
  <2>7. CASE WritePages
    BY <2>7 DEF WritePages, terminal
  <2>8. CASE PrintLine
    BY <2>8 DEF PrintLine
  <2>9. CASE UNCHANGED vars
    BY <2>9 DEF vars, scan, terminal
  <2> QED BY <2>1, <2>2, <2>3, <2>4, <2>5, <2>6, <2>7, <2>8, <2>9 DEF Next, Step
<1> QED BY <1>1, <1>2, ScanPositions, PTL DEF Spec

\* On a quiet terminal the positions are exactly those of the marker, for both
\* functions, every page size and every history.
THEOREM ExactCount == Spec => []CountIsExact
<1>1. PositionsTypeOK /\ PagesCovered => CountIsExact
  BY ScanNumbers DEF PagesCovered, Below, CountIsExact
<1> QED BY <1>1, ScanPositions, Covering, PTL

--------------------------------------------------------------------------------
(* Under output.  Every line that is printed moves the marker under the      *)
(* scan; a function remembers for each copy that was there at the start the  *)
(* position at which the scan found it.                                      *)

\* The copies below a position have been found at positions of their own, below
\* a bound and no higher than where they are by now.
Finds(f, n, bound) ==
    /\ \A m \in there : m < n => f[m] \in positions /\ f[m] < bound /\ f[m] <= m
    /\ \A l, m \in there : l < n /\ m < n /\ f[l] = f[m] => l = m

FoundBelow(n, bound) == \E f \in [there -> Nat] : Finds(f, n, bound)

FindsAll(f) ==
    /\ \A m \in there : f[m] \in positions
    /\ \A l, m \in there : f[l] = f[m] => l = m

AllFound == \E f \in [there -> Nat] : FindsAll(f)

\* A page is read from where the view is by now, which is above what the scroll
\* was answered with; the last page only counts if nothing came between.
Progress ==
    /\ there \subseteq marks /\ IsFiniteSet(positions)
    /\ outcome = "count" => pc \in {"leave", "done"}
    /\ pc \in {"read", "scroll", "leave"} => kind = "terminal"
    /\ kind = "recovery" /\ pc = "start" => offset <= history /\ FoundBelow(offset, offset)
    /\ pc = "read" => /\ offset <= view /\ FoundBelow(view, offset)
                      /\ ~late => view = offset /\ size = history
    /\ pc = "scroll" => FoundBelow(offset + rows, offset + rows)
    /\ pc = "write" \/ (outcome = "count" /\ ~late) => AllFound

\* Nothing below the bottom line needs to be found.
LEMMA NothingBelowZero ==
    ASSUME PositionsTypeOK PROVE FoundBelow(0, 0)
<1> DEFINE f == [m \in there |-> 0]
<1>1. f \in [there -> Nat]
  OBVIOUS
<1>2. Finds(f, 0, 0)
  BY DEF Finds, PositionsTypeOK
<1> QED
  BY <1>1, <1>2 DEF FoundBelow

\* The next page begins at or below the end of what has been found.
LEMMA FoundBelowLess ==
    ASSUME PositionsTypeOK, NEW n \in Nat, NEW b \in Nat, NEW o \in Nat, o <= n, FoundBelow(n, b)
    PROVE  FoundBelow(o, o)
<1>1. PICK f \in [there -> Nat] : Finds(f, n, b)
  BY DEF FoundBelow
<1>2. \A m \in there : m \in Nat /\ f[m] \in Nat
  BY DEF PositionsTypeOK
<1>3. Finds(f, o, o)
  BY <1>1, <1>2 DEF Finds
<1> QED
  BY <1>3 DEF FoundBelow

\* A page adds its own copies: at the position that belongs to the offset of the
\* answer, which is not above the copy.  At the top of the history that is all.
LEMMA PageFinds ==
    ASSUME PositionsTypeOK, there \subseteq marks,
           NEW o \in Nat, NEW v \in Nat, NEW r \in Nat, o <= v, FoundBelow(v, o),
           positions' = positions \cup {o + (m - v) : m \in Page(v, r)},
           UNCHANGED there
    PROVE  /\ \A n \in Nat : n <= v + r => FoundBelow(n, n)'
           /\ history <= v /\ r = Rows => AllFound'
<1> USE HistoryAssumption DEF HistoryAssumption
<1>0. marks \subseteq Nat /\ \A m \in there : m \in Nat
  BY DEF PositionsTypeOK, Buffer
<1>1. PICK f \in [there -> Nat] : Finds(f, v, o)
  BY DEF FoundBelow
<1>2. PICK g \in [there -> Nat] :
         \A m \in there : g[m] = IF m < v THEN f[m] ELSE o + (m - v)
  <2> DEFINE h == [m \in there |-> IF m < v THEN f[m] ELSE o + (m - v)]
  <2>1. h \in [there -> Nat] /\ \A m \in there : h[m] = IF m < v THEN f[m] ELSE o + (m - v)
    BY <1>0
  <2> QED
    BY <2>1
<1>3. \A m \in there : g[m] = IF m < v THEN f[m] ELSE o + (m - v)
  BY <1>2
<1>4. ASSUME NEW m \in there, m < v + r
      PROVE  g[m] \in positions' /\ g[m] < o + r /\ g[m] <= m
  <2>1. CASE m < v
    BY <1>0, <1>1, <1>3, <2>1 DEF Finds
  <2>2. CASE m >= v
    <3>1. g[m] = o + (m - v)
      BY <1>0, <1>3, <2>2
    <3>2. o + (m - v) \in positions'
      BY <1>4, <2>2 DEF Page
    <3> QED
      BY <1>0, <1>4, <2>2, <3>1, <3>2
  <2> QED
    BY <1>0, <2>1, <2>2
<1>5. ASSUME NEW l \in there, NEW m \in there, l < v + r, m < v + r, g[l] = g[m]
      PROVE  l = m
  <2>1. CASE l < v /\ m < v
    BY <1>1, <1>3, <1>5, <2>1 DEF Finds
  <2>2. CASE l < v /\ m >= v
    BY <1>0, <1>1, <1>3, <1>5, <2>2 DEF Finds
  <2>3. CASE l >= v /\ m < v
    BY <1>0, <1>1, <1>3, <1>5, <2>3 DEF Finds
  <2>4. CASE l >= v /\ m >= v
    BY <1>0, <1>3, <1>5, <2>4
  <2> QED
    BY <1>0, <2>1, <2>2, <2>3, <2>4
<1>6. ASSUME NEW n \in Nat, n <= v + r PROVE FoundBelow(n, n)'
  <2>1. ASSUME NEW m \in there, m < n
        PROVE  m < v + r /\ g[m] \in positions' /\ g[m] < n /\ g[m] <= m
    <3>1. m < v + r /\ g[m] \in Nat
      BY <1>0, <1>2, <1>6, <2>1
    <3> QED
      BY <1>0, <1>4, <2>1, <3>1
  <2>2. Finds(g, n, n)'
    BY <1>5, <2>1 DEF Finds
  <2> QED
    BY <1>2, <2>2 DEF FoundBelow
<1>7. ASSUME history <= v, r = Rows PROVE AllFound'
  <2>1. \A m \in there : m < v + r
    BY <1>7 DEF PositionsTypeOK, Buffer
  <2>2. FindsAll(g)'
    BY <1>4, <1>5, <2>1 DEF FindsAll
  <2> QED
    BY <1>2, <2>2 DEF AllFound
<1> QED
  BY <1>6, <1>7

\* A printed line moves every copy up by one, and what was found stays found; a
\* view that is scrolled up follows by one line at most.
LEMMA LinesMoveUp ==
    ASSUME PositionsTypeOK, there' \subseteq {m + 1 : m \in there}, UNCHANGED positions
    PROVE  /\ AllFound => AllFound'
           /\ \A n, w, b \in Nat : w <= n + 1 /\ FoundBelow(n, b) => FoundBelow(w, b)'
<1>0. /\ \A m \in there : m \in Nat
      /\ \A m \in there' : m - 1 \in there /\ m \in Nat /\ m > 0
  BY DEF PositionsTypeOK
<1>1. ASSUME NEW f \in [there -> Nat]
      PROVE  \E g \in [there' -> Nat] : \A m \in there' : g[m] = f[m - 1]
  <2> DEFINE h == [m \in there' |-> f[m - 1]]
  <2>1. h \in [there' -> Nat] /\ \A m \in there' : h[m] = f[m - 1]
    BY <1>0
  <2> QED
    BY <2>1
<1>2. ASSUME AllFound PROVE AllFound'
  <2>1. PICK f \in [there -> Nat] : FindsAll(f)
    BY <1>2 DEF AllFound
  <2>2. PICK g \in [there' -> Nat] : \A m \in there' : g[m] = f[m - 1]
    BY <1>1
  <2>3. FindsAll(g)'
    BY <1>0, <2>1, <2>2 DEF FindsAll
  <2> QED
    BY <2>2, <2>3 DEF AllFound
<1>3. ASSUME NEW n \in Nat, NEW w \in Nat, NEW b \in Nat, w <= n + 1, FoundBelow(n, b)
      PROVE  FoundBelow(w, b)'
  <2>1. PICK f \in [there -> Nat] : Finds(f, n, b)
    BY <1>3 DEF FoundBelow
  <2>2. PICK g \in [there' -> Nat] : \A m \in there' : g[m] = f[m - 1]
    BY <1>1
  <2>3. \A m \in there' : m < w => m - 1 < n
    BY <1>0, <1>3
  <2>4. Finds(g, w, b)'
    <3>1. ASSUME NEW m \in there', m < w
          PROVE  g[m] \in positions' /\ g[m] < b /\ g[m] <= m
      BY <1>0, <2>1, <2>2, <2>3, <3>1 DEF Finds
    <3>2. ASSUME NEW l \in there', NEW m \in there', l < w, m < w, g[l] = g[m]
          PROVE  l = m
      BY <1>0, <2>1, <2>2, <2>3, <3>2 DEF Finds
    <3> QED
      BY <3>1, <3>2 DEF Finds
  <2> QED
    BY <2>2, <2>4 DEF FoundBelow
<1> QED
  BY <1>2, <1>3

\* A page holds finitely many positions.
LEMMA PagesAreFinite ==
    ASSUME PositionsTypeOK, PositionsTypeOK', [Next]_vars, IsFiniteSet(positions)
    PROVE  IsFiniteSet(positions')
<1> USE HistoryAssumption DEF HistoryAssumption
<1>0. marks \subseteq Nat
  BY ScanNumbers
<1>1. CASE ReadPage
  <2> DEFINE page == {offset + (m - view) : m \in Page(view, rows')}
  <2>1. positions' = positions \cup page
    BY <1>1 DEF ReadPage
  <2>2. page \in SUBSET (0..(offset + Rows))
    <3>1. rows' \in 0..Rows
      BY <1>1, PageHasRows DEF ReadPage
    <3>2. \A m \in Page(view, rows') : offset + (m - view) \in 0..(offset + Rows)
      BY <1>0, <3>1, ScanNumbers DEF Page
    <3> QED
      BY <3>2
  <2> HIDE DEF page
  <2>3. IsFiniteSet(0..(offset + Rows))
    BY FS_Interval DEF PositionsTypeOK
  <2>4. IsFiniteSet(page)
    BY <2>2, <2>3, FS_Subset
  <2> QED
    BY <2>1, <2>4, FS_Union
<1>2. CASE Frame
  <2> DEFINE o == AtMost(offset, history)
             page == Page(o, rows')
  <2>1. positions' = positions \cup page
    BY <1>2 DEF Frame
  <2>2. page \in SUBSET Buffer(history)
    BY DEF PositionsTypeOK, Page
  <2> HIDE DEF page
  <2>3. IsFiniteSet(Buffer(history))
    BY FS_Interval DEF Buffer, PositionsTypeOK
  <2>4. IsFiniteSet(page)
    BY <2>2, <2>3, FS_Subset
  <2> QED
    BY <2>1, <2>4, FS_Union
<1>3. CASE ~ReadPage /\ ~Frame
  <2>1. positions' = positions
    BY <1>3 DEF Next, Step, ScrollBottom, ScrollOn, Scroll, Leave, ScanFails, WritePages,
                PrintLine, scan, vars
  <2> QED
    BY <2>1
<1> QED
  BY <1>1, <1>2, <1>3

\* Steps that leave the marker and the positions alone keep what is found.
LEMMA FoundStays ==
    ASSUME UNCHANGED <<there, positions>>
    PROVE  /\ AllFound => AllFound'
           /\ \A n, b \in Nat : FoundBelow(n, b) => FoundBelow(n, b)'
BY DEF AllFound, FindsAll, FoundBelow, Finds

\* Each step keeps it: a page adds its own, a scroll goes no further than what
\* has been found, and a line moves everything up together.
LEMMA ProgressContinues ==
    ASSUME TypeOK, TypeOK', Progress, [Next]_vars PROVE Progress'
<1> USE HistoryAssumption DEF HistoryAssumption
<1>0. /\ TagsTypeOK /\ PositionsTypeOK /\ PositionsTypeOK' /\ Rows \in Nat
      /\ Scrollback \in Nat /\ rows \in 0..Rows /\ rows' \in 0..Rows
      /\ history <= Scrollback /\ history' <= Scrollback
      /\ offset \in Nat /\ size \in Nat /\ view \in Nat /\ history \in Nat
      /\ offset' \in Nat /\ size' \in Nat /\ view' \in Nat /\ history' \in Nat
  BY DEF TypeOK, PositionsTypeOK
<1>1. IsFiniteSet(positions')
  BY <1>0, PagesAreFinite DEF Progress
<1>2. CASE ScrollBottom
  <2>1. /\ pc = "start" /\ kind' = "terminal" /\ pc' = "read" /\ view' = 0 /\ offset' = 0
        /\ size' = history' /\ UNCHANGED <<there, marks, positions, outcome>>
    BY <1>2 DEF ScrollBottom, Scroll
  <2>2. FoundBelow(0, 0)'
    BY <1>0, <2>1, NothingBelowZero, FoundStays
  <2>3. FoundBelow(view, offset)'
    BY <2>1, <2>2
  <2> QED
    BY <1>1, <2>1, <2>3 DEF Progress
<1>3. CASE ScrollOn
  <2>1. PICK o \in Nat : o = AtMost(offset + rows, size)
    BY <1>0 DEF AtMost
  <2>2. /\ pc = "scroll" /\ pc' = "read" /\ view' = o /\ offset' = o /\ size' = history'
        /\ UNCHANGED <<kind, there, marks, positions, outcome>>
    BY <1>3, <2>1 DEF ScrollOn, Scroll
  <2>3. FoundBelow(o, o)
    <3>1. o <= offset + rows /\ FoundBelow(offset + rows, offset + rows)
      BY <1>0, <2>1, <2>2 DEF AtMost, Progress
    <3> QED
      BY <1>0, <3>1, FoundBelowLess
  <2>4. FoundBelow(o, o)'
    BY <2>2, <2>3, FoundStays
  <2>5. FoundBelow(view, offset)'
    BY <2>2, <2>4
  <2> QED
    BY <1>1, <2>2, <2>5 DEF Progress
<1>4. CASE ReadPage
  <2>1. PICK o \in Nat, v \in Nat : o = offset /\ v = view
    BY <1>0
  <2>0. PICK r \in 0..Rows : r = rows'
    BY <1>0
  <2>2. /\ pc = "read" /\ o <= v /\ FoundBelow(v, o)
        /\ ~late => v = o /\ size = history
        /\ history <= v => r = Rows
        /\ kind' = "terminal" /\ offset' = o /\ view' = v /\ UNCHANGED <<late, there, marks, history>>
        /\ positions' = positions \cup {o + (m - v) : m \in Page(v, r)}
        /\ \/ offset = size /\ pc' = "leave" /\ outcome' = "count"
           \/ pc' = "scroll" /\ outcome' = outcome
    <3>1. history <= v => r = Rows
      BY <1>0, <1>4, <2>0, <2>1, PageHasRows DEF ReadPage
    <3> QED
      BY <1>4, <2>0, <2>1, <3>1 DEF ReadPage, Progress, terminal
  <2>3. /\ \A n \in Nat : n <= v + r => FoundBelow(n, n)'
        /\ history <= v => AllFound'
    <3>1. PositionsTypeOK /\ there \subseteq marks /\ UNCHANGED there
      BY <1>0, <2>2 DEF Progress
    <3>2. positions' = positions \cup {o + (m - v) : m \in Page(v, r)}
      BY <2>2
    <3>3. (history <= v => r = Rows) /\ FoundBelow(v, o) /\ o <= v
      BY <2>2
    <3>4. r \in Nat
      BY <1>0
    <3> QED
      BY ONLY <3>1, <3>2, <3>3, <3>4, PageFinds
  <2>4. pc' = "scroll" => FoundBelow(offset + rows, offset + rows)'
    <3>1. FoundBelow(o + r, o + r)'
      BY <1>0, <2>2, <2>3
    <3> QED
      BY <2>0, <2>2, <3>1
  <2>5. outcome' = "count" /\ ~late' => AllFound'
    BY <1>0, <2>1, <2>2, <2>3 DEF Progress
  <2> QED
    BY <1>1, <2>2, <2>4, <2>5 DEF Progress
<1>5. CASE Frame
  <2>1. PICK o \in Nat : o = offset
    BY <1>0
  <2>2. pc = "start" /\ kind = "recovery" /\ offset <= history /\ FoundBelow(o, o)
    BY <1>5, <2>1 DEF Frame, Progress
  <2>3. AtMost(offset, history) = o
    BY <1>0, <2>1, <2>2 DEF AtMost
  <2>0. PICK r \in 0..Rows : r = rows'
    BY <1>0
  <2>4. /\ positions' = positions \cup Page(o, r)
        /\ offset' = AtMost(o + r, history)
        /\ history <= o => r = Rows
        /\ pc' = (IF o = history THEN "write" ELSE "start")
        /\ UNCHANGED <<kind, outcome, there, marks, history>>
    <3>1. history <= o => r = Rows
      BY <1>0, <1>5, <2>0, <2>3, PageHasRows DEF Frame
    <3> QED
      BY <1>5, <2>0, <2>3, <3>1 DEF Frame, terminal
  <2>5. Page(o, r) = {o + (m - o) : m \in Page(o, r)}
    <3>1. \A m \in Page(o, r) : m \in Nat
      BY <1>0, PageIsOfMarks, ScanNumbers
    <3>2. \A m \in Page(o, r) : o + (m - o) = m
      BY <3>1
    <3> QED
      BY <3>2
  <2>6. /\ \A n \in Nat : n <= o + r => FoundBelow(n, n)'
        /\ history <= o => AllFound'
    <3>1. PositionsTypeOK /\ there \subseteq marks /\ UNCHANGED there
      BY <1>0, <2>4 DEF Progress
    <3>2. positions' = positions \cup {o + (m - o) : m \in Page(o, r)}
      BY <2>4, <2>5, Zenon
    <3>3. (history <= o => r = Rows) /\ FoundBelow(o, o)
      BY <2>2, <2>4
    <3>4. r \in Nat /\ o <= o
      BY <1>0
    <3> QED
      BY ONLY <3>1, <3>2, <3>3, <3>4, PageFinds
  <2>7. PICK n \in Nat : n = AtMost(o + r, history) /\ n <= o + r /\ n <= history
    BY <1>0 DEF AtMost
  <2>8. FoundBelow(offset, offset)' /\ offset' <= history'
    <3>1. FoundBelow(n, n)'
      BY <2>6, <2>7
    <3> QED
      BY <2>4, <2>7, <3>1
  <2>9. pc' = "write" => AllFound'
    BY <1>0, <2>1, <2>2, <2>4, <2>6
  <2>10. outcome' # "count"
    BY <2>2, <2>4 DEF Progress
  <2> QED
    BY <1>1, <2>2, <2>4, <2>8, <2>9, <2>10 DEF Progress
<1>6. CASE Leave \/ ScanFails \/ WritePages
  <2>1. UNCHANGED <<there, marks, positions, kind, late>> /\ pc' \in {"leave", "done"}
    BY <1>6 DEF Leave, ScanFails, WritePages, terminal
  <2>2. pc' = "leave" => kind = "terminal"
    BY <1>6 DEF Leave, ScanFails, WritePages
  <2>3. outcome' = "count" => outcome = "count" \/ pc = "write"
    BY <1>6 DEF Leave, ScanFails, WritePages
  <2>4. outcome' = "count" /\ ~late' => AllFound'
    BY <2>1, <2>3, FoundStays DEF Progress
  <2> QED
    BY <1>1, <2>1, <2>2, <2>4 DEF Progress
<1>7. CASE PrintLine
  <2>1. /\ there' \subseteq {m + 1 : m \in there}
        /\ UNCHANGED <<positions, pc, kind, offset, size, rows, outcome>>
        /\ history' >= history /\ late' = (late \/ pc = "read")
        /\ view' \in {view, view + 1}
    <3>1. there' \subseteq {m + 1 : m \in there}
      BY <1>7 DEF PrintLine
    <3>2. history' >= history /\ view' \in {view, view + 1}
      BY <1>0, <1>7 DEF PrintLine, AtMost, PositionsTypeOK
    <3> QED
      BY <1>7, <3>1, <3>2 DEF PrintLine, scan
  <2>2. there' \subseteq marks'
    BY <1>7 DEF PrintLine, Progress
  <2>3. PICK o \in Nat, v \in Nat, w \in Nat, r \in Nat :
          o = offset /\ v = view /\ w = view' /\ r = rows
    BY <1>0
  <2>4. /\ AllFound => AllFound'
        /\ \A n, k, b \in Nat : k <= n + 1 /\ FoundBelow(n, b) => FoundBelow(k, b)'
    BY <1>0, <2>1, LinesMoveUp
  <2>5. /\ FoundBelow(o, o) => FoundBelow(o, o)'
        /\ FoundBelow(v, o) => FoundBelow(w, o)'
        /\ FoundBelow(o + r, o + r) => FoundBelow(o + r, o + r)'
    BY <1>0, <2>1, <2>3, <2>4
  <2>6. kind' = "recovery" /\ pc' = "start" => offset' <= history' /\ FoundBelow(offset, offset)'
    BY <1>0, <2>1, <2>3, <2>5 DEF Progress
  <2>7. pc' = "read" => offset' <= view' /\ FoundBelow(view, offset)' /\ late'
    <3>1. SUFFICES ASSUME pc = "read" PROVE offset' <= view' /\ FoundBelow(view, offset)' /\ late'
      BY <2>1
    <3>2. offset <= view /\ FoundBelow(v, o)
      BY <2>3, <3>1 DEF Progress
    <3>3. FoundBelow(w, o)' /\ w = view' /\ o = offset'
      BY <2>1, <2>3, <2>5, <3>2
    <3>4. FoundBelow(view, offset)'
      BY ONLY <3>3
    <3>5. offset' <= view'
      BY ONLY <1>0, <2>1, <3>2
    <3>6. late'
      BY ONLY <2>1, <3>1, Zenon
    <3> QED
      BY <3>4, <3>5, <3>6
  <2>8. pc' = "scroll" => FoundBelow(offset + rows, offset + rows)'
    BY <2>1, <2>3, <2>5 DEF Progress
  <2>9. pc' = "write" \/ (outcome' = "count" /\ ~late') => AllFound'
    BY <2>1, <2>4 DEF Progress
  <2> QED
    BY <1>1, <2>1, <2>2, <2>6, <2>7, <2>8, <2>9 DEF Progress
<1>8. CASE UNCHANGED vars
  BY <1>8 DEF vars, scan, terminal, Progress, AllFound, FindsAll, FoundBelow, Finds
<1> QED
  BY <1>2, <1>3, <1>4, <1>5, <1>6, <1>7, <1>8 DEF Next, Step

\* Under output the count is never too low, for both functions, however many lines
\* are printed and wherever the copies are.
THEOREM NoCopyIsOverlooked == Spec => []NoneOverlooked
<1>1. Init => Progress
  <2> SUFFICES ASSUME Init PROVE Progress
    OBVIOUS
  <2>1. IsFiniteSet(positions) /\ there \subseteq marks
    BY FS_EmptySet DEF Init
  <2>2. FoundBelow(0, 0)
    <3>1. PositionsTypeOK
      BY HistoryAssumption DEF HistoryAssumption, Init, PositionsTypeOK, Buffer
    <3> QED
      BY <3>1, NothingBelowZero
  <2> QED
    BY <2>1, <2>2 DEF Init, Progress
<1>2. TypeOK /\ TypeOK' /\ Progress /\ [Next]_vars => Progress'
  BY ProgressContinues
<1>3. Progress => NoneOverlooked
  <2> SUFFICES ASSUME Progress, AllFound PROVE Cardinality(positions) >= Cardinality(there)
    BY DEF Progress, NoneOverlooked
  <2>1. PICK f \in [there -> Nat] : FindsAll(f)
    BY DEF AllFound
  <2>2. f \in Injection(there, positions)
    <3>1. f \in [there -> positions]
      BY <2>1 DEF FindsAll
    <3> QED
      BY <2>1, <3>1 DEF FindsAll, Injection, IsInjective
  <2>3. IsFiniteSet(there) /\ Cardinality(there) <= Cardinality(positions)
    BY <2>2, FS_Injection DEF Progress
  <2>4. Cardinality(there) \in Nat /\ Cardinality(positions) \in Nat
    BY <2>3, FS_CardinalityType DEF Progress
  <2> QED
    BY <2>3, <2>4
<1> QED
  BY <1>1, <1>2, <1>3, ScanTypes, PTL DEF Spec
================================================================================

----------------------------- MODULE ReadyWriterProof -----------------------------
(***************************************************************************)
(* Proofs about the ready event, for any number of lines of any width and  *)
(* every way to cut them into chunks.                                      *)
(***************************************************************************)
EXTENDS ReadyWriter, WellFoundedInduction, TLAPS

TypeOK ==
    /\ ready \in SUBSET (1..Lines) /\ channel \in 0..Lines /\ event \in 0..Lines
    /\ written \in Nat /\ parsed \in Nat /\ pending \in Nat
    /\ started \in {"waiting", "event", "timeout"}

\* Write has split off every complete line: what is left is less than a line.
Accounted == written = parsed * Width + pending /\ pending < Width

First(i) == i \in ready /\ i <= parsed /\ \A j \in ready : i <= j

\* While Start waits the channel holds the first event of the lines split off,
\* once there is one; what Start has received is that event.
FirstIsKept ==
    /\ started = "waiting" =>
          IF \E j \in ready : j <= parsed THEN First(channel) ELSE channel = 0
    /\ started = "event" => First(event)

\* The start of division and remainder, of whole numbers.
LEMMA Division ==
    ASSUME NEW a \in Nat, NEW w \in Nat \ {0}
    PROVE  /\ a = w * (a \div w) + (a % w)
           /\ (a \div w) \in Nat /\ (a % w) \in Nat /\ (a % w) < w
OBVIOUS

\* A product of whole numbers is one.
LEMMA Products == ASSUME NEW k \in Nat, NEW w \in Nat PROVE k * w \in Nat
OBVIOUS

\* One line more is a width more.
LEMMA NextLine ==
    ASSUME NEW a \in Nat, NEW b \in Nat, NEW w \in Nat \ {0}, a > b
    PROVE  a * w >= b * w + w
<1>1. (a - b - 1) \in Nat /\ (a - b - 1) * w >= 0
  BY Products
<1>2. a * w = (b + 1) * w + (a - b - 1) * w
  OBVIOUS
<1>3. (b + 1) * w = b * w + w
  OBVIOUS
<1> QED
  BY <1>1, <1>2, <1>3, Products

\* Some lines have a first one.
LEMMA FirstLine ==
    ASSUME NEW S \in SUBSET Nat, S # {}
    PROVE  Smallest(S) \in S /\ \A y \in S : Smallest(S) <= y
<1> DEFINE less == OpToRel(<, Nat)
<1>1. \E x \in S : \A y \in S : <<y, x>> \notin less
  <2>1. IsWellFoundedOn(less, Nat)
    BY NatLessThanWellFounded
  <2> HIDE DEF less
  <2> QED
    BY <2>1, WFMin
<1>2. \A x, y \in Nat : <<y, x>> \notin less => x <= y
  BY DEF OpToRel
<1> HIDE DEF less
<1>3. \E x \in S : \A y \in S : x <= y
  BY <1>1, <1>2
<1> QED
  BY <1>3 DEF Smallest

\* A chunk, wherever it is cut, brings the lines up to what is written.
LEMMA Chunks ==
    ASSUME TypeOK, Accounted, NEW n \in 1..(Lines * Width), Write(n)
    PROVE  Accounted' /\ parsed' \in Nat /\ pending' \in Nat /\ written' \in Nat /\ parsed <= parsed'
<1> USE ReadyAssumption DEF ReadyAssumption
<1> DEFINE q == (pending + n) \div Width
           r == (pending + n) % Width
<1>1. n \in Nat /\ pending + n \in Nat
  BY Products DEF TypeOK
<1>2. pending + n = Width * q + r /\ q \in Nat /\ r \in Nat /\ r < Width
  BY <1>1, Division
<1>3. written' = written + n /\ parsed' = parsed + q /\ pending' = r
  BY DEF Write
<1> HIDE DEF q, r
<1>4. (parsed + q) * Width = parsed * Width + Width * q
  BY <1>2 DEF TypeOK
<1> QED
  BY <1>1, <1>2, <1>3, <1>4 DEF TypeOK, Accounted

\* The lines of the events are numbers of lines.
LEMMA Numbers ==
    ASSUME TypeOK
    PROVE  /\ Lines \in Nat
           /\ \A j \in ready : j \in Nat /\ j \in 1..Lines /\ j \in 0..Lines
<1>1. Lines \in Nat /\ \A j \in ready : j \in 1..Lines
  BY ReadyAssumption DEF TypeOK, ReadyAssumption
<1> QED
  BY <1>1

\* No later event takes the place of the first.
LEMMA KeepsFirst ==
    ASSUME TypeOK, FirstIsKept, NEW last \in Nat, parsed <= last, started = "waiting"
    PROVE  IF \E j \in ready : j <= last
             THEN /\ Keep(last) \in ready /\ Keep(last) <= last
                  /\ \A j \in ready : Keep(last) <= j
             ELSE Keep(last) = 0
<1> USE ReadyAssumption DEF ReadyAssumption, TypeOK, FirstIsKept, First
<1> DEFINE events == {i \in ready : i > parsed /\ i <= last}
<1>1. CASE \E j \in ready : j <= parsed
  BY <1>1 DEF Keep
<1>2. CASE ~ \E j \in ready : j <= parsed
  <2>1. channel = 0
    BY <1>2
  <2>2. CASE events = {}
    BY <1>2, <2>1, <2>2 DEF Keep
  <2>3. CASE events # {}
    <3>1. Keep(last) = Smallest(events)
      BY <2>1, <2>3 DEF Keep
    <3>2. \A i \in events : i \in ready /\ i \in Nat /\ i <= last
      BY Numbers
    <3>0. \A i \in ready : i <= last => i \in events
      <4>1. \A i \in ready : ~ i <= parsed /\ i \in Nat
        BY <1>2, Numbers
      <4>2. parsed \in Nat
        OBVIOUS
      <4> QED
        BY <4>1, <4>2
    <3> HIDE DEF events
    <3>3. Smallest(events) \in events /\ \A y \in events : Smallest(events) <= y
      BY <2>3, <3>2, FirstLine
    <3>4. /\ Keep(last) \in ready /\ Keep(last) <= last
          /\ \A j \in events : Keep(last) <= j
      BY <3>1, <3>2, <3>3
    <3>5. \A j \in ready : j \in Nat /\ (j \notin events => ~ j <= last)
      BY <3>0, Numbers
    <3>6. Keep(last) \in Nat
      BY <3>4, Numbers
    <3>7. \A j \in ready : Keep(last) <= j
      BY <3>4, <3>5, <3>6
    <3> QED
      BY <3>4, <3>7
  <2> QED
    BY <2>2, <2>3
<1> QED
  BY <1>1, <1>2

\* The invariant of the writer and of Start.
THEOREM FirstIsFirst == ReadySpec => [](TypeOK /\ Accounted /\ FirstIsKept)
<1> DEFINE IInv == TypeOK /\ Accounted /\ FirstIsKept
<1>1. ReadyInit => IInv
  <2> SUFFICES ASSUME ReadyInit PROVE IInv
    OBVIOUS
  <2> USE ReadyAssumption DEF ReadyAssumption, ReadyInit
  <2>1. TypeOK
    BY DEF TypeOK
  <2>2. Accounted
    BY DEF Accounted
  <2>3. FirstIsKept
    BY DEF FirstIsKept
  <2> QED
    BY <2>1, <2>2, <2>3
<1>2. IInv /\ [ReadyNext]_readyVars => IInv'
  <2> SUFFICES ASSUME IInv, [ReadyNext]_readyVars PROVE IInv'
    OBVIOUS
  <2>1. ASSUME NEW n \in 1..(Lines * Width), Write(n) PROVE IInv'
    <3>1. Accounted' /\ parsed' \in Nat /\ pending' \in Nat /\ written' \in Nat /\ parsed <= parsed'
      BY <2>1, Chunks
    <3>2. channel' = Keep(parsed') /\ UNCHANGED <<ready, started, event>>
      BY <2>1 DEF Write
    <3>3. CASE started = "waiting"
      <4>1. IF \E j \in ready : j <= parsed'
              THEN /\ channel' \in ready /\ channel' <= parsed'
                   /\ \A j \in ready : channel' <= j
              ELSE channel' = 0
        BY <3>1, <3>2, <3>3, KeepsFirst
      <4>2. FirstIsKept'
        BY <3>2, <3>3, <4>1 DEF FirstIsKept, First
      <4>3. channel' \in 0..Lines
        <5>1. channel' \in ready \/ channel' = 0
          BY <4>1
        <5>2. 0 \in 0..Lines
          BY Numbers
        <5> QED
          BY <5>1, <5>2, Numbers
      <4> QED
        BY <3>1, <3>2, <4>2, <4>3 DEF TypeOK
    <3>4. CASE started # "waiting"
      <4>1. FirstIsKept'
        BY <3>1, <3>2, <3>4 DEF FirstIsKept, First, TypeOK
      <4>2. channel' \in 0..Lines
        <5>1. CASE UNCHANGED channel
          BY <5>1 DEF TypeOK
        <5>2. CASE channel' # channel
          <6> DEFINE events == {i \in ready : i > parsed /\ i <= parsed'}
          <6>1. events # {} /\ channel' = Smallest(events)
            <7>1. channel' = IF channel # 0 \/ events = {} THEN channel ELSE Smallest(events)
              BY <3>2 DEF Keep
            <7> QED
              BY <5>2, <7>1
          <6>2. \A i \in events : i \in Nat /\ i \in 0..Lines
            BY Numbers
          <6> HIDE DEF events
          <6>3. channel' \in events
            BY <6>1, <6>2, FirstLine
          <6> QED
            BY <6>2, <6>3
        <5> QED
          BY <5>1, <5>2
      <4> QED
        BY <3>1, <3>2, <4>1, <4>2 DEF TypeOK
    <3> QED
      BY <3>3, <3>4
  <2>2. CASE Receive
    BY <2>2, ReadyAssumption DEF Receive, TypeOK, Accounted, FirstIsKept, First, ReadyAssumption
  <2>3. CASE Timeout
    BY <2>3 DEF Timeout, TypeOK, Accounted, FirstIsKept, First
  <2>4. CASE UNCHANGED readyVars
    BY <2>4 DEF readyVars, TypeOK, Accounted, FirstIsKept, First
  <2> QED
    BY <2>1, <2>2, <2>3, <2>4 DEF ReadyNext
<1> QED
  BY <1>1, <1>2, PTL DEF ReadySpec

\* What Start receives is the first event of the stream, and its line is whole.
THEOREM StartGetsFirst == ReadySpec => []FirstEvent
<1>1. TypeOK /\ Accounted /\ FirstIsKept => FirstEvent
  <2> SUFFICES ASSUME TypeOK, Accounted, First(event) PROVE written >= event * Width
    BY DEF FirstIsKept, First, FirstEvent
  <2> USE ReadyAssumption DEF ReadyAssumption
  <2>1. event \in Nat /\ event <= parsed
    BY DEF TypeOK, First
  <2>2. parsed * Width >= event * Width
    BY <2>1, NextLine DEF TypeOK
  <2> QED
    BY <2>1, <2>2, Products DEF TypeOK, Accounted
<1> QED
  BY <1>1, FirstIsFirst, PTL

\* An event whose line has been written whole is never lost while Start waits.
THEOREM NothingIsLost == ReadySpec => []NoEventLost
<1>1. TypeOK /\ Accounted /\ FirstIsKept => NoEventLost
  <2> SUFFICES ASSUME TypeOK, Accounted, FirstIsKept, started = "waiting",
                      NEW i \in ready, i * Width <= written
               PROVE  channel # 0
    BY DEF NoEventLost
  <2> USE ReadyAssumption DEF ReadyAssumption
  <2>1. i \in Nat
    BY DEF TypeOK
  <2>2. i <= parsed
    <3>1. SUFFICES ASSUME i > parsed PROVE FALSE
      BY <2>1 DEF TypeOK
    <3>2. i * Width >= parsed * Width + Width
      BY <2>1, <3>1, NextLine DEF TypeOK
    <3> QED
      BY <2>1, <3>2, Products DEF TypeOK, Accounted
  <2> QED
    BY <2>2 DEF FirstIsKept, First, TypeOK
<1> QED
  BY <1>1, FirstIsFirst, PTL
================================================================================

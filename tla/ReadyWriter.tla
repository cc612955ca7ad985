------------------------------ MODULE ReadyWriter ------------------------------
(***************************************************************************)
(* system/process_readiness.go: the application's standard output arrives  *)
(* at controlReadyWriter in chunks that respect no line, and Start takes   *)
(* the first control-ready event out of a channel of capacity one, or      *)
(* gives up after 45 seconds.  The output is a sequence of lines, each one *)
(* Width bytes long, newline included.                                     *)
(***************************************************************************)
EXTENDS Naturals, FiniteSets

CONSTANTS Lines, \* bound: lines the application prints
          Width  \* bytes of a line

ASSUME ReadyAssumption == Lines \in Nat /\ Width \in Nat \ {0}

VARIABLES ready,   \* which lines are control-ready events
          written, \* bytes written so far
          parsed,  \* lines Write has split off writer.pending
          pending, \* bytes in writer.pending
          channel, \* the event in writer.events, by its line; 0 if empty
          started, \* what Start received: "waiting", "event" or "timeout"
          event    \* the event it received, by its line

readyVars == <<ready, written, parsed, pending, channel, started, event>>

ReadyInit ==
    /\ ready \in SUBSET (1..Lines)
    /\ written = 0 /\ parsed = 0 /\ pending = 0 /\ channel = 0
    /\ started = "waiting" /\ event = 0

Smallest(S) == CHOOSE x \in S : \A y \in S : x <= y

\* Fault: the channel keeps the last event.
KeepLast(last) ==
    LET events == {i \in ready : i > parsed /\ i <= last}
    IN  IF events = {} THEN channel ELSE CHOOSE x \in events : \A y \in events : y <= x

\* The event the loop of Write leaves in the channel after the lines up to
\* `last`: a full channel drops the others.
Keep(last) ==
    LET events == {i \in ready : i > parsed /\ i <= last}
    IN  IF channel # 0 \/ events = {} THEN channel ELSE Smallest(events)

\* Fault: what is left of a chunk is dropped with the next.
WriteForgets(n) ==
    /\ written + n <= Lines * Width
    /\ written' = written + n
    /\ parsed' = parsed + (n \div Width) /\ pending' = n % Width
    /\ channel' = Keep(parsed')
    /\ UNCHANGED <<ready, started, event>>

\* Write(payload): append, then split off every complete line.
Write(n) ==
    /\ written + n <= Lines * Width
    /\ written' = written + n
    /\ parsed' = parsed + ((pending + n) \div Width)
    /\ pending' = (pending + n) % Width
    /\ channel' = Keep(parsed')
    /\ UNCHANGED <<ready, started, event>>

\* The two arms of the select in Start.
Receive ==
    /\ started = "waiting" /\ channel # 0
    /\ started' = "event" /\ event' = channel /\ channel' = 0
    /\ UNCHANGED <<ready, written, parsed, pending>>

Timeout ==
    /\ started = "waiting"
    /\ started' = "timeout"
    /\ UNCHANGED <<ready, written, parsed, pending, channel, event>>

ReadyNext == (\E n \in 1..(Lines * Width) : Write(n)) \/ Receive \/ Timeout

ReadySpec == ReadyInit /\ [][ReadyNext]_readyVars

--------------------------------------------------------------------------------
\* Whatever the chunks, Start gets the first event of the stream, and only once
\* its line is complete: later events neither replace it nor arrive before it.
FirstEvent ==
    started = "event" => /\ event \in ready /\ \A i \in ready : event <= i
                         /\ written >= event * Width

\* No event is lost while Start waits: once its line has been written whole the
\* channel holds it, however the bytes were cut.
NoEventLost ==
    started = "waiting" /\ (\E i \in ready : i * Width <= written) => channel # 0
================================================================================

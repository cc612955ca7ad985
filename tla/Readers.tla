-------------------------------- MODULE Readers --------------------------------
(***************************************************************************)
(* The two places where the harness reads a stream that goes on while it   *)
(* reads: the standard output of the application (ReadyWriter) and the     *)
(* history of a terminal (HistoryScan).  A behaviour is of one of them.    *)
(***************************************************************************)
EXTENDS HistoryScan, ReadyWriter

VARIABLE reader  \* which of the two

ReadersInit ==
    /\ Init /\ ReadyInit
    /\ \/ reader = "history" /\ ready = {}
       \/ reader = "output" /\ kind = "terminal" /\ history = 0 /\ marks = {}

ReadersNext ==
    /\ \/ reader = "history" /\ Next /\ UNCHANGED readyVars
       \/ reader = "output" /\ ReadyNext /\ UNCHANGED vars
    /\ UNCHANGED reader

ReadersSpec == ReadersInit /\ [][ReadersNext]_<<vars, readyVars, reader>>
================================================================================

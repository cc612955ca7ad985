----------------------------- MODULE RunOwnership -----------------------------
(***************************************************************************)
(* What a test run promises about the application process: it owns at most *)
(* one at a time, and lets go of it only once it has ended.                *)
(***************************************************************************)
VARIABLES owned,  \* does the run own a process
          alive   \* is the process of the run running

vars == <<owned, alive>>

Init == owned = FALSE /\ alive = FALSE

Launch == ~owned /\ ~alive /\ owned' = TRUE /\ alive' = TRUE
End    == alive /\ alive' = FALSE /\ UNCHANGED owned
Reap   == owned /\ owned' = FALSE /\ alive' = FALSE

Next == Launch \/ End \/ Reap
Spec == Init /\ [][Next]_vars
================================================================================

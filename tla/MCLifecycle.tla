------------------------------ MODULE MCLifecycle ------------------------------
(* Small instances of the life cycle: up to two plugins. *)
EXTENDS LifecycleProps

CONSTANTS p1, p2
================================================================================

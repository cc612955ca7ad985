----------------------------- MODULE MCInstallation -----------------------------
(* A plan of the two plugins of the profile, which share a consent. *)
EXTENDS Installation, TLC

CONSTANTS p1, p2, c1, c2, good, alien
================================================================================

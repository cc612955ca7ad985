---------------------------- MODULE MCInstalledMatrix ----------------------------
(* Two engines with a declared build each, of the same version; the build of   *)
(* the other engine is a wrong one of the right version, an older one has its *)
(* own version.                                                               *)
EXTENDS InstalledMatrix, TLC

CONSTANTS first, second, older

MCDeclared == [e \in 1..2 |-> IF e = 1 THEN first ELSE second]

MCVersion(build) == IF build = older THEN 1 ELSE 2
================================================================================

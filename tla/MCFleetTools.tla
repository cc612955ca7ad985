------------------------------ MODULE MCFleetTools ------------------------------
(* Three composers, two audits of two repositories, a plugin and a sidecar. *)
EXTENDS FleetTools, TLC

CONSTANTS local, second, compose, audit1, audit2, plan1, plan2, plugin, sidecar

MCBodies == {plan1, plan2} \cup Reports
================================================================================

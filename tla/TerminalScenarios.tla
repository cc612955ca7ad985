--------------------------- MODULE TerminalScenarios ---------------------------
(***************************************************************************)
(* The scenarios that the system tests run over a terminal that is open:   *)
(* Restore's three, and the reload of its plugin.  A run has one of them.  *)
(***************************************************************************)
EXTENDS Restore, PluginReload

VARIABLE scenario

scenarioVars == <<scenario, vars, reloadVars>>

ScenarioInit ==
    /\ Init /\ ReloadInit /\ scenario \in {"reload"} \cup Kinds
    /\ kind = IF scenario = "reload" THEN "close" ELSE scenario
    /\ scenario = "reload" => defect = "none"
    /\ scenario # "reload" => reloadDefect = "none" /\ created = 1

ScenarioNext ==
    /\ UNCHANGED scenario
    /\ \/ scenario = "reload" /\ ReloadNext /\ UNCHANGED vars
       \/ scenario # "reload" /\ Next /\ UNCHANGED reloadVars

ScenarioSpec == ScenarioInit /\ [][ScenarioNext]_scenarioVars
================================================================================

------------------------------ MODULE MCFaults ------------------------------
(***************************************************************************)
(* The components that must withstand a fault of the machine, for TLC: the *)
(* power fails, messages are late or lost, a heater does not heat, a       *)
(* program is restarted.  A behaviour is one of the component that "part"  *)
(* names, and the others stay as they are.                                 *)
(***************************************************************************)
EXTENDS SaveVariables, Buttons, Homing, Heater, HeaterCheck, History

VARIABLE part           \* the component that runs

FaultsInit ==
    /\ part \in {"saves", "buttons", "homing", "heater", "check", "history"}
    /\ Init /\ ButtonInit /\ HomingInit /\ HeaterInit /\ CheckInit
    /\ HistoryInit
    /\ part # "saves" => file = CHOOSE i \in Inodes : TRUE
    /\ part # "check" => heater = "any"

\* The components other than p stay as they are.
OnlyPart(p) ==
    /\ part = p /\ UNCHANGED part
    /\ p # "saves" => UNCHANGED vars
    /\ p # "buttons" => UNCHANGED buttonVars
    /\ p # "homing" => UNCHANGED homingVars
    /\ p # "heater" => UNCHANGED heaterVars
    /\ p # "check" => UNCHANGED checkVars
    /\ p # "history" => UNCHANGED historyVars

FaultsNext ==
    \/ OnlyPart("saves") /\ Next
    \/ OnlyPart("buttons") /\ ButtonNext
    \/ OnlyPart("homing") /\ HomingNext
    \/ OnlyPart("heater") /\ HeaterNext
    \/ OnlyPart("check") /\ CheckNext
    \/ OnlyPart("history") /\ HistoryNext

FaultsSpec ==
    FaultsInit
    /\ [][FaultsNext]_<<part, vars, buttonVars, homingVars, heaterVars, checkVars,
                        historyVars>>
=============================================================================

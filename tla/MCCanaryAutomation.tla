------------------------- MODULE MCCanaryAutomation -------------------------
(* Instances of CanaryAutomation for TLC: one scope or two, in the order   *)
(* of the list, and one client.                                            *)
EXTENDS CanaryAutomation

CONSTANTS s1, s2, c

OneScope == <<s1>>
TwoScopes == <<s1, s2>>

(* To halve the states: at first every scope asks for the timer, and a     *)
(* canary without a time has a configuration that applies what the tick    *)
(* finds; publications and PUTs lead to the other cases.                   *)
TimerInit ==
    /\ Init
    /\ \A s \in Scopes : config[s] \in (IF release[s].startedAt = Nothing THEN {"APPLY"}
                                        ELSE {"OBSERVE", "APPLY"})
TimerSpec == TimerInit /\ [][Next]_vars /\ Fairness
=============================================================================

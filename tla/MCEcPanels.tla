----------------------------- MODULE MCEcPanels -----------------------------
(* EcPanels with two-sample charts, a log of three entries and a battery    *)
(* that is full after two readings.                                         *)
EXTENDS EcPanels

MCLoadTargets == {42, 53}
MCIdleTargets == {25, 28}
MCEcBst == {[charging |-> TRUE, remaining |-> 3000, rate |-> 0],
            [charging |-> FALSE, remaining |-> 500, rate |-> 100]}
MCEcTemps == {20, 44}
MCEcRpms == {1500}
MCEcFans == {[min_rpm |-> 0, max_rpm |-> 6000, on |-> 40, ramping |-> 42, max |-> 44],
             [min_rpm |-> 900, max_rpm |-> 5000, on |-> 20, ramping |-> 30, max |-> 50]}
MCUserRpms == {-7}
MCSeconds == {3}
MCMaxSteps == [mock |-> 6, ec |-> 3]
=============================================================================

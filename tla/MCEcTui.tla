------------------------------ MODULE MCEcTui ------------------------------
(* EcTui without the three domains that have no commands: their updaters    *)
(* share no state, and one takes its lock as the thermal updater does.      *)
EXTENDS EcTui

MCPlain == <<>>
=============================================================================

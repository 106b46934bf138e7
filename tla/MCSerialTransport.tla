-------------------------- MODULE MCSerialTransport -------------------------
(* Requests of two services; minRpm and maxRpm differ only in the variable *)
(* they name, which the reply does not repeat.                             *)
EXTENDS SerialTransport

MCService == [minRpm |-> "Thermal", maxRpm |-> "Thermal", tmp |-> "Thermal",
              bst |-> "Battery"]
MCVariant == [minRpm |-> "GetVar", maxRpm |-> "GetVar", tmp |-> "GetTmp",
              bst |-> "GetBst"]
=============================================================================

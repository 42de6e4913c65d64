-------------------------- MODULE MCEventIngestion --------------------------
(* Small instances of EventIngestion for TLC. *)
EXTENDS EventIngestion

AllFacts == {"fact", "plain", "end"}
=============================================================================

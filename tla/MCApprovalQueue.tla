--------------------------- MODULE MCApprovalQueue ---------------------------
(* Small instances of ApprovalQueue for TLC.                               *)
EXTENDS ApprovalQueue, TLC

CONSTANTS r1, r2

EveryStep == Steps \cup {"idle", "pause", "auto"}
=============================================================================

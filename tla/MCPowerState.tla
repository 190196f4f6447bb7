---------------------------- MODULE MCPowerState ----------------------------
(* TLC instances of PowerState; its state space is bounded by MaxLate.     *)
EXTENDS PowerState
=============================================================================

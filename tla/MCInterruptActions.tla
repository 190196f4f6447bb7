------------------------- MODULE MCInterruptActions -------------------------
(* TLC instances of InterruptActions, which is finite as it stands.        *)
EXTENDS InterruptActions
=============================================================================

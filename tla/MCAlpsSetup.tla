---------------------------- MODULE MCAlpsSetup ----------------------------
(* Every pad that PadsAssumption allows, whether the table lists it or not,*)
(* with any flags and with or without a trackstick.  A behaviour has one   *)
(* pad, so the run stands for every value of Pads.                         *)
EXTENDS AlpsSetup

AllPads == PadType
=============================================================================

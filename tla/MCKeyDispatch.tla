--------------------------- MODULE MCKeyDispatch ---------------------------
(* The keys that are treated specially, and those of the macros of the     *)
(* profile for Dell laptops (VoodooPS2Keyboard-Info.plist 187-200), whose  *)
(* Fn+F1 sends the codes of Win and P; and one that never sends a break.   *)
EXTENDS KeyDispatch

SomeKeys == <<"p", "ctrl", "shift", "alt", "f1", "plus", "insert", "delete", "win", "sleep", "hotkey">>

Macro(output, sequence) ==
    [output |-> output, mask |-> {}, compare |-> {{}}, sequence |-> sequence]
FnF1 == << Macro(Packet(TRUE, "mirror"), <<Packet(TRUE, "win"), Packet(TRUE, "p")>>),
           Macro(Packet(FALSE, "mirror"), <<Packet(FALSE, "win"), Packet(FALSE, "p")>>),
           Macro(Packet(FALSE, "mirror"), <<Packet(FALSE, "p"), Packet(FALSE, "win")>>) >>

TwoSettings ==
    { [backlight |-> TRUE, brightnessHack |-> TRUE, sleepDelay |-> TRUE, ejectDelay |-> TRUE],
      [backlight |-> FALSE, brightnessHack |-> TRUE, sleepDelay |-> FALSE, ejectDelay |-> FALSE] }

(* They are ordinary ones, as the proof of NothingStuck asks for. *)
ASSUME MacrosAreOrdinary == OrdinaryMacros
=============================================================================

-------------------------- MODULE MCKeyboardInput --------------------------
(* TLC instances of KeyboardInput: a plain key, the extended key with the  *)
(* same code, left shift (whose break code is AA), Pause, a breakless key. *)
EXTENDS KeyboardInput

PlainA == <<0, "a">>
ExtendedA == <<1, "a">>
LeftShift == <<0, "shift">>
Pause == <<1, "pause">>
FnKey == <<0, "fn">>
DecodedKeys == {PlainA, ExtendedA, LeftShift, Pause, FnKey}
FewKeys == {LeftShift, ExtendedA}
BreaklessKeys == {FnKey}
=============================================================================

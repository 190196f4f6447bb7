--------------------------- MODULE MCAlpsPacket ----------------------------
(* The packet assembly of ALPS, with a pad for each set of tests.  "first" *)
(* is a byte that the version's mask lets pass as a first one; the other   *)
(* kinds are bytes that do not (but for the mask 0):                       *)
(* 0x00, 0x80, 0x40, 0x08 and 0x4f.                                        *)
EXTENDS AlpsPacket

TheKinds == {"plain", "high", "forty", "eight", "stuffed", "first"}

Index == 1 .. P - 1
Normal == [i \in 0 .. P - 1 |-> IF i = 0 THEN "first" ELSE "plain"]

(* Version 3, mask and byte 0x8f. *)
V3 == [kinds |-> {"plain", "high", "eight", "first"}, first |-> {"first"}, bare |-> {"eight"},
       wrong |-> [i \in Index |-> {"high", "first"}], stuffed |-> {}, normal |-> Normal,
       parts |-> {"single", "first", "second", "stick"}, keeps |-> TRUE]

(* Version 3 of the Rushmore kind, mask and byte 0: alps.cpp:149.  Here    *)
(* and with version 5 the decoder's parts are left to version 3.           *)
Rushmore == [V3 EXCEPT !.kinds = {"plain", "high", "eight"}, !.first = TheKinds,
                       !.normal = [i \in 0 .. P - 1 |-> "plain"],
                       !.parts = {"single"}]

(* Version 2 with ALPS_PS2_INTERLEAVED, mask and byte 0xcf. *)
V2 == [V3 EXCEPT !.kinds = {"plain", "eight", "stuffed", "first"},
                 !.stuffed = {"stuffed", "first"}, !.parts = {"single"}]

(* Version 5, mask and byte 0xc8, and no test of a later byte. *)
V5 == [V3 EXCEPT !.kinds = {"plain", "eight", "first"}, !.wrong = [i \in Index |-> {}],
                 !.parts = {"single"}]

(* Version 7, mask and byte 0x48: alps_is_valid_package_v7. *)
V7 == [V3 EXCEPT !.kinds = {"plain", "forty", "eight", "first"},
                 !.wrong = [i \in Index |->
                     CASE i = 2 -> {"plain", "eight"} [] i = 3 -> {"plain", "forty", "eight"}
                       [] i = 5 -> {"forty", "first"} [] OTHER -> {}],
                 !.normal = [i \in 0 .. P - 1 |->
                     CASE i = 2 -> "forty" [] i \in {0, 3} -> "first" [] OTHER -> "plain"],
                 !.parts = {"single"}]

(* Version 8, mask and byte 0x18: alps_is_valid_package_ss4_v2.  A stick   *)
(* packet gives up the first packet that waits (alps.cpp:1341).            *)
V8 == [V3 EXCEPT !.kinds = {"plain", "eight", "first"}, !.bare = {},
                 !.wrong = [i \in Index |->
                     CASE i = 3 -> {"plain"} [] i = 5 -> {"first"} [] OTHER -> {}],
                 !.normal = [i \in 0 .. P - 1 |->
                     CASE i = 0 -> "first" [] i = 3 -> "eight" [] OTHER -> "plain"],
                 !.keeps = FALSE]

ThePads == {V2, V3, Rushmore, V5, V7, V8}
=============================================================================

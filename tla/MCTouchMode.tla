---------------------------- MODULE MCTouchMode ----------------------------
(* Settings as shipped (VoodooPS2Trackpad-Info.plist) with the system's    *)
(* defaults, and with what they leave off.                                 *)
EXTENDS TouchMode

Shipped == [clicking |-> TRUE, dragging |-> TRUE, draglock |-> FALSE, draglocktempmask |-> TRUE,
            rtap |-> TRUE, immediateclick |-> FALSE, palm_wt |-> FALSE, outzone_wt |-> FALSE,
            wsticky |-> FALSE, momentumscroll |-> TRUE, fakemiddle |-> FALSE, dragexitdelay |-> TRUE]
SomeSettings ==
    { Shipped,
      [Shipped EXCEPT !.fakemiddle = TRUE, !.momentumscroll = FALSE, !.draglocktempmask = FALSE,
                      !.outzone_wt = TRUE, !.palm_wt = TRUE, !.immediateclick = TRUE] }

Packet(z, fingers, buttons) == [z |-> z, fingers |-> fingers, buttons |-> buttons]
SomeButtons == { {}, {"left"}, {"left", "right"} }

(* Some pads report no finger with pressure. *)
SomePackets ==
    {Packet("none", 0, b) : b \in SomeButtons} \cup {Packet("touch", 1, b) : b \in { {}, {"left"} }} \cup
    {Packet("edge", 0, {}), Packet("touch", 0, {}), Packet("touch", 2, {}), Packet("touch", 3, {})}
SomeStickButtons == { {}, {"left"} }
=============================================================================

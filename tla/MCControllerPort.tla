-------------------------- MODULE MCControllerPort --------------------------
(***************************************************************************)
(* TLC instances of ControllerPort.  The programs are command lists the    *)
(* drivers build: a keyboard command, the enable command of the trackpad   *)
(* in both forms, its status request; and the commands used less.          *)
(***************************************************************************)
EXTENDS ControllerPort

Op(name) == [op |-> name]
Write(answer) == [op |-> "WriteDataPort", answer |-> answer]
SendMouse(answer) == [op |-> "SendMouseCommandAndCompareAck", answer |-> answer]
TransmitToMouse == [op |-> "WriteCommandPort", mouse |-> TRUE]

KeyboardCommand == <<Write(<<"ack">>), Op("ReadDataPortAndCompare")>>
TouchPadEnable == <<SendMouse(<<"ack">>)>>
LongForm == <<TransmitToMouse, Write(<<"ack">>), Op("ReadMouseDataPortAndCompare")>>
StatusRequest == <<SendMouse(<<"ack", "data">>), Op("ReadDataPort")>>
Others == <<Op("ModifyCommandByte"), Op("FlushDataPort"), Op("ReadMouseDataPort")>>

AllPrograms == {KeyboardCommand, TouchPadEnable, LongForm, StatusRequest, Others}
=============================================================================

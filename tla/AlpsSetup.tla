----------------------------- MODULE AlpsSetup -----------------------------
(***************************************************************************)
(* How the ALPS driver recognises the touchpad and sets it up: probe and   *)
(* identify, set_protocol, the initialisation of every protocol version,   *)
(* and the reset on sleep, stop and failure.  Each is a chain of requests, *)
(* sent one after the other; any of them may fail, and a failed one may    *)
(* have reached the pad or not.  Some calls look at the outcome, others    *)
(* drop it.                                                                *)
(*                                                                         *)
(* A routine is a function from the pad's state to its possible outcomes,  *)
(* [ok, s]: what the routine returns, and the state it leaves the pad in.  *)
(* A routine and all it calls run in one step.                             *)
(*                                                                         *)
(* The pad is external; its state s is kept as far as the routines change  *)
(* it.  Two of its fields are history: missed, a request has failed since  *)
(* the last reset and the caller did not look; bare, a register was        *)
(* accessed outside of command mode although nothing was missed.           *)
(***************************************************************************)
EXTENDS Naturals, Sequences, SequencesExt

CONSTANT Pads   \* the pads that may be found, see PadType

Versions == {"V1", "V2", "V3", "Rushmore", "V4", "V5", "V7", "V8"}
Flags == {"DUALPOINT", "PASS"}

(* version: what identify makes of the reports, or "unknown"; listed: it   *)
(* is by alps_model_data, whose flags are modelFlags; stick: has one.      *)
PadType == [version : Versions \cup {"unknown"}, listed : BOOLEAN,
            modelFlags : SUBSET Flags, stick : BOOLEAN]

ASSUME PadsAssumption == Pads \subseteq PadType

VARIABLES
    pad,        \* the pad on this machine
    s,          \* its state
    phase,      \* of the driver's life
    flags,      \* priv.flags
    pktsize,    \* priv.pktsize
    ok,         \* the last hw_init returned true
    found       \* "TrackStick detected..." has been logged

vars == <<pad, s, phase, flags, pktsize, ok, found>>

-----------------------------------------------------------------------------
(* The pad after power on or a reset. *)
Fresh == [cmd |-> FALSE,        \* in command mode
          at |-> "none",        \* the register addressed
          pass |-> FALSE,       \* passes commands through
          absolute |-> FALSE,   \* reports absolute positions
          tap |-> FALSE,        \* tap mode
          length |-> 3,         \* of the packets it sends
          stream |-> TRUE,      \* stream mode, as opposed to poll mode
          report |-> FALSE,     \* sends packets
          missed |-> FALSE,     \* history, see above
          bare |-> FALSE]       \* history

(* Ordinary commands; in command mode they are taken as nibbles of data.   *)
(* "setup" is a version's own sequence of sample rates and the like.       *)
Obey(t, command) ==
    IF t.cmd THEN t
    ELSE CASE command = "enable"  -> [t EXCEPT !.report = TRUE]
           [] command = "disable" -> [t EXCEPT !.report = FALSE]
           [] command = "poll"    -> [t EXCEPT !.stream = FALSE]
           [] command = "setup"   -> [t EXCEPT !.absolute = TRUE, !.length = 6]
           [] command = "compact" -> [t EXCEPT !.length = IF @ = 9 THEN 8 ELSE @]
           [] OTHER -> t

(* A write to the register addressed, as far as its bits are known. *)
Stored(t, bit) ==
    CASE t.at \in {"0008", "c2c8"} -> [t EXCEPT !.pass = bit]
      [] t.at = "c2c4"  -> [t EXCEPT !.absolute = bit, !.length = 6]
      [] t.at = "0004"  -> [t EXCEPT !.absolute = bit, !.length = IF pad.version = "V4" THEN 9 ELSE 6]
      [] OTHER -> t

-----------------------------------------------------------------------------
(* submitRequestAndBlock, and commandsCount compared to what was sent: a   *)
(* request that takes the pad from t to u.                                 *)
Request(t, u) == {[ok |-> TRUE, s |-> u], [ok |-> FALSE, s |-> t], [ok |-> FALSE, s |-> u]}

Return(t, result) == {[ok |-> result, s |-> t]}

(* One routine, then if it returned true the next. *)
AndThen(outcomes, F(_)) ==
    {o \in outcomes : ~o.ok} \cup UNION {F(o.s) : o \in {p \in outcomes : p.ok}}

(* One routine, its result dropped, then the next. *)
Noted(o) == IF o.ok THEN o.s ELSE [o.s EXCEPT !.missed = TRUE]
Regardless(outcomes, F(_)) == UNION {F(Noted(o)) : o \in outcomes}

(* One routine, then the next; true if both are. *)
AndAlso(outcomes, F(_)) ==
    UNION {{[q EXCEPT !.ok = @ /\ o.ok] : q \in F(o.s)} : o \in outcomes}

Dropped(outcomes) == Regardless(outcomes, LAMBDA t : Return(t, TRUE))

(* ps2_command and ps2_command_short, and runs of them. *)
Ps2Command(t, command) == Dropped(Request(t, Obey(t, command)))
Ps2Commands(t, commands) ==
    FoldLeft(LAMBDA outs, c : AndThen(outs, LAMBDA u : Ps2Command(u, c)), Return(t, TRUE), commands)

ResetMouse(t) == Dropped(Request(t, Fresh))

-----------------------------------------------------------------------------
(* Command mode.  alps_rpt_cmd with three times EC; leaving it cannot be   *)
(* seen to fail.                                                           *)
EnterCommandMode(t) == Request(t, [t EXCEPT !.cmd = TRUE, !.at = "none"])
ExitCommandMode(t) == Dropped(Request(t, [t EXCEPT !.cmd = FALSE, !.at = "none", !.stream = TRUE]))

(* alps_command_mode_set_addr, the nibbles of one address: outside of      *)
(* command mode the pad takes them for ordinary commands.                  *)
SetAddr(t, reg) ==
    IF t.cmd THEN Request(t, [t EXCEPT !.at = reg]) \cup Return([t EXCEPT !.at = "none"], FALSE)
    ELSE Request(t, [t EXCEPT !.bare = @ \/ ~t.missed])

(* The address read back must be the one sent. *)
ReadReg(t, reg) ==
    AndThen(SetAddr(t, reg), LAMBDA u :
        IF u.at = reg THEN Request(u, u) ELSE Return(u, FALSE))

(* alps_command_mode_write_reg(value): to the register addressed last. *)
WriteHere(t, bit) == Request(t, IF t.cmd THEN Stored(t, bit) ELSE [t EXCEPT !.bare = @ \/ ~t.missed])
WriteReg(t, reg, bit) == AndThen(SetAddr(t, reg), LAMBDA u : WriteHere(u, bit))

ReadWriteReg(t, reg) == AndThen(ReadReg(t, reg), LAMBDA u : WriteHere(u, TRUE))

InTurn(outcomes, Access(_, _), regs) ==
    FoldLeft(LAMBDA outs, r : AndThen(outs, LAMBDA u : Access(u, r)), outcomes, regs)
Set(t, reg) == WriteReg(t, reg, TRUE)

-----------------------------------------------------------------------------
(* Passthrough mode and the trackstick. *)
PassthroughV2(t, on) == Request(t, [t EXCEPT !.pass = on, !.report = FALSE])

PassthroughV3(t, reg, on) ==
    AndThen(EnterCommandMode(t), LAMBDA u :
        AndAlso(AndThen(ReadReg(u, reg), LAMBDA v : WriteHere(v, on)), ExitCommandMode))

\* Mutant: an error returns at once, in command mode.
ProbeTrackstickReturns(t, reg) ==
    AndThen(EnterCommandMode(t), LAMBDA u :
        AndThen(ReadReg(u, reg), LAMBDA v :
            AndAlso(Return(v, pad.stick), ExitCommandMode)))

(* alps_probe_trackstick_v3_v7: true if there is one. *)
ProbeTrackstick(t, reg) ==
    AndAlso(AndThen(EnterCommandMode(t), LAMBDA u :
                AndThen(ReadReg(u, reg), LAMBDA v : Return(v, pad.stick))),
            ExitCommandMode)

(* alps_setup_trackstick_v3: true unless it returns kIOReturnIOError.  A   *)
(* failed E7 report gives kIOReturnNoDevice, and a failure to set the      *)
(* packet format -kIOReturnIOError.                                        *)
MagicE6(t) ==
    AndThen(Request(t, t), LAMBDA u :               \* three times E6
        AndThen(Request(u, u), LAMBDA v : Request(v, v)))   \* nibbles 9 and 4

PacketFormat(t, reg) ==
    AndThen(EnterCommandMode(t), LAMBDA u :
        AndThen(WriteReg(u, reg, FALSE), ExitCommandMode))

SetupTrackstick(t, reg) ==
    AndThen(PassthroughV3(t, reg, TRUE), LAMBDA u :
        AndAlso(
            UNION {IF o.ok
                   THEN AndThen(MagicE6(o.s), LAMBDA v :
                           {[p EXCEPT !.ok = TRUE] : p \in PacketFormat(v, reg)})
                   ELSE Return(o.s, TRUE) : o \in Request(u, u)},
            LAMBDA v : PassthroughV3(v, reg, FALSE)))

-----------------------------------------------------------------------------
\* Mutant: an error does not make hw_init fail.
ConcludeAnyway(outcomes, commands) ==
    UNION {AndThen(ExitCommandMode(o.s), LAMBDA t : Ps2Commands(t, commands)) : o \in outcomes}

(* The hw_init of each version.  All those with registers end alike: leave *)
(* command mode, and if all went well send the last commands.              *)
Conclude(outcomes, commands) ==
    UNION {AndThen(ExitCommandMode(o.s), LAMBDA t :
               IF o.ok THEN Ps2Commands(t, commands) ELSE Return(t, FALSE)) : o \in outcomes}

TapMode(t) ==
    AndThen(Request(t, [t EXCEPT !.tap = TRUE, !.report = FALSE]), LAMBDA u :
        Request(u, Obey(u, "disable")))             \* alps_get_status

(* Four times F5 and F4; then poll mode, so that motion is not in the way. *)
AbsoluteModeV1V2(t) == Ps2Commands(t, <<"disable", "setup", "enable", "poll">>)

Pass(t, on) == IF "PASS" \in flags THEN PassthroughV2(t, on) ELSE Return(t, TRUE)

HwInitV1V2(t) ==
    AndThen(Pass(t, TRUE), LAMBDA u :
        AndThen(TapMode(u), LAMBDA v :
            AndThen(AbsoluteModeV1V2(v), LAMBDA w :
                AndThen(Pass(w, FALSE), ExitCommandMode))))     \* stream mode

(* hw_init_v3 and hw_init_rushmore_v3: the trackstick, then the pad. *)
Trackstick(t, reg) ==
    IF "DUALPOINT" \in flags THEN SetupTrackstick(t, reg) ELSE Return(t, TRUE)

\* Mutant: command mode is entered before the trackstick is set up.
HwInitV3EntersFirst(t) ==
    LET entered == AndThen(EnterCommandMode(t), LAMBDA u : Trackstick(u, "0008"))
    IN  Conclude(InTurn(entered, ReadWriteReg, <<"0004", "0006">>), <<"rate", "enable">>)

HwInitV3(t) ==
    LET entered == AndThen(Trackstick(t, "0008"), EnterCommandMode)
        general == InTurn(entered, ReadWriteReg, <<"0004", "0006", "0007", "0144", "0159">>)
        ReadThenSet(u, r) == AndThen(ReadReg(u, r), LAMBDA v : Set(v, r))
    IN  Conclude(InTurn(general, ReadThenSet, <<"0163", "0162">>), <<"rate", "enable">>)

HwInitRushmore(t) ==
    LET entered == AndThen(Trackstick(t, "c2c8"), EnterCommandMode)
        general == AndThen(InTurn(entered, ReadReg, <<"c2d9">>), LAMBDA u : Set(u, "c2cb"))
        speed == InTurn(InTurn(general, ReadWriteReg, <<"c2c6">>), Set, <<"c2c9">>)
    IN  Conclude(InTurn(speed, ReadWriteReg, <<"c2c4">>), <<"enable">>)

HwInitV4(t) ==
    LET moded == InTurn(EnterCommandMode(t), ReadWriteReg, <<"0004">>)
        tuned == InTurn(moded, Set, <<"0007", "0149", "0160", "017f", "0151", "0168", "014a", "0161">>)
    IN  Conclude(tuned, <<"compact", "rate", "enable">>)

(* A failed read gives -1, which as a bool is true: it is not noticed. *)
Resolution(t) ==
    {[o EXCEPT !.ok = TRUE] : o \in InTurn(Return(t, TRUE), ReadReg, <<"c397", "c398">>)}

HwInitV7(t) ==
    LET sized == AndThen(InTurn(EnterCommandMode(t), ReadReg, <<"c2d9">>), Resolution)
        general == InTurn(sized, Set, <<"c2c9">>)
    IN  Conclude(InTurn(general, ReadWriteReg, <<"c2c4">>), <<"rate", "enable">>)

HwInitDolphin(t) ==
    AndThen(ExitCommandMode(t), LAMBDA u : Ps2Commands(u, <<"setup", "enable">>))

HwInitSS4(t) ==
    LET moded == AndThen(ExitCommandMode(t), LAMBDA u : Ps2Commands(u, <<"setup">>))
        entered == Regardless(AndThen(moded, ExitCommandMode), EnterCommandMode)
        noise == Regardless(entered, LAMBDA u : Set(u, "001D"))
    IN  Regardless(noise, LAMBDA u :
            AndThen(ExitCommandMode(u), LAMBDA v : Ps2Commands(v, <<"enable">>)))

HwInit(t) ==
    CASE pad.version \in {"V1", "V2"} -> HwInitV1V2(t)
      [] pad.version = "V3"           -> HwInitV3(t)
      [] pad.version = "Rushmore"     -> HwInitRushmore(t)
      [] pad.version = "V4"           -> HwInitV4(t)
      [] pad.version = "V5"           -> HwInitDolphin(t)
      [] pad.version = "V7"           -> HwInitV7(t)
      [] pad.version = "V8"           -> HwInitSS4(t)

(* A failure ends with a reset, whose own outcome nobody looks at. *)
DeviceSpecificInit(t) ==
    UNION {IF o.ok THEN {o} ELSE {[q EXCEPT !.ok = FALSE] : q \in ResetMouse(o.s)} : o \in HwInit(t)}

-----------------------------------------------------------------------------
(* Recognising the pad.  The flags that set_protocol ends with, and the    *)
(* state; it has found a trackstick if the probe has.                      *)
StickReg == IF pad.version = "V3" THEN "0008" ELSE "c2c8"

(* alps_dolphin_get_device_area; the commands in between are in command    *)
(* mode, if it was entered.                                                *)
DolphinArea(t) ==
    AndThen(Dropped(EnterCommandMode(t)), LAMBDA u :
        AndThen(Ps2Commands(u, <<"poll", "rate">>), ExitCommandMode))

SetProtocol(t) ==
    CASE pad.version \in {"V3", "Rushmore", "V7"} ->
            {[f |-> IF o.ok THEN {"DUALPOINT"} ELSE {}, s |-> o.s, found |-> o.ok] :
             o \in ProbeTrackstick(t, StickReg)}
      [] pad.version = "V5" ->
            {[f |-> {}, s |-> o.s, found |-> FALSE] : o \in DolphinArea(t)}
      [] pad.version = "V8" ->                      \* alps_set_defaults_ss4_v2
            {[f |-> IF pad.stick THEN {"DUALPOINT"} ELSE {}, s |-> o.s, found |-> FALSE] :
             o \in AndThen(ExitCommandMode(t), LAMBDA u : Ps2Commands(u, <<"poll">>))}
      [] OTHER -> {[f |-> {"DUALPOINT"}, s |-> t, found |-> FALSE]}

(* The E6 report is not decisive.  The E7 and the EC report are; the       *)
(* latter enters command mode, and is followed by leaving it if it was     *)
(* answered.                                                               *)
Reports(t) ==
    AndThen(Request(t, t), LAMBDA u : AndThen(EnterCommandMode(u), ExitCommandMode))

(* identify.  matchTable puts the table's flags in place of those that     *)
(* set_protocol has just found.                                            *)
Identify(t) ==
    UNION {IF ~o.ok \/ pad.version = "unknown"
           THEN {[ok |-> FALSE, s |-> o.s, f |-> flags, found |-> FALSE]}
           ELSE {[ok |-> TRUE, s |-> p.s, found |-> p.found,
                  f |-> IF pad.listed THEN pad.modelFlags ELSE p.f] : p \in SetProtocol(o.s)} :
           o \in Reports(t)}

-----------------------------------------------------------------------------
(* An earlier driver or the firmware may have left the pad in use. *)
Init ==
    /\ pad \in Pads
    /\ s \in {Fresh, [Fresh EXCEPT !.report = TRUE], [Fresh EXCEPT !.cmd = TRUE]}
    /\ phase = "new" /\ flags = {} /\ pktsize = 6 /\ ok = FALSE /\ found = FALSE

Probe ==
    /\ phase = "new"
    /\ \E o \in UNION {Identify(r.s) : r \in ResetMouse(s)} :
          /\ phase' = IF o.ok THEN "probed" ELSE "rejected"
          /\ s' = o.s /\ flags' = o.f /\ found' = o.found
    /\ UNCHANGED <<pad, pktsize, ok>>

\* Mutant: the size of the format that V4 pads begin with.
PacketSizeRaw == IF pad.version = "V4" THEN 9 ELSE 6

PacketSize == IF pad.version = "V4" THEN 8 ELSE 6

(* deviceSpecificInit, as start and initTouchPad call it. *)
SetUp ==
    /\ pktsize' = PacketSize
    /\ \E o \in DeviceSpecificInit(s) : s' = o.s /\ ok' = o.ok
    /\ UNCHANGED <<pad, flags, found>>

Start ==
    /\ phase = "probed"
    /\ SetUp
    /\ phase' = IF ok' THEN "running" ELSE "failed"

(* setDevicePowerState: waking drops what deviceSpecificInit returns. *)
Sleep ==
    /\ phase = "running" /\ phase' = "asleep"
    /\ \E r \in ResetMouse(s) : s' = r.s
    /\ UNCHANGED <<pad, flags, pktsize, ok, found>>

Wake ==
    /\ phase = "asleep" /\ phase' = "running"
    /\ SetUp

(* The pad may lose power while the machine sleeps. *)
LosePower ==
    /\ phase = "asleep" /\ s' = Fresh
    /\ UNCHANGED <<pad, phase, flags, pktsize, ok, found>>

Stop ==
    /\ phase \in {"running", "asleep"} /\ phase' = "stopped"
    /\ \E r \in ResetMouse(s) : s' = r.s
    /\ UNCHANGED <<pad, flags, pktsize, ok, found>>

(* The driver is loaded again, as a new object. *)
Reload ==
    /\ phase \in {"rejected", "failed", "stopped"} /\ phase' = "new"
    /\ flags' = {} /\ pktsize' = 6 /\ ok' = FALSE /\ found' = FALSE
    /\ UNCHANGED <<pad, s>>

Next == Probe \/ Start \/ Sleep \/ Wake \/ LosePower \/ Stop \/ Reload

Spec == Init /\ [][Next]_vars

-----------------------------------------------------------------------------
(* TypeOK: the driver's fields and the pad's state keep their types; the   *)
(* packet size is one of those the packets can have.                       *)
TypeOK ==
    /\ pad \in Pads
    /\ phase \in {"new", "probed", "rejected", "running", "asleep", "failed", "stopped"}
    /\ flags \subseteq Flags /\ pktsize \in {6, 8}
    /\ ok \in BOOLEAN /\ found \in BOOLEAN
    /\ s \in [cmd : BOOLEAN, at : STRING, pass : BOOLEAN, absolute : BOOLEAN, tap : BOOLEAN,
              length : {3, 6, 8, 9}, stream : BOOLEAN, report : BOOLEAN,
              missed : BOOLEAN, bare : BOOLEAN]

(* SetUpIsComplete: if hw_init returned true and none of the results it    *)
(* drops was a failure, the pad is set up: out of command and passthrough  *)
(* mode, in stream mode, with absolute positions in packets of the size    *)
(* interruptOccurred counts to.  Whatever failed on the way, in the middle *)
(* of a register or a mode, is seen by someone and makes it return false.  *)
SetUpIsComplete ==
    phase = "running" /\ ok /\ ~s.missed =>
        /\ ~s.cmd /\ ~s.pass
        /\ s.stream /\ s.absolute /\ s.length = pktsize
        /\ pad.version \in {"V1", "V2"} => s.tap
        /\ "PASS" \notin flags => s.report

(* RegistersInCommandMode: "Must be in command mode when calling this      *)
(* function" (alps_absolute_mode_v4): unless a failure was missed, no      *)
(* register is addressed or written outside of command mode, though probe, *)
(* trackstick, passthrough mode and hw_init each enter and leave it.       *)
RegistersInCommandMode == ~s.bare

(* CommandModeIsLeft: whichever request fails, probe, start, sleep, wake   *)
(* and stop leave the pad out of command mode, unless the failure that     *)
(* keeps it there is one nobody looks at.  Only identify may leave it in,  *)
(* having rejected the pad because the EC report failed.                   *)
CommandModeIsLeft == s.cmd /\ ~s.missed => phase \in {"new", "rejected"}

(* SilentWhenUnused: a pad that is asleep, stopped, failed to start or is  *)
(* not yet started sends no packets, and one that failed or sleeps is not  *)
(* left half set up, unless the reset was lost.                            *)
SilentWhenUnused ==
    ~s.missed =>
        /\ phase \in {"asleep", "stopped", "failed"} => s = Fresh
        /\ phase = "running" /\ ~ok => s = Fresh
        /\ phase = "probed" => ~s.report /\ ~s.pass /\ ~s.absolute

(* LeftInOrder: whichever request fails, a pad nobody uses is neither in   *)
(* command mode nor talking.                                               *)
LeftInOrder == CommandModeIsLeft /\ SilentWhenUnused

(* EnableStartsReporting: setTouchPadEnable "instructs the trackpad to     *)
(* start or stop the reporting of data packets"; so after enabling, with   *)
(* no failure at all, it reports.  Not for the pads with a pass-through    *)
(* port: leaving passthrough mode ends with F5, which disables reporting,  *)
(* and only stream mode is set after it.                                   *)
EnableStartsReporting == phase = "running" /\ ok /\ ~s.missed => s.report

(* TrackstickIsKnown: ALPS_DUALPOINT says "touchpad has trackstick"; not   *)
(* if the pad is listed, because the table's flags replace what the probe  *)
(* has found.                                                              *)
TrackstickIsKnown == found => "DUALPOINT" \in flags
=============================================================================

---------------------------- MODULE KeyDispatch ----------------------------
(***************************************************************************)
(* ApplePS2Keyboard on the work loop: packetReady hands key packets to     *)
(* macro inversion, which holds back what may be the beginning of a        *)
(* sequence until more packets or a timer decide, and then to the          *)
(* translation, dispatchKeyboardEventWithPacket, which treats some keys    *)
(* specially, depending on the modifiers that are down, and tells the HID  *)
(* system of the others.  A second timer belongs to the sleep and eject    *)
(* keys.                                                                   *)
(*                                                                         *)
(* A packet says of one key that it goes down or up.  What comes before    *)
(* (scan codes, the key bit vector's filter) is in KeyboardInput; the ring *)
(* buffer is a FIFO that does not overflow here.  Keys are those of which  *)
(* the code makes a difference, named for what they are: "insert" is       *)
(* mapped to eject, "mirror" to nothing special, and "f1" to itself or to  *)
(* "mirror", as the function key mode says.  The state of the work loop    *)
(* side is one record, and each routine an operator on it.                 *)
(***************************************************************************)
EXTENDS Naturals, Sequences, SequencesExt, FiniteSetsExt

CONSTANTS
    KeyOrder,   \* the keys, in the order of their scan codes
    AcpiKeys,   \* keys that ACPI notifications report
    Breakless,  \* keys with kBreaklessKey in _PS2flags
    Macros,     \* _macroInversion: [output, mask, compare, sequence]; compare are the sets
                \* of the mask's modifiers that fit, one of them or, for 0xFFFF, all but {}
    Settings,   \* possible settings: [backlight, brightnessHack, sleepDelay, ejectDelay]
    Capacity,   \* bound: packets in the ring buffer
    Prompt,     \* has everything been dealt with before a wake?
    MaxSent     \* bound: events

VARIABLES
    held,       \* keys that are really down, on the keyboard or for ACPI
    keyBits,    \* _keyBitVector
    ring,       \* packets in _ringBuffer
    asleep,     \* between kPS2C_DisableDevice and kPS2C_EnableDevice
    inTimer,    \* onMacroTimer is running, inside the gate
    fkeymode,   \* _fkeymode
    settings,   \* the other properties
    s,          \* the driver's state on the work loop, and its history
    sent        \* events so far

vars == <<held, keyBits, ring, asleep, inTimer, fkeymode, settings, s, sent>>

Keys == ToSet(KeyOrder)
Modifiers == {"ctrl", "shift", "alt", "win"}    \* keys with a modifier number in _PS2flags
Packet(down, key) == [down |-> down, key |-> key]
Packets == [down : BOOLEAN, key : Keys \cup AcpiKeys]

ASSUME BoundsAssumption == Capacity \in Nat \ {0} /\ MaxSent \in Nat /\ Prompt \in BOOLEAN
ASSUME KeysAssumption == KeyOrder \in Seq(Keys)
ASSUME MacrosAssumption ==
    Macros \in Seq([output : Packets, mask : SUBSET Modifiers,
                    compare : SUBSET SUBSET Modifiers, sequence : Seq(Packets)])

Init ==
    /\ held = {} /\ keyBits = {} /\ ring = <<>>
    /\ asleep = FALSE /\ inTimer = FALSE /\ fkeymode = FALSE
    /\ settings \in Settings
    /\ s = [modifiers |-> {},       \* _PS2modifierState
            macro |-> <<>>,         \* _macroBuffer, up to _macroCurrent
            macroTimer |-> FALSE,   \* is _macroTimer pending?
            timer |-> FALSE,        \* is _sleepEjectTimer pending?
            timerFunc |-> "sleep",  \* _timerFunc
            down |-> {},            \* keys the HID system has been told are down
            made |-> {},            \* history: keys whose make code was translated last
            told |-> [k \in Keys \cup AcpiKeys |-> "none"],
                                    \* history: what a key's last make code was told as
            inverted |-> {},        \* history: keys whose make code a macro has taken
            crossed |-> {},         \* history: keys whose make and break were not alike
            owed |-> <<>>,          \* history: packets taken but not translated
            disorder |-> FALSE]     \* history: was a packet translated out of turn?
    /\ sent = 0

-----------------------------------------------------------------------------
(* dispatchKeyboardEventWithPacket, step by step. *)

(* _PS2ToPS2Map, with the function keys remapped by loadCustomPS2Map. *)
Mapped(key) == IF key = "f1" /\ ~fkeymode THEN "mirror" ELSE key

TrackModifiers(t, p) ==
    IF p.key \notin Modifiers THEN t
    ELSE [t EXCEPT !.modifiers = IF p.down THEN @ \cup {p.key} ELSE @ \ {p.key}]

Tell(t, key, down) == [t EXCEPT !.down = IF down THEN @ \cup {key} ELSE @ \ {key}]

(* How a key code is treated, with the modifiers that are down now.        *)
Way(t, code) ==
    LET Chord(m) == m \subseteq t.modifiers
        backlight == settings.backlight /\ Chord({"ctrl", "alt"})
    IN  CASE code = "plus" /\ backlight -> "backlight"
          [] code = "plus" /\ ~backlight /\ settings.brightnessHack /\ Chord({"ctrl", "shift"})
                -> "brightness"
          [] code = "delete" /\ Chord({"ctrl", "alt"}) -> "salute"
          [] code \in {"sleep", "prtsc"} -> code
          [] OTHER -> "plain"

(* History: a key is crossed if its code, now that it goes up (or down     *)
(* again), is not told as it was when it went down, if that was told at    *)
(* all; if the delay of the eject key goes on; or if a macro has taken but *)
(* one of its two codes.                                                   *)
Cross(t, keys) == [t EXCEPT !.crossed = @ \cup keys]

ToldAs(t, code) ==
    CASE Way(t, code) = "brightness" -> "brightness"
      [] Way(t, code) = "plain" -> IF code = "insert" /\ t.modifiers = {} THEN "eject" ELSE code
      [] OTHER -> "none"

Otherwise(t, key, now) ==
    /\ key \in t.made /\ t.told[key] \notin {"none", now}
    /\ key = "insert" => t.timer /\ t.timerFunc = "eject" /\ now # "eject"

Translated(t, p) ==
    LET now == ToldAs(t, Mapped(p.key))
        u == IF Otherwise(t, p.key, now) \/ p.key \in t.inverted THEN Cross(t, {p.key}) ELSE t
    IN  [u EXCEPT !.made = IF p.down THEN @ \cup {p.key} ELSE @ \ {p.key},
                  !.told = IF p.down THEN [@ EXCEPT ![p.key] = now] ELSE @,
                  !.inverted = @ \ {p.key}]

(* Ctrl and Shift are pulled up around the brightness key, if they are down*)
(* for the key bit vector.                                                 *)
BrightnessHack(t, down) ==
    LET pulled == (IF "win" \in t.modifiers THEN {"ctrl"} ELSE {"ctrl", "shift"}) \cap keyBits
        up == [t EXCEPT !.down = @ \ pulled]
    IN  [Tell(up, "brightness", down) EXCEPT !.down = @ \cup pulled]

(* Ctrl+Alt+Delete is the power button, pressed and released as the key    *)
(* goes up, with Ctrl and Alt up.                                          *)
ThreeFingerSalute(t, down) == IF down THEN t ELSE [t EXCEPT !.down = @ \ {"alt", "ctrl"}]

(* Sleep, which leaves the keyboard as it is, or the eject key. *)
OnSleepEjectTimer(t) == IF t.timerFunc = "eject" THEN Tell(t, "insert", TRUE) ELSE t

\* Mutant: letting the sleep key go does not cancel the timer.
SleepKeyGoesOn(t, down) ==
    IF ~down THEN t
    ELSE IF fkeymode \/ ~settings.sleepDelay
    THEN OnSleepEjectTimer([t EXCEPT !.timerFunc = "sleep"])
    ELSE [t EXCEPT !.timerFunc = "sleep", !.timer = TRUE]

SleepKey(t, down) ==
    IF ~down THEN [t EXCEPT !.timer = FALSE]
    ELSE IF fkeymode \/ ~settings.sleepDelay
    THEN OnSleepEjectTimer([t EXCEPT !.timerFunc = "sleep"])
    ELSE [t EXCEPT !.timerFunc = "sleep", !.timer = TRUE]

(* The special cases of key codes: the state after them, and whether they  *)
(* have swallowed the key ("keyCode = 0").  What the swallowed keys do     *)
(* elsewhere (backlight level, the touchpad and function key toggles) is   *)
(* left out.                                                               *)
SpecialKey(t, code, down) ==
    LET way == Way(t, code)
        Swallow(u) == [s |-> u, swallowed |-> TRUE]
    IN  CASE way = "brightness" -> Swallow(BrightnessHack(t, down))
          [] way = "salute" -> Swallow(ThreeFingerSalute(t, down))
          [] way = "sleep" -> Swallow(SleepKey(t, down))
          [] way \in {"backlight", "prtsc"} -> Swallow(t)
          [] OTHER -> [s |-> t, swallowed |-> FALSE]

(* The eject key without modifiers is delayed: its make code is eaten. *)
EjectKey(t, down) ==
    IF t.modifiers # {} THEN [s |-> t, swallowed |-> FALSE]
    ELSE IF ~down THEN [s |-> [t EXCEPT !.timer = FALSE], swallowed |-> FALSE]
    ELSE LET u == [t EXCEPT !.timerFunc = "eject"]
         IN  [s |-> IF settings.ejectDelay THEN [u EXCEPT !.timer = TRUE] ELSE OnSleepEjectTimer(u),
              swallowed |-> TRUE]

(* "dispatch to HID system": a breakless key goes down and up at once, and *)
(* no break code of it is told.  Caps Lock and the LANG keys, which go down*)
(* and up at once too, are left out.                                       *)
ToHID(t, p, code) ==
    IF p.key \notin Breakless THEN Tell(t, code, p.down)
    ELSE IF p.down THEN Tell(t, code, FALSE) ELSE t

Dispatch(t, p) ==
    LET code == Mapped(p.key)
        r == SpecialKey(Translated(TrackModifiers(t, p), p), code, p.down)
        e == IF code = "insert" THEN EjectKey(r.s, p.down) ELSE r
    IN  IF e.swallowed THEN e.s ELSE ToHID(e.s, p, code)

-----------------------------------------------------------------------------
(* Macro inversion. *)

(* History: the packet whose turn it should be is translated. *)
HandOn(t, p) ==
    LET inTurn == t.owed # <<>> /\ Head(t.owed) = p
    IN  Dispatch(IF inTurn THEN [t EXCEPT !.owed = Tail(@)] ELSE [t EXCEPT !.disorder = TRUE], p)

HandOnAll(t) ==
    LET after[i \in 0 .. Len(t.macro)] ==
            IF i = 0 THEN t ELSE HandOn(after[i - 1], t.macro[i])
    IN  after[Len(t.macro)]

DispatchInvertBuffer(t) == [HandOnAll(t) EXCEPT !.macro = <<>>, !.macroTimer = FALSE]

(* The macros that q may be, or be the beginning of; modifiers only matter *)
(* to a whole one.                                                         *)
Candidates(t, q) ==
    {i \in DOMAIN Macros :
        /\ IsPrefix(q, Macros[i].sequence)
        /\ Len(q) = Len(Macros[i].sequence) =>
              Macros[i].mask \cap t.modifiers \in Macros[i].compare}

\* Mutant: the macro buffer is not emptied after a match.
InvertMacroKeeps(t, q, output) == [Dispatch(t, output) EXCEPT !.macro = q, !.macroTimer = FALSE]

(* A whole sequence q becomes one packet.  History: a macro that takes     *)
(* break codes of keys whose make codes it has not taken, or make codes of *)
(* keys that are down already, crosses them.                               *)
InvertMacro(t, q, output) ==
    LET keys(down) == {q[i].key : i \in {j \in DOMAIN q : q[j].down = down}}
        u == [Cross(t, (keys(FALSE) \ t.inverted) \cup (keys(TRUE) \cap t.made)) EXCEPT
                 !.inverted = (@ \ keys(FALSE)) \cup keys(TRUE),
                 !.disorder = @ \/ t.owed # q, !.owed = <<>>]
    IN  [Dispatch(u, output) EXCEPT !.macro = <<>>, !.macroTimer = FALSE]

\* Mutant: what is held back is forgotten when the next packet does not fit.
NoMatchForgets(t, p) == HandOn([t EXCEPT !.macro = <<>>, !.macroTimer = FALSE], p)

(* "no match, so... empty macro buffer that may have been existing" *)
NoMatch(t, p) == HandOn(DispatchInvertBuffer(t), p)

(* invertMacros, and what packetReady does with a packet it does not take. *)
(* late: did the packet come more than _macroMaxTime after the last one?   *)
TakePacket(t, p, late) ==
    LET u == IF late THEN DispatchInvertBuffer([t EXCEPT !.owed = Append(@, p)])
             ELSE [t EXCEPT !.owed = Append(@, p)]
        q == Append(u.macro, p)
        c == Candidates(u, q)
        macro == Macros[Min(c)]
    IN  IF c = {} THEN NoMatch(u, p)
        ELSE IF Len(q) = Len(macro.sequence) THEN InvertMacro(u, q, macro.output)
        ELSE [u EXCEPT !.macro = q, !.macroTimer = TRUE]

Lateness(t) == IF t.macro = <<>> THEN {FALSE} ELSE BOOLEAN

-----------------------------------------------------------------------------
(* The keyboard, and interruptOccurred for whole key packets. *)
Event == sent < MaxSent /\ sent' = sent + 1

Arrives(p) ==
    IF asleep THEN UNCHANGED <<keyBits, ring>>
    ELSE /\ Len(ring) < Capacity
         /\ ring' = Append(ring, p)
         /\ keyBits' = IF p.down THEN keyBits \cup ({p.key} \ Breakless) ELSE keyBits \ {p.key}

Press(k) ==
    /\ Event /\ k \notin held
    /\ held' = held \cup {k}
    /\ Arrives(Packet(TRUE, k))
    /\ UNCHANGED <<asleep, inTimer, fkeymode, settings, s>>

Release(k) ==
    /\ Event /\ k \in held
    /\ held' = held \ {k}
    /\ IF k \in Breakless THEN UNCHANGED <<keyBits, ring>> ELSE Arrives(Packet(FALSE, k))
    /\ UNCHANGED <<asleep, inTimer, fkeymode, settings, s>>

(* message, of a key that ACPI reports, past the key bit vector: a make or *)
(* a break code, in whatever state the keyboard is,                        *)
MessageOne(k) ==
    /\ Event
    /\ held' = IF k \in held THEN held \ {k} ELSE held \cup {k}
    /\ \E late \in Lateness(s) : s' = TakePacket(s, Packet(k \notin held, k), late)
    /\ UNCHANGED <<keyBits, ring, asleep, inTimer, fkeymode, settings>>

(* or a make and a break code at once. *)
Message(k) ==
    /\ Event
    /\ \E l1 \in Lateness(s) :
          LET t == TakePacket(s, Packet(TRUE, k), l1)
          IN  \E l2 \in Lateness(t) : s' = TakePacket(t, Packet(FALSE, k), l2)
    /\ UNCHANGED <<held, keyBits, ring, asleep, inTimer, fkeymode, settings>>

-----------------------------------------------------------------------------
(* The work loop. *)
PacketReady ==
    /\ ring # <<>>
    /\ ring' = Tail(ring)
    /\ \E late \in Lateness(s) : s' = TakePacket(s, Head(ring), late)
    /\ UNCHANGED <<held, keyBits, asleep, inTimer, fkeymode, settings, sent>>

(* onMacroTimer calls packetReady first, while packets may go on arriving. *)
MacroTimerFires ==
    /\ s.macroTimer /\ ~inTimer
    /\ inTimer' = TRUE
    /\ s' = [s EXCEPT !.macroTimer = FALSE]
    /\ UNCHANGED <<held, keyBits, ring, asleep, fkeymode, settings, sent>>

\* Mutant: the time of the last packet is not looked at, nor is the buffer.
MacroTimerOnlyReads ==
    /\ inTimer /\ ring = <<>>
    /\ inTimer' = FALSE
    /\ UNCHANGED <<held, keyBits, ring, asleep, fkeymode, settings, s, sent>>

(* Then time is up, unless a packet that came meanwhile has set the timer  *)
(* again.                                                                  *)
MacroTimerEnds ==
    /\ inTimer /\ ring = <<>>
    /\ inTimer' = FALSE
    /\ \E expired \in IF s.macroTimer THEN BOOLEAN ELSE {TRUE} :
          s' = IF expired THEN DispatchInvertBuffer(s) ELSE s
    /\ UNCHANGED <<held, keyBits, ring, asleep, fkeymode, settings, sent>>

SleepEjectTimerFires ==
    /\ s.timer /\ ~inTimer
    /\ s' = OnSleepEjectTimer([s EXCEPT !.timer = FALSE])
    /\ UNCHANGED <<held, keyBits, ring, asleep, inTimer, fkeymode, settings, sent>>

(* setParamPropertiesGated: the function key mode changes, on the user's   *)
(* behalf or a toggle key's.                                               *)
SetFKeyMode ==
    /\ Event
    /\ fkeymode' = ~fkeymode
    /\ UNCHANGED <<held, keyBits, ring, asleep, inTimer, settings, s>>

DisableDevice ==
    /\ Event /\ ~asleep /\ ~inTimer
    /\ asleep' = TRUE
    /\ UNCHANGED <<held, keyBits, ring, inTimer, fkeymode, settings, s>>

\* Mutant: the key bit vector is cleared, but no key up is dispatched.
InitKeyboardSilent ==
    /\ asleep /\ ~inTimer
    /\ Prompt => ring = <<>> /\ s.macro = <<>>
    /\ asleep' = FALSE
    /\ s' = [s EXCEPT !.modifiers = {}]
    /\ keyBits' = {} /\ ring' = <<>>
    /\ UNCHANGED <<held, inTimer, fkeymode, settings, sent>>

(* "for each key that is down, dispatch a key up for it".  History: a key  *)
(* up that overtakes packets which are held back is out of turn.           *)
KeyUp(t, k) ==
    IF k \notin keyBits THEN t
    ELSE Dispatch([t EXCEPT !.disorder = @ \/ t.owed # <<>>], Packet(FALSE, k))

KeyUpAll(t) ==
    LET after[i \in 0 .. Len(KeyOrder)] ==
            IF i = 0 THEN t ELSE KeyUp(after[i - 1], KeyOrder[i])
    IN  after[Len(KeyOrder)]

(* initKeyboard. *)
InitKeyboard ==
    /\ asleep /\ ~inTimer
    /\ Prompt => ring = <<>> /\ s.macro = <<>>
    /\ asleep' = FALSE
    /\ s' = [KeyUpAll(s) EXCEPT !.modifiers = {}]
    /\ keyBits' = {} /\ ring' = <<>>
    /\ UNCHANGED <<held, inTimer, fkeymode, settings, sent>>

-----------------------------------------------------------------------------
Next ==
    \/ \E k \in Keys : Press(k) \/ Release(k)
    \/ \E k \in AcpiKeys : MessageOne(k) \/ Message(k)
    \/ PacketReady
    \/ MacroTimerFires \/ MacroTimerEnds \/ SleepEjectTimerFires
    \/ SetFKeyMode
    \/ DisableDevice \/ InitKeyboard

Spec == Init /\ [][Next]_vars

-----------------------------------------------------------------------------
TypeOK ==
    /\ held \subseteq Keys \cup AcpiKeys /\ keyBits \subseteq Keys
    /\ \A i \in DOMAIN ring : ring[i].key \in Keys
    /\ Len(ring) <= Capacity
    /\ asleep \in BOOLEAN /\ inTimer \in BOOLEAN /\ fkeymode \in BOOLEAN
    /\ s.modifiers \subseteq Modifiers
    /\ s.down \subseteq Keys \cup AcpiKeys \cup {"brightness", "mirror"}
    /\ s.timerFunc \in {"sleep", "eject"} /\ s.timer \in BOOLEAN
    /\ s.macro # <<>> => \E i \in DOMAIN Macros : Len(s.macro) < Len(Macros[i].sequence)

(* Macro inversion neither loses a packet, nor hands one on twice or out of*)
(* turn, whether a match, a mismatch, a late packet, a timer or an ACPI    *)
(* notification decides: what it has taken and not handed on is exactly    *)
(* what it still holds back.                                               *)
MacrosKeepOrder == ~s.disorder /\ s.owed = s.macro

(* A pending timer belongs to a key that is down, whichever key set it and *)
(* whatever the other one has done to it since, unless the modifiers or the*)
(* function key mode changed while the key was down: then the key up does  *)
(* not cancel it (VoodooPS2Keyboard.cpp:1808).                             *)
TimerKey == IF s.timerFunc = "sleep" THEN "sleep" ELSE "insert"
TimerHasItsKey == s.timer => TimerKey \in s.made \cup s.crossed

(* When all has been dealt with, a key the HID system takes to be down, or *)
(* a modifier the driver does, belongs to a key that is held or has been   *)
(* crossed: the special cases, macros, timers and a wake have no other     *)
(* memory that could keep a key down.                                      *)
MacroKeys == {p.key : p \in UNION {ToSet(Macros[i].sequence) : i \in DOMAIN Macros}}
Faces(k) ==
    {k} \cup (IF k \in {"f1"} \cup MacroKeys THEN {"mirror"} ELSE {})
        \cup (IF k = "plus" THEN {"brightness"} ELSE {})
Quiet == ring = <<>> /\ s.macro = <<>> /\ ~asleep /\ ~s.timer
NothingStuck ==
    Quiet => /\ s.down \subseteq UNION {Faces(k) : k \in held \cup s.crossed}
             /\ s.modifiers \subseteq held \cup s.crossed

(* Macros like those of the profile that comes with the driver: one key in *)
(* place of others, which all go down, or up, with it; ACPI reports keys   *)
(* that the keyboard does not have; and the keys on which the treatment of *)
(* others depends, or which macros are about, send break codes.            *)
OrdinaryMacros ==
    /\ "mirror" \notin Keys /\ AcpiKeys \cap Keys = {}
    /\ \A i \in DOMAIN Macros :
          /\ Macros[i].output.key = "mirror" /\ Macros[i].sequence # <<>>
          /\ \A j \in DOMAIN Macros[i].sequence :
                /\ Macros[i].sequence[j].key \in Keys
                /\ Macros[i].sequence[j].down = Macros[i].output.down
    /\ Breakless \cap (Modifiers \cup {"plus", "insert"} \cup MacroKeys) = {}

(* A packet that is held back waits for a timer that is running, or for    *)
(* the timer routine to end: it never needs another key to get free.       *)
HeldBackIsTimed == s.macro # <<>> => s.macroTimer \/ inTimer

=============================================================================

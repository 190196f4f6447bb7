--------------------------- MODULE KeyboardInput ---------------------------
(***************************************************************************)
(* ApplePS2Keyboard from scan code to key event: interruptOccurred decodes *)
(* the bytes, keeps the key bit vector that filters repeats and buffers a  *)
(* packet per key event; packetReady hands the packets to the HID system   *)
(* later, on the work loop; initKeyboard, on waking, releases what the key *)
(* bit vector says is down and starts afresh.                              *)
(*                                                                         *)
(* The keyboard is external: it sends one make code when a key goes down,  *)
(* more while it is held, a break code unless the key is "breakless", with *)
(* an E0 or E1 prefix for some keys; acknowledges and resend requests may  *)
(* come in between, and AA 00 after a reset of its own.  The packet buffer *)
(* is the FIFO that RingBuffer implements.  Macro inversion and the        *)
(* translation of a key to what the HID system is told are left out.       *)
(***************************************************************************)
EXTENDS Naturals, Sequences

CONSTANTS
    Keys,       \* the keys of the keyboard, <<0 or 1, code>>
    Breakless,  \* those with kBreaklessKey in _PS2flags
    Capacity,   \* packets the buffer holds
    Prompt,     \* is the buffer emptied before a wake, and are there no scan
                \* codes between its beginning and the end of initKeyboard?
    MaxSent     \* bound: events of the keyboard

ASSUME KeysAssumption ==
    /\ Keys \subseteq (0 .. 1) \X {k[2] : k \in Keys} /\ Breakless \subseteq Keys
    /\ \A k \in Keys : k[2] = "pause" => k[1] = 1
ASSUME BoundsAssumption == Capacity \in Nat \ {0} /\ MaxSent \in Nat /\ Prompt \in BOOLEAN

VARIABLES
    held,       \* keys that are really down
    wire,       \* bytes on their way
    power,      \* "awake", "asleep" (keyboard disabled), "waking"
    extendCount, \* _extendCount
    lastReset,  \* is _lastdata kSC_Reset?
    keyBits,    \* _keyBitVector
    ring,       \* packets in _ringBuffer
    loop,       \* packetReady is running, inside the gate
    os,         \* keys the HID system has been told are down
    pressed,    \* history: keys that have been down
    dropped,    \* history: packets lost to a full buffer
    sent        \* events so far

keyboardVars == <<held, wire, pressed, sent>>
decoderVars == <<extendCount, lastReset, keyBits>>
vars == <<keyboardVars, power, decoderVars, ring, loop, os, dropped>>

Byte(kind, code) == [kind |-> kind, code |-> code]
Prefix0 == Byte("E0", "")
Prefix1 == Byte("E1", "")
SC_Reset == Byte("break", "shift")      \* AA, the break code of left shift
Zero == Byte("make", "zero")            \* 00
Packet(kind, key) == [kind |-> kind, key |-> key]
ResetPacket == Packet("reset", <<0, "zero">>)

Init ==
    /\ held = {} /\ wire = <<>> /\ power = "awake"
    /\ extendCount = 0 /\ lastReset = FALSE /\ keyBits = {}
    /\ ring = <<>> /\ loop = FALSE /\ os = {}
    /\ pressed = {} /\ dropped = 0 /\ sent = 0

-----------------------------------------------------------------------------
(* The keyboard; it is silent while disabled. *)
Codes(k, kind) ==
    IF k[2] = "pause" THEN <<Prefix1, Byte(kind, "ctrl"), Byte(kind, k[2])>>
    ELSE IF k[1] = 1 THEN <<Prefix0, Byte(kind, k[2])>>
    ELSE <<Byte(kind, k[2])>>

Send(bytes) == wire' = IF power = "awake" \/ (power = "waking" /\ ~Prompt)
                       THEN wire \o bytes ELSE wire

Event == sent < MaxSent /\ sent' = sent + 1
         /\ UNCHANGED <<power, decoderVars, ring, loop, os, dropped>>

Press(k) ==
    /\ Event
    /\ Send(Codes(k, "make"))       \* the first one or a repeat
    /\ held' = held \cup {k}
    /\ pressed' = IF wire' = wire THEN pressed ELSE pressed \cup {k}

Release(k) ==
    /\ Event /\ k \in held
    /\ IF k \in Breakless THEN UNCHANGED wire ELSE Send(Codes(k, "break"))
    /\ held' = held \ {k}
    /\ UNCHANGED pressed

(* A late acknowledge, or a resend request, ahead of all that is under way.*)
Noise ==
    /\ Event /\ wire # <<>>
    /\ wire' = <<Byte("ack", "")>> \o wire
    /\ UNCHANGED <<held, pressed>>

SelfReset ==
    /\ Event
    /\ Send(<<SC_Reset, Zero>>)
    /\ UNCHANGED <<held, pressed>>

-----------------------------------------------------------------------------
(* interruptOccurred(b), one case of its return statements each. *)
Buffer(p) ==
    IF Len(ring) < Capacity
    THEN ring' = Append(ring, p) /\ UNCHANGED dropped
    ELSE dropped' = dropped + 1 /\ UNCHANGED ring

SpontaneousReset(b) ==
    /\ lastReset /\ b = Zero
    /\ Buffer(ResetPacket)
    /\ extendCount' = 0
    /\ UNCHANGED <<lastReset, keyBits>>

Ordinary(b) == ~(lastReset /\ b = Zero) /\ lastReset' = (b = SC_Reset)

Ignored(b) ==
    /\ Ordinary(b) /\ b.kind = "ack"
    /\ UNCHANGED <<extendCount, keyBits, ring, dropped>>

ExtendCode(b) ==
    /\ Ordinary(b) /\ b.kind \in {"E0", "E1"}
    /\ extendCount' = IF b.kind = "E0" THEN 1 ELSE 2
    /\ UNCHANGED <<keyBits, ring, dropped>>

(* The useless byte of the Pause sequence. *)
Useless(b) ==
    /\ Ordinary(b) /\ b.kind \in {"make", "break"} /\ extendCount = 2
    /\ extendCount' = 1
    /\ UNCHANGED <<keyBits, ring, dropped>>

(* A make code counts unless the key is down already. *)
FilteredMake(key) ==
    IF key \in keyBits
    THEN UNCHANGED <<keyBits, ring, dropped>>
    ELSE keyBits' = keyBits \cup {key} /\ Buffer(Packet("make", key))

\* Mutant: the key bit vector tracks breakless keys too.
KeyCodeTracksAll(b) ==
    /\ Ordinary(b) /\ b.kind \in {"make", "break"} /\ extendCount < 2
    /\ extendCount' = 0
    /\ LET key == <<extendCount, b.code>>
       IN  IF b.kind = "make" THEN FilteredMake(key)
           ELSE keyBits' = keyBits \ {key} /\ Buffer(Packet("break", key))

\* Mutant: the prefix stays in force for the codes that follow.
KeyCodeKeepsPrefix(b) ==
    /\ Ordinary(b) /\ b.kind \in {"make", "break"} /\ extendCount < 2
    /\ UNCHANGED extendCount
    /\ LET key == <<extendCount, b.code>>
       IN  IF key \in Breakless THEN Buffer(Packet(b.kind, key)) /\ UNCHANGED keyBits
           ELSE IF b.kind = "make" THEN FilteredMake(key)
           ELSE keyBits' = keyBits \ {key} /\ Buffer(Packet("break", key))

KeyCode(b) ==
    /\ Ordinary(b) /\ b.kind \in {"make", "break"} /\ extendCount < 2
    /\ extendCount' = 0
    /\ LET key == <<extendCount, b.code>>
       IN  IF key \in Breakless THEN Buffer(Packet(b.kind, key)) /\ UNCHANGED keyBits
           ELSE IF b.kind = "make" THEN FilteredMake(key)
           ELSE keyBits' = keyBits \ {key} /\ Buffer(Packet("break", key))

InterruptOccurred ==
    /\ wire # <<>>
    /\ wire' = Tail(wire)
    /\ LET b == Head(wire)
       IN  SpontaneousReset(b) \/ Ignored(b) \/ ExtendCode(b) \/ Useless(b) \/ KeyCode(b)
    /\ UNCHANGED <<held, pressed, sent, power, loop, os>>

-----------------------------------------------------------------------------
(* dispatchKeyboardEventWithPacket, as far as what is down is concerned: a *)
(* breakless key goes down and up at once.                                 *)
Dispatch(down, p) ==
    IF p.kind = "reset" \/ p.key \in Breakless THEN down
    ELSE IF p.kind = "make" THEN down \cup {p.key}
    ELSE down \ {p.key}

(* packetReady handles one packet and goes on while there are more; a      *)
(* packet of a reset is passed over.                                       *)
PacketReady ==
    /\ power # "waking" /\ ring # <<>>
    /\ os' = Dispatch(os, Head(ring))
    /\ ring' = Tail(ring)
    /\ loop' = (ring' # <<>>)
    /\ UNCHANGED <<keyboardVars, power, decoderVars, dropped>>

-----------------------------------------------------------------------------
(* setDevicePowerState, called inside the gate. *)
DisableDevice ==
    /\ power = "awake" /\ wire = <<>> /\ ~loop
    /\ power' = "asleep"
    /\ UNCHANGED <<keyboardVars, decoderVars, ring, loop, os, dropped>>

(* The controller is on its way to kPS2C_EnableDevice, inside the gate. *)
WakeBegins ==
    /\ power = "asleep" /\ ~loop
    /\ Prompt => ring = <<>>
    /\ power' = "waking"
    /\ UNCHANGED <<keyboardVars, decoderVars, ring, loop, os, dropped>>

\* Mutant: what is down is forgotten without being released.
InitKeyboardForgets ==
    /\ power = "waking"
    /\ keyBits' = {} /\ ring' = <<>> /\ extendCount' = 0
    /\ power' = "awake"
    /\ UNCHANGED <<keyboardVars, lastReset, loop, os, dropped>>

(* initKeyboard, after the bytes its first request may have met. *)
InitKeyboard ==
    /\ power = "waking"
    /\ os' = os \ keyBits
    /\ keyBits' = {} /\ ring' = <<>> /\ extendCount' = 0
    /\ power' = "awake"
    /\ UNCHANGED <<keyboardVars, lastReset, loop, dropped>>

-----------------------------------------------------------------------------
Next ==
    \/ \E k \in Keys : Press(k) \/ Release(k)
    \/ Noise \/ SelfReset
    \/ InterruptOccurred \/ PacketReady
    \/ DisableDevice \/ WakeBegins \/ InitKeyboard

Spec == Init /\ [][Next]_vars

-----------------------------------------------------------------------------
AllKeys == (0 .. 1) \X ({k[2] : k \in Keys} \cup {"shift", "zero", "ctrl"})
Bytes == {Prefix0, Prefix1, Byte("ack", "")} \cup
         [kind : {"make", "break"}, code : {k[2] : k \in Keys} \cup {"shift", "zero", "ctrl"}]
Packets == [kind : {"make", "break", "reset"}, key : AllKeys]

TypeOK ==
    /\ held \subseteq Keys /\ pressed \subseteq Keys /\ wire \in Seq(Bytes)
    /\ power \in {"awake", "asleep", "waking"}
    /\ extendCount \in 0 .. 2 /\ lastReset \in BOOLEAN
    /\ keyBits \subseteq AllKeys \ Breakless /\ os \subseteq AllKeys \ Breakless
    /\ ring \in Seq(Packets) /\ Len(ring) <= Capacity
    /\ loop \in BOOLEAN /\ dropped \in Nat /\ sent \in 0 .. MaxSent

(* The key bit vector is what the HID system will believe once it has been *)
(* told all that is buffered, as long as no packet was lost: a key the one *)
(* filters out as down is never one the other thinks is up, or will.       *)
NoBreak(packets, k, i) == \A j \in DOMAIN packets : i < j => packets[j] # Packet("break", k)
DownAfter(down, packets, k) ==
    \/ k \in down /\ NoBreak(packets, k, 0)
    \/ \E i \in DOMAIN packets : packets[i] = Packet("make", k) /\ NoBreak(packets, k, i)
BitsAgree ==
    dropped = 0 => keyBits = {k \in AllKeys \ Breakless : DownAfter(os, ring, k)}

(* Only keys that were pressed are ever taken to be down, whatever noise   *)
(* came between the bytes of a sequence.                                   *)
OnlyPressed == os \cup keyBits \subseteq pressed \cup {<<0, "zero">>}

(* When all is quiet and no packet was lost, a key the HID system takes to *)
(* be down is held, through sleep and wake and the two meanings of AA.     *)
NothingStuck ==
    wire = <<>> /\ ring = <<>> /\ power = "awake" /\ dropped = 0 =>
        os \subseteq held \cup {<<0, "zero">>}

(* DownMeansHeld: no key is down that was not pressed, or is not held when *)
(* everything has been dealt with.                                         *)
DownMeansHeld == OnlyPressed /\ NothingStuck

(* "start out with all keys up" (VoodooPS2Keyboard.cpp:2343)               *)
AllKeysUp == [][InitKeyboard => os' = {}]_vars

(* "buffer a packet that will cause a reset in work loop"                  *)
(* (VoodooPS2Keyboard.cpp:1185): the packet handled, all keys are up.      *)
ResetCausesReset == [][PacketReady /\ Head(ring) = ResetPacket => keyBits' = {}]_vars

=============================================================================

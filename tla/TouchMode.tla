----------------------------- MODULE TouchMode -----------------------------
(***************************************************************************)
(* The touch state machine of the trackpad driver: dispatchEventsWithInfo  *)
(* of ALPS, which every touchpad packet ends in, with the four timers, the *)
(* middle button simulation, the settings and the messages of              *)
(* VoodooPS2TouchPadBase.                                                  *)
(*                                                                         *)
(* Kept are the buttons reported to the HID system, the touch mode, and    *)
(* what they depend on.  Positions are abstracted to whether the finger has*)
(* moved too far for a tap or far enough to scroll, times to whether a     *)
(* limit has passed, both chosen when they are tested; pointer movement,   *)
(* scroll amounts and swipes are left out.  Pressure is "none" (below      *)
(* z_finger), "edge" (z_finger, neither a touch nor a lift) or "touch".    *)
(* MODE_ is left off the modes and STATE_ off the middle button's states.  *)
(* The state of the driver is one record, and each step of the routine an  *)
(* operator on it.                                                         *)
(***************************************************************************)
EXTENDS Naturals, FiniteSetsExt

CONSTANTS
    MaxFingers,     \* fingers a packet may report
    Packets,        \* packets there may be: [z, fingers, buttons]
    StickButtons,   \* sets of buttons a trackstick packet may report
    Settings,       \* possible settings, see SettingsType
    MaxChanges      \* bound: changes from outside, but for switching the touchpad on

ASSUME BoundsAssumption ==
    MaxFingers \in Nat \ {0} /\ MaxChanges \in Nat

Both == {"left", "right"}
Buttons == Both \cup {"middle"}

SettingsType ==
    [{"clicking", "dragging", "draglock", "draglocktempmask", "rtap", "immediateclick", "palm_wt", "outzone_wt",
      "wsticky", "momentumscroll", "fakemiddle", "dragexitdelay"} -> BOOLEAN]

ASSUME InputsAssumption ==
    /\ Packets \subseteq [z : {"none", "edge", "touch"}, fingers : 0..MaxFingers, buttons : SUBSET Buttons]
    /\ StickButtons \subseteq SUBSET Buttons
    /\ Settings \subseteq SettingsType

VARIABLES
    settings,   \* the properties set
    applying,   \* what setParamPropertiesGated does next, or "none"
    changes,    \* changes from outside so far
    most,       \* history: most fingers since the pad was last empty
    t           \* the driver's state, and its history

vars == <<settings, applying, changes, most, t>>

TouchModes == {"MOVE", "MTOUCH", "DRAG", "DRAGLOCK"}            \* the odd ones
NoTouchModes == {"NOTOUCH", "PREDRAG", "DRAGNOTOUCH"}           \* the even ones
Waits == {"WAIT4TWO", "WAIT4NONE"}

Init ==
    /\ settings \in Settings /\ applying = "none" /\ changes = 0 /\ most = 0
    /\ t = [touchmode |-> "NOTOUCH",
            lastFingers |-> 0,          \* last_fingers
            wasdouble |-> FALSE, wastriple |-> FALSE,
            touchtime |-> FALSE,        \* is touchtime set, not 0?
            draglocktemp |-> FALSE,
            scrolldebounce |-> FALSE,
            momentum |-> FALSE,         \* momentumscrollcurrent, is it not 0?
            mbutton |-> "NOBUTTONS",    \* _mbuttonstate
            pending |-> {},             \* _pendingbuttons
            lastbuttons |-> {},
            ignoreall |-> FALSE,
            timers |-> {},              \* pending timers: "button", "drag", "scroll", "debounce"
            down |-> {},                \* buttons the HID system was last told are down
            quiet |-> TRUE,             \* history: is the pad untouched, and has it said so?
            tapped |-> {},              \* history: buttons of a tap the last packet ended
            excused |-> {}]             \* history: what has been disturbed

-----------------------------------------------------------------------------
SetTimerTimeout(u, timer) == [u EXCEPT !.timers = @ \cup {timer}]
CancelTimer(u, timer) == [u EXCEPT !.timers = @ \ {timer}]
Report(u, buttons) == [u EXCEPT !.down = buttons]

(* History: a change from outside; buttons and fingers stay as they are.   *)
Disturb(u) == [u EXCEPT !.quiet = FALSE, !.tapped = {}, !.excused = @ \cup {"fingers"}]

-----------------------------------------------------------------------------
(* middleButton: two buttons pressed together are the middle button, so a  *)
(* single one is held back for a while.                                    *)

\* Mutant: the buttons held back are not forgotten.
EndWaitRemembers(u, buttons) ==
    [CancelTimer(u, "button") EXCEPT !.mbutton = IF buttons = {} THEN "NOBUTTONS" ELSE "NOOP"]

(* WAIT4TWO and WAIT4NONE end with the buttons there are. *)
EndWait(u, buttons) ==
    [CancelTimer(u, "button") EXCEPT
        !.pending = {}, !.mbutton = IF buttons = {} THEN "NOBUTTONS" ELSE "NOOP"]

StartWait(u, buttons, state) ==
    [SetTimerTimeout(u, "button") EXCEPT !.pending = buttons, !.mbutton = state]

NoButtons(u, buttons, from) ==
    IF from = "fromCancel" \/ buttons = {} THEN u
    ELSE IF "middle" \in buttons THEN [u EXCEPT !.mbutton = "NOOP"]
    ELSE IF buttons = Both THEN [u EXCEPT !.mbutton = "MIDDLE"]
    ELSE StartWait(u, buttons, "WAIT4TWO")

Wait4Two(u, buttons, from, timeout) ==
    IF ~timeout /\ buttons = Both
    THEN [CancelTimer(u, "button") EXCEPT !.pending = {}, !.mbutton = "MIDDLE"]
    ELSE IF timeout \/ buttons # u.pending
    THEN EndWait(IF from = "fromTimer" \/ buttons \cap u.pending = {}
                 THEN Report(u, buttons \cup u.pending) ELSE u, buttons)
    ELSE u

Middle(u, buttons) ==
    IF buttons = {} THEN [u EXCEPT !.mbutton = "NOBUTTONS"]
    ELSE IF Both \subseteq buttons THEN u
    ELSE StartWait(u, buttons, "WAIT4NONE")

Wait4None(u, buttons, from, timeout) ==
    IF timeout \/ buttons # u.pending
    THEN EndWait(IF from = "fromTimer" THEN Report(u, buttons \cup u.pending) ELSE u, buttons)
    ELSE u

NoOp(u, buttons) == IF buttons = {} THEN [u EXCEPT !.mbutton = "NOBUTTONS"] ELSE u

Passed(u, from) ==
    ~settings.fakemiddle \/ (u.ignoreall /\ from = "fromTrackpad")

(* The state after it, and the buttons it returns.  late: was the last     *)
(* button change longer ago than _maxmiddleclicktime?                      *)
MiddleButton(u, buttons, from, late) ==
    LET timeout == from \in {"fromTimer", "fromCancel"} \/ late
        v == CASE u.mbutton = "NOBUTTONS" -> NoButtons(u, buttons, from)
               [] u.mbutton = "WAIT4TWO" -> Wait4Two(u, buttons, from, timeout)
               [] u.mbutton = "MIDDLE" -> Middle(u, buttons)
               [] u.mbutton = "WAIT4NONE" -> Wait4None(u, buttons, from, timeout)
               [] u.mbutton = "NOOP" -> NoOp(u, buttons)
    IN  IF Passed(u, from) THEN [t |-> u, buttons |-> buttons]
        ELSE [t |-> v,
              buttons |-> CASE v.mbutton = "MIDDLE" -> {"middle"}
                            [] v.mbutton \in Waits -> buttons \ Both
                            [] OTHER -> buttons]

-----------------------------------------------------------------------------
(* dispatchEventsWithInfo, step by step.  A packet p says z, fingers and   *)
(* buttons; c are the choices: what has passed, moved and been typed.      *)

(* "allow middle button to be simulated with two buttons down", unless a   *)
(* finger is going down.                                                   *)
SimulateMiddle(u, p, c) ==
    LET v == [u EXCEPT !.lastbuttons = p.buttons]
        from == IF p.fingers = 3 THEN "fromPassthru" ELSE "fromTrackpad"
        m == MiddleButton(v, p.buttons, from, c.buttonLate)
    IN  IF u.lastFingers = 0 /\ p.fingers > 0
        THEN MiddleButton(m.t, p.buttons, "fromCancel", FALSE)
        ELSE m

StartMomentum(u, c) ==
    IF u.touchmode = "MTOUCH" /\ settings.momentumscroll /\ c.flick
    THEN [SetTimerTimeout(u, "scroll") EXCEPT !.momentum = TRUE]
    ELSE u

TapButton(u) ==
    IF u.wastriple /\ settings.rtap THEN "middle"
    ELSE IF u.wasdouble /\ settings.rtap THEN "right"
    ELSE "left"

(* A tap ends the touch.  In DRAG it is the second one: the first click is *)
(* ended and another one sent before it.                                   *)
Tap(m) ==
    LET u == m.t
        other == IF u.touchmode = "DRAG" /\ ~settings.immediateclick THEN {} ELSE m.buttons
        tapped == {TapButton(u)}
    IN  IF u.touchmode = "DRAGLOCK" THEN [m EXCEPT !.t.touchmode = "NOTOUCH"]
        ELSE [t |-> [u EXCEPT !.touchmode = IF /\ u.touchmode # "DRAG" /\ settings.dragging
                                               /\ tapped = {"left"}
                                            THEN "PREDRAG" ELSE "NOTOUCH",
                              !.tapped = tapped],
              buttons |-> other \cup tapped]

\* Mutant: the drag timer is started for a locked drag, and for no other.
EndTouchSwapped(u) ==
    LET locked == settings.draglock \/ u.draglocktemp
    IN  IF u.touchmode \in {"DRAG", "DRAGLOCK"} /\ (locked \/ settings.dragexitdelay)
        THEN LET v == [u EXCEPT !.touchmode = "DRAGNOTOUCH"]
             IN  IF locked THEN SetTimerTimeout(v, "drag") ELSE v
        ELSE [u EXCEPT !.touchmode = "NOTOUCH", !.draglocktemp = FALSE]

(* The touch ends without a tap: a drag may go on without touch.           *)
EndTouch(u) ==
    LET locked == settings.draglock \/ u.draglocktemp
    IN  IF u.touchmode \in {"DRAG", "DRAGLOCK"} /\ (locked \/ settings.dragexitdelay)
        THEN LET v == [u EXCEPT !.touchmode = "DRAGNOTOUCH"]
             IN  IF locked THEN v ELSE SetTimerTimeout(v, "drag")
        ELSE [u EXCEPT !.touchmode = "NOTOUCH", !.draglocktemp = FALSE]

\* Mutant: two and three fingers are not forgotten.
LiftRemembers(m, c) ==
    LET n == [m EXCEPT !.t = StartMomentum(@, c)]
    IN  IF n.t.touchtime /\ c.tap /\ settings.clicking THEN Tap(n)
        ELSE [n EXCEPT !.t = EndTouch(@)]

(* "finger lifted" *)
Lift(m, c) ==
    LET n == [m EXCEPT !.t = StartMomentum(@, c)]
        o == IF n.t.touchtime /\ c.tap /\ settings.clicking THEN Tap(n)
             ELSE [n EXCEPT !.t = EndTouch(@)]
    IN  [o EXCEPT !.t.wasdouble = FALSE, !.t.wastriple = FALSE]

(* The buttons a mode holds down, with the fall through from DRAGNOTOUCH   *)
(* to PREDRAG.                                                             *)
Holds(u, c) ==
    \/ u.touchmode = "DRAG" /\ (~settings.immediateclick \/ c.doubleTapLate)
    \/ u.touchmode \in {"DRAGLOCK", "DRAGNOTOUCH"}
    \/ u.touchmode = "PREDRAG" /\ ~settings.immediateclick /\ ~(settings.palm_wt /\ c.typing)

(* MTOUCH: a single finger that stays ends it, unless it is ignored for a  *)
(* few packets after scrolling (ignoresingle).                             *)
MultiTouch(u, p, c) ==
    IF u.touchmode # "MTOUCH" \/ p.fingers # u.lastFingers THEN u
    ELSE IF p.fingers = 1 /\ ~settings.wsticky /\ ~u.scrolldebounce /\ ~c.ignored
    THEN [SetTimerTimeout(u, "debounce") EXCEPT !.scrolldebounce = TRUE, !.touchmode = "MOVE"]
    ELSE u

(* "capture time of tap, and watch for double/triple tap" *)
WatchTap(u, p, c) ==
    IF (settings.palm_wt /\ c.typing) \/ u.momentum THEN u
    ELSE [u EXCEPT
            !.touchtime = @ \/ u.touchmode \in NoTouchModes,
            !.wasdouble = p.fingers = 2 \/ (@ /\ u.lastFingers # p.fingers),
            !.wastriple = p.fingers = 3 \/ (@ /\ u.lastFingers # p.fingers)]

(* "any touch cancels momentum scroll" *)
CancelMomentum(u) ==
    IF u.scrolldebounce \/ ~u.momentum THEN u
    ELSE [SetTimerTimeout(u, "debounce") EXCEPT !.momentum = FALSE, !.scrolldebounce = TRUE]

(* "switch modes, depending on input", one test after the other. *)
SwitchModes(u, p, c) ==
    LET v == IF u.touchmode = "PREDRAG"
             THEN [u EXCEPT !.touchmode = "DRAG", !.draglocktemp = c.modifier]
             ELSE IF u.touchmode = "DRAGNOTOUCH"
             THEN [CancelTimer(u, "drag") EXCEPT !.touchmode = "DRAGLOCK"]
             ELSE u
    IN  IF p.fingers > 1 THEN [v EXCEPT !.touchmode = "MTOUCH"]
        ELSE IF v.touchmode = "NOTOUCH" /\ ~v.scrolldebounce
        THEN [v EXCEPT !.touchmode = "MOVE"]
        ELSE v

(* What follows the early returns: a lift, the mode's own part, a touch,   *)
(* and the report.                                                         *)
DispatchTouch(m, p, c) ==
    LET touched == p.z = "touch"
        l == IF p.z = "none" /\ m.t.touchmode \in TouchModes THEN Lift(m, c) ELSE m
        late == l.t.touchmode = "PREDRAG" /\ c.dragLate
        a == IF late THEN [l.t EXCEPT !.touchmode = "NOTOUCH"] ELSE l.t
        b == IF /\ a.touchmode \in TouchModes /\ touched
                /\ a.lastFingers = p.fingers /\ c.moved
             THEN [a EXCEPT !.touchtime = FALSE] ELSE a
        buttons == l.buttons \cup IF Holds(b, c) THEN {"left"} ELSE {}
        d == MultiTouch(b, p, c)
        e == IF touched THEN SwitchModes(CancelMomentum(WatchTap(d, p, c)), p, c) ELSE d
    IN  [Report(e, buttons) EXCEPT !.lastFingers = p.fingers]

(* Choices are made where they make a difference. *)
If(condition) == IF condition THEN BOOLEAN ELSE {FALSE}
Open(u, p) ==
    LET lifted == p.z = "none" /\ u.touchmode \in TouchModes
        touched == p.z = "touch"
    IN  [buttonLate : If(u.mbutton \in Waits /\ settings.fakemiddle),
         typing : If(\/ settings.outzone_wt /\ touched
                     \/ settings.palm_wt /\ (touched \/ u.touchmode = "PREDRAG" \/ lifted)),
         outside : If(settings.outzone_wt /\ touched),
         flick : If(lifted /\ u.touchmode = "MTOUCH" /\ settings.momentumscroll),
         tap : If(lifted /\ u.touchtime /\ settings.clicking),
         dragLate : If(u.touchmode = "PREDRAG"),
         moved : If(touched /\ u.touchmode \in TouchModes /\ u.lastFingers = p.fingers /\ u.touchtime),
         doubleTapLate : If(u.touchmode = "DRAG" /\ settings.immediateclick),
         modifier : If(u.touchmode = "PREDRAG" /\ touched /\ settings.draglocktempmask),
         ignored : If(u.touchmode = "MTOUCH" /\ p.fingers = 1 /\ u.lastFingers = 1)]

(* The whole of it, with its two early returns.                            *)
DispatchEvents(u, p, c) ==
    LET rest == p.z = "none" /\ p.buttons = {}
        m == SimulateMiddle([u EXCEPT !.tapped = {}, !.quiet = rest], p, c)
    IN  IF settings.outzone_wt /\ p.z = "touch" /\ c.typing /\ c.outside
        THEN Disturb(m.t)                           \* "ignore it..."
        ELSE IF m.t.ignoreall THEN Disturb(m.t)
        ELSE [DispatchTouch(m, p, c) EXCEPT
                !.excused = @ \ ((IF p.z = "none" /\ u.touchmode \in TouchModes THEN {"fingers"} ELSE {})
                                \cup IF m.t.mbutton \in Waits THEN {} ELSE {"middle"})]

-----------------------------------------------------------------------------
(* Packets, and history. *)
CountFingers(p) ==
    most' = IF p.z = "none" \/ "fingers" \in t'.excused THEN 0 ELSE Max({most, p.fingers})

TouchPacket(p) ==
    /\ \E c \in Open(t, p) : t' = DispatchEvents(t, p, c)
    /\ CountFingers(p)
    /\ UNCHANGED <<settings, applying, changes>>

(* alps_process_packet_v1_v2: hardware "tap and drag" becomes DRAG. *)
GesturePacket(p) ==
    /\ p.z = "touch" /\ p.fingers = 1
    /\ LET u == [t EXCEPT !.touchmode = "DRAG"]
       IN  \E c \in Open(u, p) : t' = DispatchEvents(u, p, c)
    /\ CountFingers(p)
    /\ UNCHANGED <<settings, applying, changes>>

(* alps_process_trackstick_packet_v3: "Button status can appear in normal  *)
(* packet".  With the middle button it scrolls.                            *)
StickPacket(raw) ==
    /\ LET buttons == IF raw = {} THEN t.lastbuttons ELSE raw
           u == [t EXCEPT !.lastbuttons = buttons, !.quiet = FALSE, !.tapped = {}]
       IN  t' = IF "middle" \in buttons THEN u ELSE Report(u, buttons)
    /\ UNCHANGED <<settings, applying, changes, most>>

-----------------------------------------------------------------------------
(* Timers. *)
OnScrollTimer ==
    /\ "scroll" \in t.timers
    /\ LET u == CancelTimer(t, "scroll")
       IN  t' \in (IF u.momentum THEN {SetTimerTimeout(u, "scroll")} ELSE {})
                    \cup {[u EXCEPT !.momentum = FALSE]}
    /\ UNCHANGED <<settings, applying, changes, most>>

OnScrollDebounceTimer ==
    /\ "debounce" \in t.timers
    /\ t' = [CancelTimer(t, "debounce") EXCEPT !.scrolldebounce = FALSE]
    /\ UNCHANGED <<settings, applying, changes, most>>

OnButtonTimer ==
    /\ "button" \in t.timers
    /\ t' = MiddleButton(CancelTimer(t, "button"), t.lastbuttons, "fromTimer", FALSE).t
    /\ UNCHANGED <<settings, applying, changes, most>>

\* Mutant: the drag ends, but its button is not reported up.
OnDragTimerSilent ==
    /\ "drag" \in t.timers
    /\ LET u == CancelTimer(t, "drag")
       IN  t' = IF u.touchmode # "DRAGNOTOUCH" THEN u ELSE [u EXCEPT !.touchmode = "NOTOUCH"]
    /\ UNCHANGED <<settings, applying, changes, most>>

(* In another mode it only says that it is unexpected. *)
OnDragTimer ==
    /\ "drag" \in t.timers
    /\ LET u == CancelTimer(t, "drag")
           v == [u EXCEPT !.touchmode = "NOTOUCH"]
       IN  IF u.touchmode # "DRAGNOTOUCH" THEN t' = u
           ELSE \E late \in If(v.mbutton \in Waits /\ settings.fakemiddle) :
                    LET m == MiddleButton(v, v.lastbuttons \ {"left"}, "fromPassthru", late)
                    IN  t' = Report(m.t, m.buttons)
    /\ UNCHANGED <<settings, applying, changes, most>>

-----------------------------------------------------------------------------
Change == changes < MaxChanges /\ changes' = changes + 1 /\ most' = 0

(* setParamPropertiesGated.  setParamProperties calls it without the gate  *)
(* (866), so packets and timers may come in between: the settings are      *)
(* assigned,                                                               *)
SetParamProperties(new) ==
    /\ applying = "none" /\ applying' = "touchmode"
    /\ Change
    /\ settings' = new
    /\ t' = [Disturb(t) EXCEPT
              !.excused = @ \cup IF new.fakemiddle = settings.fakemiddle THEN {} ELSE {"middle"}]

(* then the touch is ended,                                                *)
ResetTouchMode ==
    /\ applying = "touchmode" /\ applying' = "ignoreall"
    /\ t' = [Disturb(t) EXCEPT !.touchmode = "NOTOUCH"] /\ most' = 0
    /\ UNCHANGED <<settings, changes>>

(* and then the number of mice decides whether the pad is ignored.         *)
SetIgnoreAll ==
    /\ applying = "ignoreall" /\ applying' = "none"
    /\ \E ignore \in BOOLEAN : t' = [Disturb(t) EXCEPT !.ignoreall = ignore]
    /\ most' = 0
    /\ UNCHANGED <<settings, changes>>

(* receiveMessage: the keyboard switches the touchpad off and on, *)
SetDisableTouchpad ==
    /\ IF t.ignoreall THEN UNCHANGED <<changes, most>> ELSE Change
    /\ t' = [Disturb(t) EXCEPT !.ignoreall = ~@]
    /\ UNCHANGED <<settings, applying>>

(* and tells of its keys, which cancel momentum.  (Modifiers are tracked,  *)
(* and their state is a choice.)                                           *)
NotifyKeyPressed ==
    /\ t' = [t EXCEPT !.momentum = FALSE]
    /\ UNCHANGED <<settings, applying, changes, most>>

(* initTouchPad on waking, when everything may have been let go. *)
InitTouchPad ==
    /\ Change
    /\ t' = Disturb(t)
    /\ UNCHANGED <<settings, applying>>

-----------------------------------------------------------------------------
Timer == OnScrollTimer \/ OnScrollDebounceTimer \/ OnButtonTimer \/ OnDragTimer

Next ==
    \/ \E p \in Packets : TouchPacket(p) \/ GesturePacket(p)
    \/ \E raw \in StickButtons : StickPacket(raw)
    \/ Timer
    \/ \E new \in Settings : SetParamProperties(new)
    \/ ResetTouchMode \/ SetIgnoreAll
    \/ SetDisableTouchpad \/ NotifyKeyPressed \/ InitTouchPad

Spec == Init /\ [][Next]_vars

-----------------------------------------------------------------------------
TypeOK ==
    /\ settings \in SettingsType /\ most \in 0..MaxFingers
    /\ changes \in 0..MaxChanges /\ applying \in {"none", "touchmode", "ignoreall"}
    /\ t.touchmode \in TouchModes \cup NoTouchModes
    /\ t.lastFingers \in 0..MaxFingers
    /\ t.momentum \in BOOLEAN
    /\ t.mbutton \in Waits \cup {"NOBUTTONS", "MIDDLE", "NOOP"}
    /\ t.pending \subseteq Buttons
    /\ t.pending # {} => t.mbutton \in Waits
    /\ t.lastbuttons \subseteq Buttons /\ t.down \subseteq Buttons
    /\ t.timers \subseteq {"button", "drag", "scroll", "debounce"}

(* When the pad is left alone, and may send nothing more, a button the HID *)
(* system takes to be down is a drag's that goes on, or a tap's, which one *)
(* more packet ends; and no click is held back for want of a packet.       *)
ButtonsSettle ==
    t.quiet =>
        /\ t.down \subseteq t.tapped \cup
              IF t.touchmode \in {"PREDRAG", "DRAGNOTOUCH"} THEN {"left"} ELSE {}
        /\ t.mbutton = "NOBUTTONS" \/ ~settings.fakemiddle

(* Not checked, as it fails: while a drag goes on without touch, the left  *)
(* button stays down.  Trackstick packets report only the buttons they know*)
(* of.                                                                     *)
DragHolds == t.touchmode = "DRAGNOTOUCH" => "left" \in t.down

(* Whatever waits for time to pass has its timer running: a button held    *)
(* back, a drag without a touch that is not locked (while settings are     *)
(* applied it is about to be ended), touches ignored after scrolling, and  *)
(* momentum, which keeps taps from counting.                               *)
WaitsAreTimed ==
    /\ t.mbutton \in Waits /\ "middle" \notin t.excused => "button" \in t.timers
    /\ t.touchmode = "DRAGNOTOUCH" =>
          settings.draglock \/ t.draglocktemp \/ "drag" \in t.timers \/ applying = "touchmode"
    /\ t.scrolldebounce => "debounce" \in t.timers
    /\ t.momentum => "scroll" \in t.timers

(* What the driver remembers of two or three fingers is of this touch: it  *)
(* makes the tap a right or a middle click.                                *)
FingersAreThisTouchs ==
    "fingers" \notin t.excused =>
        /\ t.wasdouble => most >= 2
        /\ t.wastriple => most >= 3

=============================================================================

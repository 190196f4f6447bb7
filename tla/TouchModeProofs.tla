-------------------------- MODULE TouchModeProofs --------------------------
(***************************************************************************)
(* Proofs about TouchMode, for any settings, any packets and any number of *)
(* changes from outside.                                                   *)
(***************************************************************************)
EXTENDS TouchMode, TLAPS

Timers == {"button", "drag", "scroll", "debounce"}
MiddleStates == Waits \cup {"NOBUTTONS", "MIDDLE", "NOOP"}

Fields == {"touchmode", "lastFingers", "wasdouble", "wastriple", "touchtime", "draglocktemp",
           "scrolldebounce", "momentum", "mbutton", "pending", "lastbuttons", "ignoreall",
           "timers", "down", "quiet", "tapped", "excused"}

(* A state of the driver. *)
State(u) ==
    /\ DOMAIN u = Fields
    /\ u.touchmode \in TouchModes \cup NoTouchModes /\ u.lastFingers \in 0..MaxFingers
    /\ u.wasdouble \in BOOLEAN /\ u.wastriple \in BOOLEAN /\ u.touchtime \in BOOLEAN
    /\ u.draglocktemp \in BOOLEAN /\ u.scrolldebounce \in BOOLEAN /\ u.momentum \in BOOLEAN
    /\ u.mbutton \in MiddleStates /\ u.pending \subseteq Buttons /\ u.lastbuttons \subseteq Buttons
    /\ u.ignoreall \in BOOLEAN /\ u.timers \subseteq Timers /\ u.down \subseteq Buttons
    /\ u.quiet \in BOOLEAN /\ u.tapped \subseteq Buttons

(* A button is held back while middleButton waits, and only then. *)
HeldBack(u) == u.mbutton \in Waits <=> u.pending # {}

-----------------------------------------------------------------------------
(* The simulation of the middle button leaves the touch alone, *)
TouchKept(u, v) ==
    /\ v.touchmode = u.touchmode /\ v.lastFingers = u.lastFingers
    /\ v.wasdouble = u.wasdouble /\ v.wastriple = u.wastriple /\ v.touchtime = u.touchtime
    /\ v.draglocktemp = u.draglocktemp /\ v.scrolldebounce = u.scrolldebounce
    /\ v.momentum = u.momentum /\ v.ignoreall = u.ignoreall
    /\ v.quiet = u.quiet /\ v.tapped = u.tapped /\ v.excused = u.excused
    /\ v.timers \ {"button"} = u.timers \ {"button"}

(* and starts the timer when it begins to wait.  Without buttons it ends.  *)
Simulated(u, v, buttons, from) ==
    /\ State(v) /\ TouchKept(u, v) /\ v.lastbuttons = u.lastbuttons
    /\ HeldBack(u) => HeldBack(v)
    /\ v.mbutton \in Waits => "button" \in v.timers \/ (v = u /\ from # "fromTimer")
    /\ buttons = {} /\ HeldBack(u) => v.mbutton = "NOBUTTONS"

LEMMA NoButtonsSimulated ==
    ASSUME NEW u, State(u), u.mbutton = "NOBUTTONS", NEW buttons \in SUBSET Buttons, NEW from
    PROVE  Simulated(u, NoButtons(u, buttons, from), buttons, from)
BY DEF NoButtons, StartWait, SetTimerTimeout, Simulated, State, TouchKept, HeldBack,
       Waits, MiddleStates, Timers, Buttons, Both, Fields

LEMMA Wait4TwoSimulated ==
    ASSUME NEW u, State(u), u.mbutton = "WAIT4TWO", NEW buttons \in SUBSET Buttons, NEW from,
           NEW timeout \in BOOLEAN, from = "fromTimer" => timeout
    PROVE  Simulated(u, Wait4Two(u, buttons, from, timeout), buttons, from)
BY DEF Wait4Two, EndWait, CancelTimer, Report, Simulated, State, TouchKept, HeldBack,
       Waits, MiddleStates, Timers, Buttons, Both, Fields

LEMMA MiddleSimulated ==
    ASSUME NEW u, State(u), u.mbutton = "MIDDLE", NEW buttons \in SUBSET Buttons, NEW from
    PROVE  Simulated(u, Middle(u, buttons), buttons, from)
BY DEF Middle, StartWait, SetTimerTimeout, Simulated, State, TouchKept, HeldBack,
       Waits, MiddleStates, Timers, Buttons, Both, Fields

LEMMA Wait4NoneSimulated ==
    ASSUME NEW u, State(u), u.mbutton = "WAIT4NONE", NEW buttons \in SUBSET Buttons, NEW from,
           NEW timeout \in BOOLEAN, from = "fromTimer" => timeout
    PROVE  Simulated(u, Wait4None(u, buttons, from, timeout), buttons, from)
BY DEF Wait4None, EndWait, CancelTimer, Report, Simulated, State, TouchKept, HeldBack,
       Waits, MiddleStates, Timers, Buttons, Both, Fields

LEMMA NoOpSimulated ==
    ASSUME NEW u, State(u), u.mbutton = "NOOP", NEW buttons \in SUBSET Buttons, NEW from
    PROVE  Simulated(u, NoOp(u, buttons), buttons, from)
BY DEF NoOp, Simulated, State, TouchKept, HeldBack,
       Waits, MiddleStates, Timers, Buttons, Both, Fields

(* middleButton.  It may be passed by, and does nothing then. *)
Froms == {"fromTimer", "fromCancel", "fromPassthru", "fromTrackpad"}

Advanced(u, v, buttons, from) ==
    /\ State(v) /\ TouchKept(u, v) /\ v.lastbuttons = u.lastbuttons
    /\ HeldBack(u) => HeldBack(v)
    /\ v.mbutton \in Waits => \/ v = u /\ (from = "fromTimer" => ~settings.fakemiddle)
                              \/ settings.fakemiddle /\ "button" \in v.timers
    /\ buttons = {} /\ HeldBack(u) /\ ~Passed(u, from) => v.mbutton = "NOBUTTONS"

LEMMA MiddleButtonAdvances ==
    ASSUME NEW u, State(u), settings \in SettingsType, NEW buttons \in SUBSET Buttons,
           NEW from \in Froms, NEW late \in BOOLEAN
    PROVE  LET m == MiddleButton(u, buttons, from, late)
           IN  /\ Advanced(u, m.t, buttons, from)
               /\ m.buttons \subseteq buttons \cup {"middle"}
               /\ buttons = {} /\ HeldBack(u) => m.buttons = {}
               /\ m = [t |-> m.t, buttons |-> m.buttons]
<1> DEFINE timeout == from \in {"fromTimer", "fromCancel"} \/ late
           v == CASE u.mbutton = "NOBUTTONS" -> NoButtons(u, buttons, from)
                  [] u.mbutton = "WAIT4TWO" -> Wait4Two(u, buttons, from, timeout)
                  [] u.mbutton = "MIDDLE" -> Middle(u, buttons)
                  [] u.mbutton = "WAIT4NONE" -> Wait4None(u, buttons, from, timeout)
                  [] u.mbutton = "NOOP" -> NoOp(u, buttons)
           after == CASE v.mbutton = "MIDDLE" -> {"middle"}
                      [] v.mbutton \in Waits -> buttons \ Both
                      [] OTHER -> buttons
           m == MiddleButton(u, buttons, from, late)
<1>1. timeout \in BOOLEAN /\ (from = "fromTimer" => timeout)
  OBVIOUS
<1>2. Simulated(u, v, buttons, from)
  <2>1. CASE u.mbutton = "NOBUTTONS"
    BY <2>1, NoButtonsSimulated
  <2>2. CASE u.mbutton = "WAIT4TWO"
    BY <2>2, <1>1, Wait4TwoSimulated
  <2>3. CASE u.mbutton = "MIDDLE"
    BY <2>3, MiddleSimulated
  <2>4. CASE u.mbutton = "WAIT4NONE"
    BY <2>4, <1>1, Wait4NoneSimulated
  <2>5. CASE u.mbutton = "NOOP"
    BY <2>5, NoOpSimulated
  <2>6. QED
    BY <2>1, <2>2, <2>3, <2>4, <2>5 DEF State, MiddleStates, Waits
<1>3. m = IF Passed(u, from) THEN [t |-> u, buttons |-> buttons] ELSE [t |-> v, buttons |-> after]
  BY DEF MiddleButton
<1> HIDE DEF timeout, v, m
<1>4. CASE Passed(u, from)
  <2>1. m.t = u /\ m.buttons = buttons /\ m = [t |-> m.t, buttons |-> m.buttons]
    BY <1>3, <1>4
  <2>2. from = "fromTimer" => ~settings.fakemiddle
    BY <1>4 DEF Passed
  <2>3. Advanced(u, u, buttons, from)
    BY <1>4, <2>2 DEF Advanced, TouchKept
  <2>4. QED
    BY <2>1, <2>3 DEF m
<1>5. CASE ~Passed(u, from)
  <2>1. m.t = v /\ m.buttons = after /\ m = [t |-> m.t, buttons |-> m.buttons]
    BY <1>3, <1>5
  <2>2. settings.fakemiddle
    BY <1>5 DEF Passed
  <2>3. Advanced(u, v, buttons, from)
    BY <1>2, <2>2 DEF Advanced, Simulated
  <2>4. after \subseteq buttons \cup {"middle"}
    OBVIOUS
  <2>5. buttons = {} /\ HeldBack(u) => after = {}
    BY <1>2 DEF Simulated, Waits
  <2>6. QED
    BY <2>1, <2>3, <2>4, <2>5 DEF m
<1>6. QED
  BY <1>4, <1>5

(* A button held back is timed, unless the setting was changed meanwhile.  *)
HeldBackIsTimed(u) ==
    u.mbutton \in Waits /\ "middle" \notin u.excused => settings.fakemiddle /\ "button" \in u.timers

LEMMA AdvancedTimed ==
    ASSUME NEW u, NEW v, NEW buttons, NEW from, Advanced(u, v, buttons, from),
           HeldBackIsTimed(u)
    PROVE  HeldBackIsTimed(v)
BY DEF Advanced, TouchKept, HeldBackIsTimed

PacketType == [z : {"none", "edge", "touch"}, fingers : 0..MaxFingers, buttons : SUBSET Buttons]

LEMMA SimulateMiddleAdvances ==
    ASSUME NEW u, State(u), settings \in SettingsType, NEW p \in PacketType,
           NEW c, c.buttonLate \in BOOLEAN, HeldBack(u), HeldBackIsTimed(u)
    PROVE  LET m == SimulateMiddle(u, p, c)
           IN  /\ State(m.t) /\ TouchKept(u, m.t) /\ m.t.lastbuttons = p.buttons
               /\ HeldBack(m.t) /\ HeldBackIsTimed(m.t)
               /\ m.buttons \subseteq Buttons
               /\ m = [t |-> m.t, buttons |-> m.buttons]
               /\ p.buttons = {} => m.buttons = {}
               /\ p.buttons = {} /\ ~u.ignoreall => m.t.mbutton = "NOBUTTONS" \/ ~settings.fakemiddle
<1> DEFINE v == [u EXCEPT !.lastbuttons = p.buttons]
           from == IF p.fingers = 3 THEN "fromPassthru" ELSE "fromTrackpad"
           m == MiddleButton(v, p.buttons, from, c.buttonLate)
           n == MiddleButton(m.t, p.buttons, "fromCancel", FALSE)
<1>1. p.buttons \in SUBSET Buttons /\ from \in Froms /\ "fromCancel" \in Froms
  BY DEF PacketType, Froms
<1>2. /\ State(v) /\ TouchKept(u, v) /\ v.lastbuttons = p.buttons
      /\ HeldBack(v) /\ HeldBackIsTimed(v)
  BY <1>1 DEF State, TouchKept, HeldBack, HeldBackIsTimed, Fields
<1> HIDE DEF v, from
<1>3. /\ Advanced(v, m.t, p.buttons, from)
      /\ m.buttons \subseteq p.buttons \cup {"middle"}
      /\ p.buttons = {} => m.buttons = {}
      /\ m = [t |-> m.t, buttons |-> m.buttons]
  BY <1>1, <1>2, MiddleButtonAdvances
<1>4. /\ State(m.t) /\ TouchKept(u, m.t) /\ m.t.lastbuttons = p.buttons
      /\ HeldBack(m.t) /\ HeldBackIsTimed(m.t)
  <2>1. State(m.t) /\ TouchKept(u, m.t) /\ m.t.lastbuttons = p.buttons /\ HeldBack(m.t)
    BY <1>2, <1>3 DEF Advanced, TouchKept
  <2>2. QED
    BY <1>2, <1>3, <2>1, AdvancedTimed
<1>5. p.buttons = {} /\ ~u.ignoreall => m.t.mbutton = "NOBUTTONS" \/ ~settings.fakemiddle
  BY <1>2, <1>3 DEF Advanced, Passed, TouchKept
<1> HIDE DEF m
<1>6. /\ Advanced(m.t, n.t, p.buttons, "fromCancel")
      /\ n.buttons \subseteq p.buttons \cup {"middle"}
      /\ p.buttons = {} => n.buttons = {}
      /\ n = [t |-> n.t, buttons |-> n.buttons]
  BY <1>1, <1>4, MiddleButtonAdvances
<1>7. /\ State(n.t) /\ TouchKept(u, n.t) /\ n.t.lastbuttons = p.buttons
      /\ HeldBack(n.t) /\ HeldBackIsTimed(n.t)
  <2>1. State(n.t) /\ TouchKept(u, n.t) /\ n.t.lastbuttons = p.buttons /\ HeldBack(n.t)
    BY <1>4, <1>6 DEF Advanced, TouchKept
  <2>2. QED
    BY <1>4, <1>6, <2>1, AdvancedTimed
<1>8. p.buttons = {} => n.t.mbutton = "NOBUTTONS" \/ ~settings.fakemiddle
  BY <1>4, <1>6 DEF Advanced, Passed
<1> HIDE DEF n
<1>9. p.buttons \subseteq Buttons /\ "middle" \in Buttons
  BY <1>1 DEF Buttons
<1>10. SimulateMiddle(u, p, c) = IF u.lastFingers = 0 /\ p.fingers > 0 THEN n ELSE m
  BY DEF SimulateMiddle, n, m, v, from
<1>11. CASE SimulateMiddle(u, p, c) = n
  BY <1>6, <1>7, <1>8, <1>9, <1>11
<1>12. CASE SimulateMiddle(u, p, c) = m
  BY <1>3, <1>4, <1>5, <1>9, <1>12
<1>13. QED
  BY <1>10, <1>11, <1>12

-----------------------------------------------------------------------------
(* The steps of a touch leave the middle button alone, *)
MiddleKept(u, v) ==
    /\ v.mbutton = u.mbutton /\ v.pending = u.pending /\ v.lastbuttons = u.lastbuttons
    /\ v.ignoreall = u.ignoreall /\ v.quiet = u.quiet /\ v.excused = u.excused
    /\ "button" \in v.timers <=> "button" \in u.timers

(* and keep what waits timed. *)
TouchTimed(u) ==
    /\ u.touchmode = "DRAGNOTOUCH" =>
          settings.draglock \/ u.draglocktemp \/ "drag" \in u.timers \/ applying = "touchmode"
    /\ u.scrolldebounce => "debounce" \in u.timers
    /\ u.momentum => "scroll" \in u.timers

Touched(u, v) == State(v) /\ MiddleKept(u, v) /\ (TouchTimed(u) => TouchTimed(v))

LEMMA TouchedTwice ==
    ASSUME NEW u, NEW v, NEW w, Touched(u, v), Touched(v, w)
    PROVE  Touched(u, w)
BY DEF Touched, MiddleKept

(* What is remembered of two or three fingers is forgotten with the touch, *)
(* and of a touch that had as many.                                        *)
Recalled(u, n) ==
    /\ u.wasdouble => n >= 2
    /\ u.wastriple => n >= 3
    /\ u.touchmode \in NoTouchModes => ~u.wasdouble /\ ~u.wastriple

LEMMA StartMomentumTouched ==
    ASSUME NEW u, State(u), NEW c
    PROVE  Touched(u, StartMomentum(u, c)) /\ StartMomentum(u, c).touchmode = u.touchmode
BY DEF StartMomentum, SetTimerTimeout, Touched, MiddleKept, TouchTimed, State, Fields, Timers

LEMMA TapTouched ==
    ASSUME NEW m, m = [t |-> m.t, buttons |-> m.buttons], State(m.t), m.buttons \subseteq Buttons
    PROVE  /\ Touched(m.t, Tap(m).t) /\ Tap(m).t.touchmode \in NoTouchModes
           /\ Tap(m).buttons \subseteq Buttons
           /\ m.buttons = {} => Tap(m).buttons \subseteq Tap(m).t.tapped
           /\ Tap(m) = [t |-> Tap(m).t, buttons |-> Tap(m).buttons]
<1> DEFINE u == m.t
           tapped == {TapButton(u)}
           other == IF u.touchmode = "DRAG" /\ ~settings.immediateclick THEN {} ELSE m.buttons
           mode == IF u.touchmode # "DRAG" /\ settings.dragging /\ tapped = {"left"}
                   THEN "PREDRAG" ELSE "NOTOUCH"
           v == [u EXCEPT !.touchmode = mode, !.tapped = tapped]
           w == [u EXCEPT !.touchmode = "NOTOUCH"]
<1>1. tapped \subseteq Buttons
  BY DEF TapButton, Buttons, Both
<1>2. mode \in {"PREDRAG", "NOTOUCH"}
  OBVIOUS
<1>3. other \subseteq m.buttons
  OBVIOUS
<1> HIDE DEF tapped, mode, other
<1>4. Touched(u, v) /\ v.touchmode \in NoTouchModes /\ v.tapped = tapped
  BY <1>1, <1>2 DEF Touched, MiddleKept, TouchTimed, State, Fields, NoTouchModes
<1>5. Touched(u, w) /\ w.touchmode \in NoTouchModes
  BY DEF Touched, MiddleKept, TouchTimed, State, Fields, NoTouchModes
<1>6. CASE u.touchmode = "DRAGLOCK"
  <2>1. Tap(m) = [m EXCEPT !.t = w]
    BY <1>6 DEF Tap
  <2>2. Tap(m) = [t |-> w, buttons |-> m.buttons]
    BY <2>1
  <2>3. Tap(m).t = w /\ Tap(m).buttons = m.buttons /\ Tap(m) = [t |-> Tap(m).t, buttons |-> Tap(m).buttons]
    BY <2>2
  <2> HIDE DEF w
  <2>4. QED
    BY <1>5, <2>3
<1>7. CASE u.touchmode # "DRAGLOCK"
  <2>1. Tap(m) = [t |-> v, buttons |-> other \cup tapped]
    BY <1>7 DEF Tap, tapped, mode, other
  <2>2. other \cup tapped \subseteq Buttons /\ (m.buttons = {} => other \cup tapped \subseteq v.tapped)
    BY <1>1, <1>3, <1>4
  <2>3. /\ Tap(m).t = v /\ Tap(m).buttons = other \cup tapped
        /\ Tap(m) = [t |-> Tap(m).t, buttons |-> Tap(m).buttons]
    BY <2>1
  <2> HIDE DEF v
  <2>4. QED
    BY <1>4, <2>2, <2>3
<1>8. QED
  BY <1>6, <1>7

LEMMA EndTouchTouched ==
    ASSUME NEW u, State(u)
    PROVE  Touched(u, EndTouch(u)) /\ EndTouch(u).touchmode \in NoTouchModes
BY DEF EndTouch, SetTimerTimeout, Touched, MiddleKept, TouchTimed, State, Fields, Timers, NoTouchModes

LEMMA LiftTouched ==
    ASSUME NEW m, m = [t |-> m.t, buttons |-> m.buttons], State(m.t), m.buttons \subseteq Buttons, NEW c
    PROVE  LET o == Lift(m, c)
           IN  /\ Touched(m.t, o.t) /\ o.t.touchmode \in NoTouchModes
               /\ ~o.t.wasdouble /\ ~o.t.wastriple
               /\ o.buttons \subseteq Buttons
               /\ m.buttons = {} => o.buttons \subseteq o.t.tapped
               /\ o = [t |-> o.t, buttons |-> o.buttons]
<1> DEFINE u == StartMomentum(m.t, c)
           n == [m EXCEPT !.t = u]
           ended == EndTouch(u)
           o == IF n.t.touchtime /\ c.tap /\ settings.clicking THEN Tap(n)
                ELSE [n EXCEPT !.t = EndTouch(@)]
           v == [o.t EXCEPT !.wasdouble = FALSE, !.wastriple = FALSE]
<1>1. Touched(m.t, u) /\ State(u)
  BY StartMomentumTouched DEF Touched
<1>2. Touched(u, ended) /\ ended.touchmode \in NoTouchModes
  BY <1>1, EndTouchTouched
<1> HIDE DEF u, ended
<1>3. n = [t |-> n.t, buttons |-> n.buttons] /\ n.t = u /\ n.buttons = m.buttons
  OBVIOUS
<1> HIDE DEF n
<1>4. /\ Touched(u, o.t) /\ o.t.touchmode \in NoTouchModes
      /\ o.buttons \subseteq Buttons
      /\ m.buttons = {} => o.buttons \subseteq o.t.tapped
      /\ o = [t |-> o.t, buttons |-> o.buttons]
  <2>1. CASE n.t.touchtime /\ c.tap /\ settings.clicking
    <3>1. o = Tap(n)
      BY <2>1
    <3> HIDE DEF o
    <3>2. QED
      BY <1>1, <1>3, <3>1, TapTouched
  <2>2. CASE ~(n.t.touchtime /\ c.tap /\ settings.clicking)
    <3>1. o = [n EXCEPT !.t = ended]
      BY <2>2, <1>3 DEF ended
    <3> HIDE DEF o
    <3>2. o = [t |-> o.t, buttons |-> o.buttons] /\ o.t = ended /\ o.buttons = m.buttons
      BY <1>3, <3>1
    <3>3. QED
      BY <1>2, <3>2
  <2>3. QED
    BY <2>1, <2>2
<1> HIDE DEF o
<1>5. Touched(m.t, o.t)
  BY <1>1, <1>4, TouchedTwice
<1>6. /\ Touched(o.t, v) /\ v.touchmode = o.t.touchmode /\ v.tapped = o.t.tapped
      /\ ~v.wasdouble /\ ~v.wastriple
  BY <1>4 DEF Touched, MiddleKept, TouchTimed, State, Fields
<1>7. Lift(m, c) = [o EXCEPT !.t = v]
  BY DEF Lift, o, n, u
<1> HIDE DEF v
<1>8. /\ Lift(m, c) = [t |-> Lift(m, c).t, buttons |-> Lift(m, c).buttons]
      /\ Lift(m, c).t = v /\ Lift(m, c).buttons = o.buttons
  BY <1>4, <1>7
<1>9. Touched(m.t, v)
  BY <1>5, <1>6, TouchedTwice
<1>10. QED
  BY <1>4, <1>6, <1>8, <1>9

LEMMA MultiTouchTouched ==
    ASSUME NEW u, State(u), NEW p, NEW c
    PROVE  LET d == MultiTouch(u, p, c)
           IN  /\ Touched(u, d)
               /\ d.wasdouble = u.wasdouble /\ d.wastriple = u.wastriple
               /\ d.touchmode = u.touchmode \/ d.touchmode = "MOVE"
               /\ u.touchmode \in NoTouchModes => d = u
<1> DEFINE d == MultiTouch(u, p, c)
           v == [SetTimerTimeout(u, "debounce") EXCEPT !.scrolldebounce = TRUE, !.touchmode = "MOVE"]
<1>1. d = u \/ (d = v /\ u.touchmode = "MTOUCH")
  BY DEF MultiTouch
<1>2. /\ Touched(u, v) /\ v.wasdouble = u.wasdouble /\ v.wastriple = u.wastriple
      /\ v.touchmode = "MOVE"
  BY DEF SetTimerTimeout, Touched, MiddleKept, TouchTimed, State, Fields, Timers, TouchModes
<1>3. Touched(u, u)
  BY DEF Touched, MiddleKept
<1> HIDE DEF d, v
<1>4. QED
  BY <1>1, <1>2, <1>3 DEF d, NoTouchModes

LEMMA WatchTapTouched ==
    ASSUME NEW u, State(u), NEW p \in PacketType, NEW c
    PROVE  LET d == WatchTap(u, p, c)
           IN  /\ Touched(u, d) /\ d.touchmode = u.touchmode
               /\ d.wasdouble => u.wasdouble \/ p.fingers = 2
               /\ d.wastriple => u.wastriple \/ p.fingers = 3
<1> DEFINE d == WatchTap(u, p, c)
           time == u.touchtime \/ u.touchmode \in NoTouchModes
           double == p.fingers = 2 \/ (u.wasdouble /\ u.lastFingers # p.fingers)
           triple == p.fingers = 3 \/ (u.wastriple /\ u.lastFingers # p.fingers)
           v == [u EXCEPT !.touchtime = time, !.wasdouble = double, !.wastriple = triple]
<1>1. d = u \/ d = v
  BY DEF WatchTap
<1>2. time \in BOOLEAN /\ double \in BOOLEAN /\ triple \in BOOLEAN
  BY DEF State
<1>3. (double => u.wasdouble \/ p.fingers = 2) /\ (triple => u.wastriple \/ p.fingers = 3)
  OBVIOUS
<1> HIDE DEF d, time, double, triple
<1>4. Touched(u, v) /\ v.touchmode = u.touchmode /\ v.wasdouble = double /\ v.wastriple = triple
  BY <1>2 DEF Touched, MiddleKept, TouchTimed, State, Fields
<1>5. Touched(u, u)
  BY DEF Touched, MiddleKept
<1> HIDE DEF v
<1>6. QED
  BY <1>1, <1>3, <1>4, <1>5 DEF d

LEMMA CancelMomentumTouched ==
    ASSUME NEW u, State(u)
    PROVE  LET d == CancelMomentum(u)
           IN  /\ Touched(u, d) /\ d.touchmode = u.touchmode
               /\ d.wasdouble = u.wasdouble /\ d.wastriple = u.wastriple
BY DEF CancelMomentum, SetTimerTimeout, Touched, MiddleKept, TouchTimed, State, Fields, Timers

LEMMA SwitchModesTouched ==
    ASSUME NEW u, State(u), NEW p \in PacketType, NEW c, c.modifier \in BOOLEAN
    PROVE  LET d == SwitchModes(u, p, c)
           IN  /\ Touched(u, d)
               /\ d.wasdouble = u.wasdouble /\ d.wastriple = u.wastriple
               /\ d.touchmode \in NoTouchModes => u.touchmode \in NoTouchModes /\ p.fingers <= 1
<1> DEFINE v == IF u.touchmode = "PREDRAG"
                THEN [u EXCEPT !.touchmode = "DRAG", !.draglocktemp = c.modifier]
                ELSE IF u.touchmode = "DRAGNOTOUCH"
                THEN [CancelTimer(u, "drag") EXCEPT !.touchmode = "DRAGLOCK"]
                ELSE u
           d == SwitchModes(u, p, c)
<1>1. /\ Touched(u, v) /\ v.wasdouble = u.wasdouble /\ v.wastriple = u.wastriple
      /\ v.touchmode \in NoTouchModes => v = u
      /\ v.touchmode # "DRAGNOTOUCH"
  BY DEF CancelTimer, Touched, MiddleKept, TouchTimed, State, Fields, TouchModes, NoTouchModes
<1>2. d = IF p.fingers > 1 THEN [v EXCEPT !.touchmode = "MTOUCH"]
          ELSE IF v.touchmode = "NOTOUCH" /\ ~v.scrolldebounce THEN [v EXCEPT !.touchmode = "MOVE"]
          ELSE v
  BY DEF SwitchModes
<1> HIDE DEF v, d
<1>3. Touched(v, d) /\ d.wasdouble = v.wasdouble /\ d.wastriple = v.wastriple
  BY <1>1, <1>2 DEF Touched, MiddleKept, TouchTimed, State, Fields, TouchModes
<1>4. d.touchmode \in NoTouchModes => v.touchmode \in NoTouchModes /\ p.fingers <= 1
  BY <1>1, <1>2 DEF PacketType, Touched, State, Fields, NoTouchModes
<1>5. Touched(u, d)
  BY <1>1, <1>3, TouchedTwice
<1>6. QED
  BY <1>1, <1>3, <1>4, <1>5 DEF d

(* A finger goes down, or stays down. *)
FingerDown(u, p, c) == SwitchModes(CancelMomentum(WatchTap(u, p, c)), p, c)

LEMMA FingerDownTouched ==
    ASSUME NEW u, State(u), NEW p \in PacketType, NEW c, c.modifier \in BOOLEAN
    PROVE  /\ Touched(u, FingerDown(u, p, c))
           /\ \A k, n \in Nat : Recalled(u, k) /\ k <= n /\ p.fingers <= n =>
                  Recalled(FingerDown(u, p, c), n)
<1> DEFINE v == WatchTap(u, p, c)
           w == CancelMomentum(v)
           d == SwitchModes(w, p, c)
<1>1. /\ Touched(u, v) /\ v.touchmode = u.touchmode
      /\ v.wasdouble => u.wasdouble \/ p.fingers = 2
      /\ v.wastriple => u.wastriple \/ p.fingers = 3
  BY WatchTapTouched
<1> HIDE DEF v
<1>2. /\ Touched(v, w) /\ w.touchmode = v.touchmode
      /\ w.wasdouble = v.wasdouble /\ w.wastriple = v.wastriple
  BY <1>1, CancelMomentumTouched DEF Touched
<1> HIDE DEF w
<1>3. /\ Touched(w, d) /\ d.wasdouble = w.wasdouble /\ d.wastriple = w.wastriple
      /\ d.touchmode \in NoTouchModes => w.touchmode \in NoTouchModes /\ p.fingers <= 1
  BY <1>2, SwitchModesTouched DEF Touched
<1> HIDE DEF d
<1>4. Touched(u, d)
  BY <1>1, <1>2, <1>3, TouchedTwice
<1>5. ASSUME NEW k \in Nat, NEW n \in Nat, Recalled(u, k), k <= n, p.fingers <= n
      PROVE  Recalled(d, n)
  <2>1. p.fingers \in Nat
    BY DEF PacketType
  <2>2. u.wasdouble => k >= 2
    BY <1>5 DEF Recalled
  <2>3. u.wastriple => k >= 3
    BY <1>5 DEF Recalled
  <2>4. d.wasdouble => n >= 2
    BY <1>1, <1>2, <1>3, <1>5, <2>1, <2>2
  <2>5. d.wastriple => n >= 3
    BY <1>1, <1>2, <1>3, <1>5, <2>1, <2>3
  <2>6. ASSUME d.touchmode \in NoTouchModes PROVE ~d.wasdouble /\ ~d.wastriple
    <3>1. u.touchmode \in NoTouchModes /\ p.fingers <= 1
      BY <1>1, <1>2, <1>3, <2>6
    <3>2. ~u.wasdouble /\ ~u.wastriple
      BY <1>5, <3>1 DEF Recalled
    <3>3. p.fingers # 2 /\ p.fingers # 3
      BY <2>1, <3>1
    <3>4. QED
      BY <1>1, <1>2, <1>3, <3>2, <3>3
  <2>7. QED
    BY <2>4, <2>5, <2>6 DEF Recalled
<1>6. QED
  BY <1>4, <1>5 DEF FingerDown, d, w, v

(* What follows the early returns.  On a lift, and without a touch, nothing*)
(* is remembered of fingers, and without buttons only a drag or a tap      *)
(* holds one down.                                                         *)
DragButtons(u) == IF u.touchmode \in {"PREDRAG", "DRAGNOTOUCH"} THEN {"left"} ELSE {}

LEMMA DispatchTouchTouched ==
    ASSUME NEW m, m = [t |-> m.t, buttons |-> m.buttons], State(m.t), m.buttons \subseteq Buttons,
           NEW p \in PacketType, NEW c, c.modifier \in BOOLEAN
    PROVE  LET r == DispatchTouch(m, p, c)
           IN  /\ Touched(m.t, r)
               /\ \A k, n \in Nat : Recalled(m.t, k) /\ k <= n /\ p.fingers <= n => Recalled(r, n)
               /\ p.z = "none" /\ (m.t.touchmode \in NoTouchModes => Recalled(m.t, 0)) => Recalled(r, 0)
               /\ p.z = "none" /\ m.buttons = {} => r.down \subseteq r.tapped \cup DragButtons(r)
<1> DEFINE l == IF p.z = "none" /\ m.t.touchmode \in TouchModes THEN Lift(m, c) ELSE m
           late == l.t.touchmode = "PREDRAG" /\ c.dragLate
           a == IF late THEN [l.t EXCEPT !.touchmode = "NOTOUCH"] ELSE l.t
           b == IF /\ a.touchmode \in TouchModes /\ p.z = "touch"
                   /\ a.lastFingers = p.fingers /\ c.moved
                THEN [a EXCEPT !.touchtime = FALSE] ELSE a
           held == IF Holds(b, c) THEN {"left"} ELSE {}
           d == MultiTouch(b, p, c)
           e == IF p.z = "touch" THEN FingerDown(d, p, c) ELSE d
           r == [Report(e, l.buttons \cup held) EXCEPT !.lastFingers = p.fingers]
<1>1. /\ Touched(m.t, l.t) /\ l.buttons \subseteq Buttons
      /\ m.buttons = {} => l.buttons \subseteq l.t.tapped
      /\ \A k \in Nat : Recalled(m.t, k) => Recalled(l.t, k)
      /\ p.z = "none" => l.t.touchmode \in NoTouchModes
      /\ p.z = "none" /\ (m.t.touchmode \in NoTouchModes => Recalled(m.t, 0)) => Recalled(l.t, 0)
  <2>1. CASE p.z = "none" /\ m.t.touchmode \in TouchModes
    <3>1. l = Lift(m, c)
      BY <2>1
    <3> HIDE DEF l
    <3>2. /\ Touched(m.t, l.t) /\ l.t.touchmode \in NoTouchModes
          /\ ~l.t.wasdouble /\ ~l.t.wastriple /\ l.buttons \subseteq Buttons
          /\ m.buttons = {} => l.buttons \subseteq l.t.tapped
      BY <3>1, LiftTouched
    <3>3. QED
      BY <3>2 DEF Recalled
  <2>2. CASE ~(p.z = "none" /\ m.t.touchmode \in TouchModes)
    <3>1. l = m
      BY <2>2
    <3> HIDE DEF l
    <3>2. Touched(m.t, m.t)
      BY DEF Touched, MiddleKept
    <3>3. p.z = "none" => m.t.touchmode \in NoTouchModes
      BY <2>2 DEF State
    <3>4. QED
      BY <3>1, <3>2, <3>3
  <2>3. QED
    BY <2>1, <2>2
<1> HIDE DEF l
<1>2. /\ Touched(l.t, a) /\ a.tapped = l.t.tapped
      /\ \A k \in Nat : Recalled(l.t, k) => Recalled(a, k)
      /\ l.t.touchmode \in NoTouchModes => a.touchmode \in NoTouchModes
  BY <1>1 DEF Touched, MiddleKept, TouchTimed, State, Fields, Recalled, NoTouchModes
<1> HIDE DEF a
<1>3. /\ Touched(a, b) /\ b.tapped = a.tapped /\ b.touchmode = a.touchmode
      /\ \A k \in Nat : Recalled(a, k) => Recalled(b, k)
  <2> DEFINE still == [a EXCEPT !.touchtime = FALSE]
  <2>1. b = a \/ b = still
    OBVIOUS
  <2>2. /\ Touched(a, still) /\ still.tapped = a.tapped /\ still.touchmode = a.touchmode
        /\ \A k \in Nat : Recalled(a, k) => Recalled(still, k)
    BY <1>2 DEF Touched, MiddleKept, TouchTimed, State, Fields, Recalled
  <2>3. Touched(a, a)
    BY <1>2 DEF Touched, MiddleKept
  <2> HIDE DEF b, still
  <2>4. QED
    BY <2>1, <2>2, <2>3
<1> HIDE DEF b
<1>4. /\ held \subseteq {"left"}
      /\ b.touchmode \in NoTouchModes => held \subseteq DragButtons(b)
  BY DEF Holds, NoTouchModes, DragButtons
<1> HIDE DEF held
<1>5. /\ Touched(b, d) /\ \A k \in Nat : Recalled(b, k) => Recalled(d, k)
      /\ b.touchmode \in NoTouchModes => d = b
  <2>1. /\ Touched(b, d) /\ d.wasdouble = b.wasdouble /\ d.wastriple = b.wastriple
        /\ d.touchmode = b.touchmode \/ d.touchmode = "MOVE"
        /\ b.touchmode \in NoTouchModes => d = b
    BY <1>3, MultiTouchTouched DEF Touched
  <2> HIDE DEF d
  <2>2. "MOVE" \notin NoTouchModes
    BY DEF NoTouchModes
  <2>3. QED
    BY <2>1, <2>2 DEF Recalled
<1> HIDE DEF d
<1>6. /\ Touched(d, e)
      /\ \A k, n \in Nat : Recalled(d, k) /\ k <= n /\ p.fingers <= n => Recalled(e, n)
      /\ p.z = "none" => e = d
  <2>1. CASE p.z = "touch"
    <3>1. e = FingerDown(d, p, c)
      BY <2>1
    <3> HIDE DEF e
    <3>2. QED
      BY <1>5, <2>1, <3>1, FingerDownTouched DEF Touched
  <2>2. CASE p.z # "touch"
    <3>1. e = d
      BY <2>2
    <3> HIDE DEF e
    <3>2. Touched(d, d)
      BY <1>5 DEF Touched, MiddleKept
    <3>3. \A k, n \in Nat : Recalled(d, k) /\ k <= n => Recalled(d, n)
      BY DEF Recalled
    <3>4. QED
      BY <3>1, <3>2, <3>3
  <2>3. QED
    BY <2>1, <2>2
<1> HIDE DEF e
<1>7. l.buttons \cup held \subseteq Buttons
  BY <1>1, <1>4 DEF Buttons, Both
<1>8. /\ Touched(e, r) /\ r.down = l.buttons \cup held /\ r.tapped = e.tapped
      /\ r.touchmode = e.touchmode /\ r.wasdouble = e.wasdouble /\ r.wastriple = e.wastriple
  BY <1>6, <1>7 DEF Report, Touched, MiddleKept, TouchTimed, State, Fields, PacketType
<1> HIDE DEF r
<1>9. \A k \in Nat : Recalled(e, k) => Recalled(r, k)
  BY <1>8 DEF Recalled
<1>10. r = DispatchTouch(m, p, c)
  BY DEF DispatchTouch, FingerDown, l, a, b, held, d, e, r
<1>11. Touched(m.t, r)
  BY <1>1, <1>2, <1>3, <1>5, <1>6, <1>8, TouchedTwice
<1>12. ASSUME NEW k \in Nat, NEW n \in Nat, Recalled(m.t, k), k <= n, p.fingers <= n
       PROVE  Recalled(r, n)
  <2>1. Recalled(d, k)
    BY <1>1, <1>2, <1>3, <1>5, <1>12
  <2>2. QED
    BY <1>6, <1>9, <1>12, <2>1
<1>13. ASSUME p.z = "none", m.t.touchmode \in NoTouchModes => Recalled(m.t, 0)
       PROVE  Recalled(r, 0)
  <2>1. Recalled(d, 0)
    BY <1>1, <1>2, <1>3, <1>5, <1>13
  <2>2. QED
    BY <1>6, <1>9, <1>13, <2>1
<1>14. ASSUME p.z = "none", m.buttons = {}
       PROVE  r.down \subseteq r.tapped \cup DragButtons(r)
  <2>1. b.touchmode \in NoTouchModes /\ e = b
    BY <1>1, <1>2, <1>3, <1>5, <1>6, <1>14
  <2>2. l.buttons \subseteq r.tapped /\ held \subseteq DragButtons(b)
    BY <1>1, <1>2, <1>3, <1>4, <1>8, <1>14, <2>1
  <2>3. DragButtons(r) = DragButtons(b)
    BY <1>8, <2>1 DEF DragButtons
  <2>4. QED
    BY <1>8, <2>2, <2>3
<1>15. QED
  BY <1>10, <1>11, <1>12, <1>13, <1>14

-----------------------------------------------------------------------------
(* The inductive invariant.  A button held back is held back for a reason, *)
(* and one that waits is timed; what is remembered of fingers is of this   *)
(* touch, and gone without one; and when the pad is left alone no button is*)
(* left over.                                                              *)
Sound(u) == State(u) /\ HeldBack(u) /\ HeldBackIsTimed(u) /\ TouchTimed(u)

Remembers(u, n) == "fingers" \notin u.excused => Recalled(u, n)

Settled(u) ==
    u.quiet => /\ u.lastbuttons = {}
               /\ u.down \subseteq u.tapped \cup DragButtons(u)
               /\ u.mbutton = "NOBUTTONS" \/ ~settings.fakemiddle

Stages == {"none", "touchmode", "ignoreall"}

TouchInv ==
    /\ settings \in SettingsType /\ applying \in Stages /\ changes \in 0..MaxChanges /\ most \in 0..MaxFingers
    /\ Sound(t) /\ Remembers(t, most) /\ Settled(t)

(* A change from outside excuses what is remembered of fingers. *)
LEMMA DisturbSound ==
    ASSUME NEW u, Sound(u)
    PROVE  Sound(Disturb(u)) /\ "fingers" \in Disturb(u).excused /\ ~Disturb(u).quiet
<1>1. State(Disturb(u))
  BY DEF Sound, Disturb, State, Fields
<1>2. /\ Disturb(u).mbutton = u.mbutton /\ Disturb(u).pending = u.pending
      /\ Disturb(u).timers = u.timers /\ Disturb(u).touchmode = u.touchmode
      /\ Disturb(u).draglocktemp = u.draglocktemp /\ Disturb(u).momentum = u.momentum
      /\ Disturb(u).scrolldebounce = u.scrolldebounce /\ ~Disturb(u).quiet
      /\ Disturb(u).excused = u.excused \cup {"fingers"}
  BY DEF Sound, Disturb, State, Fields
<1>3. QED
  BY <1>1, <1>2 DEF Sound, HeldBack, HeldBackIsTimed, TouchTimed

LEMMA DispatchEventsSound ==
    ASSUME NEW u, Sound(u), settings \in SettingsType, NEW p \in PacketType,
           NEW c, c.buttonLate \in BOOLEAN, c.modifier \in BOOLEAN,
           NEW n \in Nat, Remembers(u, n)
    PROVE  LET v == DispatchEvents(u, p, c)
           IN  /\ Sound(v) /\ Settled(v)
               /\ p.z = "none" => Remembers(v, 0)
               /\ \A k \in Nat : n <= k /\ p.fingers <= k => Remembers(v, k)
<1> DEFINE rest == p.z = "none" /\ p.buttons = {}
           w == [u EXCEPT !.tapped = {}, !.quiet = rest]
           m == SimulateMiddle(w, p, c)
           r == DispatchTouch(m, p, c)
           over == (IF p.z = "none" /\ u.touchmode \in TouchModes THEN {"fingers"} ELSE {})
                   \cup IF m.t.mbutton \in Waits THEN {} ELSE {"middle"}
           v == [r EXCEPT !.excused = @ \ over]
           ignored == settings.outzone_wt /\ p.z = "touch" /\ c.typing /\ c.outside
<1>1. rest \in BOOLEAN
  OBVIOUS
<1> HIDE DEF rest
<1>2. /\ Sound(w) /\ w.touchmode = u.touchmode /\ w.wasdouble = u.wasdouble
      /\ w.wastriple = u.wastriple /\ w.excused = u.excused /\ w.quiet = rest
  <2>1. /\ State(w) /\ w.touchmode = u.touchmode /\ w.wasdouble = u.wasdouble
        /\ w.wastriple = u.wastriple /\ w.excused = u.excused /\ w.quiet = rest
        /\ w.mbutton = u.mbutton /\ w.pending = u.pending /\ w.timers = u.timers
        /\ w.draglocktemp = u.draglocktemp /\ w.momentum = u.momentum
        /\ w.scrolldebounce = u.scrolldebounce
    BY <1>1 DEF Sound, State, Fields
  <2> HIDE DEF w
  <2>2. QED
    BY <2>1 DEF Sound, HeldBack, HeldBackIsTimed, TouchTimed
<1> HIDE DEF w
<1>3. /\ State(m.t) /\ TouchKept(w, m.t) /\ m.t.lastbuttons = p.buttons
      /\ HeldBack(m.t) /\ HeldBackIsTimed(m.t) /\ m.buttons \subseteq Buttons
      /\ m = [t |-> m.t, buttons |-> m.buttons]
      /\ p.buttons = {} => m.buttons = {}
      /\ p.buttons = {} /\ ~w.ignoreall => m.t.mbutton = "NOBUTTONS" \/ ~settings.fakemiddle
  BY <1>2, SimulateMiddleAdvances DEF Sound
<1> HIDE DEF m
<1>4. Sound(m.t)
  BY <1>2, <1>3 DEF Sound, TouchKept, TouchTimed
<1>5. Remembers(m.t, n) /\ m.t.touchmode = u.touchmode /\ m.t.excused = u.excused
  BY <1>2, <1>3 DEF TouchKept, Remembers, Recalled
<1>6. CASE ignored \/ m.t.ignoreall
  <2>1. DispatchEvents(u, p, c) = Disturb(m.t)
    BY <1>6 DEF DispatchEvents, m, w, rest
  <2>2. QED
    BY <1>4, <2>1, DisturbSound DEF Remembers, Settled
<1>7. CASE ~ignored /\ ~m.t.ignoreall
  <2>1. DispatchEvents(u, p, c) = v
    BY <1>7 DEF DispatchEvents, m, w, rest
  <2>2. /\ Touched(m.t, r)
        /\ \A i, k \in Nat : Recalled(m.t, i) /\ i <= k /\ p.fingers <= k => Recalled(r, k)
        /\ p.z = "none" /\ (m.t.touchmode \in NoTouchModes => Recalled(m.t, 0)) => Recalled(r, 0)
        /\ p.z = "none" /\ m.buttons = {} => r.down \subseteq r.tapped \cup DragButtons(r)
    BY <1>3, DispatchTouchTouched
  <2> HIDE DEF r
  <2>3. /\ m.t.mbutton \in Waits => "middle" \notin over
        /\ "fingers" \in over => p.z = "none" /\ u.touchmode \in TouchModes
    OBVIOUS
  <2> HIDE DEF over
  <2>4. /\ State(v) /\ v.excused = r.excused \ over
        /\ v.mbutton = r.mbutton /\ v.pending = r.pending /\ v.timers = r.timers
        /\ v.touchmode = r.touchmode /\ v.draglocktemp = r.draglocktemp
        /\ v.momentum = r.momentum /\ v.scrolldebounce = r.scrolldebounce
        /\ v.wasdouble = r.wasdouble /\ v.wastriple = r.wastriple
        /\ v.quiet = r.quiet /\ v.down = r.down /\ v.tapped = r.tapped
        /\ v.lastbuttons = r.lastbuttons
    BY <2>2 DEF Touched, State, Fields
  <2> HIDE DEF v
  <2>5. Sound(v)
    <3>1. HeldBack(v) /\ HeldBackIsTimed(v)
      BY <1>3, <2>2, <2>3, <2>4 DEF Touched, MiddleKept, HeldBack, HeldBackIsTimed
    <3>2. TouchTimed(v)
      BY <1>4, <2>2, <2>4 DEF Touched, Sound, TouchTimed
    <3>3. QED
      BY <2>4, <3>1, <3>2 DEF Sound
  <2>6. \A k \in Nat : Recalled(r, k) => Recalled(v, k)
    BY <2>4 DEF Recalled
  <2>7. "fingers" \notin v.excused /\ "fingers" \notin over => Recalled(m.t, n)
    BY <1>5, <2>2, <2>4 DEF Touched, MiddleKept, Remembers
  <2>8. ASSUME p.z = "none", "fingers" \notin v.excused PROVE Recalled(v, 0)
    <3>1. m.t.touchmode \in NoTouchModes => Recalled(m.t, 0)
      <4>1. ASSUME m.t.touchmode \in NoTouchModes PROVE Recalled(m.t, 0)
        <5>1. "fingers" \notin over
          BY <1>5, <2>3, <4>1 DEF TouchModes, NoTouchModes
        <5>2. Recalled(m.t, n)
          BY <2>7, <2>8, <5>1
        <5>3. QED
          BY <4>1, <5>2 DEF Recalled
      <4>2. QED
        BY <4>1
    <3>2. QED
      BY <2>2, <2>6, <2>8, <3>1
  <2>9. ASSUME NEW k \in Nat, n <= k, p.fingers <= k, "fingers" \notin v.excused
        PROVE  Recalled(v, k)
    <3>1. CASE "fingers" \in over
      <4>1. Recalled(v, 0)
        BY <2>3, <2>8, <2>9, <3>1
      <4>2. QED
        BY <4>1 DEF Recalled
    <3>2. CASE "fingers" \notin over
      BY <2>2, <2>6, <2>7, <2>9, <3>2
    <3>3. QED
      BY <3>1, <3>2
  <2>10. Settled(v)
    <3>1. SUFFICES ASSUME v.quiet
                   PROVE  /\ v.lastbuttons = {} /\ v.down \subseteq v.tapped \cup DragButtons(v)
                          /\ v.mbutton = "NOBUTTONS" \/ ~settings.fakemiddle
      BY DEF Settled
    <3>2. p.z = "none" /\ p.buttons = {}
      BY <1>2, <1>3, <2>2, <2>4, <3>1 DEF TouchKept, Touched, MiddleKept, rest
    <3>3. ~w.ignoreall
      BY <1>3, <1>7 DEF TouchKept
    <3>4. DragButtons(v) = DragButtons(r)
      BY <2>4 DEF DragButtons
    <3>5. QED
      BY <1>3, <2>2, <2>4, <3>2, <3>3, <3>4 DEF Touched, MiddleKept
  <2>11. QED
    BY <2>1, <2>5, <2>8, <2>9, <2>10 DEF Remembers
<1>8. QED
  BY <1>6, <1>7

-----------------------------------------------------------------------------
(* The steps. *)
LEMMA Carried ==
    ASSUME TouchInv, UNCHANGED settings, UNCHANGED applying, changes' \in 0..MaxChanges, most' \in 0..MaxFingers,
           Sound(t'), Remembers(t', most'), Settled(t')
    PROVE  TouchInv'
<1>1. HeldBackIsTimed(t)' /\ TouchTimed(t)' /\ Settled(t)'
  BY DEF Sound, HeldBackIsTimed, TouchTimed, Settled
<1>2. QED
  BY <1>1 DEF TouchInv, Sound, Remembers

LEMMA OpenChoices ==
    ASSUME NEW u, NEW p, NEW c \in Open(u, p)
    PROVE  c.buttonLate \in BOOLEAN /\ c.modifier \in BOOLEAN
BY DEF Open, If

LEMMA PacketsTyped == \A p \in Packets : p \in PacketType
BY InputsAssumption DEF PacketType

LEMMA MostFingers ==
    ASSUME NEW a \in Nat, NEW b \in Nat
    PROVE  Max({a, b}) \in {a, b} /\ a <= Max({a, b}) /\ b <= Max({a, b})
<1>1. \E x \in {a, b} : \A y \in {a, b} : x >= y
  OBVIOUS
<1>2. QED
  BY <1>1 DEF Max

(* A packet, in whatever mode it finds the touch. *)
LEMMA PacketStep ==
    ASSUME TouchInv, NEW p \in Packets, NEW u, NEW c \in Open(u, p),
           Sound(u), Remembers(u, most),
           t' = DispatchEvents(u, p, c), CountFingers(p), UNCHANGED <<settings, applying, changes>>
    PROVE  TouchInv'
<1>1. p \in PacketType /\ settings \in SettingsType /\ most \in Nat /\ p.fingers \in 0..MaxFingers
  BY PacketsTyped, BoundsAssumption DEF TouchInv, PacketType
<1>2. /\ Sound(t') /\ Settled(t')
      /\ p.z = "none" => Remembers(t', 0)
      /\ \A k \in Nat : most <= k /\ p.fingers <= k => Remembers(t', k)
  BY <1>1, OpenChoices, DispatchEventsSound
<1>3. Max({most, p.fingers}) \in 0..MaxFingers
  BY <1>1, MostFingers DEF TouchInv
<1>4. most' \in 0..MaxFingers
  BY <1>3, BoundsAssumption DEF CountFingers
<1>5. Remembers(t', most')
  <2>1. CASE p.z = "none"
    BY <1>2, <2>1 DEF CountFingers
  <2>2. CASE "fingers" \in t'.excused
    BY <2>2 DEF Remembers
  <2>3. CASE p.z # "none" /\ "fingers" \notin t'.excused
    <3>1. most' = Max({most, p.fingers})
      BY <2>3 DEF CountFingers
    <3>2. most <= most' /\ p.fingers <= most' /\ most' \in Nat
      BY <1>1, <1>4, <3>1, MostFingers
    <3>3. QED
      BY <1>2, <3>2
  <2>4. QED
    BY <2>1, <2>2, <2>3
<1>6. QED
  BY <1>2, <1>4, <1>5, Carried DEF TouchInv

LEMMA TouchPacketKeeps ==
    ASSUME TouchInv, NEW p \in Packets, TouchPacket(p)
    PROVE  TouchInv'
<1>1. PICK c \in Open(t, p) : t' = DispatchEvents(t, p, c)
  BY DEF TouchPacket
<1>2. QED
  BY <1>1, PacketStep DEF TouchPacket, TouchInv

LEMMA GesturePacketKeeps ==
    ASSUME TouchInv, NEW p \in Packets, GesturePacket(p)
    PROVE  TouchInv'
<1> DEFINE u == [t EXCEPT !.touchmode = "DRAG"]
<1>1. PICK c \in Open(u, p) : t' = DispatchEvents(u, p, c)
  BY DEF GesturePacket
<1>2. /\ State(u) /\ u.touchmode = "DRAG" /\ u.wasdouble = t.wasdouble /\ u.wastriple = t.wastriple
      /\ u.excused = t.excused /\ u.mbutton = t.mbutton /\ u.pending = t.pending
      /\ u.timers = t.timers /\ u.draglocktemp = t.draglocktemp /\ u.momentum = t.momentum
      /\ u.scrolldebounce = t.scrolldebounce
  BY DEF TouchInv, Sound, State, Fields, TouchModes
<1> HIDE DEF u
<1>3. Sound(u)
  BY <1>2 DEF TouchInv, Sound, HeldBack, HeldBackIsTimed, TouchTimed
<1>4. Remembers(u, most)
  BY <1>2 DEF TouchInv, Remembers, Recalled, NoTouchModes
<1>5. QED
  BY <1>1, <1>3, <1>4, PacketStep DEF GesturePacket

LEMMA StickPacketKeeps ==
    ASSUME TouchInv, NEW raw \in StickButtons, StickPacket(raw)
    PROVE  TouchInv'
<1> DEFINE buttons == IF raw = {} THEN t.lastbuttons ELSE raw
           u == [t EXCEPT !.lastbuttons = buttons, !.quiet = FALSE, !.tapped = {}]
<1>1. buttons \subseteq Buttons
  BY InputsAssumption DEF TouchInv, Sound, State
<1>2. t' = u \/ t' = Report(u, buttons)
  BY DEF StickPacket
<1> HIDE DEF buttons
<1>3. /\ State(t') /\ ~t'.quiet
      /\ t'.touchmode = t.touchmode /\ t'.wasdouble = t.wasdouble /\ t'.wastriple = t.wastriple
      /\ t'.excused = t.excused /\ t'.mbutton = t.mbutton /\ t'.pending = t.pending
      /\ t'.timers = t.timers /\ t'.draglocktemp = t.draglocktemp /\ t'.momentum = t.momentum
      /\ t'.scrolldebounce = t.scrolldebounce
  BY <1>1, <1>2 DEF Report, TouchInv, Sound, State, Fields
<1>4. Sound(t')
  BY <1>3 DEF TouchInv, Sound, HeldBack, HeldBackIsTimed, TouchTimed
<1>5. Remembers(t', most) /\ Settled(t')
  BY <1>3 DEF TouchInv, Remembers, Recalled, Settled
<1>6. UNCHANGED <<settings, applying, changes, most>>
  BY DEF StickPacket
<1>7. QED
  BY <1>4, <1>5, <1>6, Carried DEF TouchInv

(* A step that changes timers, momentum and debouncing only. *)
TimersOnly(u, v) ==
    /\ State(v) /\ TouchTimed(v)
    /\ v.touchmode = u.touchmode /\ v.wasdouble = u.wasdouble /\ v.wastriple = u.wastriple
    /\ v.excused = u.excused /\ v.mbutton = u.mbutton /\ v.pending = u.pending
    /\ v.lastbuttons = u.lastbuttons /\ v.quiet = u.quiet /\ v.down = u.down /\ v.tapped = u.tapped
    /\ "button" \in u.timers => "button" \in v.timers

LEMMA TimersStep ==
    ASSUME TouchInv, TimersOnly(t, t'), UNCHANGED <<settings, applying, changes, most>>
    PROVE  TouchInv'
<1>1. Sound(t')
  BY DEF TouchInv, TimersOnly, Sound, HeldBack, HeldBackIsTimed
<1>2. Remembers(t', most)
  BY DEF TouchInv, TimersOnly, Remembers, Recalled
<1>3. Settled(t')
  BY DEF TouchInv, TimersOnly, Settled, DragButtons
<1>4. QED
  BY <1>1, <1>2, <1>3, Carried DEF TouchInv

LEMMA ScrollTimersKeep ==
    ASSUME TouchInv, OnScrollTimer \/ OnScrollDebounceTimer \/ NotifyKeyPressed
    PROVE  TouchInv'
<1>1. UNCHANGED <<settings, applying, changes, most>>
  BY DEF OnScrollTimer, OnScrollDebounceTimer, NotifyKeyPressed
<1>2. TimersOnly(t, t')
  <2>1. CASE OnScrollTimer
    <3> DEFINE u == CancelTimer(t, "scroll")
    <3>1. t' = SetTimerTimeout(u, "scroll") \/ t' = [u EXCEPT !.momentum = FALSE]
      BY <2>1 DEF OnScrollTimer
    <3>2. CASE t' = SetTimerTimeout(u, "scroll")
      BY <3>2 DEF TouchInv, Sound, TimersOnly, TouchTimed, SetTimerTimeout, CancelTimer, State, Fields, Timers
    <3>3. CASE t' = [u EXCEPT !.momentum = FALSE]
      BY <3>3 DEF TouchInv, Sound, TimersOnly, TouchTimed, CancelTimer, State, Fields
    <3>4. QED
      BY <3>1, <3>2, <3>3
  <2>2. CASE OnScrollDebounceTimer
    BY <2>2 DEF OnScrollDebounceTimer, TouchInv, Sound, TimersOnly, TouchTimed, CancelTimer, State, Fields
  <2>3. CASE NotifyKeyPressed
    BY <2>3 DEF NotifyKeyPressed, TouchInv, Sound, TimersOnly, TouchTimed, State, Fields
  <2>4. QED
    BY <2>1, <2>2, <2>3
<1>3. QED
  BY <1>1, <1>2, TimersStep

(* The button timer ends the wait it was started for: the setting cannot   *)
(* have been switched off without the wait being excused.                  *)
LEMMA OnButtonTimerKeeps ==
    ASSUME TouchInv, OnButtonTimer
    PROVE  TouchInv'
<1> DEFINE u == CancelTimer(t, "button")
           m == MiddleButton(u, t.lastbuttons, "fromTimer", FALSE)
<1>1. t' = m.t /\ UNCHANGED <<settings, applying, changes, most>>
  BY DEF OnButtonTimer
<1>2. /\ State(u) /\ TouchKept(t, u) /\ u.lastbuttons = t.lastbuttons /\ HeldBack(u)
      /\ u.mbutton = t.mbutton /\ u.down = t.down
  BY DEF TouchInv, Sound, State, Fields, CancelTimer, TouchKept, HeldBack
<1> HIDE DEF u
<1>3. t.lastbuttons \in SUBSET Buttons /\ settings \in SettingsType /\ "fromTimer" \in Froms
  BY DEF TouchInv, Sound, State, Froms
<1>4. Advanced(u, m.t, t.lastbuttons, "fromTimer")
  BY <1>2, <1>3, MiddleButtonAdvances
<1>5. t.quiet => m.t = u
  <2>1. SUFFICES ASSUME t.quiet PROVE m.t = u
    OBVIOUS
  <2>2. t.lastbuttons = {} /\ (t.mbutton = "NOBUTTONS" \/ ~settings.fakemiddle)
    BY <2>1 DEF TouchInv, Settled
  <2>3. CASE ~settings.fakemiddle
    BY <2>3 DEF MiddleButton, Passed
  <2>4. CASE t.mbutton = "NOBUTTONS"
    <3>1. NoButtons(u, t.lastbuttons, "fromTimer") = u
      BY <2>2 DEF NoButtons
    <3>2. QED
      BY <1>2, <2>4, <3>1 DEF MiddleButton
  <2>5. QED
    BY <2>2, <2>3, <2>4
<1> HIDE DEF m
<1>6. /\ State(t') /\ HeldBack(t') /\ TouchKept(t, t') /\ t'.lastbuttons = t.lastbuttons
  BY <1>1, <1>2, <1>4 DEF Advanced, TouchKept
<1>7. HeldBackIsTimed(t')
  <2>1. SUFFICES ASSUME t'.mbutton \in Waits, "middle" \notin t'.excused
                 PROVE  settings.fakemiddle /\ "button" \in t'.timers
    BY DEF HeldBackIsTimed
  <2>2. CASE t' = u /\ ~settings.fakemiddle
    BY <1>2, <2>1, <2>2 DEF TouchKept, TouchInv, Sound, HeldBackIsTimed
  <2>3. QED
    BY <1>1, <1>4, <2>1, <2>2 DEF Advanced
<1>8. TouchTimed(t')
  BY <1>6 DEF TouchInv, Sound, TouchTimed, TouchKept
<1>9. Remembers(t', most)
  BY <1>6 DEF TouchInv, Remembers, Recalled, TouchKept
<1>10. Settled(t')
  BY <1>1, <1>2, <1>5, <1>6 DEF TouchInv, Settled, DragButtons, TouchKept
<1>11. QED
  BY <1>1, <1>6, <1>7, <1>8, <1>9, <1>10, Carried DEF TouchInv, Sound

LEMMA OnDragTimerKeeps ==
    ASSUME TouchInv, OnDragTimer
    PROVE  TouchInv'
<1> DEFINE u == CancelTimer(t, "drag")
           v == [u EXCEPT !.touchmode = "NOTOUCH"]
<1>1. UNCHANGED <<settings, applying, changes, most>>
  BY DEF OnDragTimer
<1>2. CASE u.touchmode # "DRAGNOTOUCH"
  <2>1. t' = u
    BY <1>2 DEF OnDragTimer
  <2>2. TimersOnly(t, u)
    BY <1>2 DEF TouchInv, Sound, TimersOnly, TouchTimed, CancelTimer, State, Fields
  <2>3. QED
    BY <1>1, <2>1, <2>2, TimersStep
<1>3. CASE u.touchmode = "DRAGNOTOUCH"
  <2> DEFINE buttons == t.lastbuttons \ {"left"}
             m(late) == MiddleButton(v, buttons, "fromPassthru", late)
  <2>1. /\ State(v) /\ v.touchmode = "NOTOUCH" /\ v.lastbuttons = t.lastbuttons
        /\ v.mbutton = t.mbutton /\ v.pending = t.pending
        /\ v.excused = t.excused /\ v.quiet = t.quiet /\ v.tapped = t.tapped
        /\ v.wasdouble = t.wasdouble /\ v.wastriple = t.wastriple
        /\ v.scrolldebounce = t.scrolldebounce /\ v.momentum = t.momentum
        /\ v.timers = t.timers \ {"drag"} /\ t.touchmode = "DRAGNOTOUCH"
    BY <1>3 DEF TouchInv, Sound, State, Fields, CancelTimer, NoTouchModes
  <2>2. PICK late \in BOOLEAN : t' = Report(m(late).t, m(late).buttons)
    BY <1>3, <2>1 DEF OnDragTimer, If
  <2> HIDE DEF v
  <2>3. HeldBack(v) /\ HeldBackIsTimed(v) /\ TouchTimed(v) /\ Remembers(v, most)
    BY <2>1 DEF TouchInv, Sound, HeldBack, HeldBackIsTimed, TouchTimed, Remembers, Recalled, NoTouchModes
  <2>4. buttons \in SUBSET Buttons /\ settings \in SettingsType /\ "fromPassthru" \in Froms
    BY DEF TouchInv, Sound, State, Froms
  <2> HIDE DEF buttons
  <2>5. /\ Advanced(v, m(late).t, buttons, "fromPassthru")
        /\ m(late).buttons \subseteq buttons \cup {"middle"}
        /\ buttons = {} => m(late).buttons = {}
    BY <2>1, <2>3, <2>4, MiddleButtonAdvances
  <2> DEFINE w == m(late).t
             told == m(late).buttons
  <2>6. /\ State(w) /\ HeldBack(w) /\ HeldBackIsTimed(w) /\ TouchKept(v, w) /\ w.lastbuttons = t.lastbuttons
    <3>1. State(w) /\ HeldBack(w) /\ TouchKept(v, w) /\ w.lastbuttons = t.lastbuttons
      BY <2>1, <2>3, <2>5 DEF Advanced
    <3>2. QED
      BY <2>3, <2>5, <3>1, AdvancedTimed
  <2>7. told \subseteq Buttons
    BY <2>4, <2>5 DEF Buttons
  <2>8. buttons = {} => told = {} /\ (w.mbutton = "NOBUTTONS" \/ ~settings.fakemiddle)
    BY <2>3, <2>5 DEF Advanced, Passed
  <2>9. t' = Report(w, told)
    BY <2>2
  <2> HIDE DEF w, told, m
  <2>10. /\ State(t') /\ t'.down = told /\ t'.mbutton = w.mbutton /\ t'.pending = w.pending
         /\ t'.timers = w.timers /\ t'.excused = w.excused /\ t'.touchmode = w.touchmode
         /\ t'.draglocktemp = w.draglocktemp /\ t'.scrolldebounce = w.scrolldebounce
         /\ t'.momentum = w.momentum /\ t'.wasdouble = w.wasdouble /\ t'.wastriple = w.wastriple
         /\ t'.quiet = w.quiet /\ t'.lastbuttons = w.lastbuttons
    BY <2>6, <2>7, <2>9 DEF Report, State, Fields
  <2>11. HeldBack(t') /\ HeldBackIsTimed(t')
    BY <2>6, <2>10 DEF HeldBack, HeldBackIsTimed
  <2>12. TouchTimed(t')
    BY <2>3, <2>6, <2>10 DEF TouchTimed, TouchKept
  <2>13. Remembers(t', most)
    BY <2>3, <2>6, <2>10 DEF Remembers, Recalled, TouchKept
  <2>14. Settled(t')
    <3>1. SUFFICES ASSUME t'.quiet
                   PROVE  /\ t'.lastbuttons = {} /\ t'.down = {}
                          /\ t'.mbutton = "NOBUTTONS" \/ ~settings.fakemiddle
      BY DEF Settled
    <3>2. t.quiet
      BY <2>1, <2>6, <2>10, <3>1 DEF TouchKept
    <3>3. t.lastbuttons = {}
      BY <3>2 DEF TouchInv, Settled
    <3>4. buttons = {}
      BY <3>3 DEF buttons
    <3>5. QED
      BY <2>6, <2>8, <2>10, <3>3, <3>4
  <2>15. QED
    BY <1>1, <2>10, <2>11, <2>12, <2>13, <2>14, Carried DEF TouchInv, Sound
<1>4. QED
  BY <1>2, <1>3

(* New settings excuse a wait they pass by, and a drag whose lock they take*)
(* away until the touch is ended.                                          *)
LEMMA SetParamPropertiesKeeps ==
    ASSUME TouchInv, NEW new \in Settings, SetParamProperties(new)
    PROVE  TouchInv'
<1> DEFINE more == IF new.fakemiddle = settings.fakemiddle THEN {} ELSE {"middle"}
           d == Disturb(t)
<1>1. t' = [d EXCEPT !.excused = @ \cup more]
  BY DEF SetParamProperties
<1>2. /\ State(d) /\ HeldBack(d) /\ HeldBackIsTimed(d) /\ TouchTimed(d)
      /\ "fingers" \in d.excused /\ ~d.quiet
  BY DisturbSound DEF TouchInv, Sound
<1>3. "middle" \notin more => new.fakemiddle = settings.fakemiddle
  OBVIOUS
<1> HIDE DEF d, more
<1>4. /\ State(t') /\ t'.excused = d.excused \cup more
      /\ t'.mbutton = d.mbutton /\ t'.pending = d.pending /\ t'.timers = d.timers
      /\ t'.scrolldebounce = d.scrolldebounce /\ t'.momentum = d.momentum /\ t'.quiet = d.quiet
  BY <1>1, <1>2 DEF State, Fields
<1>5. /\ settings' = new /\ new \in SettingsType /\ applying' = "touchmode"
      /\ changes' \in 0..MaxChanges /\ most' \in 0..MaxFingers
  BY InputsAssumption, BoundsAssumption DEF TouchInv, SetParamProperties, Change
<1>6. HeldBack(t)' /\ Remembers(t, most)' /\ Settled(t)' /\ State(t)'
  BY <1>2, <1>4 DEF HeldBack, Remembers, Settled
<1>7. HeldBackIsTimed(t)'
  BY <1>2, <1>3, <1>4, <1>5 DEF HeldBackIsTimed
<1>8. TouchTimed(t)'
  BY <1>2, <1>4, <1>5 DEF TouchTimed
<1>9. QED
  BY <1>5, <1>6, <1>7, <1>8 DEF TouchInv, Sound, Stages

(* Ending the touch, and what follows. *)
LEMMA AppliedKeeps ==
    ASSUME TouchInv, ResetTouchMode \/ SetIgnoreAll
    PROVE  TouchInv'
<1> DEFINE d == Disturb(t)
<1>1. /\ State(d) /\ HeldBack(d) /\ HeldBackIsTimed(d) /\ TouchTimed(d)
      /\ "fingers" \in d.excused /\ ~d.quiet
  BY DisturbSound DEF TouchInv, Sound
<1>2. \/ t' = [d EXCEPT !.touchmode = "NOTOUCH"]
      \/ applying # "touchmode" /\ \E ignore \in BOOLEAN : t' = [d EXCEPT !.ignoreall = ignore]
  BY DEF ResetTouchMode, SetIgnoreAll
<1>3. /\ UNCHANGED settings /\ applying' \in Stages
      /\ changes' \in 0..MaxChanges /\ most' \in 0..MaxFingers
  BY BoundsAssumption DEF TouchInv, ResetTouchMode, SetIgnoreAll, Stages
<1> HIDE DEF d
<1>4. /\ State(t') /\ t'.excused = d.excused /\ t'.mbutton = d.mbutton /\ t'.pending = d.pending
      /\ t'.timers = d.timers /\ t'.scrolldebounce = d.scrolldebounce
      /\ t'.momentum = d.momentum /\ t'.quiet = d.quiet /\ t'.draglocktemp = d.draglocktemp
      /\ t'.touchmode = "NOTOUCH" \/ (t'.touchmode = d.touchmode /\ applying # "touchmode")
  BY <1>1, <1>2 DEF State, Fields, NoTouchModes
<1>5. /\ State(t)' /\ HeldBack(t)' /\ Remembers(t, most)' /\ Settled(t)'
  BY <1>1, <1>3, <1>4 DEF HeldBack, Remembers, Settled
<1>6. HeldBackIsTimed(t)'
  BY <1>1, <1>3, <1>4 DEF HeldBackIsTimed
<1>7. TouchTimed(t)'
  BY <1>1, <1>3, <1>4 DEF TouchTimed
<1>8. QED
  BY <1>3, <1>5, <1>6, <1>7 DEF TouchInv, Sound

LEMMA DisturbedKeeps ==
    ASSUME TouchInv, SetDisableTouchpad \/ InitTouchPad
    PROVE  TouchInv'
<1> DEFINE d == Disturb(t)
<1>1. /\ State(d) /\ HeldBack(d) /\ HeldBackIsTimed(d) /\ TouchTimed(d)
      /\ "fingers" \in d.excused /\ ~d.quiet
  BY DisturbSound DEF TouchInv, Sound
<1>2. t' = d \/ t' = [d EXCEPT !.ignoreall = ~@]
  BY DEF SetDisableTouchpad, InitTouchPad
<1>3. UNCHANGED settings /\ UNCHANGED applying /\ changes' \in 0..MaxChanges /\ most' \in 0..MaxFingers
  BY BoundsAssumption DEF TouchInv, SetDisableTouchpad, InitTouchPad, Change
<1> HIDE DEF d
<1>4. /\ State(t') /\ t'.touchmode = d.touchmode /\ t'.excused = d.excused
      /\ t'.mbutton = d.mbutton /\ t'.pending = d.pending /\ t'.timers = d.timers
      /\ t'.scrolldebounce = d.scrolldebounce /\ t'.momentum = d.momentum /\ t'.quiet = d.quiet
      /\ t'.draglocktemp = d.draglocktemp
  BY <1>1, <1>2 DEF State, Fields
<1>5. Sound(t')
  BY <1>1, <1>4 DEF Sound, HeldBack, HeldBackIsTimed, TouchTimed
<1>6. Remembers(t', most') /\ Settled(t')
  BY <1>1, <1>4 DEF Remembers, Settled
<1>7. QED
  BY <1>3, <1>5, <1>6, Carried

-----------------------------------------------------------------------------
LEMMA TouchInit == Init => TouchInv
<1> SUFFICES ASSUME Init PROVE TouchInv
  OBVIOUS
<1>1. settings \in SettingsType /\ applying \in Stages /\ changes \in 0..MaxChanges /\ most \in 0..MaxFingers
  BY InputsAssumption, BoundsAssumption DEF Init, Stages
<1>2. State(t)
  BY BoundsAssumption DEF Init, State, Fields, NoTouchModes, MiddleStates
<1>3. HeldBack(t) /\ HeldBackIsTimed(t) /\ TouchTimed(t)
  BY DEF Init, HeldBack, HeldBackIsTimed, TouchTimed, Waits
<1>4. Remembers(t, most) /\ Settled(t)
  BY DEF Init, Remembers, Recalled, Settled
<1>5. QED
  BY <1>1, <1>2, <1>3, <1>4 DEF TouchInv, Sound

(* Each step keeps the invariant. *)
THEOREM TouchInvariance == Spec => []TouchInv
<1>1. TouchInv /\ [Next]_vars => TouchInv'
  <2>1. SUFFICES ASSUME TouchInv, [Next]_vars PROVE TouchInv'
    OBVIOUS
  <2>2. ASSUME NEW p \in Packets, TouchPacket(p) PROVE TouchInv'
    BY <2>1, <2>2, TouchPacketKeeps
  <2>3. ASSUME NEW p \in Packets, GesturePacket(p) PROVE TouchInv'
    BY <2>1, <2>3, GesturePacketKeeps
  <2>4. ASSUME NEW raw \in StickButtons, StickPacket(raw) PROVE TouchInv'
    BY <2>1, <2>4, StickPacketKeeps
  <2>5. CASE OnScrollTimer \/ OnScrollDebounceTimer \/ NotifyKeyPressed
    BY <2>1, <2>5, ScrollTimersKeep
  <2>6. CASE OnButtonTimer
    BY <2>1, <2>6, OnButtonTimerKeeps
  <2>7. CASE OnDragTimer
    BY <2>1, <2>7, OnDragTimerKeeps
  <2>8. ASSUME NEW new \in Settings, SetParamProperties(new) PROVE TouchInv'
    BY <2>1, <2>8, SetParamPropertiesKeeps
  <2>9. CASE SetDisableTouchpad \/ InitTouchPad
    BY <2>1, <2>9, DisturbedKeeps
  <2>10. CASE ResetTouchMode \/ SetIgnoreAll
    BY <2>1, <2>10, AppliedKeeps
  <2>11. CASE UNCHANGED vars
    BY <2>1, <2>11 DEF vars, TouchInv, Sound, State, HeldBack, HeldBackIsTimed, TouchTimed,
                       Remembers, Recalled, Settled, DragButtons
  <2>12. QED
    BY <2>1, <2>2, <2>3, <2>4, <2>5, <2>6, <2>7, <2>8, <2>9, <2>10, <2>11 DEF Next, Timer
<1>2. QED
  BY TouchInit, <1>1, PTL DEF Spec

(* The state of the touch machine keeps its types, and buttons are held    *)
(* back only while middleButton waits.                                     *)
THEOREM TouchTypeCorrect == Spec => []TypeOK
<1>1. TouchInv => TypeOK
  BY DEF TouchInv, Sound, State, HeldBack, MiddleStates, Timers, Stages, TypeOK
<1>2. QED
  BY <1>1, TouchInvariance, PTL

(* Whatever dispatchEventsWithInfo, middleButton or a timer handler leaves *)
(* waiting for time to pass has its timer running.                         *)
THEOREM WaitsAreTimedHolds == Spec => []WaitsAreTimed
<1>1. TouchInv => WaitsAreTimed
  BY DEF TouchInv, Sound, HeldBackIsTimed, TouchTimed, WaitsAreTimed
<1>2. QED
  BY <1>1, TouchInvariance, PTL

(* wasdouble and wastriple, which make a tap a right or a middle click, are*)
(* of this touch, whatever packets, gestures and timers there were.        *)
THEOREM FingersAreThisTouchsHolds == Spec => []FingersAreThisTouchs
<1>1. TouchInv => FingersAreThisTouchs
  BY DEF TouchInv, Remembers, Recalled, FingersAreThisTouchs
<1>2. QED
  BY <1>1, TouchInvariance, PTL

(* When the pad is left alone, only a drag that goes on or a tap holds a   *)
(* button down, and no click is held back.                                 *)
THEOREM ButtonsSettleHolds == Spec => []ButtonsSettle
<1>1. TouchInv => ButtonsSettle
  BY DEF TouchInv, Settled, DragButtons, ButtonsSettle
<1>2. QED
  BY <1>1, TouchInvariance, PTL
=============================================================================

------------------------- MODULE KeyDispatchProofs -------------------------
(***************************************************************************)
(* Proofs about KeyDispatch, for any keys, any macros and any number of    *)
(* events.  Packets that are held back are handed on one after the other   *)
(* in one step of the model, by a function that is defined recursively; so *)
(* there is induction here, over the index, in the form of its sets.       *)
(*                                                                         *)
(* There are two invariants: DispatchInv, whatever the macros are, for all *)
(* but NothingStuck, and for that Settling, which says of each key the HID *)
(* system takes to be down why it is.                                      *)
(***************************************************************************)
EXTENDS KeyDispatch, WellFoundedInduction, TLAPS

-----------------------------------------------------------------------------
(* Induction, and the least element Min is about. *)
LEMMA LeastNatural ==
    ASSUME NEW T \in SUBSET Nat, T # {}
    PROVE  \E m \in T : \A k \in T : m <= k
<1>1. PICK m \in T : \A k \in T : ~(<<k, m>> \in OpToRel(<, Nat))
  BY NatLessThanWellFounded, WFMin, Zenon
<1>2. \A k \in T : ~(k < m)
  BY <1>1 DEF OpToRel
<1>3. m \in Nat /\ \A k \in T : k \in Nat
  BY <1>1
<1>4. \A k \in T : m <= k
  BY <1>2, <1>3
<1>5. QED
  BY <1>1, <1>4

LEMMA Induct ==
    ASSUME NEW S, 0 \in S, \A n \in Nat : n \in S => n + 1 \in S
    PROVE  Nat \subseteq S
<1>1. SUFFICES ASSUME NEW n \in Nat, n \notin S PROVE FALSE
  OBVIOUS
<1>2. PICK m \in Nat \ S : \A k \in Nat \ S : m <= k
  <2>1. Nat \ S \in SUBSET Nat /\ Nat \ S # {}
    BY <1>1
  <2>2. QED
    BY <2>1, LeastNatural, Zenon
<1>3. m # 0
  BY <1>2
<1>4. m - 1 \in Nat /\ m - 1 \in S
  BY <1>2, <1>3
<1>5. (m - 1) + 1 \in S
  BY <1>4
<1>6. QED
  BY <1>2, <1>5

LEMMA MinIsLeast ==
    ASSUME NEW T \in SUBSET Nat, T # {}
    PROVE  Min(T) \in T
<1>1. \E m \in T : \A k \in T : m <= k
  BY LeastNatural
<1>2. QED
  BY <1>1, Zenon DEF Min

(* A step on a set T can be taken n times. *)
Steps(T, n) == [1 .. n -> [T -> T]]
Taken(f, T, n, b, step) ==
    /\ f \in [0 .. n -> T]
    /\ f[0] = b /\ \A i \in 1 .. n : f[i] = step[i][f[i - 1]]

LEMMA Chain ==
    ASSUME NEW T, NEW n \in Nat, NEW b \in T, NEW step \in Steps(T, n)
    PROVE  \E f : Taken(f, T, n, b, step)
<1> DEFINE Up(k) == \E f \in [0 .. k -> T] :
                        f[0] = b /\ \A i \in 1 .. k : f[i] = step[i][f[i - 1]]
           S == {k \in Nat : k <= n => Up(k)}
<1>1. 0 \in S
  <2> DEFINE g == [i \in 0 .. 0 |-> b]
  <2>1. g \in [0 .. 0 -> T] /\ g[0] = b /\ \A i \in 1 .. 0 : g[i] = step[i][g[i - 1]]
    OBVIOUS
  <2> HIDE DEF g
  <2>2. Up(0)
    BY <2>1
  <2>3. QED
    BY <2>2
<1>2. ASSUME NEW k \in Nat, k \in S PROVE k + 1 \in S
  <2> SUFFICES ASSUME k + 1 <= n PROVE Up(k + 1)
    OBVIOUS
  <2>1. PICK f \in [0 .. k -> T] : f[0] = b /\ \A i \in 1 .. k : f[i] = step[i][f[i - 1]]
    BY <1>2
  <2> DEFINE g == [i \in 0 .. k + 1 |-> IF i = k + 1 THEN step[k + 1][f[k]] ELSE f[i]]
  <2>2. step[k + 1][f[k]] \in T
    <3>1. k + 1 \in 1 .. n /\ f[k] \in T
      OBVIOUS
    <3>2. QED
      BY <3>1 DEF Steps
  <2>3. g \in [0 .. k + 1 -> T]
    BY <2>2
  <2>4. g[0] = b
    BY <2>1
  <2>5. ASSUME NEW i \in 1 .. k + 1 PROVE g[i] = step[i][g[i - 1]]
    <3>1. CASE i = k + 1
      <4>1. i - 1 = k /\ g[k] = f[k]
        BY <3>1
      <4>2. QED
        BY <3>1, <4>1
    <3>2. CASE i # k + 1
      <4>1. i \in 1 .. k /\ i - 1 \in 0 .. k
        BY <3>2
      <4>2. QED
        BY <4>1, <2>1
    <3>3. QED
      BY <3>1, <3>2
  <2> HIDE DEF g
  <2>6. QED
    BY <2>3, <2>4, <2>5
<1>3. Nat \subseteq S
  <2> HIDE DEF S
  <2>1. QED
    BY <1>1, <1>2, Induct
<1>4. Up(n)
  BY <1>3
<1>5. QED
  BY <1>4 DEF Taken

-----------------------------------------------------------------------------
(* The states of the work loop, and what Dispatch does to them.  The       *)
(* strengthening of TimerHasItsKey: a timer of the eject key was set by    *)
(* the key's last make code, so that its break code cancels it or crosses  *)
(* the key.                                                                *)
KeySet == Keys \cup AcpiKeys
Told == KeySet \cup {"brightness", "mirror"}
Ways == Told \cup {"none", "eject"}

State == [modifiers : SUBSET Modifiers, macro : Seq(Packets), macroTimer : BOOLEAN,
          timer : BOOLEAN, timerFunc : {"sleep", "eject"}, down : SUBSET Told,
          made : SUBSET KeySet, told : [KeySet -> Ways],
          inverted : SUBSET KeySet, crossed : SUBSET KeySet, owed : Seq(Packets), disorder : BOOLEAN]

KeyOfTimer(t) == IF t.timerFunc = "sleep" THEN "sleep" ELSE "insert"
Timed(t) ==
    t.timer => \/ KeyOfTimer(t) \in t.crossed
               \/ KeyOfTimer(t) \in t.made /\ (t.timerFunc = "eject" => t.told["insert"] = "eject")
EjectIsKey(t) == t.timerFunc = "eject" => "insert" \in KeySet

Sound == {t \in State : Timed(t) /\ EjectIsKey(t)}

(* What macro inversion keeps its account of is none of Dispatch's. *)
SameAccount(t, u) ==
    /\ u.macro = t.macro /\ u.macroTimer = t.macroTimer
    /\ u.owed = t.owed /\ u.disorder = t.disorder
SameTimer(t, u) == u.timer = t.timer /\ u.timerFunc = t.timerFunc
After(S, p) == IF p.down THEN S \cup {p.key} ELSE S \ {p.key}
SameKeys(t, u) ==
    u.made = t.made /\ u.told = t.told /\ u.inverted = t.inverted /\ u.crossed = t.crossed

SameHands(t, u) == SameKeys(t, u) /\ u.modifiers = t.modifiers /\ u.down = t.down

LEMMA MappedFacts ==
    ASSUME NEW k \in KeySet
    PROVE  /\ Mapped(k) \in Told
           /\ (Mapped(k) = "sleep" <=> k = "sleep") /\ (Mapped(k) = "insert" <=> k = "insert")
BY DEF Mapped, Told

(* The ways a code is told of. *)
Light(m) == settings.backlight /\ {"ctrl", "alt"} \subseteq m
Bright(m) == ~Light(m) /\ settings.brightnessHack /\ {"ctrl", "shift"} \subseteq m
Plain(m, code) ==
    /\ code \notin {"sleep", "prtsc"}
    /\ code = "plus" => ~Light(m) /\ ~Bright(m)
    /\ code = "delete" => ~({"ctrl", "alt"} \subseteq m)

LEMMA WayFacts ==
    ASSUME NEW t, NEW code
    PROVE  LET way == Way(t, code) IN
           /\ way = "plain" <=> Plain(t.modifiers, code)
           /\ way = "brightness" <=> code = "plus" /\ Bright(t.modifiers)
           /\ way = "backlight" <=> code = "plus" /\ Light(t.modifiers)
           /\ way = "salute" <=> code = "delete" /\ {"ctrl", "alt"} \subseteq t.modifiers
           /\ way = "sleep" <=> code = "sleep"
           /\ way = "prtsc" <=> code = "prtsc"
BY DEF Way, Plain, Light, Bright

LEMMA ToldAsFacts ==
    ASSUME NEW t, NEW code \in Told
    PROVE  LET now == ToldAs(t, code) IN
           /\ now \in Ways
           /\ Plain(t.modifiers, code) =>
                 now = IF code = "insert" /\ t.modifiers = {} THEN "eject" ELSE code
           /\ code = "plus" /\ Bright(t.modifiers) => now = "brightness"
           /\ now # "none" => \/ Plain(t.modifiers, code)
                              \/ code = "plus" /\ Bright(t.modifiers) /\ now = "brightness"
BY WayFacts DEF ToldAs, Ways, Told

Now(t, p) == ToldAs(t, Mapped(p.key))
Diverts(t, p) == Otherwise(t, p.key, Now(t, p)) \/ p.key \in t.inverted

LEMMA TranslatedFacts ==
    ASSUME NEW t \in State, NEW p \in Packets
    PROVE  LET u == Translated(t, p) IN
           /\ u \in State /\ SameAccount(t, u) /\ SameTimer(t, u)
           /\ u.modifiers = t.modifiers /\ u.down = t.down
           /\ u.made = After(t.made, p) /\ u.inverted = t.inverted \ {p.key}
           /\ t.crossed \subseteq u.crossed /\ (Diverts(t, p) => p.key \in u.crossed)
           /\ \A k \in KeySet : k # p.key => u.told[k] = t.told[k]
           /\ p.down => u.told[p.key] = Now(t, p)
<1> DEFINE now == Now(t, p)
           c == IF Diverts(t, p) THEN {p.key} ELSE {}
           crossed == t.crossed \cup c
           made == IF p.down THEN t.made \cup {p.key} ELSE t.made \ {p.key}
           told == IF p.down THEN [t.told EXCEPT ![p.key] = now] ELSE t.told
           inverted == t.inverted \ {p.key}
           u == Translated(t, p)
<1>1. p.key \in KeySet /\ p.down \in BOOLEAN
  BY DEF Packets, KeySet
<1>2. now \in Ways
  BY <1>1, MappedFacts, ToldAsFacts DEF Now
<1>3. u = [t EXCEPT !.crossed = crossed, !.made = made, !.told = told, !.inverted = inverted]
  <2>1. CASE Diverts(t, p)
    <3>1. Translated(t, p) = [Cross(t, {p.key}) EXCEPT !.made = made, !.told = told,
                                                       !.inverted = inverted]
      <4>1. /\ Cross(t, {p.key}).made = t.made /\ Cross(t, {p.key}).told = t.told
            /\ Cross(t, {p.key}).inverted = t.inverted
        BY DEF Cross, State
      <4>2. QED
        BY <2>1, <4>1 DEF Translated, Diverts, Now
    <3>2. Cross(t, {p.key}) = [t EXCEPT !.crossed = crossed]
      BY <2>1 DEF Cross
    <3> HIDE DEF crossed, made, told, inverted
    <3>3. QED
      BY <3>1, <3>2 DEF State
  <2>2. CASE ~Diverts(t, p)
    <3>1. Translated(t, p) = [t EXCEPT !.made = made, !.told = told, !.inverted = inverted]
      BY <2>2 DEF Translated, Diverts, Now
    <3>2. crossed = t.crossed
      BY <2>2
    <3> HIDE DEF crossed, made, told, inverted
    <3>3. QED
      BY <3>1, <3>2 DEF State
  <2>3. QED
    BY <2>1, <2>2
<1> HIDE DEF now
<1>4. crossed \in SUBSET KeySet /\ made \in SUBSET KeySet /\ inverted \in SUBSET KeySet
  BY <1>1 DEF State
<1>5. /\ told \in [KeySet -> Ways]
      /\ \A k \in KeySet : k # p.key => told[k] = t.told[k]
      /\ p.down => told[p.key] = now
  BY <1>1, <1>2 DEF State
<1>6. t.crossed \subseteq crossed /\ (Diverts(t, p) => p.key \in crossed)
  OBVIOUS
<1>7. made = After(t.made, p) /\ inverted = t.inverted \ {p.key}
  BY DEF After
<1> HIDE DEF crossed, made, told, inverted, u
<1>8. /\ u \in State /\ SameAccount(t, u) /\ SameTimer(t, u)
      /\ u.modifiers = t.modifiers /\ u.down = t.down
      /\ u.crossed = crossed /\ u.made = made /\ u.told = told /\ u.inverted = inverted
  BY <1>3, <1>4, <1>5 DEF State, SameAccount, SameTimer
<1>9. QED
  BY <1>5, <1>6, <1>7, <1>8 DEF u, now

LEMMA TrackModifiersFacts ==
    ASSUME NEW t \in State, NEW p \in Packets
    PROVE  LET u == TrackModifiers(t, p) IN
           /\ u \in State /\ SameAccount(t, u) /\ SameTimer(t, u) /\ SameKeys(t, u)
           /\ p.key \notin Modifiers => u.modifiers = t.modifiers
           /\ p.key \in Modifiers =>
                 u.modifiers = After(t.modifiers, p)
           /\ u.down = t.down
<1> DEFINE m == IF p.down THEN t.modifiers \cup {p.key} ELSE t.modifiers \ {p.key}
<1>1. CASE p.key \notin Modifiers
  BY <1>1 DEF TrackModifiers, SameAccount, SameTimer, SameKeys
<1>2. CASE p.key \in Modifiers
  <2>1. TrackModifiers(t, p) = [t EXCEPT !.modifiers = m]
    BY <1>2 DEF TrackModifiers
  <2>2. m \in SUBSET Modifiers
    BY <1>2 DEF State
  <2> HIDE DEF m
  <2>3. LET u == TrackModifiers(t, p) IN
        /\ u \in State /\ SameAccount(t, u) /\ SameTimer(t, u) /\ SameKeys(t, u)
        /\ u.modifiers = m /\ u.down = t.down
    BY <1>2, <2>1, <2>2 DEF State, SameAccount, SameTimer, SameKeys
  <2>4. QED
    BY <1>2, <2>3 DEF m, After
<1>3. QED
  BY <1>1, <1>2

(* What only tells the HID system something. *)
OnlyTells(t, u) ==
    /\ u \in State /\ SameAccount(t, u) /\ SameTimer(t, u) /\ SameKeys(t, u)
    /\ u.modifiers = t.modifiers

LEMMA DownFacts ==
    ASSUME NEW t \in State, NEW keys \in SUBSET Told
    PROVE  OnlyTells(t, [t EXCEPT !.down = keys])
BY DEF OnlyTells, State, SameAccount, SameTimer, SameKeys

LEMMA OnlyTellsSame ==
    ASSUME NEW t \in State
    PROVE  OnlyTells(t, t)
BY DEF OnlyTells, SameAccount, SameTimer, SameKeys

LEMMA TellFacts ==
    ASSUME NEW t \in State, NEW key \in Told, NEW down \in BOOLEAN
    PROVE  OnlyTells(t, Tell(t, key, down))
<1> DEFINE keys == IF down THEN t.down \cup {key} ELSE t.down \ {key}
<1>1. keys \in SUBSET Told
  BY DEF State
<1>2. Tell(t, key, down) = [t EXCEPT !.down = keys]
  BY DEF Tell
<1> HIDE DEF keys
<1>3. QED
  BY <1>1, <1>2, DownFacts

LEMMA BrightnessHackFacts ==
    ASSUME NEW t \in State, NEW down \in BOOLEAN, keyBits \subseteq Keys
    PROVE  OnlyTells(t, BrightnessHack(t, down))
<1> DEFINE pulled == (IF "win" \in t.modifiers THEN {"ctrl"} ELSE {"ctrl", "shift"}) \cap keyBits
           kept == IF down THEN (t.down \ pulled) \cup {"brightness"}
                   ELSE (t.down \ pulled) \ {"brightness"}
           keys == kept \cup pulled
<1>1. pulled \subseteq Told
  BY DEF Told, KeySet
<1>2. keys \in SUBSET Told
  BY <1>1 DEF State, Told
<1>3. BrightnessHack(t, down) = [t EXCEPT !.down = keys]
  BY DEF BrightnessHack, Tell, State
<1> HIDE DEF keys
<1>4. QED
  BY <1>2, <1>3, DownFacts

LEMMA SaluteFacts ==
    ASSUME NEW t \in State, NEW down \in BOOLEAN
    PROVE  OnlyTells(t, ThreeFingerSalute(t, down))
<1>1. CASE down
  BY <1>1, OnlyTellsSame DEF ThreeFingerSalute
<1>2. CASE ~down
  <2>1. t.down \ {"alt", "ctrl"} \in SUBSET Told
    BY DEF State
  <2>2. QED
    BY <1>2, <2>1, DownFacts DEF ThreeFingerSalute
<1>3. QED
  BY <1>1, <1>2

LEMMA TimerRoutineFacts ==
    ASSUME NEW t \in State, EjectIsKey(t)
    PROVE  OnlyTells(t, OnSleepEjectTimer(t))
<1>1. CASE t.timerFunc = "eject"
  <2>1. "insert" \in Told
    BY <1>1 DEF EjectIsKey, Told
  <2>2. QED
    BY <1>1, <2>1, TellFacts DEF OnSleepEjectTimer
<1>2. CASE t.timerFunc # "eject"
  BY <1>2, OnlyTellsSame DEF OnSleepEjectTimer
<1>3. QED
  BY <1>1, <1>2

(* What leaves everything but the timer and what has been told. *)
OnlyTimes(t, u) ==
    /\ u \in State /\ SameAccount(t, u) /\ SameKeys(t, u) /\ u.modifiers = t.modifiers

LEMMA SetTimerFacts ==
    ASSUME NEW t \in State, NEW func \in {"sleep", "eject"}
    PROVE  LET u == [t EXCEPT !.timerFunc = func, !.timer = TRUE] IN
           OnlyTimes(t, u) /\ u.timer = TRUE /\ u.timerFunc = func
BY DEF OnlyTimes, State, SameAccount, SameKeys

LEMMA TimesThenTells ==
    ASSUME NEW t \in State, NEW u, NEW v, OnlyTimes(t, u), OnlyTells(u, v)
    PROVE  OnlyTimes(t, v) /\ SameTimer(u, v)
BY DEF OnlyTimes, OnlyTells, SameAccount, SameKeys

LEMMA CancelFacts ==
    ASSUME NEW t \in State
    PROVE  LET u == [t EXCEPT !.timer = FALSE] IN
           OnlyTimes(t, u) /\ u.timer = FALSE /\ u.timerFunc = t.timerFunc
BY DEF OnlyTimes, State, SameAccount, SameKeys

LEMMA FuncFacts ==
    ASSUME NEW t \in State, NEW func \in {"sleep", "eject"}
    PROVE  LET u == [t EXCEPT !.timerFunc = func] IN
           OnlyTimes(t, u) /\ u.timer = t.timer /\ u.timerFunc = func
BY DEF OnlyTimes, State, SameAccount, SameKeys

LEMMA SleepKeyFacts ==
    ASSUME NEW t \in State, NEW down \in BOOLEAN
    PROVE  LET u == SleepKey(t, down) IN
           /\ OnlyTimes(t, u)
           /\ down => u.timerFunc = "sleep"
           /\ ~down => u.timer = FALSE /\ u.timerFunc = t.timerFunc
<1>1. CASE ~down
  BY <1>1, CancelFacts DEF SleepKey
<1>2. CASE down /\ (fkeymode \/ ~settings.sleepDelay)
  <2> DEFINE v == [t EXCEPT !.timerFunc = "sleep"]
  <2>1. OnlyTimes(t, v) /\ v.timerFunc = "sleep"
    BY FuncFacts
  <2>2. SleepKey(t, down) = OnSleepEjectTimer(v)
    BY <1>2 DEF SleepKey
  <2> HIDE DEF v
  <2>3. OnSleepEjectTimer(v) = v
    BY <2>1 DEF OnSleepEjectTimer
  <2>4. QED
    BY <1>2, <2>1, <2>2, <2>3
<1>3. CASE down /\ ~(fkeymode \/ ~settings.sleepDelay)
  <2>1. SleepKey(t, down) = [t EXCEPT !.timerFunc = "sleep", !.timer = TRUE]
    BY <1>3 DEF SleepKey
  <2>2. QED
    BY <1>3, <2>1, SetTimerFacts
<1>4. QED
  BY <1>1, <1>2, <1>3

LEMMA SpecialKeyFacts ==
    ASSUME NEW t \in State, NEW code, NEW down \in BOOLEAN, keyBits \subseteq Keys
    PROVE  LET r == SpecialKey(t, code, down) IN
           /\ code # "sleep" => OnlyTells(t, r.s)
           /\ code = "sleep" => r = [s |-> SleepKey(t, down), swallowed |-> TRUE]
           /\ code = "insert" => r.swallowed = FALSE
<1>1. CASE code = "sleep"
  BY <1>1, WayFacts DEF SpecialKey
<1>2. CASE code # "sleep"
  <2>1. \/ SpecialKey(t, code, down) = [s |-> t, swallowed |-> TRUE]
        \/ SpecialKey(t, code, down) = [s |-> t, swallowed |-> FALSE]
        \/ SpecialKey(t, code, down) = [s |-> BrightnessHack(t, down), swallowed |-> TRUE]
        \/ SpecialKey(t, code, down) = [s |-> ThreeFingerSalute(t, down), swallowed |-> TRUE]
    BY <1>2, WayFacts DEF SpecialKey
  <2>2. /\ OnlyTells(t, t) /\ OnlyTells(t, BrightnessHack(t, down))
        /\ OnlyTells(t, ThreeFingerSalute(t, down))
    BY OnlyTellsSame, BrightnessHackFacts, SaluteFacts
  <2>3. code = "insert" => SpecialKey(t, code, down).swallowed = FALSE
    BY WayFacts DEF SpecialKey
  <2>4. QED
    BY <1>2, <2>1, <2>2, <2>3
<1>3. QED
  BY <1>1, <1>2

LEMMA EjectKeyFacts ==
    ASSUME NEW t \in State, NEW down \in BOOLEAN, "insert" \in KeySet
    PROVE  LET u == EjectKey(t, down).s IN
           /\ OnlyTimes(t, u)
           /\ t.modifiers # {} => SameTimer(t, u)
           /\ t.modifiers = {} /\ down => u.timerFunc = "eject"
           /\ t.modifiers = {} /\ ~down => u.timer = FALSE /\ u.timerFunc = t.timerFunc
<1>1. CASE t.modifiers # {}
  BY <1>1 DEF EjectKey, OnlyTimes, SameTimer, SameAccount, SameKeys
<1>2. CASE t.modifiers = {} /\ ~down
  <2>1. EjectKey(t, down).s = [t EXCEPT !.timer = FALSE]
    BY <1>2 DEF EjectKey
  <2>2. QED
    BY <1>2, <2>1, CancelFacts
<1>3. CASE t.modifiers = {} /\ down
  <2> DEFINE v == [t EXCEPT !.timerFunc = "eject"]
             w == [v EXCEPT !.timer = TRUE]
  <2>1. OnlyTimes(t, v) /\ v.timerFunc = "eject"
    BY FuncFacts
  <2>2. EjectKey(t, down).s = w \/ EjectKey(t, down).s = OnSleepEjectTimer(v)
    BY <1>3 DEF EjectKey
  <2>3. OnlyTimes(t, w) /\ w.timerFunc = "eject"
    <3>1. w = [t EXCEPT !.timerFunc = "eject", !.timer = TRUE]
      BY DEF State
    <3> HIDE DEF w
    <3>2. QED
      BY <3>1, SetTimerFacts
  <2>4. v \in State /\ EjectIsKey(v)
    BY <2>1 DEF OnlyTimes, EjectIsKey
  <2> HIDE DEF v, w
  <2>5. OnlyTells(v, OnSleepEjectTimer(v))
    BY <2>4, TimerRoutineFacts
  <2>6. OnlyTimes(t, OnSleepEjectTimer(v)) /\ OnSleepEjectTimer(v).timerFunc = "eject"
    BY <2>1, <2>5, TimesThenTells DEF SameTimer
  <2>7. QED
    BY <1>3, <2>2, <2>3, <2>6
<1>4. QED
  BY <1>1, <1>2, <1>3

LEMMA ToHIDFacts ==
    ASSUME NEW t \in State, NEW p \in Packets, NEW code \in Told
    PROVE  OnlyTells(t, ToHID(t, p, code))
<1>1. p.down \in BOOLEAN
  BY DEF Packets
<1>2. \/ ToHID(t, p, code) = Tell(t, code, p.down)
      \/ ToHID(t, p, code) = Tell(t, code, FALSE)
      \/ ToHID(t, p, code) = t
  BY DEF ToHID
<1>3. QED
  BY <1>1, <1>2, TellFacts, OnlyTellsSame

LEMMA OnlyTellsTwice ==
    ASSUME NEW t, NEW u, NEW v, OnlyTells(t, u), OnlyTells(u, v)
    PROVE  OnlyTells(t, v)
BY DEF OnlyTells, SameAccount, SameTimer, SameKeys

(* A packet is translated: the timer still has its key, and macro          *)
(* inversion's account is left alone.                                      *)
LEMMA DispatchFacts ==
    ASSUME NEW t \in Sound, NEW p \in Packets, keyBits \subseteq Keys
    PROVE  LET b == Translated(TrackModifiers(t, p), p)
               d == Dispatch(t, p) IN
           /\ d \in Sound /\ SameAccount(t, d)
           /\ SameKeys(b, d) /\ d.modifiers = b.modifiers
<1> DEFINE a == TrackModifiers(t, p)
           b == Translated(a, p)
           code == Mapped(p.key)
           r == SpecialKey(b, code, p.down)
           e == IF code = "insert" THEN EjectKey(r.s, p.down) ELSE r
           d == Dispatch(t, p)
<1>1. t \in State /\ Timed(t) /\ EjectIsKey(t) /\ p.key \in KeySet /\ p.down \in BOOLEAN
  BY DEF Sound, Packets, KeySet
<1>2. /\ a \in State /\ SameAccount(t, a) /\ SameTimer(t, a) /\ SameKeys(t, a)
      /\ p.key \notin Modifiers => a.modifiers = t.modifiers
  BY <1>1, TrackModifiersFacts
<1>3. d = e.s \/ d = ToHID(e.s, p, code)
  BY DEF Dispatch
<1> HIDE DEF a
<1>4. /\ b \in State /\ SameAccount(a, b) /\ SameTimer(a, b) /\ b.modifiers = a.modifiers
      /\ b.made = After(t.made, p) /\ t.crossed \subseteq b.crossed
      /\ Otherwise(a, p.key, Now(a, p)) => p.key \in b.crossed
      /\ \A k \in KeySet : k # p.key => b.told[k] = t.told[k]
      /\ p.down => b.told[p.key] = Now(a, p)
  BY <1>2, TranslatedFacts DEF SameKeys, Diverts
<1> HIDE DEF b
<1>5. /\ code \in Told /\ (code = "sleep" <=> p.key = "sleep")
      /\ (code = "insert" <=> p.key = "insert")
  BY <1>1, MappedFacts
<1>50. Now(a, p) = ToldAs(a, code)
  BY DEF Now
<1> HIDE DEF code
<1>6. /\ code # "sleep" => OnlyTells(b, r.s)
      /\ code = "sleep" => r = [s |-> SleepKey(b, p.down), swallowed |-> TRUE]
  BY <1>1, <1>4, SpecialKeyFacts
<1> HIDE DEF r
<1> DEFINE g == e.s
<1>7. /\ OnlyTimes(b, g)
      /\ p.key = "sleep" => /\ p.down => g.timerFunc = "sleep"
                            /\ ~p.down => g.timer = FALSE /\ g.timerFunc = b.timerFunc
      /\ p.key = "insert" =>
            /\ b.modifiers # {} => SameTimer(b, g)
            /\ b.modifiers = {} /\ p.down => g.timerFunc = "eject"
            /\ b.modifiers = {} /\ ~p.down => g.timer = FALSE /\ g.timerFunc = b.timerFunc
      /\ p.key \notin {"sleep", "insert"} => SameTimer(b, g)
  <2>1. CASE p.key = "sleep"
    <3>1. g = SleepKey(b, p.down)
      BY <2>1, <1>5, <1>6
    <3> HIDE DEF g
    <3>2. QED
      BY <2>1, <3>1, <1>1, <1>4, SleepKeyFacts
  <2>2. CASE p.key = "insert"
    <3>1. g = EjectKey(r.s, p.down).s /\ OnlyTells(b, r.s)
      BY <2>2, <1>5, <1>6
    <3> HIDE DEF g
    <3>2. /\ r.s \in State /\ SameTimer(b, r.s) /\ r.s.modifiers = b.modifiers
          /\ SameAccount(b, r.s) /\ SameKeys(b, r.s)
      BY <3>1 DEF OnlyTells
    <3> DEFINE rs == r.s
    <3> HIDE DEF rs
    <3>3. /\ rs \in State /\ SameTimer(b, rs) /\ rs.modifiers = b.modifiers
          /\ SameAccount(b, rs) /\ SameKeys(b, rs) /\ g = EjectKey(rs, p.down).s
      BY <3>1, <3>2 DEF rs
    <3>4. /\ OnlyTimes(rs, g)
          /\ rs.modifiers # {} => SameTimer(rs, g)
          /\ rs.modifiers = {} /\ p.down => g.timerFunc = "eject"
          /\ rs.modifiers = {} /\ ~p.down => g.timer = FALSE /\ g.timerFunc = rs.timerFunc
      BY <3>3, <2>2, <1>1, EjectKeyFacts
    <3>5. QED
      BY <2>2, <3>3, <3>4 DEF OnlyTimes, SameTimer, SameAccount, SameKeys
  <2>3. CASE p.key \notin {"sleep", "insert"}
    <3>1. g = r.s /\ OnlyTells(b, g)
      BY <2>3, <1>5, <1>6
    <3> HIDE DEF g
    <3>2. QED
      BY <2>3, <3>1 DEF OnlyTells, OnlyTimes
  <2>4. QED
    BY <2>1, <2>2, <2>3
<1>8. d = g \/ d = ToHID(g, p, code)
  BY <1>3
<1> HIDE DEF e, g
<1>9. g \in State
  BY <1>7 DEF OnlyTimes
<1>10. OnlyTells(g, d)
  BY <1>5, <1>8, <1>9, OnlyTellsSame, ToHIDFacts
<1> HIDE DEF d
<1>11. /\ d \in State /\ SameAccount(t, d)
       /\ d.crossed = b.crossed /\ d.made = b.made /\ d.told = b.told
       /\ d.modifiers = b.modifiers /\ SameTimer(g, d) /\ SameKeys(b, d)
  BY <1>2, <1>4, <1>7, <1>10 DEF OnlyTells, OnlyTimes, SameAccount, SameKeys
<1>12. EjectIsKey(d)
  BY <1>1, <1>2, <1>4, <1>7, <1>11 DEF EjectIsKey, SameTimer, KeySet
<1>13. Timed(d)
  <2>1. CASE p.key = "sleep"
    <3>1. CASE p.down
      BY <2>1, <3>1, <1>4, <1>7, <1>11 DEF Timed, KeyOfTimer, SameTimer, After
    <3>2. CASE ~p.down
      BY <2>1, <3>2, <1>7, <1>11 DEF Timed, SameTimer
    <3>3. QED
      BY <3>1, <3>2
  <2>2. CASE p.key = "insert"
    <3>1. a.modifiers = t.modifiers /\ b.modifiers = t.modifiers
      BY <2>2, <1>2, <1>4 DEF Modifiers
    <3>2. Now(a, p) = IF t.modifiers = {} THEN "eject" ELSE "insert"
      BY <2>2, <3>1, <1>5, <1>50, ToldAsFacts DEF Plain
    <3>3. CASE t.modifiers # {}
      <4>1. SameTimer(t, d) /\ SameTimer(t, a) /\ SameKeys(t, a)
        BY <2>2, <3>1, <3>3, <1>2, <1>4, <1>7, <1>11 DEF SameTimer
      <4>2. ASSUME t.timer, t.timerFunc = "eject", "insert" \notin t.crossed
            PROVE  "insert" \in b.crossed
        <5>1. "insert" \in t.made /\ t.told["insert"] = "eject"
          BY <4>2, <1>1 DEF Timed, KeyOfTimer
        <5>2. Otherwise(a, "insert", "insert")
          BY <4>1, <4>2, <5>1 DEF Otherwise, SameTimer, SameKeys
        <5>3. QED
          BY <2>2, <3>2, <3>3, <5>2, <1>4
      <4>3. CASE t.timerFunc = "eject"
        BY <4>1, <4>2, <4>3, <1>4, <1>11 DEF Timed, KeyOfTimer, SameTimer
      <4>4. CASE t.timerFunc # "eject"
        <5>1. t.timer => "sleep" \in t.crossed \cup t.made
          BY <4>4, <1>1 DEF Timed, KeyOfTimer, State
        <5>2. t.timer => "sleep" \in d.crossed \cup d.made
          BY <2>2, <5>1, <1>4, <1>11 DEF After
        <5>3. QED
          BY <4>1, <4>4, <5>2, <1>1 DEF Timed, KeyOfTimer, SameTimer, State
      <4>5. QED
        BY <4>3, <4>4
    <3>4. CASE t.modifiers = {} /\ p.down
      <4>1. d.timerFunc = "eject" /\ "insert" \in d.made /\ d.told["insert"] = "eject"
        BY <2>2, <3>1, <3>2, <3>4, <1>4, <1>7, <1>11 DEF SameTimer, After
      <4>2. QED
        BY <4>1 DEF Timed, KeyOfTimer
    <3>5. CASE t.modifiers = {} /\ ~p.down
      BY <2>2, <3>1, <3>5, <1>7, <1>11 DEF Timed, SameTimer
    <3>6. QED
      BY <1>1, <3>3, <3>4, <3>5
  <2>3. CASE p.key \notin {"sleep", "insert"}
    <3>1. SameTimer(t, d)
      BY <2>3, <1>2, <1>4, <1>7, <1>11 DEF SameTimer
    <3>2. KeyOfTimer(t) # p.key /\ KeyOfTimer(d) = KeyOfTimer(t)
      BY <2>3, <3>1 DEF KeyOfTimer, SameTimer
    <3>3. t.timerFunc = "eject" => d.told["insert"] = t.told["insert"]
      BY <2>3, <1>1, <1>4, <1>11 DEF EjectIsKey
    <3>4. QED
      BY <3>1, <3>2, <3>3, <1>1, <1>4, <1>11 DEF Timed, SameTimer, After
  <2>4. QED
    BY <2>1, <2>2, <2>3
<1>14. QED
  BY <1>11, <1>12, <1>13 DEF Sound, d, b, a

-----------------------------------------------------------------------------
(* Handing on a packet, and all that are held back. *)
LEMMA OwedField ==
    ASSUME NEW t \in Sound, NEW owed \in Seq(Packets)
    PROVE  LET u == [t EXCEPT !.owed = owed] IN
           /\ u \in Sound /\ u.macro = t.macro /\ u.macroTimer = t.macroTimer
           /\ u.owed = owed /\ u.disorder = t.disorder /\ SameHands(t, u)
BY DEF Sound, State, Timed, KeyOfTimer, EjectIsKey, SameHands, SameKeys

LEMMA DisorderField ==
    ASSUME NEW t \in Sound
    PROVE  LET u == [t EXCEPT !.disorder = TRUE] IN
           /\ u \in Sound /\ u.macro = t.macro /\ u.macroTimer = t.macroTimer
           /\ u.owed = t.owed /\ SameHands(t, u)
BY DEF Sound, State, Timed, KeyOfTimer, EjectIsKey, SameHands, SameKeys

InTurn(t, p) == t.owed # <<>> /\ Head(t.owed) = p

LEMMA HandOnFacts ==
    ASSUME NEW t \in Sound, NEW p \in Packets, keyBits \subseteq Keys
    PROVE  LET u == HandOn(t, p) IN
           /\ u \in Sound /\ u.macro = t.macro /\ u.macroTimer = t.macroTimer
           /\ InTurn(t, p) => u.owed = Tail(t.owed) /\ u.disorder = t.disorder
<1> DEFINE v == IF InTurn(t, p) THEN [t EXCEPT !.owed = Tail(@)] ELSE [t EXCEPT !.disorder = TRUE]
<1>1. HandOn(t, p) = Dispatch(v, p)
  BY DEF HandOn, InTurn
<1>2. t \in State
  BY DEF Sound
<1>3. /\ v \in Sound /\ v.macro = t.macro /\ v.macroTimer = t.macroTimer
      /\ InTurn(t, p) => v.owed = Tail(t.owed) /\ v.disorder = t.disorder
  <2>1. CASE InTurn(t, p)
    <3>1. Tail(t.owed) \in Seq(Packets)
      BY <1>2, <2>1 DEF State, InTurn
    <3> DEFINE q == Tail(t.owed)
    <3>2. v = [t EXCEPT !.owed = q]
      BY <2>1
    <3> HIDE DEF v, q
    <3>3. q \in Seq(Packets)
      BY <3>1 DEF q
    <3>4. /\ v \in Sound /\ v.macro = t.macro /\ v.macroTimer = t.macroTimer
          /\ v.owed = q /\ v.disorder = t.disorder
      BY <3>2, <3>3, OwedField
    <3>5. QED
      BY <3>4 DEF q
  <2>2. CASE ~InTurn(t, p)
    <3>1. v = [t EXCEPT !.disorder = TRUE]
      BY <2>2
    <3> HIDE DEF v
    <3>2. QED
      BY <2>2, <3>1, DisorderField
  <2>3. QED
    BY <2>1, <2>2
<1> HIDE DEF v
<1>4. QED
  BY <1>1, <1>3, DispatchFacts DEF SameAccount

-----------------------------------------------------------------------------
(* NothingStuck, with OrdinaryMacros.                                      *)

(* The packets q leave the key k up, or do not speak of it. *)
Absent(q, k) == \A i \in DOMAIN q : q[i].key # k
EndsUp(q, k) ==
    \E i \in DOMAIN q : /\ q[i].key = k /\ q[i].down = FALSE
                        /\ \A j \in DOMAIN q : i < j => q[j].key # k

(* Will k be up for the translation, once what is owed has been handed on? *)
WillBeUp(t, k) ==
    EndsUp(t.owed, k) \/ (Absent(t.owed, k) /\ k \notin t.made /\ k \notin t.inverted)

(* What the HID system takes to be down, it has from a key that is down    *)
(* and was told as that, or was crossed.                                   *)
OwnFaces(k) ==
    {k} \cup (IF k = "f1" THEN {"mirror"} ELSE {}) \cup (IF k = "plus" THEN {"brightness"} ELSE {})
Shown(x, told) == x = told \/ (x = "insert" /\ told = "eject")
Because(t, k, x) ==
    /\ x \in OwnFaces(k)
    /\ k \in t.crossed \/ (k \in t.made /\ k \notin Breakless /\ Shown(x, t.told[k]))
Justified(t) == \A x \in t.down : \E k \in KeySet : Because(t, k, x)

(* Keys that nothing special is ever made of, but to delay one.            *)
Themselves(t) ==
    \A k \in t.made \cap {"ctrl", "shift", "insert"} : Shown(k, t.told[k])

Fine(t) ==
    /\ Justified(t) /\ Themselves(t)
    /\ t.modifiers \subseteq t.made
    /\ t.inverted \subseteq MacroKeys /\ t.made \cap t.inverted \subseteq t.crossed

(* A key that the keyboard does not have is down because ACPI says so (it  *)
(* is in h, the keys that are held), or because of a macro, whose          *)
(* keys were taken or crossed.                                             *)
OfMacros(t, h) ==
    \A k \in t.made : \/ k \in Keys \cup h
                      \/ k = "mirror" /\ MacroKeys \cap (t.inverted \cup t.crossed) # {}

HeldAreKeys(t) == \A i \in DOMAIN t.macro : t.macro[i].key \in Keys

-----------------------------------------------------------------------------
LEMMA TailEnds ==
    ASSUME NEW T, NEW q \in Seq(T), q # <<>>, NEW k
    PROVE  /\ k # Head(q).key => /\ EndsUp(q, k) => EndsUp(Tail(q), k)
                                 /\ Absent(q, k) => Absent(Tail(q), k)
           /\ k = Head(q).key =>
                 /\ ~Absent(q, k)
                 /\ EndsUp(q, k) => \/ EndsUp(Tail(q), k)
                                    \/ Absent(Tail(q), k) /\ Head(q).down = FALSE
<1> DEFINE r == Tail(q)
           n == Len(q)
<1>1. /\ n \in Nat \ {0} /\ DOMAIN q = 1 .. n /\ DOMAIN r = 1 .. n - 1
      /\ \A i \in 1 .. n - 1 : r[i] = q[i + 1]
      /\ Head(q) = q[1]
  OBVIOUS
<1> HIDE DEF r, n
<1>2. Absent(q, k) => Absent(r, k)
  BY <1>1 DEF Absent
<1>3. k = Head(q).key => ~Absent(q, k)
  BY <1>1 DEF Absent
<1>4. ASSUME EndsUp(q, k)
      PROVE  EndsUp(r, k) \/ (Absent(r, k) /\ k = Head(q).key /\ Head(q).down = FALSE)
  <2>1. PICK i \in 1 .. n : /\ q[i].key = k /\ q[i].down = FALSE
                            /\ \A j \in 1 .. n : i < j => q[j].key # k
    BY <1>1, <1>4 DEF EndsUp
  <2>2. CASE i = 1
    <3>1. ASSUME NEW j \in 1 .. n - 1 PROVE r[j].key # k
      <4>1. j + 1 \in 1 .. n /\ i < j + 1
        BY <1>1, <2>2
      <4>2. QED
        BY <1>1, <2>1, <4>1
    <3>2. QED
      BY <1>1, <2>1, <2>2, <3>1 DEF Absent
  <2>3. CASE i # 1
    <3>1. i - 1 \in 1 .. n - 1 /\ r[i - 1] = q[i]
      BY <1>1, <2>3
    <3>2. ASSUME NEW j \in 1 .. n - 1, i - 1 < j PROVE r[j].key # k
      <4>1. j + 1 \in 1 .. n /\ i < j + 1
        BY <1>1, <3>2
      <4>2. QED
        BY <1>1, <2>1, <4>1
    <3>3. QED
      BY <1>1, <2>1, <3>1, <3>2 DEF EndsUp
  <2>4. QED
    BY <2>2, <2>3
<1>5. QED
  BY <1>2, <1>3, <1>4 DEF r

LEMMA AppendEnds ==
    ASSUME NEW T, NEW q \in Seq(T), NEW p \in T, NEW k
    PROVE  /\ k # p.key => /\ EndsUp(q, k) => EndsUp(Append(q, p), k)
                           /\ Absent(q, k) => Absent(Append(q, p), k)
           /\ k = p.key /\ p.down = FALSE => EndsUp(Append(q, p), k)
<1> DEFINE r == Append(q, p)
           n == Len(q)
<1>1. /\ n \in Nat /\ DOMAIN q = 1 .. n /\ DOMAIN r = 1 .. n + 1
      /\ \A i \in 1 .. n : r[i] = q[i]
      /\ r[n + 1] = p
  OBVIOUS
<1> HIDE DEF r, n
<1>2. k # p.key /\ Absent(q, k) => Absent(r, k)
  BY <1>1 DEF Absent
<1>3. ASSUME k # p.key, EndsUp(q, k) PROVE EndsUp(r, k)
  <2>1. PICK i \in 1 .. n : /\ q[i].key = k /\ q[i].down = FALSE
                            /\ \A j \in 1 .. n : i < j => q[j].key # k
    BY <1>1, <1>3 DEF EndsUp
  <2>2. i \in 1 .. n + 1 /\ r[i] = q[i] /\ \A j \in 1 .. n + 1 : i < j => r[j].key # k
    BY <1>1, <1>3, <2>1
  <2>3. QED
    BY <1>1, <2>1, <2>2 DEF EndsUp
<1>4. ASSUME k = p.key, p.down = FALSE PROVE EndsUp(r, k)
  <2>1. n + 1 \in 1 .. n + 1 /\ \A j \in 1 .. n + 1 : ~(n + 1 < j)
    BY <1>1
  <2>2. QED
    BY <1>1, <1>4, <2>1 DEF EndsUp
<1>5. QED
  BY <1>2, <1>3, <1>4 DEF r

(* What is remembered of keys when a packet is translated. *)
LEMMA DispatchKeys ==
    ASSUME NEW t \in Sound, NEW p \in Packets, keyBits \subseteq Keys
    PROVE  LET a == TrackModifiers(t, p)
               b == Translated(a, p)
               d == Dispatch(t, p) IN
           /\ d \in Sound /\ SameAccount(t, d)
           /\ d.made = After(t.made, p)
           /\ d.inverted = t.inverted \ {p.key} /\ (p.key \in t.inverted => p.key \in d.crossed)
           /\ t.crossed \subseteq d.crossed
           /\ Otherwise(a, p.key, Now(a, p)) => p.key \in d.crossed
           /\ \A k \in KeySet : k # p.key => d.told[k] = t.told[k]
           /\ p.down => d.told[p.key] = Now(a, p)
           /\ p.key \notin Modifiers => d.modifiers = t.modifiers
           /\ p.key \in Modifiers => d.modifiers = After(t.modifiers, p)
           /\ b \in State /\ b.down = t.down /\ b.modifiers = d.modifiers
           /\ a.modifiers = d.modifiers /\ SameKeys(t, a)
<1> DEFINE a == TrackModifiers(t, p)
           b == Translated(a, p)
           d == Dispatch(t, p)
<1>1. t \in State
  BY DEF Sound
<1>2. /\ a \in State /\ SameKeys(t, a) /\ a.down = t.down
      /\ p.key \notin Modifiers => a.modifiers = t.modifiers
      /\ p.key \in Modifiers => a.modifiers = After(t.modifiers, p)
  BY <1>1, TrackModifiersFacts
<1>3. d \in Sound /\ SameAccount(t, d) /\ SameKeys(b, d) /\ d.modifiers = b.modifiers
  BY DispatchFacts
<1> HIDE DEF a, d
<1>4. /\ b \in State /\ b.modifiers = a.modifiers /\ b.down = a.down
      /\ b.made = After(a.made, p) /\ b.inverted = a.inverted \ {p.key}
      /\ a.crossed \subseteq b.crossed /\ (p.key \in a.inverted => p.key \in b.crossed)
      /\ Otherwise(a, p.key, Now(a, p)) => p.key \in b.crossed
      /\ \A k \in KeySet : k # p.key => b.told[k] = a.told[k]
      /\ p.down => b.told[p.key] = Now(a, p)
  BY <1>2, TranslatedFacts DEF Diverts
<1> HIDE DEF b
<1>5. /\ d.made = After(t.made, p)
      /\ d.inverted = t.inverted \ {p.key} /\ (p.key \in t.inverted => p.key \in d.crossed)
      /\ t.crossed \subseteq d.crossed
      /\ Otherwise(a, p.key, Now(a, p)) => p.key \in d.crossed
      /\ \A k \in KeySet : k # p.key => d.told[k] = t.told[k]
      /\ p.down => d.told[p.key] = Now(a, p)
  BY <1>2, <1>3, <1>4 DEF SameKeys
<1>6. /\ p.key \notin Modifiers => d.modifiers = t.modifiers
      /\ p.key \in Modifiers => d.modifiers = After(t.modifiers, p)
      /\ b.down = t.down /\ b.modifiers = d.modifiers /\ a.modifiers = d.modifiers
  BY <1>2, <1>3, <1>4
<1>7. QED
  BY <1>2, <1>3, <1>4, <1>5, <1>6 DEF a, b, d

(* The keys the HID system takes to be down, after a packet. *)
Pulled(keys, up, down) ==
    (IF down THEN (keys \ up) \cup {"brightness"} ELSE (keys \ up) \ {"brightness"}) \cup up
TellsHID(keys, p, code) ==
    IF p.key \notin Breakless THEN (IF p.down THEN keys \cup {code} ELSE keys \ {code})
    ELSE IF p.down THEN keys \ {code} ELSE keys

(* The special cases make of the keys that are down. *)
Specially(keys, new, m, code, down) ==
    \/ code = "plus" /\ Light(m) /\ new = keys
    \/ /\ code = "plus" /\ Bright(m)
       /\ \E up \in SUBSET {"ctrl", "shift"} : new = Pulled(keys, up, down)
    \/ code = "delete" /\ {"ctrl", "alt"} \subseteq m /\ new \subseteq keys
    \/ code \in {"sleep", "prtsc"} /\ new = keys

LEMMA PlainKey ==
    ASSUME NEW t, NEW code, NEW down, Plain(t.modifiers, code)
    PROVE  SpecialKey(t, code, down) = [s |-> t, swallowed |-> FALSE]
BY WayFacts DEF SpecialKey

LEMMA SpecialDown ==
    ASSUME NEW t \in State, NEW code, NEW down \in BOOLEAN, ~Plain(t.modifiers, code)
    PROVE  LET r == SpecialKey(t, code, down) IN
           r.swallowed = TRUE /\ Specially(t.down, r.s.down, t.modifiers, code, down)
<1> DEFINE r == SpecialKey(t, code, down)
           m == t.modifiers
<1>1. CASE code = "plus" /\ Light(m)
  <2>1. r = [s |-> t, swallowed |-> TRUE]
    BY <1>1, WayFacts DEF SpecialKey
  <2> HIDE DEF r
  <2>2. QED
    BY <1>1, <2>1 DEF r, Specially
<1>2. CASE code = "plus" /\ ~Light(m) /\ Bright(m)
  <2>1. r = [s |-> BrightnessHack(t, down), swallowed |-> TRUE]
    BY <1>2, WayFacts DEF SpecialKey
  <2> HIDE DEF r
  <2> DEFINE up == (IF "win" \in t.modifiers THEN {"ctrl"} ELSE {"ctrl", "shift"}) \cap keyBits
             h == BrightnessHack(t, down)
  <2>2. up \in SUBSET {"ctrl", "shift"}
    OBVIOUS
  <2>3. h = [t EXCEPT !.down = Pulled(t.down, up, down)]
    BY DEF BrightnessHack, Tell, State, Pulled
  <2> DEFINE keys == Pulled(t.down, up, down)
  <2> HIDE DEF keys, h, up
  <2>4. h.down = keys
    BY <2>3 DEF State, keys
  <2>5. r.s.down = keys /\ r.swallowed = TRUE
    BY <2>1, <2>4 DEF h
  <2>6. QED
    BY <1>2, <2>2, <2>5 DEF keys, r, Specially
<1>3. CASE code = "delete" /\ {"ctrl", "alt"} \subseteq m
  <2>1. r = [s |-> ThreeFingerSalute(t, down), swallowed |-> TRUE]
    BY <1>3, WayFacts DEF SpecialKey
  <2> HIDE DEF r
  <2>2. ThreeFingerSalute(t, down).down \subseteq t.down
    BY DEF ThreeFingerSalute, State
  <2>3. QED
    BY <1>3, <2>1, <2>2 DEF r, Specially
<1>4. CASE code = "sleep"
  <2>1. r = [s |-> SleepKey(t, down), swallowed |-> TRUE]
    BY <1>4, WayFacts DEF SpecialKey
  <2> HIDE DEF r
  <2>2. SleepKey(t, down).down = t.down
    BY DEF SleepKey, OnSleepEjectTimer, State
  <2>3. QED
    BY <1>4, <2>1, <2>2 DEF r, Specially
<1>5. CASE code = "prtsc"
  <2>1. r = [s |-> t, swallowed |-> TRUE]
    BY <1>5, WayFacts DEF SpecialKey
  <2> HIDE DEF r
  <2>2. QED
    BY <1>5, <2>1 DEF r, Specially
<1>6. QED
  BY <1>1, <1>2, <1>3, <1>4, <1>5 DEF Plain

LEMMA EjectDown ==
    ASSUME NEW t \in State, NEW down \in BOOLEAN
    PROVE  LET e == EjectKey(t, down) IN
           \/ down /\ e.swallowed = TRUE /\ e.s.down \subseteq t.down \cup {"insert"}
           \/ e.swallowed = FALSE /\ e.s.down = t.down /\ e.s \in State
<1> DEFINE e == EjectKey(t, down)
<1>1. CASE t.modifiers # {}
  BY <1>1 DEF EjectKey
<1>2. CASE t.modifiers = {} /\ ~down
  <2> DEFINE v == [t EXCEPT !.timer = FALSE]
  <2>1. e = [s |-> v, swallowed |-> FALSE]
    BY <1>2 DEF EjectKey
  <2>2. v \in State /\ v.down = t.down
    BY DEF State
  <2> HIDE DEF e, v
  <2>3. QED
    BY <2>1, <2>2 DEF e
<1>3. CASE t.modifiers = {} /\ down
  <2> DEFINE v == [t EXCEPT !.timerFunc = "eject"]
             w == IF settings.ejectDelay THEN [v EXCEPT !.timer = TRUE] ELSE OnSleepEjectTimer(v)
  <2>1. e = [s |-> w, swallowed |-> TRUE]
    BY <1>3 DEF EjectKey
  <2>2. w.down \subseteq t.down \cup {"insert"}
    BY DEF OnSleepEjectTimer, Tell, State
  <2> HIDE DEF e, w
  <2>3. e.swallowed = TRUE /\ e.s.down \subseteq t.down \cup {"insert"}
    BY <2>1, <2>2
  <2>4. QED
    BY <1>3, <2>3 DEF e
<1>4. QED
  BY <1>1, <1>2, <1>3

LEMMA ToHIDDown ==
    ASSUME NEW t \in State, NEW p \in Packets, NEW code
    PROVE  ToHID(t, p, code).down = TellsHID(t.down, p, code)
BY DEF ToHID, Tell, State, TellsHID

LEMMA DispatchDown ==
    ASSUME NEW t \in Sound, NEW p \in Packets, keyBits \subseteq Keys
    PROVE  LET d == Dispatch(t, p)
               m == d.modifiers
               code == Mapped(p.key) IN
           \/ Specially(t.down, d.down, m, code, p.down)
           \/ code = "insert" /\ p.down /\ d.down \subseteq t.down \cup {"insert"}
           \/ Plain(m, code) /\ d.down = TellsHID(t.down, p, code)
<1> DEFINE b == Translated(TrackModifiers(t, p), p)
           d == Dispatch(t, p)
           m == d.modifiers
           code == Mapped(p.key)
           r == SpecialKey(b, code, p.down)
           e == IF code = "insert" THEN EjectKey(r.s, p.down) ELSE r
<1>1. b \in State /\ b.down = t.down /\ b.modifiers = m /\ p.down \in BOOLEAN
  BY DispatchKeys DEF Packets
<1>2. d = IF e.swallowed THEN e.s ELSE ToHID(e.s, p, code)
  BY DEF Dispatch
<1> HIDE DEF b, d, code
<1>3. CASE ~Plain(m, code)
  <2>1. r.swallowed = TRUE /\ Specially(t.down, r.s.down, m, code, p.down)
    BY <1>1, <1>3, SpecialDown
  <2>2. code # "insert"
    BY <1>3 DEF Plain
  <2>3. d = r.s
    BY <1>2, <2>1, <2>2
  <2> HIDE DEF r
  <2>4. QED
    BY <2>1, <2>3 DEF d, code
<1>4. CASE Plain(m, code)
  <2>1. r = [s |-> b, swallowed |-> FALSE]
    BY <1>1, <1>4, PlainKey
  <2> HIDE DEF r
  <2>2. CASE code # "insert"
    <3>1. d = ToHID(b, p, code)
      BY <1>2, <2>1, <2>2
    <3>2. QED
      BY <1>1, <1>4, <3>1, ToHIDDown DEF d, code
  <2>3. CASE code = "insert"
    <3>1. e = EjectKey(b, p.down)
      BY <2>1, <2>3
    <3> HIDE DEF e
    <3>2. \/ p.down /\ e.swallowed = TRUE /\ e.s.down \subseteq b.down \cup {"insert"}
          \/ e.swallowed = FALSE /\ e.s.down = b.down /\ e.s \in State
      BY <1>1, <3>1, EjectDown
    <3>3. CASE e.swallowed = TRUE
      BY <1>1, <1>2, <2>3, <3>2, <3>3 DEF d, code
    <3>4. CASE e.swallowed = FALSE
      <4>1. d = ToHID(e.s, p, code) /\ e.s \in State /\ e.s.down = t.down
        BY <1>1, <1>2, <3>2, <3>4
      <4> DEFINE g == e.s
      <4> HIDE DEF g
      <4>2. d = ToHID(g, p, code) /\ g \in State /\ g.down = t.down
        BY <4>1 DEF g
      <4>3. d.down = TellsHID(t.down, p, code)
        BY <4>2, ToHIDDown
      <4>4. QED
        BY <1>4, <4>3 DEF d, code
    <3>5. QED
      BY <3>2, <3>3, <3>4
  <2>4. QED
    BY <2>2, <2>3
<1>5. QED
  BY <1>3, <1>4

(* How it is told of a packet's key, in terms of the state after it. *)
LEMMA NowFacts ==
    ASSUME NEW t \in Sound, NEW p \in Packets, keyBits \subseteq Keys
    PROVE  LET now == Now(TrackModifiers(t, p), p)
               m == Dispatch(t, p).modifiers
               code == Mapped(p.key) IN
           /\ Plain(m, code) => now = IF code = "insert" /\ m = {} THEN "eject" ELSE code
           /\ code = "plus" /\ Bright(m) => now = "brightness"
           /\ now # "none" => Plain(m, code) \/ (code = "plus" /\ Bright(m) /\ now = "brightness")
<1> DEFINE a == TrackModifiers(t, p)
           m == Dispatch(t, p).modifiers
           code == Mapped(p.key)
<1>1. a.modifiers = m
  BY DispatchKeys
<1>2. code \in Told
  BY MappedFacts DEF Packets, KeySet
<1>3. Now(a, p) = ToldAs(a, code)
  BY DEF Now
<1> HIDE DEF a, m, code
<1>4. LET now == Now(a, p) IN
      /\ Plain(m, code) => now = IF code = "insert" /\ m = {} THEN "eject" ELSE code
      /\ code = "plus" /\ Bright(m) => now = "brightness"
      /\ now # "none" => Plain(m, code) \/ (code = "plus" /\ Bright(m) /\ now = "brightness")
  BY <1>1, <1>2, <1>3, ToldAsFacts
<1>5. QED
  BY <1>4 DEF a, m, code

LEMMA NoLongerTold ==
    ASSUME NEW t \in Sound, NEW p \in Packets, keyBits \subseteq Keys,
           p.key \notin Breakless, ~p.down, NEW x \in OwnFaces(p.key),
           Shown(x, Now(TrackModifiers(t, p), p))
    PROVE  x \notin Dispatch(t, p).down
<1> DEFINE d == Dispatch(t, p)
           m == d.modifiers
           code == Mapped(p.key)
           now == Now(TrackModifiers(t, p), p)
<1>1. \/ Specially(t.down, d.down, m, code, p.down)
      \/ Plain(m, code) /\ d.down = TellsHID(t.down, p, code)
  BY DispatchDown
<1>2. /\ Plain(m, code) => now = IF code = "insert" /\ m = {} THEN "eject" ELSE code
      /\ now # "none" => Plain(m, code) \/ (code = "plus" /\ Bright(m) /\ now = "brightness")
  BY NowFacts
<1>3. Shown(x, now)
  OBVIOUS
<1> HIDE DEF d, now
<1>30. Plain(m, code) \/ (code = "plus" /\ Bright(m) /\ now = "brightness")
  <2>1. CASE now = "none"
    <3>1. x = "none"
      BY <1>3, <2>1 DEF Shown
    <3>2. code = "none"
      BY <3>1 DEF OwnFaces, Mapped
    <3>3. QED
      BY <3>2 DEF Plain
  <2>2. QED
    BY <1>2, <2>1
<1>4. CASE code = "plus" /\ Bright(m) /\ now = "brightness"
  <2>1. ~Light(m) /\ ~Plain(m, code) /\ x = "brightness"
    BY <1>3, <1>4 DEF Bright, Plain, Shown
  <2>2. PICK up \in SUBSET {"ctrl", "shift"} : d.down = Pulled(t.down, up, p.down)
    BY <1>1, <1>4, <2>1 DEF Specially
  <2>3. QED
    BY <2>1, <2>2 DEF Pulled, d
<1>5. CASE Plain(m, code)
  <2>1. ~Specially(t.down, d.down, m, code, p.down)
    BY <1>5 DEF Specially, Plain
  <2>2. d.down = TellsHID(t.down, p, code)
    BY <1>1, <2>1
  <2>3. x = code
    BY <1>2, <1>3, <1>5 DEF Shown, OwnFaces, Mapped
  <2>4. QED
    BY <2>2, <2>3 DEF TellsHID, d
<1>6. QED
  BY <1>30, <1>4, <1>5

LEMMA ThemselvesStill ==
    ASSUME NEW t \in Sound, NEW p \in Packets, keyBits \subseteq Keys, Themselves(t)
    PROVE  Themselves(Dispatch(t, p))
<1> DEFINE d == Dispatch(t, p)
           m == d.modifiers
           now == Now(TrackModifiers(t, p), p)
<1>1. /\ d.made = After(t.made, p) /\ (p.down => d.told[p.key] = now)
      /\ \A k \in KeySet : k # p.key => d.told[k] = t.told[k]
      /\ d.made \subseteq KeySet
  BY DispatchKeys DEF Sound, State
<1>2. Plain(m, Mapped(p.key)) =>
          now = IF Mapped(p.key) = "insert" /\ m = {} THEN "eject" ELSE Mapped(p.key)
  BY NowFacts
<1> HIDE DEF d, now
<1> SUFFICES ASSUME NEW k \in d.made \cap {"ctrl", "shift", "insert"} PROVE Shown(k, d.told[k])
  BY DEF Themselves, d
<1>3. CASE k # p.key
  BY <1>1, <1>3 DEF Themselves, After
<1>4. CASE k = p.key
  <2>1. p.down
    BY <1>1, <1>4 DEF After
  <2>2. Mapped(k) = k /\ Plain(m, k)
    BY DEF Mapped, Plain
  <2>3. d.told[k] = now /\ Shown(k, now)
    BY <1>1, <1>2, <1>4, <2>1, <2>2 DEF Shown
  <2>4. QED
    BY <2>3
<1>5. QED
  BY <1>3, <1>4

LEMMA NewlyTold ==
    ASSUME OrdinaryMacros, NEW t \in Sound, NEW p \in Packets, keyBits \subseteq Keys,
           Dispatch(t, p).modifiers \subseteq Dispatch(t, p).made,
           Themselves(Dispatch(t, p)),
           NEW x \in Dispatch(t, p).down, x \notin t.down
    PROVE  \E k \in KeySet : Because(Dispatch(t, p), k, x)
<1> DEFINE d == Dispatch(t, p)
           m == d.modifiers
           code == Mapped(p.key)
           now == Now(TrackModifiers(t, p), p)
<1>1. \/ Specially(t.down, d.down, m, code, p.down)
      \/ code = "insert" /\ p.down /\ d.down \subseteq t.down \cup {"insert"}
      \/ Plain(m, code) /\ d.down = TellsHID(t.down, p, code)
  BY DispatchDown
<1>2. /\ d.made = After(t.made, p) /\ d \in State /\ p.key \in KeySet
      /\ m \subseteq d.made /\ x \in d.down /\ (p.down => d.told[p.key] = now)
  BY DispatchKeys DEF Sound, Packets, KeySet
<1>3. /\ Plain(m, code) => now = IF code = "insert" /\ m = {} THEN "eject" ELSE code
      /\ code = "plus" /\ Bright(m) => now = "brightness"
  BY NowFacts
<1>4. Themselves(d)
  OBVIOUS
<1> HIDE DEF d, now
<1>5. ASSUME NEW k \in {"ctrl", "shift", "insert"}, k \in d.made
      PROVE  Because(d, k, k) /\ k \in KeySet
  <2>1. Shown(k, d.told[k]) /\ k \in OwnFaces(k) /\ k \notin Breakless
    BY <1>4, <1>5 DEF Themselves, OwnFaces, OrdinaryMacros, Modifiers
  <2>2. QED
    BY <1>2, <1>5, <2>1 DEF Because, State
<1>6. CASE Specially(t.down, d.down, m, code, p.down)
  <2>1. code = "plus" /\ Bright(m)
    BY <1>2, <1>6 DEF Specially
  <2>2. PICK up \in SUBSET {"ctrl", "shift"} : d.down = Pulled(t.down, up, p.down)
    BY <1>2, <1>6, <2>1 DEF Specially, Bright
  <2>3. CASE x \in up
    <3>1. x \in {"ctrl", "shift"} /\ x \in d.made
      BY <1>2, <2>1, <2>2, <2>3 DEF Bright
    <3>2. QED
      BY <1>5, <3>1 DEF d
  <2>4. CASE x \notin up
    <3>1. x = "brightness" /\ p.down
      BY <1>2, <2>2, <2>4 DEF Pulled
    <3>2. p.key = "plus"
      BY <2>1 DEF Mapped
    <3>3. "plus" \notin Breakless /\ "plus" \in d.made /\ d.told["plus"] = "brightness"
      BY <1>2, <1>3, <2>1, <3>1, <3>2 DEF OrdinaryMacros, After
    <3>4. Because(d, "plus", x)
      BY <3>1, <3>3 DEF Because, Shown, OwnFaces
    <3>5. QED
      BY <1>2, <3>2, <3>4 DEF d
  <2>5. QED
    BY <2>3, <2>4
<1>7. CASE code = "insert" /\ p.down /\ d.down \subseteq t.down \cup {"insert"}
  <2>1. x = "insert" /\ p.key = "insert"
    BY <1>2, <1>7 DEF Mapped
  <2>2. "insert" \in d.made
    BY <1>2, <1>7, <2>1 DEF After
  <2>3. QED
    BY <1>5, <2>1, <2>2 DEF d
<1>8. CASE Plain(m, code) /\ d.down = TellsHID(t.down, p, code)
  <2>1. p.key \notin Breakless /\ p.down /\ x = code
    BY <1>2, <1>8 DEF TellsHID
  <2>2. p.key \in d.made /\ d.told[p.key] = now
    BY <1>2, <2>1 DEF After
  <2>3. Shown(x, now)
    BY <1>3, <1>8, <2>1 DEF Shown
  <2>4. x \in OwnFaces(p.key)
    BY <2>1 DEF OwnFaces, Mapped
  <2>5. Because(d, p.key, x)
    BY <2>1, <2>2, <2>3, <2>4 DEF Because
  <2>6. QED
    BY <1>2, <2>5 DEF d
<1>9. QED
  BY <1>1, <1>6, <1>7, <1>8

LEMMA ModifiersAreMade ==
    ASSUME NEW t \in Sound, NEW p \in Packets, keyBits \subseteq Keys,
           t.modifiers \subseteq t.made
    PROVE  Dispatch(t, p).modifiers \subseteq Dispatch(t, p).made
<1> DEFINE d == Dispatch(t, p)
<1>1. /\ d.made = After(t.made, p)
      /\ p.key \notin Modifiers => d.modifiers = t.modifiers
      /\ p.key \in Modifiers => d.modifiers = After(t.modifiers, p)
  BY DispatchKeys
<1>2. t.modifiers \subseteq Modifiers
  BY DEF Sound, State
<1> HIDE DEF d
<1>3. d.modifiers \subseteq d.made
  BY <1>1, <1>2 DEF After
<1>4. QED
  BY <1>3 DEF d

(* Other keys' packets leave justified what was. *)
LEMMA StillBecause ==
    ASSUME NEW t \in Sound, NEW p \in Packets, keyBits \subseteq Keys,
           NEW k \in KeySet, NEW x, Because(t, k, x), k # p.key \/ k \in t.crossed
    PROVE  Because(Dispatch(t, p), k, x)
<1> DEFINE d == Dispatch(t, p)
<1>1. /\ d.made = After(t.made, p) /\ t.crossed \subseteq d.crossed
      /\ \A l \in KeySet : l # p.key => d.told[l] = t.told[l]
  BY DispatchKeys
<1> HIDE DEF d
<1>2. CASE k \in t.crossed
  BY <1>1, <1>2 DEF Because, d
<1>3. CASE k # p.key
  <2>1. (k \in t.made => k \in d.made) /\ d.told[k] = t.told[k]
    BY <1>1, <1>3 DEF After
  <2>2. QED
    BY <1>1, <2>1 DEF Because, d
<1>4. QED
  BY <1>2, <1>3

(* The key's own packet crosses it, or tells of it as before. *)
LEMMA StillShown ==
    ASSUME NEW t \in Sound, NEW p \in Packets, keyBits \subseteq Keys,
           NEW x, Because(t, p.key, x), p.key \notin Dispatch(t, p).crossed
    PROVE  Shown(x, Now(TrackModifiers(t, p), p))
<1> DEFINE a == TrackModifiers(t, p)
           now == Now(a, p)
           k == p.key
           m == Dispatch(t, p).modifiers
<1>1. ~Otherwise(a, k, now) /\ SameKeys(t, a) /\ k \notin t.crossed
  BY DispatchKeys
<1>2. Plain(m, Mapped(k)) => now = IF Mapped(k) = "insert" /\ m = {} THEN "eject" ELSE Mapped(k)
  BY NowFacts
<1> HIDE DEF a, now, m
<1>3. x \in OwnFaces(k) /\ k \in a.made /\ Shown(x, a.told[k])
  BY <1>1 DEF Because, SameKeys
<1>4. CASE k = "insert"
  <2>1. x = "insert" /\ Plain(m, Mapped(k)) /\ Mapped(k) = "insert"
    BY <1>3, <1>4 DEF OwnFaces, Plain, Mapped
  <2>2. now \in {"insert", "eject"}
    BY <1>2, <2>1
  <2>3. QED
    BY <2>1, <2>2 DEF Shown, now, a
<1>5. CASE k # "insert"
  <2>1. a.told[k] \in {"none", now}
    BY <1>1, <1>3, <1>5 DEF Otherwise
  <2>2. CASE a.told[k] = now
    BY <1>3, <2>2 DEF now, a
  <2>3. CASE a.told[k] = "none"
    <3>1. x = "none"
      BY <1>3, <2>3 DEF Shown
    <3>2. Mapped(k) = "none"
      BY <1>3, <3>1 DEF OwnFaces, Mapped
    <3>3. now = "none"
      BY <1>2, <3>2 DEF Plain
    <3>4. QED
      BY <3>1, <3>3 DEF Shown, now, a
  <2>4. QED
    BY <2>1, <2>2, <2>3
<1>6. QED
  BY <1>4, <1>5

LEMMA DispatchJustified ==
    ASSUME OrdinaryMacros, NEW t \in Sound, NEW p \in Packets, keyBits \subseteq Keys,
           Justified(t), Themselves(t), t.modifiers \subseteq t.made
    PROVE  Justified(Dispatch(t, p))
<1> DEFINE d == Dispatch(t, p)
           now == Now(TrackModifiers(t, p), p)
<1>1. d.modifiers \subseteq d.made /\ Themselves(d)
  BY ModifiersAreMade, ThemselvesStill
<1>2. ASSUME NEW x \in d.down PROVE \E k \in KeySet : Because(d, k, x)
  <2>1. CASE x \notin t.down
    BY <1>1, <1>2, <2>1, NewlyTold
  <2>2. CASE x \in t.down
    <3>1. PICK k \in KeySet : Because(t, k, x)
      BY <2>2 DEF Justified
    <3>2. CASE k # p.key \/ k \in t.crossed
      BY <3>1, <3>2, StillBecause
    <3>3. CASE k = p.key /\ k \in d.crossed
      BY <3>1, <3>3 DEF Because
    <3>4. CASE k = p.key /\ k \notin d.crossed /\ k \notin t.crossed
      <4>1. x \in OwnFaces(k) /\ k \notin Breakless
        BY <3>1, <3>4 DEF Because
      <4>2. Shown(x, now)
        BY <3>1, <3>4, StillShown
      <4>3. CASE ~p.down
        BY <1>2, <3>4, <4>1, <4>2, <4>3, NoLongerTold
      <4>4. CASE p.down
        <5>1. d.made = After(t.made, p) /\ d.told[p.key] = now
          BY <4>4, DispatchKeys
        <5>10. k \in d.made /\ d.told[k] = now
          BY <3>4, <4>4, <5>1 DEF After
        <5>2. Because(d, k, x)
          BY <4>1, <4>2, <5>10 DEF Because
        <5>3. QED
          BY <5>2
      <4>5. QED
        BY <4>3, <4>4
    <3>5. QED
      BY <3>2, <3>3, <3>4
  <2>3. QED
    BY <2>1, <2>2
<1> HIDE DEF d
<1>3. QED
  BY <1>2 DEF Justified, d

(* Translating and taking packets leaves fine what was, and brings up what *)
(* will be up.                                                             *)
Kept(t, u) ==
    /\ Fine(t) => Fine(u)
    /\ t.crossed \subseteq u.crossed
    /\ \A k \in Keys : WillBeUp(t, k) => WillBeUp(u, k) \/ k \in u.crossed

(* No key but those of the keyboard and of X goes down, and what macros    *)
(* have taken is remembered.                                               *)
Tame(t, u, X) ==
    /\ u.made \subseteq t.made \cup Keys \cup X
    /\ t.inverted \cup t.crossed \subseteq u.inverted \cup u.crossed

LEMMA KeptTwice ==
    ASSUME NEW t, NEW u, NEW v, Kept(t, u), Kept(u, v)
    PROVE  Kept(t, v)
BY DEF Kept

LEMMA TameTwice ==
    ASSUME NEW t, NEW u, NEW v, NEW X, Tame(t, u, X), Tame(u, v, X)
    PROVE  Tame(t, v, X)
BY DEF Tame

LEMMA SameIsKept ==
    ASSUME NEW t, NEW u, SameHands(t, u), NEW X
    PROVE  /\ Fine(t) => Fine(u)
           /\ u.owed = t.owed => Kept(t, u)
           /\ Tame(t, u, X) /\ \A h : OfMacros(t, h) => OfMacros(u, h)
BY DEF SameHands, SameKeys, Fine, Justified, Themselves, Because, Kept, WillBeUp, Tame, OfMacros

LEMMA SameSelf ==
    ASSUME NEW t, NEW X
    PROVE  Kept(t, t) /\ Tame(t, t, X)
BY DEF Kept, Tame

LEMMA TameOfMacros ==
    ASSUME NEW t, NEW u, Tame(t, u, {}), NEW h, OfMacros(t, h)
    PROVE  OfMacros(u, h)
BY DEF Tame, OfMacros

LEMMA DispatchFine ==
    ASSUME OrdinaryMacros, NEW t \in Sound, NEW p \in Packets, keyBits \subseteq Keys, Fine(t)
    PROVE  Fine(Dispatch(t, p))
<1> DEFINE d == Dispatch(t, p)
<1>1. Justified(d) /\ Themselves(d) /\ d.modifiers \subseteq d.made
  BY DispatchJustified, ThemselvesStill, ModifiersAreMade DEF Fine
<1>2. /\ d.made = After(t.made, p) /\ d.inverted = t.inverted \ {p.key}
      /\ t.crossed \subseteq d.crossed
  BY DispatchKeys
<1> HIDE DEF d
<1>3. d.inverted \subseteq MacroKeys /\ d.made \cap d.inverted \subseteq d.crossed
  BY <1>2 DEF Fine, After
<1>4. QED
  BY <1>1, <1>3 DEF Fine, d

LEMMA DispatchTame ==
    ASSUME NEW t \in Sound, NEW p \in Packets, keyBits \subseteq Keys
    PROVE  Tame(t, Dispatch(t, p), {p.key}) /\ (~p.down => p.key \notin Dispatch(t, p).made)
<1> DEFINE d == Dispatch(t, p)
<1>1. /\ d.made = After(t.made, p) /\ d.inverted = t.inverted \ {p.key}
      /\ t.crossed \subseteq d.crossed /\ (p.key \in t.inverted => p.key \in d.crossed)
  BY DispatchKeys
<1> HIDE DEF d
<1>2. QED
  BY <1>1 DEF Tame, After, d

LEMMA HandOnKept ==
    ASSUME OrdinaryMacros, NEW t \in Sound, NEW p \in Packets, keyBits \subseteq Keys,
           InTurn(t, p)
    PROVE  LET u == HandOn(t, p) IN
           Kept(t, u) /\ Tame(t, u, {p.key}) /\ (~p.down => p.key \notin u.made)
<1> DEFINE q == Tail(t.owed)
           v == [t EXCEPT !.owed = q]
           u == HandOn(t, p)
<1>1. t.owed \in Seq(Packets) /\ t.owed # <<>> /\ Head(t.owed) = p
  BY DEF Sound, State, InTurn
<1>2. u = Dispatch(v, p) /\ q \in Seq(Packets)
  BY <1>1 DEF HandOn
<1> HIDE DEF q, u
<1>3. v \in Sound /\ v.owed = q /\ SameHands(t, v)
  BY <1>2, OwedField
<1> HIDE DEF v
<1>4. /\ u \in Sound /\ u.owed = q /\ u.made = After(v.made, p)
      /\ u.inverted = v.inverted \ {p.key} /\ v.crossed \subseteq u.crossed
  BY <1>2, <1>3, DispatchKeys DEF SameAccount
<1>5. Fine(t) => Fine(u)
  BY <1>2, <1>3, SameIsKept, DispatchFine
<1>6. Tame(t, u, {p.key}) /\ (~p.down => p.key \notin u.made)
  <2>1. Tame(t, v, {p.key}) /\ Tame(v, u, {p.key}) /\ (~p.down => p.key \notin u.made)
    BY <1>2, <1>3, SameIsKept, DispatchTame
  <2>2. QED
    BY <2>1, TameTwice
<1>7. ASSUME NEW k \in Keys, WillBeUp(t, k) PROVE WillBeUp(u, k)
  <2>1. /\ k # p.key => /\ EndsUp(t.owed, k) => EndsUp(q, k)
                        /\ Absent(t.owed, k) => Absent(q, k)
        /\ k = p.key =>
                 /\ ~Absent(t.owed, k)
                 /\ EndsUp(t.owed, k) => EndsUp(q, k) \/ (Absent(q, k) /\ p.down = FALSE)
    BY <1>1, TailEnds DEF q
  <2>2. u.made = After(t.made, p) /\ u.inverted = t.inverted \ {p.key}
    BY <1>3, <1>4 DEF SameHands, SameKeys
  <2>3. CASE k # p.key
    BY <1>4, <1>7, <2>1, <2>2, <2>3 DEF WillBeUp, After
  <2>4. CASE k = p.key
    BY <1>4, <1>7, <2>1, <2>2, <2>4 DEF WillBeUp, After
  <2>5. QED
    BY <2>3, <2>4
<1>8. t.crossed \subseteq u.crossed
  BY <1>3, <1>4 DEF SameHands, SameKeys
<1>9. QED
  BY <1>5, <1>6, <1>7, <1>8 DEF Kept, u

-----------------------------------------------------------------------------
(* What is owed beyond what is held back. *)
HeldIsOwed(t) ==
    Len(t.macro) <= Len(t.owed) /\ \A i \in 1 .. Len(t.macro) : t.owed[i] = t.macro[i]

(* The packets are handed on in turn, each of them once. *)
LEMMA HandOnAllFacts ==
    ASSUME NEW t \in Sound, keyBits \subseteq Keys
    PROVE  LET u == HandOnAll(t)
               n == Len(t.macro) IN
           /\ u \in Sound /\ u.macro = t.macro /\ u.macroTimer = t.macroTimer
           /\ HeldIsOwed(t) => /\ Len(u.owed) = Len(t.owed) - n
                               /\ \A j \in 1 .. Len(t.owed) - n : u.owed[j] = t.owed[n + j]
                               /\ u.disorder = t.disorder
           /\ OrdinaryMacros /\ HeldIsOwed(t) /\ HeldAreKeys(t) => Kept(t, u) /\ Tame(t, u, {})
<1> DEFINE n == Len(t.macro)
           R(g) == g = [i \in 0 .. n |-> IF i = 0 THEN t ELSE HandOn(g[i - 1], t.macro[i])]
           after == CHOOSE g : R(g)
<1>1. /\ t \in State /\ n \in Nat /\ (\A i \in 1 .. n : t.macro[i] \in Packets)
      /\ t.owed \in Seq(Packets)
  BY DEF Sound, State
<1>2. HandOnAll(t) = after[n]
  BY DEF HandOnAll
<1>3. ASSUME NEW x \in Sound, NEW i \in 1 .. n PROVE HandOn(x, t.macro[i]) \in Sound
  BY <1>1, <1>3, HandOnFacts
<1>4. \E g : R(g)
  <2> DEFINE step == [i \in 1 .. n |-> [x \in Sound |-> HandOn(x, t.macro[i])]]
  <2>1. step \in Steps(Sound, n)
    BY <1>3 DEF Steps
  <2>2. \A i \in 1 .. n : \A x \in Sound : step[i][x] = HandOn(x, t.macro[i])
    OBVIOUS
  <2> HIDE DEF step, n
  <2>0. n \in Nat
    BY <1>1
  <2>3. PICK f : Taken(f, Sound, n, t, step)
    BY <2>0, <2>1, Chain, Zenon
  <2>4. ASSUME NEW i \in 0 .. n
        PROVE  f[i] = IF i = 0 THEN t ELSE HandOn(f[i - 1], t.macro[i])
    <3>1. CASE i = 0
      BY <2>3, <3>1 DEF Taken
    <3>2. CASE i # 0
      <4>1. i \in 1 .. n /\ i - 1 \in 0 .. n
        BY <1>1, <3>2
      <4>2. QED
        BY <2>2, <2>3, <3>2, <4>1 DEF Taken
    <3>3. QED
      BY <3>1, <3>2
  <2>5. R(f)
    BY <2>3, <2>4 DEF Taken
  <2>6. QED
    BY <2>5
<1>5. R(after)
  BY <1>4, Zenon
<1> HIDE DEF after, n
<1>6. /\ after[0] = t
      /\ \A i \in Nat : i + 1 <= n => after[i + 1] = HandOn(after[i], t.macro[i + 1])
  BY <1>1, <1>5
<1> DEFINE P(u, i) ==
              /\ u \in Sound /\ u.macro = t.macro /\ u.macroTimer = t.macroTimer
              /\ HeldIsOwed(t) => /\ Len(u.owed) = Len(t.owed) - i
                                  /\ \A j \in 1 .. Len(t.owed) - i : u.owed[j] = t.owed[i + j]
                                  /\ u.disorder = t.disorder
              /\ OrdinaryMacros /\ HeldIsOwed(t) /\ HeldAreKeys(t) => Kept(t, u) /\ Tame(t, u, {})
           S == {i \in Nat : i <= n => P(after[i], i)}
<1>7. 0 \in S
  <2>1. P(t, 0)
    BY <1>1, SameSelf
  <2>2. QED
    BY <2>1, <1>6
<1>8. ASSUME NEW i \in Nat, i \in S PROVE i + 1 \in S
  <2>0. i + 1 \in Nat
    OBVIOUS
  <2> SUFFICES ASSUME i + 1 <= n PROVE P(after[i + 1], i + 1)
    BY <2>0, Zenon
  <2> DEFINE x == after[i]
             y == after[i + 1]
  <2>1. P(x, i)
    BY <1>1, <1>8
  <2>2. y = HandOn(x, t.macro[i + 1]) /\ t.macro[i + 1] \in Packets
    BY <1>1, <1>6
  <2> HIDE DEF x, y
  <2>3. /\ y \in Sound /\ y.macro = t.macro /\ y.macroTimer = t.macroTimer
        /\ InTurn(x, t.macro[i + 1]) => y.owed = Tail(x.owed) /\ y.disorder = x.disorder
    BY <2>1, <2>2, HandOnFacts
  <2>4. ASSUME HeldIsOwed(t)
        PROVE  /\ InTurn(x, t.macro[i + 1])
               /\ Len(y.owed) = Len(t.owed) - (i + 1) /\ y.disorder = t.disorder
               /\ \A j \in 1 .. Len(t.owed) - (i + 1) : y.owed[j] = t.owed[(i + 1) + j]
    <3>1. x.owed \in Seq(Packets) /\ Len(x.owed) \in Nat
      BY <2>1 DEF Sound, State
    <3>2. i + 1 <= Len(t.owed) /\ Len(t.owed) \in Nat /\ t.owed[i + 1] = t.macro[i + 1]
      BY <1>1, <2>4 DEF HeldIsOwed, n
    <3>3. /\ Len(x.owed) = Len(t.owed) - i /\ x.disorder = t.disorder
          /\ \A j \in 1 .. Len(t.owed) - i : x.owed[j] = t.owed[i + j]
      BY <2>1, <2>4
    <3>4. x.owed # <<>> /\ Head(x.owed) = x.owed[1]
      BY <3>1, <3>2, <3>3
    <3>5. x.owed[1] = t.owed[i + 1]
      BY <3>2, <3>3
    <3>0. InTurn(x, t.macro[i + 1])
      BY <3>2, <3>4, <3>5 DEF InTurn
    <3>6. y.owed = Tail(x.owed) /\ y.disorder = x.disorder
      BY <2>3, <3>0
    <3>7. Len(y.owed) = Len(x.owed) - 1 /\ \A j \in 1 .. Len(x.owed) - 1 : y.owed[j] = x.owed[j + 1]
      BY <3>1, <3>4, <3>6
    <3>8. ASSUME NEW j \in 1 .. Len(t.owed) - (i + 1)
          PROVE  y.owed[j] = t.owed[(i + 1) + j]
      <4>1. j \in 1 .. Len(x.owed) - 1 /\ j + 1 \in 1 .. Len(t.owed) - i
        BY <3>2, <3>3
      <4>2. y.owed[j] = x.owed[j + 1] /\ x.owed[j + 1] = t.owed[i + (j + 1)]
        BY <3>3, <3>7, <4>1
      <4>3. i + (j + 1) = (i + 1) + j
        BY <4>1
      <4>4. QED
        BY <4>2, <4>3
    <3>9. Len(y.owed) = Len(t.owed) - (i + 1)
      BY <3>2, <3>3, <3>7
    <3>10. y.disorder = t.disorder
      BY <3>3, <3>6
    <3>11. QED
      BY <3>0, <3>8, <3>9, <3>10, Zenon
  <2>5. ASSUME OrdinaryMacros, HeldIsOwed(t), HeldAreKeys(t)
        PROVE  Kept(t, y) /\ Tame(t, y, {})
    <3> DEFINE p == t.macro[i + 1]
    <3>1. p.key \in Keys
      BY <1>1, <2>5 DEF HeldAreKeys, n
    <3> HIDE DEF p
    <3>2. Kept(x, y) /\ Tame(x, y, {p.key})
      BY <2>1, <2>2, <2>4, <2>5, HandOnKept DEF p
    <3>3. Tame(x, y, {})
      BY <3>1, <3>2 DEF Tame
    <3>4. Kept(t, x) /\ Tame(t, x, {})
      BY <2>1, <2>5
    <3>5. QED
      BY <3>2, <3>3, <3>4, KeptTwice, TameTwice
  <2>6. QED
    BY <2>3, <2>4, <2>5 DEF y
<1>9. Nat \subseteq S
  <2> HIDE DEF S
  <2>1. QED
    BY <1>7, <1>8, Induct
<1>10. P(after[n], n)
  <2> HIDE DEF P
  <2>1. n \in Nat /\ n <= n
    BY <1>1
  <2>2. n \in S
    BY <1>9, <2>1, Zenon
  <2>3. QED
    BY <2>1, <2>2, Zenon
<1>11. P(HandOnAll(t), n)
  BY <1>2, <1>10, Zenon
<1>12. QED
  BY <1>11, Zenon DEF n

LEMMA MacroFields ==
    ASSUME NEW t \in Sound
    PROVE  LET u == [t EXCEPT !.macro = <<>>, !.macroTimer = FALSE] IN
           /\ u \in Sound /\ u.macro = <<>> /\ u.owed = t.owed /\ u.disorder = t.disorder
           /\ SameHands(t, u)
<1> DEFINE e == <<>>
           u == [t EXCEPT !.macro = e, !.macroTimer = FALSE]
<1>1. e \in Seq(Packets)
  OBVIOUS
<1> HIDE DEF e
<1>2. /\ u \in Sound /\ u.macro = e /\ u.owed = t.owed /\ u.disorder = t.disorder
      /\ SameHands(t, u)
  BY <1>1 DEF Sound, State, Timed, KeyOfTimer, EjectIsKey, SameHands, SameKeys
<1> HIDE DEF u
<1>3. QED
  BY <1>2 DEF e, u

(* What is held back is what is owed, but for the packet just read. *)
Ordered(t) == t.owed = t.macro /\ t.disorder = FALSE
OrderedBut(t, p) == t.owed = Append(t.macro, p) /\ t.disorder = FALSE

LEMMA DispatchInvertBufferFacts ==
    ASSUME NEW t \in Sound, keyBits \subseteq Keys
    PROVE  LET u == DispatchInvertBuffer(t) IN
           /\ u \in Sound /\ u.macro = <<>>
           /\ Ordered(t) => Ordered(u)
           /\ \A p \in Packets : OrderedBut(t, p) => OrderedBut(u, p)
<1> DEFINE h == HandOnAll(t)
           u == DispatchInvertBuffer(t)
           n == Len(t.macro)
<1>1. /\ h \in Sound
      /\ HeldIsOwed(t) => /\ Len(h.owed) = Len(t.owed) - n
                          /\ \A j \in 1 .. Len(t.owed) - n : h.owed[j] = t.owed[n + j]
                          /\ h.disorder = t.disorder
  BY HandOnAllFacts
<1>2. u = [h EXCEPT !.macro = <<>>, !.macroTimer = FALSE]
  BY DEF DispatchInvertBuffer
<1> HIDE DEF h, u
<1>3. u \in Sound /\ u.macro = <<>> /\ u.owed = h.owed /\ u.disorder = h.disorder
  BY <1>1, <1>2, MacroFields
<1>4. /\ t.macro \in Seq(Packets) /\ t.owed \in Seq(Packets) /\ n \in Nat /\ Len(t.owed) \in Nat
      /\ h.owed \in Seq(Packets)
  BY <1>1 DEF Sound, State
<1>5. ASSUME Ordered(t) PROVE Ordered(u)
  <2>1. HeldIsOwed(t) /\ Len(t.owed) - n = 0 /\ t.disorder = FALSE
    BY <1>4, <1>5 DEF Ordered, HeldIsOwed
  <2>2. Len(h.owed) = 0
    BY <1>1, <2>1
  <2>3. h.owed = <<>>
    BY <1>4, <2>2
  <2>4. QED
    BY <1>1, <1>3, <2>1, <2>3 DEF Ordered
<1>6. ASSUME NEW p \in Packets, OrderedBut(t, p) PROVE OrderedBut(u, p)
  <2>1. t.owed = Append(t.macro, p) /\ t.disorder = FALSE
    BY <1>6 DEF OrderedBut
  <2>2. Len(t.owed) = n + 1 /\ t.owed[n + 1] = p /\ \A i \in 1 .. n : t.owed[i] = t.macro[i]
    BY <1>4, <2>1
  <2>3. HeldIsOwed(t)
    BY <1>4, <2>2 DEF HeldIsOwed
  <2>4. Len(h.owed) = 1 /\ h.owed[1] = p
    <3>1. Len(t.owed) - n = 1 /\ 1 \in 1 .. 1
      BY <1>4, <2>2
    <3>2. QED
      BY <1>1, <2>2, <2>3, <3>1
  <2>5. h.owed = Append(<<>>, p)
    BY <1>4, <2>4
  <2>6. QED
    BY <1>1, <1>3, <2>1, <2>3, <2>5 DEF OrderedBut
<1> HIDE DEF n
<1>7. QED
  BY <1>3, <1>5, <1>6 DEF u

LEMMA NoMatchFacts ==
    ASSUME NEW t \in Sound, NEW p \in Packets, keyBits \subseteq Keys
    PROVE  LET u == NoMatch(t, p) IN
           u \in Sound /\ u.macro = <<>> /\ (OrderedBut(t, p) => Ordered(u))
<1> DEFINE v == DispatchInvertBuffer(t)
           u == NoMatch(t, p)
<1>1. v \in Sound /\ v.macro = <<>> /\ (OrderedBut(t, p) => OrderedBut(v, p))
  BY DispatchInvertBufferFacts
<1>2. u = HandOn(v, p)
  BY DEF NoMatch
<1> HIDE DEF u, v
<1>3. /\ u \in Sound /\ u.macro = v.macro
      /\ InTurn(v, p) => u.owed = Tail(v.owed) /\ u.disorder = v.disorder
  BY <1>1, <1>2, HandOnFacts
<1>4. ASSUME OrderedBut(t, p) PROVE Ordered(u)
  <2>1. v.owed = Append(<<>>, p) /\ v.disorder = FALSE
    BY <1>1, <1>4 DEF OrderedBut
  <2>2. v.owed # <<>> /\ Head(v.owed) = p /\ Tail(v.owed) = <<>>
    BY <2>1
  <2>3. QED
    BY <1>1, <1>3, <2>1, <2>2 DEF Ordered, InTurn
<1>5. QED
  BY <1>1, <1>3, <1>4 DEF u

LEMMA InvertMacroFacts ==
    ASSUME NEW t \in Sound, NEW q \in Seq(Packets), NEW output \in Packets, keyBits \subseteq Keys
    PROVE  LET u == InvertMacro(t, q, output) IN
           u \in Sound /\ u.macro = <<>> /\ (t.owed = q /\ t.disorder = FALSE => Ordered(u))
<1> DEFINE keys(down) == {q[i].key : i \in {j \in DOMAIN q : q[j].down = down}}
           crossed == t.crossed \cup ((keys(FALSE) \ t.inverted) \cup (keys(TRUE) \cap t.made))
           inverted == (t.inverted \ keys(FALSE)) \cup keys(TRUE)
           disorder == t.disorder \/ t.owed # q
           e == <<>>
           v == [t EXCEPT !.crossed = crossed, !.inverted = inverted, !.disorder = disorder,
                          !.owed = e]
           d == Dispatch(v, output)
           u == InvertMacro(t, q, output)
<1>1. t \in State /\ Timed(t) /\ EjectIsKey(t)
  BY DEF Sound
<1>2. u = [d EXCEPT !.macro = <<>>, !.macroTimer = FALSE]
  BY <1>1 DEF InvertMacro, Cross, State
<1>3. crossed \in SUBSET KeySet /\ inverted \in SUBSET KeySet
  <2>0. \A i \in DOMAIN q : q[i] \in Packets
    OBVIOUS
  <2>1. \A i \in DOMAIN q : q[i].key \in KeySet
    BY <2>0 DEF Packets, KeySet
  <2>2. keys(TRUE) \subseteq KeySet /\ keys(FALSE) \subseteq KeySet
    BY <2>1
  <2> HIDE DEF keys
  <2>3. QED
    BY <1>1, <2>2 DEF State
<1>4. disorder \in BOOLEAN /\ (t.owed = q /\ t.disorder = FALSE => disorder = FALSE)
  BY <1>1 DEF State
<1>5. t.crossed \subseteq crossed /\ e \in Seq(Packets)
  OBVIOUS
<1> HIDE DEF crossed, inverted, disorder, u, d, e
<1>6. v \in Sound /\ v.owed = e /\ v.disorder = disorder
  BY <1>1, <1>3, <1>4, <1>5 DEF Sound, State, Timed, KeyOfTimer, EjectIsKey
<1> HIDE DEF v
<1>7. d \in Sound /\ d.owed = e /\ d.disorder = disorder
  BY <1>6, DispatchFacts DEF d, SameAccount
<1>8. u \in Sound /\ u.macro = <<>> /\ u.owed = e /\ u.disorder = disorder
  BY <1>2, <1>7, MacroFields
<1>9. QED
  BY <1>4, <1>8 DEF u, e, Ordered

(* What is held back is the beginning of a macro, and not the whole.       *)
Beginning(t) == t.macro # <<>> => \E i \in DOMAIN Macros : Len(t.macro) < Len(Macros[i].sequence)
Waiting(t) == t.macro # <<>> => t.macroTimer = TRUE

LEMMA HoldFields ==
    ASSUME NEW t \in Sound, NEW q \in Seq(Packets)
    PROVE  LET u == [t EXCEPT !.macro = q, !.macroTimer = TRUE] IN
           /\ u \in Sound /\ u.macro = q /\ u.macroTimer = TRUE
           /\ u.owed = t.owed /\ u.disorder = t.disorder /\ SameHands(t, u)
BY DEF Sound, State, Timed, KeyOfTimer, EjectIsKey, SameHands, SameKeys

LEMMA CandidatesFacts ==
    ASSUME NEW t, NEW q \in Seq(Packets), Candidates(t, q) # {}
    PROVE  LET i == Min(Candidates(t, q)) IN
           /\ i \in DOMAIN Macros /\ Macros[i].output \in Packets
           /\ Len(q) \in Nat /\ Len(Macros[i].sequence) \in Nat
           /\ Len(q) <= Len(Macros[i].sequence)
           /\ Macros[i].sequence \in Seq(Packets) /\ IsPrefix(q, Macros[i].sequence)
<1> DEFINE c == Candidates(t, q)
           i == Min(c)
<1>1. c \subseteq DOMAIN Macros /\ \A j \in c : IsPrefix(q, Macros[j].sequence)
  BY DEF Candidates
<1>2. DOMAIN Macros \subseteq Nat
  BY MacrosAssumption
<1> HIDE DEF c
<1>3. i \in c
  BY <1>1, <1>2, MinIsLeast DEF c
<1> HIDE DEF i
<1>4. i \in DOMAIN Macros /\ IsPrefix(q, Macros[i].sequence)
  BY <1>1, <1>3
<1> DEFINE Type == [output : Packets, mask : SUBSET Modifiers,
                    compare : SUBSET SUBSET Modifiers, sequence : Seq(Packets)]
           m == Macros[i]
<1>5. m \in Type
  <2> HIDE DEF Type
  <2>1. Macros \in Seq(Type)
    BY MacrosAssumption DEF Type
  <2>2. QED
    BY <1>4, <2>1
<1>6. Macros[i].output \in Packets /\ Macros[i].sequence \in Seq(Packets)
  <2> HIDE DEF m
  <2>1. m.output \in Packets /\ m.sequence \in Seq(Packets)
    BY <1>5
  <2>2. QED
    BY <2>1 DEF m
<1>7. Len(q) <= Len(Macros[i].sequence)
  BY <1>4 DEF IsPrefix
<1>8. QED
  BY <1>4, <1>6, <1>7 DEF i, c

LEMMA TakePacketFacts ==
    ASSUME NEW t \in Sound, NEW p \in Packets, NEW late \in BOOLEAN, keyBits \subseteq Keys
    PROVE  LET u == TakePacket(t, p, late) IN
           u \in Sound /\ Beginning(u) /\ Waiting(u) /\ (Ordered(t) => Ordered(u))
<1> DEFINE o == Append(t.owed, p)
           v == [t EXCEPT !.owed = o]
           w == IF late THEN DispatchInvertBuffer(v) ELSE v
           q == Append(w.macro, p)
           c == Candidates(w, q)
           macro == Macros[Min(c)]
           u == TakePacket(t, p, late)
<1>1. o \in Seq(Packets)
  BY DEF Sound, State
<1>2. u = IF c = {} THEN NoMatch(w, p)
          ELSE IF Len(q) = Len(macro.sequence) THEN InvertMacro(w, q, macro.output)
          ELSE [w EXCEPT !.macro = q, !.macroTimer = TRUE]
  BY DEF TakePacket
<1> HIDE DEF u
<1>3. Ordered(t) => o = Append(t.macro, p) /\ t.disorder = FALSE
  BY DEF Ordered
<1> HIDE DEF o
<1>4. v \in Sound /\ v.macro = t.macro /\ v.owed = o /\ v.disorder = t.disorder
  BY <1>1, OwedField
<1> HIDE DEF v
<1>5. Ordered(t) => OrderedBut(v, p)
  BY <1>3, <1>4 DEF OrderedBut
<1>6. w \in Sound /\ (Ordered(t) => OrderedBut(w, p))
  <2>1. CASE late
    BY <2>1, <1>4, <1>5, DispatchInvertBufferFacts
  <2>2. CASE ~late
    BY <2>2, <1>4, <1>5
  <2>3. QED
    BY <2>1, <2>2
<1> HIDE DEF w
<1>7. q \in Seq(Packets) /\ q # <<>> /\ (Ordered(t) => w.owed = q /\ w.disorder = FALSE)
  <2>1. w.macro \in Seq(Packets)
    BY <1>6 DEF Sound, State
  <2>2. q \in Seq(Packets) /\ q # <<>>
    BY <2>1
  <2>3. Ordered(t) => w.owed = q /\ w.disorder = FALSE
    BY <1>6 DEF OrderedBut
  <2>4. QED
    BY <2>2, <2>3
<1> HIDE DEF q
<1>8. CASE c = {}
  <2>1. u = NoMatch(w, p)
    BY <1>2, <1>8
  <2>2. u \in Sound /\ u.macro = <<>> /\ (Ordered(t) => Ordered(u))
    BY <1>6, <2>1, NoMatchFacts
  <2>3. QED
    BY <2>2 DEF u, Beginning, Waiting
<1>9. CASE c # {}
  <2>1. /\ Min(c) \in DOMAIN Macros /\ macro.output \in Packets
        /\ Len(q) \in Nat /\ Len(macro.sequence) \in Nat /\ Len(q) <= Len(macro.sequence)
    BY <1>7, <1>9, CandidatesFacts
  <2> HIDE DEF c
  <2>2. CASE Len(q) = Len(macro.sequence)
    <3>1. u = InvertMacro(w, q, macro.output)
      BY <1>2, <1>9, <2>2
    <3> DEFINE output == macro.output
    <3> HIDE DEF output
    <3>2. u \in Sound /\ u.macro = <<>> /\ (w.owed = q /\ w.disorder = FALSE => Ordered(u))
      BY <1>6, <1>7, <2>1, <3>1, InvertMacroFacts DEF output
    <3>3. QED
      BY <1>7, <3>2 DEF u, Beginning, Waiting
  <2>3. CASE Len(q) # Len(macro.sequence)
    <3>1. u = [w EXCEPT !.macro = q, !.macroTimer = TRUE]
      BY <1>2, <1>9, <2>3
    <3>2. /\ u \in Sound /\ u.macro = q /\ u.macroTimer = TRUE
          /\ u.owed = w.owed /\ u.disorder = w.disorder
      BY <1>6, <1>7, <3>1, HoldFields
    <3>3. Len(q) < Len(macro.sequence)
      BY <2>1, <2>3
    <3>4. Beginning(u)
      BY <2>1, <3>2, <3>3 DEF Beginning
    <3>5. QED
      BY <1>7, <3>2, <3>4 DEF u, Waiting, Ordered
  <2>4. QED
    BY <2>2, <2>3
<1>10. QED
  BY <1>8, <1>9

-----------------------------------------------------------------------------
(* initKeyboard's key ups. *)
Upped(t, u) ==
    /\ OrdinaryMacros /\ Fine(t) => Fine(u)
    /\ Tame(t, u, {}) /\ t.crossed \subseteq u.crossed
    /\ u.made \subseteq t.made /\ u.inverted \subseteq t.inverted
IsUp(t, k) == k \notin t.made /\ k \notin t.inverted

LEMMA UppedTwice ==
    ASSUME NEW t, NEW u, NEW v, Upped(t, u), Upped(u, v)
    PROVE  Upped(t, v) /\ \A k : IsUp(u, k) => IsUp(v, k)
BY TameTwice DEF Upped, IsUp

LEMMA SameIsUpped ==
    ASSUME NEW t, NEW u, SameHands(t, u)
    PROVE  Upped(t, u)
BY SameIsKept DEF Upped, SameHands, SameKeys

LEMMA DispatchUp ==
    ASSUME NEW t \in Sound, NEW k \in Keys, keyBits \subseteq Keys
    PROVE  LET u == Dispatch(t, Packet(FALSE, k)) IN Upped(t, u) /\ IsUp(u, k)
<1> DEFINE p == Packet(FALSE, k)
           u == Dispatch(t, p)
<1>1. p \in Packets /\ p.key = k /\ p.down = FALSE
  BY DEF Packet, Packets
<1> HIDE DEF p
<1>2. /\ u.made = After(t.made, p) /\ u.inverted = t.inverted \ {p.key}
      /\ t.crossed \subseteq u.crossed /\ Tame(t, u, {p.key})
      /\ OrdinaryMacros /\ Fine(t) => Fine(u)
  BY <1>1, DispatchKeys, DispatchTame, DispatchFine
<1> HIDE DEF u
<1>3. Tame(t, u, {})
  BY <1>1, <1>2 DEF Tame
<1>4. Upped(t, u) /\ IsUp(u, k)
  BY <1>1, <1>2, <1>3 DEF Upped, IsUp, After
<1>5. QED
  BY <1>4 DEF u, p

LEMMA KeyUpFacts ==
    ASSUME NEW t \in Sound, NEW k \in Keys, keyBits \subseteq Keys
    PROVE  LET u == KeyUp(t, k) IN
           /\ u \in Sound /\ u.macro = t.macro /\ u.macroTimer = t.macroTimer
           /\ t.owed = <<>> => u.owed = <<>> /\ u.disorder = t.disorder
           /\ Upped(t, u) /\ (k \in keyBits => IsUp(u, k))
<1> DEFINE p == Packet(FALSE, k)
<1>1. p \in Packets
  BY DEF Packet, Packets
<1>2. t \in State
  BY DEF Sound
<1>3. CASE k \notin keyBits
  <2>1. SameHands(t, t)
    BY DEF SameHands, SameKeys
  <2>2. QED
    BY <1>3, <2>1, SameIsUpped DEF KeyUp
<1>4. CASE k \in keyBits /\ t.owed = <<>>
  <2>1. [t EXCEPT !.disorder = @ \/ t.owed # <<>>] = t
    BY <1>2, <1>4 DEF State
  <2>2. KeyUp(t, k) = Dispatch(t, p)
    BY <1>4, <2>1 DEF KeyUp
  <2>3. Upped(t, KeyUp(t, k)) /\ IsUp(KeyUp(t, k), k)
    BY <2>2, DispatchUp
  <2> HIDE DEF p
  <2>4. QED
    BY <1>1, <1>4, <2>2, <2>3, DispatchFacts DEF SameAccount
<1>5. CASE k \in keyBits /\ t.owed # <<>>
  <2> DEFINE v == [t EXCEPT !.disorder = TRUE]
  <2>1. [t EXCEPT !.disorder = @ \/ t.owed # <<>>] = v
    BY <1>2, <1>5 DEF State
  <2>2. v \in Sound /\ v.macro = t.macro /\ v.macroTimer = t.macroTimer /\ SameHands(t, v)
    BY DisorderField
  <2>3. KeyUp(t, k) = Dispatch(v, p)
    BY <1>5, <2>1 DEF KeyUp
  <2> HIDE DEF v
  <2>4. Upped(v, KeyUp(t, k)) /\ IsUp(KeyUp(t, k), k)
    BY <2>2, <2>3, DispatchUp
  <2>5. Upped(t, KeyUp(t, k))
    BY <2>2, <2>4, SameIsUpped, UppedTwice
  <2> HIDE DEF p
  <2>6. QED
    BY <1>1, <1>5, <2>2, <2>3, <2>4, <2>5, DispatchFacts DEF SameAccount
<1>6. QED
  BY <1>3, <1>4, <1>5

LEMMA KeyUpAllFacts ==
    ASSUME NEW t \in Sound, keyBits \subseteq Keys
    PROVE  LET u == KeyUpAll(t) IN
           /\ u \in Sound /\ u.macro = t.macro /\ u.macroTimer = t.macroTimer
           /\ t.owed = <<>> => u.owed = <<>> /\ u.disorder = t.disorder
           /\ Upped(t, u) /\ \A k \in keyBits : IsUp(u, k)
<1> DEFINE n == Len(KeyOrder)
           R(g) == g = [i \in 0 .. n |-> IF i = 0 THEN t ELSE KeyUp(g[i - 1], KeyOrder[i])]
           after == CHOOSE g : R(g)
<1>1. n \in Nat /\ \A i \in 1 .. n : KeyOrder[i] \in Keys
  BY KeysAssumption
<1>2. KeyUpAll(t) = after[n]
  BY DEF KeyUpAll
<1>3. ASSUME NEW x \in Sound, NEW i \in 1 .. n PROVE KeyUp(x, KeyOrder[i]) \in Sound
  BY <1>1, <1>3, KeyUpFacts
<1>4. \E g : R(g)
  <2> DEFINE step == [i \in 1 .. n |-> [x \in Sound |-> KeyUp(x, KeyOrder[i])]]
  <2>1. step \in Steps(Sound, n)
    BY <1>3 DEF Steps
  <2>2. \A i \in 1 .. n : \A x \in Sound : step[i][x] = KeyUp(x, KeyOrder[i])
    OBVIOUS
  <2> HIDE DEF step, n
  <2>3. n \in Nat
    BY <1>1
  <2>4. PICK f : Taken(f, Sound, n, t, step)
    BY <2>1, <2>3, Chain, Zenon
  <2>5. ASSUME NEW i \in 0 .. n
        PROVE  f[i] = IF i = 0 THEN t ELSE KeyUp(f[i - 1], KeyOrder[i])
    <3>1. CASE i = 0
      BY <2>4, <3>1 DEF Taken
    <3>2. CASE i # 0
      <4>1. i \in 1 .. n /\ i - 1 \in 0 .. n
        BY <1>1, <3>2
      <4>2. QED
        BY <2>2, <2>4, <3>2, <4>1 DEF Taken
    <3>3. QED
      BY <3>1, <3>2
  <2>6. R(f)
    BY <2>4, <2>5 DEF Taken
  <2>7. QED
    BY <2>6
<1>5. R(after)
  BY <1>4, Zenon
<1> HIDE DEF after, n
<1>6. /\ after[0] = t
      /\ \A i \in Nat : i + 1 <= n => after[i + 1] = KeyUp(after[i], KeyOrder[i + 1])
  BY <1>1, <1>5
<1> DEFINE P(u, i) ==
                   /\ u \in Sound /\ u.macro = t.macro /\ u.macroTimer = t.macroTimer
                   /\ t.owed = <<>> => u.owed = <<>> /\ u.disorder = t.disorder
                   /\ Upped(t, u)
                   /\ \A j \in 1 .. i : KeyOrder[j] \in keyBits => IsUp(u, KeyOrder[j])
           S == {i \in Nat : i <= n => P(after[i], i)}
<1>7. 0 \in S
  <2>1. SameHands(t, t)
    BY DEF SameHands, SameKeys
  <2>2. P(t, 0)
    BY <2>1, SameIsUpped
  <2>3. QED
    BY <1>6, <2>2
<1>8. ASSUME NEW i \in Nat, i \in S PROVE i + 1 \in S
  <2>1. i + 1 \in Nat
    OBVIOUS
  <2> SUFFICES ASSUME i + 1 <= n PROVE P(after[i + 1], i + 1)
    BY <2>1, Zenon
  <2> DEFINE x == after[i]
             y == after[i + 1]
  <2>2. P(x, i)
    BY <1>1, <1>8
  <2>3. y = KeyUp(x, KeyOrder[i + 1]) /\ KeyOrder[i + 1] \in Keys
    BY <1>1, <1>6
  <2> HIDE DEF x, y
  <2>4. /\ y \in Sound /\ y.macro = x.macro /\ y.macroTimer = x.macroTimer
        /\ x.owed = <<>> => y.owed = <<>> /\ y.disorder = x.disorder
        /\ Upped(x, y) /\ (KeyOrder[i + 1] \in keyBits => IsUp(y, KeyOrder[i + 1]))
    BY <2>2, <2>3, KeyUpFacts
  <2>5. Upped(t, y) /\ \A k : IsUp(x, k) => IsUp(y, k)
    BY <2>2, <2>4, UppedTwice
  <2>6. ASSUME NEW j \in 1 .. i + 1, KeyOrder[j] \in keyBits PROVE IsUp(y, KeyOrder[j])
    <3>1. CASE j = i + 1
      BY <2>4, <2>6, <3>1
    <3>2. CASE j # i + 1
      <4>1. j \in 1 .. i
        BY <3>2
      <4>2. QED
        BY <2>2, <2>5, <2>6, <4>1
    <3>3. QED
      BY <3>1, <3>2
  <2>7. QED
    BY <2>2, <2>4, <2>5, <2>6 DEF y
<1>9. Nat \subseteq S
  <2> HIDE DEF S
  <2>1. QED
    BY <1>7, <1>8, Induct
<1>10. P(after[n], n)
  <2> HIDE DEF P
  <2>1. n \in Nat /\ n <= n
    BY <1>1
  <2>2. n \in S
    BY <1>9, <2>1, Zenon
  <2>3. QED
    BY <2>1, <2>2, Zenon
<1>11. \A k \in keyBits : \E j \in 1 .. n : k = KeyOrder[j]
  <2>1. DOMAIN KeyOrder = 1 .. n
    BY KeysAssumption DEF n
  <2>2. QED
    BY <2>1 DEF Keys, ToSet
<1>12. QED
  BY <1>2, <1>10, <1>11

-----------------------------------------------------------------------------
(* The inductive invariant.  In its part about the order, nothing is held  *)
(* back when the keyboard wakes; otherwise initKeyboard's key ups overtake *)
(* what is.                                                                *)
KeyPackets == [down : BOOLEAN, key : Keys]

Sides ==
    /\ held \subseteq KeySet /\ keyBits \subseteq Keys
    /\ ring \in Seq(KeyPackets) /\ Len(ring) <= Capacity
    /\ asleep \in BOOLEAN /\ inTimer \in BOOLEAN /\ fkeymode \in BOOLEAN

DispatchInv ==
    /\ Sides
    /\ s \in Sound /\ Beginning(s)
    /\ s.macro # <<>> => s.macroTimer = TRUE \/ inTimer = TRUE
    /\ Prompt => Ordered(s)

LEMMA InitDispatch == Init => DispatchInv
<1> SUFFICES ASSUME Init PROVE DispatchInv
  OBVIOUS
<1>1. Sides
  <2>1. ring \in Seq(KeyPackets) /\ Len(ring) = 0
    BY DEF Init
  <2>2. Len(ring) <= Capacity
    BY <2>1, BoundsAssumption
  <2>3. /\ held = {} /\ keyBits = {} /\ asleep \in BOOLEAN /\ inTimer \in BOOLEAN
        /\ fkeymode \in BOOLEAN
    BY DEF Init
  <2>4. QED
    BY <2>1, <2>2, <2>3 DEF Sides
<1> DEFINE e == <<>>
<1>2. e \in Seq(Packets)
  OBVIOUS
<1> HIDE DEF e
<1> DEFINE none == [k \in KeySet |-> "none"]
<1>3. s = [modifiers |-> {}, macro |-> e, macroTimer |-> FALSE, timer |-> FALSE,
           timerFunc |-> "sleep", down |-> {}, made |-> {}, told |-> none,
           inverted |-> {}, crossed |-> {}, owed |-> e, disorder |-> FALSE]
  BY DEF Init, e, KeySet
<1>30. none \in [KeySet -> Ways]
  BY DEF Ways
<1> HIDE DEF none
<1>4. s \in Sound /\ s.macro = e /\ s.owed = e /\ s.disorder = FALSE
  BY <1>2, <1>3, <1>30 DEF Sound, State, Timed, EjectIsKey
<1>5. QED
  BY <1>1, <1>4 DEF DispatchInv, Beginning, Ordered, e

(* A step that changes what the work loop keeps. *)
Holds(t) == t \in Sound /\ Beginning(t) /\ (Prompt => Ordered(t))

LEMMA SidesThen ==
    ASSUME Sides', Holds(s'), s'.macro # <<>> => s'.macroTimer = TRUE \/ inTimer' = TRUE
    PROVE  DispatchInv'
BY DEF Holds, DispatchInv, Beginning, Ordered

LEMMA ArrivesFacts ==
    ASSUME Sides, NEW p \in KeyPackets, Arrives(p)
    PROVE  keyBits' \subseteq Keys /\ ring' \in Seq(KeyPackets) /\ Len(ring') <= Capacity
<1>1. CASE asleep
  BY <1>1 DEF Arrives, Sides
<1>2. CASE ~asleep
  <2>1. Len(ring) < Capacity /\ ring' = Append(ring, p)
    BY <1>2 DEF Arrives
  <2>2. ring' \in Seq(KeyPackets) /\ Len(ring') = Len(ring) + 1 /\ Len(ring) \in Nat
    BY <2>1 DEF Sides
  <2>3. keyBits' \subseteq Keys
    <3>1. keyBits' = (keyBits \cup ({p.key} \ Breakless)) \/ keyBits' = keyBits \ {p.key}
      BY <1>2 DEF Arrives
    <3>2. p.key \in Keys
      BY DEF KeyPackets
    <3>3. QED
      BY <3>1, <3>2 DEF Sides
  <2>4. QED
    BY <2>1, <2>2, <2>3, BoundsAssumption
<1>3. QED
  BY <1>1, <1>2

LEMMA KeyStep ==
    ASSUME DispatchInv, NEW k \in Keys, Press(k) \/ Release(k)
    PROVE  DispatchInv'
<1>1. Packet(TRUE, k) \in KeyPackets /\ Packet(FALSE, k) \in KeyPackets
  BY DEF Packet, KeyPackets
<1>2. Sides
  BY DEF DispatchInv
<1>3. keyBits' \subseteq Keys /\ ring' \in Seq(KeyPackets) /\ Len(ring') <= Capacity
  <2>1. CASE Arrives(Packet(TRUE, k)) \/ Arrives(Packet(FALSE, k))
    BY <1>1, <1>2, <2>1, ArrivesFacts
  <2>2. CASE UNCHANGED <<keyBits, ring>>
    BY <1>2, <2>2 DEF Sides
  <2>3. QED
    BY <2>1, <2>2 DEF Press, Release
<1>4. held' \subseteq KeySet /\ UNCHANGED <<asleep, inTimer, fkeymode, settings, s>>
  BY <1>2 DEF Press, Release, Sides, KeySet
<1>5. Sides'
  BY <1>2, <1>3, <1>4 DEF Sides
<1>6. QED
  BY <1>4, <1>5 DEF DispatchInv, Beginning, Ordered

LEMMA LatenessFacts == \A t : Lateness(t) \subseteq BOOLEAN
BY DEF Lateness

LEMMA TakeHolds ==
    ASSUME NEW t, Holds(t), NEW p \in Packets, NEW late \in Lateness(t), keyBits \subseteq Keys
    PROVE  Holds(TakePacket(t, p, late)) /\ Waiting(TakePacket(t, p, late))
<1>1. late \in BOOLEAN
  BY LatenessFacts
<1>2. QED
  BY <1>1, TakePacketFacts DEF Holds

LEMMA MessageOneStep ==
    ASSUME DispatchInv, NEW k \in AcpiKeys, MessageOne(k)
    PROVE  DispatchInv'
<1> DEFINE p == Packet(k \notin held, k)
<1>1. p \in Packets
  BY DEF Packet, Packets
<1>2. Sides /\ Holds(s) /\ keyBits \subseteq Keys
  BY DEF DispatchInv, Holds, Sides
<1>3. PICK late \in Lateness(s) : s' = TakePacket(s, p, late)
  BY DEF MessageOne
<1> HIDE DEF p
<1>4. Holds(s') /\ Waiting(s')
  BY <1>1, <1>2, <1>3, TakeHolds
<1>5. Sides'
  BY <1>2 DEF Sides, MessageOne, KeySet
<1>6. QED
  BY <1>4, <1>5, SidesThen DEF Waiting

LEMMA MessageStep ==
    ASSUME DispatchInv, NEW k \in AcpiKeys, Message(k)
    PROVE  DispatchInv'
<1>1. Packet(TRUE, k) \in Packets /\ Packet(FALSE, k) \in Packets
  BY DEF Packet, Packets
<1>2. Sides /\ Holds(s) /\ keyBits \subseteq Keys
  BY DEF DispatchInv, Holds, Sides
<1>3. PICK l1 \in Lateness(s) :
          \E l2 \in Lateness(TakePacket(s, Packet(TRUE, k), l1)) :
             s' = TakePacket(TakePacket(s, Packet(TRUE, k), l1), Packet(FALSE, k), l2)
  BY DEF Message
<1> DEFINE t == TakePacket(s, Packet(TRUE, k), l1)
<1>4. Holds(t)
  BY <1>1, <1>2, TakeHolds
<1>5. PICK l2 \in Lateness(t) : s' = TakePacket(t, Packet(FALSE, k), l2)
  BY <1>3
<1> HIDE DEF t
<1>6. Holds(s') /\ Waiting(s')
  BY <1>1, <1>2, <1>4, <1>5, TakeHolds
<1>7. Sides'
  BY <1>2 DEF Sides, Message
<1>8. QED
  BY <1>6, <1>7, SidesThen DEF Waiting

LEMMA PacketReadyStep ==
    ASSUME DispatchInv, PacketReady
    PROVE  DispatchInv'
<1>1. Sides /\ Holds(s) /\ keyBits \subseteq Keys
  BY DEF DispatchInv, Holds, Sides
<1>2. /\ ring \in Seq(KeyPackets) /\ Len(ring) <= Capacity
      /\ ring # <<>> /\ ring' = Tail(ring)
  BY <1>1 DEF Sides, PacketReady
<1>3. Head(ring) \in KeyPackets
  BY <1>2
<1>4. Head(ring) \in Packets
  BY <1>3 DEF KeyPackets, Packets
<1>5. Tail(ring) \in Seq(KeyPackets) /\ Len(Tail(ring)) = Len(ring) - 1 /\ Len(ring) \in Nat
  BY <1>2
<1>6. PICK late \in Lateness(s) : s' = TakePacket(s, Head(ring), late)
  BY DEF PacketReady
<1>7. Holds(s') /\ Waiting(s')
  BY <1>1, <1>4, <1>6, TakeHolds
<1>8. Len(ring') <= Capacity
  BY <1>2, <1>5, BoundsAssumption
<1>9. Sides'
  BY <1>1, <1>2, <1>5, <1>8 DEF Sides, PacketReady
<1>10. QED
  BY <1>7, <1>9, SidesThen DEF Waiting

LEMMA TimerField ==
    ASSUME NEW t, Holds(t)
    PROVE  LET u == [t EXCEPT !.macroTimer = FALSE] IN Holds(u)
<1> DEFINE u == [t EXCEPT !.macroTimer = FALSE]
<1>1. u \in Sound /\ u.macro = t.macro /\ u.owed = t.owed /\ u.disorder = t.disorder
  BY DEF Holds, Sound, State, Timed, KeyOfTimer, EjectIsKey
<1> HIDE DEF u
<1>2. Holds(u)
  BY <1>1 DEF Holds, Beginning, Ordered
<1>3. QED
  BY <1>2 DEF u

LEMMA MacroTimerStep ==
    ASSUME DispatchInv, MacroTimerFires \/ MacroTimerEnds
    PROVE  DispatchInv'
<1>1. Sides /\ Holds(s) /\ keyBits \subseteq Keys /\ s \in Sound
  BY DEF DispatchInv, Holds, Sides
<1>2. CASE MacroTimerFires
  <2>1. s' = [s EXCEPT !.macroTimer = FALSE] /\ inTimer' = TRUE
    BY <1>2 DEF MacroTimerFires
  <2>2. Holds(s')
    BY <1>1, <2>1, TimerField
  <2>3. Sides'
    BY <1>1, <1>2 DEF MacroTimerFires, Sides
  <2>4. QED
    BY <2>1, <2>2, <2>3, SidesThen
<1>3. CASE MacroTimerEnds
  <2>1. Sides'
    BY <1>1, <1>3 DEF MacroTimerEnds, Sides
  <2>2. CASE s' = DispatchInvertBuffer(s)
    <3>1. s' \in Sound /\ s'.macro = <<>> /\ (Ordered(s) => Ordered(s'))
      BY <1>1, <2>2, DispatchInvertBufferFacts
    <3>2. Holds(s')
      BY <1>1, <3>1 DEF Holds, Beginning
    <3>3. QED
      BY <2>1, <3>1, <3>2, SidesThen
  <2>3. CASE s' = s /\ s.macroTimer
    <3>1. s.macroTimer = TRUE
      BY <1>1, <2>3 DEF Sound, State
    <3>2. Holds(s') /\ s'.macroTimer = TRUE
      BY <1>1, <2>3, <3>1
    <3>3. QED
      BY <2>1, <3>2, SidesThen
  <2>4. QED
    BY <1>3, <2>2, <2>3 DEF MacroTimerEnds
<1>4. QED
  BY <1>2, <1>3

LEMMA SleepEjectTimerStep ==
    ASSUME DispatchInv, SleepEjectTimerFires
    PROVE  DispatchInv'
<1> DEFINE t == [s EXCEPT !.timer = FALSE]
<1>1. Sides /\ s \in State /\ EjectIsKey(s)
  BY DEF DispatchInv, Sound
<1>2. OnlyTimes(s, t) /\ t.timer = FALSE /\ t.timerFunc = s.timerFunc
  BY <1>1, CancelFacts
<1>3. s' = OnSleepEjectTimer(t)
  BY DEF SleepEjectTimerFires
<1> HIDE DEF t
<1>4. OnlyTells(t, s')
  BY <1>1, <1>2, <1>3, TimerRoutineFacts DEF OnlyTimes, EjectIsKey
<1>5. OnlyTimes(s, s') /\ SameTimer(t, s')
  BY <1>1, <1>2, <1>4, TimesThenTells
<1>6. s' \in Sound
  BY <1>1, <1>2, <1>5 DEF OnlyTimes, SameTimer, Sound, Timed, EjectIsKey
<1>7. Sides'
  BY <1>1 DEF SleepEjectTimerFires, Sides
<1>8. QED
  BY <1>5, <1>6, <1>7, SidesThen
     DEF SleepEjectTimerFires, OnlyTimes, SameAccount, DispatchInv, Holds, Beginning, Ordered

LEMMA SetFKeyModeStep ==
    ASSUME DispatchInv, SetFKeyMode
    PROVE  DispatchInv'
<1>1. Sides' /\ UNCHANGED <<s, inTimer>>
  BY DEF DispatchInv, SetFKeyMode, Sides
<1>2. QED
  BY <1>1 DEF DispatchInv, Beginning, Ordered

LEMMA NoModifiers ==
    ASSUME NEW t \in Sound
    PROVE  LET u == [t EXCEPT !.modifiers = {}] IN u \in Sound /\ SameAccount(t, u)
BY DEF Sound, State, Timed, KeyOfTimer, EjectIsKey, SameAccount

LEMMA PowerStep ==
    ASSUME DispatchInv, DisableDevice \/ InitKeyboard
    PROVE  DispatchInv'
<1>1. Sides /\ s \in Sound /\ keyBits \subseteq Keys
  BY DEF DispatchInv, Sides
<1>2. CASE DisableDevice
  <2>1. Sides' /\ UNCHANGED <<s, inTimer>>
    BY <1>1, <1>2 DEF DisableDevice, Sides
  <2>2. QED
    BY <2>1 DEF DispatchInv, Beginning, Ordered
<1>3. CASE InitKeyboard
  <2> DEFINE t == KeyUpAll(s)
  <2>1. /\ t \in Sound /\ t.macro = s.macro /\ t.macroTimer = s.macroTimer
        /\ s.owed = <<>> => t.owed = <<>> /\ t.disorder = s.disorder
    BY <1>1, KeyUpAllFacts
  <2>2. s' = [t EXCEPT !.modifiers = {}]
    BY <1>3 DEF InitKeyboard
  <2> HIDE DEF t
  <2>3. s' \in Sound /\ SameAccount(t, s')
    BY <2>1, <2>2, NoModifiers
  <2>4. Prompt => Ordered(s')
    <3>1. Prompt => s.macro = <<>> /\ Ordered(s)
      BY <1>3 DEF InitKeyboard, DispatchInv
    <3>2. QED
      BY <2>1, <2>3, <3>1 DEF Ordered, SameAccount
  <2>5. Sides'
    <3>1. ring' = <<>> /\ keyBits' = {} /\ asleep' = FALSE /\ UNCHANGED <<held, inTimer, fkeymode>>
      BY <1>3 DEF InitKeyboard
    <3>2. ring' \in Seq(KeyPackets) /\ Len(ring') = 0
      BY <3>1
    <3>3. Len(ring') <= Capacity
      BY <3>2, BoundsAssumption
    <3>4. QED
      BY <1>1, <3>1, <3>2, <3>3 DEF Sides
  <2>6. s'.macro = s.macro /\ s'.macroTimer = s.macroTimer /\ inTimer' = inTimer
    BY <1>3, <2>1, <2>3 DEF SameAccount, InitKeyboard
  <2>7. Holds(s')
    BY <2>3, <2>4, <2>6 DEF Holds, DispatchInv, Beginning
  <2>8. QED
    BY <2>5, <2>6, <2>7, SidesThen DEF DispatchInv
<1>4. QED
  BY <1>2, <1>3

LEMMA DispatchStep == DispatchInv /\ [Next]_vars => DispatchInv'
<1> SUFFICES ASSUME DispatchInv, [Next]_vars PROVE DispatchInv'
  OBVIOUS
<1>1. CASE UNCHANGED vars
  BY <1>1 DEF vars, DispatchInv, Sides, Beginning, Ordered
<1>2. QED
  BY <1>1, KeyStep, MessageOneStep, MessageStep, PacketReadyStep, MacroTimerStep, SleepEjectTimerStep,
     SetFKeyModeStep, PowerStep DEF Next

-----------------------------------------------------------------------------
(* DispatchInv holds in every state, whatever the macros are.              *)
THEOREM DispatchInvariance == Spec => []DispatchInv
BY InitDispatch, DispatchStep, PTL DEF Spec

(* The state of the work loop keeps its types: the HID system only hears   *)
(* of keys there are, and what is held back is shorter than some macro.    *)
THEOREM DispatchTypeCorrect == Spec => []TypeOK
<1>1. DispatchInv => TypeOK
  <2> SUFFICES ASSUME DispatchInv PROVE TypeOK
    OBVIOUS
  <2>1. Sides /\ s \in State /\ Beginning(s)
    BY DEF DispatchInv, Sound
  <2>2. \A i \in DOMAIN ring : ring[i].key \in Keys
    <3>1. \A i \in DOMAIN ring : ring[i] \in KeyPackets
      BY <2>1 DEF Sides
    <3>2. QED
      BY <3>1 DEF KeyPackets
  <2>3. s.down \subseteq Keys \cup AcpiKeys \cup {"brightness", "mirror"}
    BY <2>1 DEF State, Told, KeySet
  <2>4. s.modifiers \subseteq Modifiers /\ s.timerFunc \in {"sleep", "eject"} /\ s.timer \in BOOLEAN
    BY <2>1 DEF State
  <2>5. QED
    BY <2>1, <2>2, <2>3, <2>4 DEF TypeOK, Sides, Beginning, KeySet
<1>2. QED
  BY <1>1, DispatchInvariance, PTL

(* Macro inversion hands on what it takes, each packet once and in turn,   *)
(* if nothing is held back when the keyboard wakes.                        *)
THEOREM MacrosKeepOrderHolds == Prompt => (Spec => []MacrosKeepOrder)
<1> SUFFICES ASSUME Prompt PROVE Spec => []MacrosKeepOrder
  OBVIOUS
<1>1. DispatchInv => MacrosKeepOrder
  BY DEF DispatchInv, Ordered, MacrosKeepOrder
<1>2. QED
  BY <1>1, DispatchInvariance, PTL

(* The sleep and eject timer that is pending belongs to a key that is      *)
(* down, or that was crossed.                                              *)
THEOREM TimerHasItsKeyHolds == Spec => []TimerHasItsKey
<1>1. DispatchInv => TimerHasItsKey
  <2>1. s \in Sound => TimerHasItsKey
    BY DEF Sound, Timed, KeyOfTimer, TimerHasItsKey, TimerKey
  <2>2. QED
    BY <2>1 DEF DispatchInv
<1>2. QED
  BY <1>1, DispatchInvariance, PTL

(* What is held back has a timer running, or the timer's routine. *)
THEOREM HeldBackIsTimedHolds == Spec => []HeldBackIsTimed
<1>1. DispatchInv => HeldBackIsTimed
  BY DEF DispatchInv, HeldBackIsTimed
<1>2. QED
  BY <1>1, DispatchInvariance, PTL

-----------------------------------------------------------------------------
(* Keys that are up for the key bit vector will be up for the translation. *)
Agree ==
    \A k \in Keys \ (Breakless \cup keyBits) :
       k \in s.crossed \/ EndsUp(ring, k) \/ (Absent(ring, k) /\ WillBeUp(s, k))

Settling ==
    /\ Fine(s) /\ OfMacros(s, held) /\ HeldAreKeys(s) /\ Agree
    /\ keyBits \cap Breakless = {} /\ (asleep = FALSE => keyBits \subseteq held)

LEMMA OrderedHeld ==
    ASSUME NEW t \in Sound, NEW p \in Packets, Ordered(t) \/ OrderedBut(t, p)
    PROVE  HeldIsOwed(t)
<1>1. t.macro \in Seq(Packets)
  BY DEF Sound, State
<1>2. QED
  BY <1>1 DEF Ordered, OrderedBut, HeldIsOwed

LEMMA DispatchInvertBufferKept ==
    ASSUME OrdinaryMacros, NEW t \in Sound, keyBits \subseteq Keys, HeldIsOwed(t), HeldAreKeys(t)
    PROVE  Kept(t, DispatchInvertBuffer(t)) /\ Tame(t, DispatchInvertBuffer(t), {})
<1> DEFINE h == HandOnAll(t)
           u == DispatchInvertBuffer(t)
<1>1. h \in Sound /\ Kept(t, h) /\ Tame(t, h, {})
  BY HandOnAllFacts
<1>2. u = [h EXCEPT !.macro = <<>>, !.macroTimer = FALSE]
  BY DEF DispatchInvertBuffer
<1> HIDE DEF h, u
<1>3. u.owed = h.owed /\ SameHands(h, u)
  BY <1>1, <1>2, MacroFields
<1>4. Kept(h, u) /\ Tame(h, u, {})
  BY <1>3, SameIsKept
<1>5. QED
  BY <1>1, <1>4, KeptTwice, TameTwice DEF u

LEMMA NoMatchKept ==
    ASSUME OrdinaryMacros, NEW t \in Sound, NEW p \in Packets, keyBits \subseteq Keys,
           OrderedBut(t, p), HeldAreKeys(t)
    PROVE  LET u == NoMatch(t, p) IN
           Kept(t, u) /\ Tame(t, u, {p.key}) /\ (~p.down => p.key \notin u.made)
<1> DEFINE v == DispatchInvertBuffer(t)
           u == NoMatch(t, p)
<1>1. v \in Sound /\ v.macro = <<>> /\ OrderedBut(v, p)
  BY DispatchInvertBufferFacts
<1>2. Kept(t, v) /\ Tame(t, v, {})
  BY OrderedHeld, DispatchInvertBufferKept
<1>3. u = HandOn(v, p)
  BY DEF NoMatch
<1> HIDE DEF u, v
<1>4. InTurn(v, p)
  <2>1. v.owed = Append(<<>>, p)
    BY <1>1 DEF OrderedBut
  <2>2. QED
    BY <2>1 DEF InTurn
<1>5. Kept(v, u) /\ Tame(v, u, {p.key}) /\ (~p.down => p.key \notin u.made)
  BY <1>1, <1>3, <1>4, HandOnKept
<1>6. Tame(t, v, {p.key})
  BY <1>2 DEF Tame
<1>7. QED
  BY <1>2, <1>5, <1>6, KeptTwice, TameTwice DEF u

(* A macro that goes down takes its keys' make codes; one that goes up     *)
(* takes the break codes of the keys it had taken, or crosses them.        *)
LEMMA InvertMacroKept ==
    ASSUME OrdinaryMacros, NEW t \in Sound, NEW i \in DOMAIN Macros, keyBits \subseteq Keys,
           t.owed = Macros[i].sequence, Macros[i].sequence \in Seq(Packets),
           Macros[i].output \in Packets, Fine(t)
    PROVE  LET u == InvertMacro(t, Macros[i].sequence, Macros[i].output) IN
           Kept(t, u) /\ \A h : OfMacros(t, h) => OfMacros(u, h)
<1> DEFINE q == Macros[i].sequence
           o == Macros[i].output
           keys(down) == {q[j].key : j \in {l \in DOMAIN q : q[l].down = down}}
           crossed == t.crossed \cup ((keys(FALSE) \ t.inverted) \cup (keys(TRUE) \cap t.made))
           inverted == (t.inverted \ keys(FALSE)) \cup keys(TRUE)
           disorder == t.disorder \/ t.owed # q
           e == <<>>
           v == [t EXCEPT !.crossed = crossed, !.inverted = inverted, !.disorder = disorder,
                          !.owed = e]
           d == Dispatch(v, o)
           u == InvertMacro(t, q, o)
<1>1. t \in State /\ Timed(t) /\ EjectIsKey(t)
  BY DEF Sound
<1>2. u = [d EXCEPT !.macro = <<>>, !.macroTimer = FALSE]
  BY <1>1 DEF InvertMacro, Cross, State
<1>3. /\ o.key = "mirror" /\ q # <<>> /\ o.down \in BOOLEAN /\ "mirror" \notin Keys
      /\ \A j \in DOMAIN q : q[j].key \in Keys /\ q[j].down = o.down /\ q[j].key \in MacroKeys
  <2>1. /\ o.key = "mirror" /\ q # <<>> /\ "mirror" \notin Keys
        /\ \A j \in DOMAIN q : q[j].key \in Keys /\ q[j].down = o.down
    BY DEF OrdinaryMacros
  <2>2. \A j \in DOMAIN q : q[j] \in ToSet(q)
    BY DEF ToSet
  <2>3. ToSet(q) \subseteq UNION {ToSet(Macros[l].sequence) : l \in DOMAIN Macros}
    OBVIOUS
  <2>4. \A j \in DOMAIN q : q[j].key \in MacroKeys
    BY <2>2, <2>3 DEF MacroKeys
  <2>5. o.down \in BOOLEAN
    BY DEF Packets
  <2>6. QED
    BY <2>1, <2>4, <2>5
<1> DEFINE all == {q[j].key : j \in DOMAIN q}
<1>4. (o.down => keys(TRUE) = all /\ keys(FALSE) = {}) /\ (~o.down => keys(FALSE) = all /\ keys(TRUE) = {})
  BY <1>3
<1>5. all \subseteq MacroKeys /\ all \subseteq Keys /\ all # {}
  <2>1. 1 \in DOMAIN q
    BY <1>3
  <2>2. QED
    BY <1>3, <2>1
<1>6. e \in Seq(Packets) /\ disorder \in BOOLEAN
  BY <1>1 DEF State
<1>7. crossed \in SUBSET KeySet /\ inverted \in SUBSET KeySet
  <2> HIDE DEF keys, all
  <2>1. keys(TRUE) \subseteq KeySet /\ keys(FALSE) \subseteq KeySet
    BY <1>3, <1>4, <1>5 DEF KeySet
  <2>2. QED
    BY <1>1, <2>1 DEF State
<1>8. /\ o.down => crossed = t.crossed \cup (all \cap t.made) /\ inverted = t.inverted \cup all
      /\ ~o.down => crossed = t.crossed \cup (all \ t.inverted) /\ inverted = t.inverted \ all
  <2> HIDE DEF keys, all
  <2>1. QED
    BY <1>3, <1>4
<1>9. t.crossed \subseteq crossed
  OBVIOUS
<1> HIDE DEF crossed, inverted, disorder, u, d, e, keys, all
<1>10. /\ v \in Sound /\ v.owed = e /\ v.crossed = crossed /\ v.inverted = inverted
       /\ v.made = t.made /\ v.told = t.told /\ v.modifiers = t.modifiers /\ v.down = t.down
  BY <1>1, <1>6, <1>7, <1>9 DEF Sound, State, Timed, KeyOfTimer, EjectIsKey
<1> HIDE DEF v
<1>11. Fine(v)
  <2>1. Justified(v)
    BY <1>9, <1>10 DEF Fine, Justified, Because
  <2>10. Themselves(v)
    BY <1>10 DEF Fine, Themselves
  <2>2. v.inverted \subseteq MacroKeys /\ v.made \cap v.inverted \subseteq v.crossed
    BY <1>3, <1>5, <1>8, <1>9, <1>10 DEF Fine
  <2>3. QED
    BY <1>10, <2>1, <2>2, <2>10 DEF Fine
<1>12. Fine(d) /\ d \in Sound
  BY <1>10, <1>11, DispatchFine, DispatchFacts DEF d
<1>13. /\ d.owed = e /\ d.made = After(v.made, o) /\ d.inverted = v.inverted \ {o.key}
       /\ v.crossed \subseteq d.crossed
  BY <1>10, DispatchKeys DEF d, SameAccount
<1>14. u.owed = d.owed /\ SameHands(d, u)
  BY <1>2, <1>12, MacroFields
<1>15. Fine(u) /\ u.owed = <<>>
  BY <1>12, <1>13, <1>14, SameIsKept DEF e
<1>16. /\ u.made = After(t.made, o) /\ u.inverted = inverted \ {"mirror"}
       /\ crossed \subseteq u.crossed
  BY <1>3, <1>10, <1>13, <1>14 DEF SameHands, SameKeys
<1>17. ASSUME NEW k \in Keys, WillBeUp(t, k) PROVE WillBeUp(u, k) \/ k \in u.crossed
  <2>1. k # "mirror" /\ (k \in u.made <=> k \in t.made) /\ Absent(u.owed, k)
    BY <1>3, <1>15, <1>16 DEF After, Absent
  <2>2. CASE k \notin all
    <3>1. Absent(t.owed, k) /\ ~EndsUp(t.owed, k)
      BY <2>2 DEF Absent, EndsUp, all
    <3>2. k \notin t.made /\ k \notin t.inverted
      BY <1>17, <3>1 DEF WillBeUp
    <3>3. k \notin u.inverted
      BY <1>3, <1>8, <1>16, <2>2, <3>2
    <3>4. QED
      BY <2>1, <3>2, <3>3 DEF WillBeUp
  <2>3. CASE k \in all
    <3>1. ~Absent(t.owed, k)
      BY <2>3 DEF Absent, all
    <3>2. EndsUp(t.owed, k)
      BY <1>17, <3>1 DEF WillBeUp
    <3>3. ~o.down
      BY <1>3, <3>2 DEF EndsUp
    <3>4. CASE k \in t.inverted /\ k \notin u.crossed
      <4>1. k \notin t.made
        BY <1>9, <1>16, <3>4 DEF Fine
      <4>2. k \notin u.inverted
        BY <1>8, <1>16, <2>3, <3>3
      <4>3. QED
        BY <2>1, <4>1, <4>2 DEF WillBeUp
    <3>5. CASE k \notin t.inverted
      BY <1>8, <1>16, <2>3, <3>3, <3>5
    <3>6. QED
      BY <3>4, <3>5
  <2>4. QED
    BY <2>2, <2>3
<1>18. ASSUME NEW h, OfMacros(t, h) PROVE OfMacros(u, h)
  <2>1. CASE o.down
    <3>1. u.made = t.made \cup {"mirror"} /\ all \subseteq u.inverted
      BY <1>3, <1>5, <1>8, <1>16, <2>1 DEF After
    <3>2. MacroKeys \cap (u.inverted \cup u.crossed) # {}
      BY <1>5, <3>1
    <3>3. QED
      BY <1>18, <3>1, <3>2 DEF OfMacros
  <2>2. CASE ~o.down
    <3>1. u.made = t.made \ {"mirror"}
      BY <1>3, <1>16, <2>2 DEF After
    <3>2. QED
      BY <1>18, <3>1 DEF OfMacros
  <2>3. QED
    BY <2>1, <2>2
<1>19. QED
  BY <1>9, <1>15, <1>16, <1>17, <1>18 DEF Kept, u

LEMMA CandidatesSequence ==
    ASSUME OrdinaryMacros, NEW t, NEW q \in Seq(Packets), Candidates(t, q) # {}
    PROVE  LET i == Min(Candidates(t, q)) IN
           /\ Macros[i].sequence \in Seq(Packets)
           /\ Len(q) = Len(Macros[i].sequence) => q = Macros[i].sequence
           /\ \A j \in DOMAIN q : q[j].key \in Keys
<1> DEFINE i == Min(Candidates(t, q))
           z == Macros[i].sequence
<1>1. i \in DOMAIN Macros /\ z \in Seq(Packets) /\ IsPrefix(q, z)
  BY CandidatesFacts
<1> HIDE DEF i
<1>2. Len(q) <= Len(z) /\ SubSeq(q, 1, Len(q)) = SubSeq(z, 1, Len(q))
  BY <1>1 DEF IsPrefix
<1>3. \A j \in DOMAIN z : z[j].key \in Keys
  BY <1>1 DEF OrdinaryMacros
<1> HIDE DEF z
<1>4. \A j \in 1 .. Len(q) : q[j] = z[j]
  <2>1. \A j \in 1 .. Len(q) : SubSeq(q, 1, Len(q))[j] = q[j] /\ SubSeq(z, 1, Len(q))[j] = z[j]
    BY <1>1, <1>2
  <2>2. QED
    BY <1>2, <2>1
<1>5. Len(q) = Len(z) => q = z
  BY <1>1, <1>4
<1>6. \A j \in DOMAIN q : q[j].key \in Keys
  <2>1. DOMAIN q = 1 .. Len(q) /\ DOMAIN z = 1 .. Len(z) /\ Len(q) \in Nat /\ Len(z) \in Nat
    BY <1>1
  <2>2. QED
    BY <1>2, <1>3, <1>4, <2>1
<1>7. QED
  BY <1>1, <1>5, <1>6 DEF z, i

LEMMA TakePacketKept ==
    ASSUME OrdinaryMacros, NEW t \in Sound, NEW p \in Packets, NEW late \in BOOLEAN,
           keyBits \subseteq Keys, Ordered(t), HeldAreKeys(t), Fine(t)
    PROVE  LET v == [t EXCEPT !.owed = Append(@, p)]
               u == TakePacket(t, p, late) IN
           /\ HeldAreKeys(u) /\ Kept(v, u) /\ Fine(u)
           /\ p.key \in Keys => \A h : OfMacros(v, h) => OfMacros(u, h)
           /\ p.key \notin Keys => /\ Tame(v, u, {p.key})
                                   /\ ~p.down => p.key \notin u.made
<1> DEFINE o == Append(t.owed, p)
           v == [t EXCEPT !.owed = o]
           w == IF late THEN DispatchInvertBuffer(v) ELSE v
           q == Append(w.macro, p)
           c == Candidates(w, q)
           macro == Macros[Min(c)]
           u == TakePacket(t, p, late)
<1>1. o \in Seq(Packets)
  BY DEF Sound, State
<1>2. u = IF c = {} THEN NoMatch(w, p)
          ELSE IF Len(q) = Len(macro.sequence) THEN InvertMacro(w, q, macro.output)
          ELSE [w EXCEPT !.macro = q, !.macroTimer = TRUE]
  BY DEF TakePacket
<1> HIDE DEF u
<1>3. o = Append(t.macro, p) /\ t.disorder = FALSE
  BY DEF Ordered
<1> HIDE DEF o
<1>4. /\ v \in Sound /\ v.macro = t.macro /\ v.owed = o /\ v.disorder = t.disorder
      /\ SameHands(t, v)
  BY <1>1, OwedField
<1>5. v = [t EXCEPT !.owed = Append(@, p)]
  BY DEF o
<1> HIDE DEF v
<1>6. OrderedBut(v, p) /\ HeldAreKeys(v) /\ Fine(v)
  BY <1>3, <1>4, SameIsKept DEF OrderedBut, HeldAreKeys
<1>7. w \in Sound /\ OrderedBut(w, p) /\ HeldAreKeys(w) /\ Kept(v, w) /\ Tame(v, w, {})
  <2>1. CASE late
    <3>1. w \in Sound /\ w.macro = <<>> /\ OrderedBut(w, p)
      BY <2>1, <1>4, <1>6, DispatchInvertBufferFacts
    <3>2. HeldIsOwed(v)
      BY <1>4, <1>6, OrderedHeld
    <3>3. Kept(v, w) /\ Tame(v, w, {})
      BY <2>1, <1>4, <1>6, <3>2, DispatchInvertBufferKept
    <3> HIDE DEF w
    <3>4. QED
      BY <3>1, <3>3 DEF HeldAreKeys
  <2>2. CASE ~late
    BY <2>2, <1>4, <1>6, SameSelf
  <2>3. QED
    BY <2>1, <2>2
<1> HIDE DEF w
<1>8. Fine(w) /\ \A h : OfMacros(v, h) => OfMacros(w, h)
  BY <1>6, <1>7, TameOfMacros DEF Kept
<1>9. q \in Seq(Packets) /\ w.owed = q /\ Len(q) \in DOMAIN q /\ q[Len(q)] = p
  <2>1. w.macro \in Seq(Packets)
    BY <1>7 DEF Sound, State
  <2>2. q \in Seq(Packets) /\ Len(q) \in DOMAIN q /\ q[Len(q)] = p
    BY <2>1
  <2>3. QED
    BY <1>7, <2>2 DEF OrderedBut
<1> HIDE DEF q
<1>10. CASE c = {}
  <2>1. u = NoMatch(w, p)
    BY <1>2, <1>10
  <2>2. u.macro = <<>>
    BY <1>7, <2>1, NoMatchFacts
  <2>3. Kept(w, u) /\ Tame(w, u, {p.key}) /\ (~p.down => p.key \notin u.made)
    BY <1>7, <2>1, NoMatchKept
  <2>4. Kept(v, u) /\ Fine(u)
    BY <1>7, <1>8, <2>3, KeptTwice DEF Kept
  <2>5. Tame(v, u, {p.key})
    BY <1>7, <2>3 DEF Tame
  <2>6. p.key \in Keys => Tame(v, u, {})
    BY <2>5 DEF Tame
  <2>7. HeldAreKeys(u)
    BY <2>2 DEF HeldAreKeys
  <2>8. QED
    BY <1>5, <2>3, <2>4, <2>5, <2>6, <2>7, TameOfMacros DEF u
<1>11. CASE c # {}
  <2>1. Min(c) \in DOMAIN Macros /\ macro.output \in Packets
    BY <1>9, <1>11, CandidatesFacts
  <2>2. /\ macro.sequence \in Seq(Packets)
        /\ Len(q) = Len(macro.sequence) => q = macro.sequence
        /\ \A j \in DOMAIN q : q[j].key \in Keys
    BY <1>9, <1>11, CandidatesSequence
  <2>3. p.key \in Keys
    BY <1>9, <2>2
  <2> DEFINE i == Min(c)
  <2> HIDE DEF c
  <2>4. CASE Len(q) = Len(macro.sequence)
    <3>1. u = InvertMacro(w, q, macro.output)
      BY <1>2, <1>11, <2>4
    <3>2. u.macro = <<>>
      BY <1>7, <1>9, <2>1, <3>1, InvertMacroFacts
    <3>3. /\ i \in DOMAIN Macros /\ w.owed = Macros[i].sequence
          /\ Macros[i].sequence \in Seq(Packets) /\ Macros[i].output \in Packets
          /\ u = InvertMacro(w, Macros[i].sequence, Macros[i].output)
      BY <1>9, <2>1, <2>2, <2>4, <3>1
    <3> HIDE DEF i
    <3>4. Kept(w, u) /\ \A h : OfMacros(w, h) => OfMacros(u, h)
      BY <1>7, <1>8, <3>3, InvertMacroKept
    <3>5. Kept(v, u) /\ Fine(u) /\ HeldAreKeys(u)
      BY <1>7, <1>8, <3>2, <3>4, KeptTwice DEF Kept, HeldAreKeys
    <3>6. QED
      BY <1>5, <1>8, <2>3, <3>4, <3>5 DEF u
  <2>5. CASE Len(q) # Len(macro.sequence)
    <3>1. u = [w EXCEPT !.macro = q, !.macroTimer = TRUE]
      BY <1>2, <1>11, <2>5
    <3>2. u.macro = q /\ u.owed = w.owed /\ SameHands(w, u)
      BY <1>7, <1>9, <3>1, HoldFields
    <3>3. Kept(w, u) /\ Fine(u) /\ \A h : OfMacros(w, h) => OfMacros(u, h)
      BY <1>8, <3>2, SameIsKept
    <3>4. HeldAreKeys(u)
      BY <2>2, <3>2 DEF HeldAreKeys
    <3>5. Kept(v, u)
      BY <1>7, <3>3, KeptTwice
    <3>6. QED
      BY <1>5, <1>8, <2>3, <3>3, <3>4, <3>5 DEF u
  <2>6. QED
    BY <2>4, <2>5
<1>12. QED
  BY <1>10, <1>11

-----------------------------------------------------------------------------
(* Settling is inductive. *)
LEMMA SettlingThen ==
    ASSUME Fine(s'), OfMacros(s', held'), HeldAreKeys(s'), Agree',
           keyBits' \cap Breakless = {}, asleep' = FALSE => keyBits' \subseteq held'
    PROVE  Settling'
<1>1. Fine(s)'
  BY DEF Fine, Justified, Themselves, Because
<1>2. OfMacros(s, held)' /\ HeldAreKeys(s)'
  BY DEF OfMacros, HeldAreKeys
<1>3. QED
  BY <1>1, <1>2 DEF Settling

LEMMA AgreeThen ==
    ASSUME Agree, UNCHANGED <<ring, keyBits>>, s.crossed \subseteq s'.crossed,
           \A k \in Keys : WillBeUp(s, k) => WillBeUp(s', k) \/ k \in s'.crossed
    PROVE  Agree'
BY DEF Agree, EndsUp, Absent, WillBeUp

LEMMA AgreePrimed ==
    ASSUME \A k \in Keys \ (Breakless \cup keyBits') :
              k \in s'.crossed \/ EndsUp(ring', k) \/ (Absent(ring', k) /\ WillBeUp(s', k))
    PROVE  Agree'
<1> SUFFICES ASSUME NEW k \in Keys \ (Breakless \cup keyBits')
             PROVE  (k \in s.crossed \/ EndsUp(ring, k) \/ (Absent(ring, k) /\ WillBeUp(s, k)))'
  BY DEF Agree
<1>1. EndsUp(ring, k)' <=> EndsUp(ring', k)
  BY DEF EndsUp
<1>2. Absent(ring, k)' <=> Absent(ring', k)
  BY DEF Absent
<1>3. WillBeUp(s, k)' <=> WillBeUp(s', k)
  BY DEF WillBeUp, EndsUp, Absent
<1>4. QED
  BY <1>1, <1>2, <1>3

LEMMA SameSettling ==
    ASSUME Settling, UNCHANGED <<s, ring, keyBits>>, OfMacros(s, held'),
           asleep' = FALSE => keyBits \subseteq held'
    PROVE  Settling'
<1>1. Fine(s') /\ OfMacros(s', held') /\ HeldAreKeys(s') /\ keyBits' \cap Breakless = {}
  BY DEF Settling
<1>2. Agree'
  BY AgreeThen DEF Settling
<1>3. QED
  BY <1>1, <1>2, SettlingThen

LEMMA WillBeUpAppend ==
    ASSUME NEW t \in Sound, NEW p \in Packets
    PROVE  LET v == [t EXCEPT !.owed = Append(@, p)] IN
           /\ SameHands(t, v)
           /\ \A k : k # p.key /\ WillBeUp(t, k) => WillBeUp(v, k)
           /\ \A k : k = p.key /\ p.down = FALSE => WillBeUp(v, k)
<1> DEFINE o == Append(t.owed, p)
           v == [t EXCEPT !.owed = o]
<1>1. t.owed \in Seq(Packets)
  BY DEF Sound, State
<1>2. o \in Seq(Packets)
  BY <1>1
<1>3. \A k : /\ k # p.key => /\ EndsUp(t.owed, k) => EndsUp(o, k)
                             /\ Absent(t.owed, k) => Absent(o, k)
             /\ k = p.key /\ p.down = FALSE => EndsUp(o, k)
  BY <1>1, AppendEnds
<1>4. v = [t EXCEPT !.owed = Append(@, p)]
  OBVIOUS
<1> HIDE DEF o
<1>5. v.owed = o /\ SameHands(t, v)
  BY <1>2, OwedField
<1> HIDE DEF v
<1>6. /\ \A k : k # p.key /\ WillBeUp(t, k) => WillBeUp(v, k)
      /\ \A k : k = p.key /\ p.down = FALSE => WillBeUp(v, k)
  BY <1>3, <1>5 DEF WillBeUp, SameHands, SameKeys
<1>7. QED
  BY <1>4, <1>5, <1>6

LEMMA InitSettling == Init => Settling
<1> SUFFICES ASSUME Init PROVE Settling
  OBVIOUS
<1> DEFINE e == <<>>
<1>1. e \in Seq(Packets) /\ DOMAIN e = {}
  OBVIOUS
<1> HIDE DEF e
<1> DEFINE none == [k \in KeySet |-> "none"]
<1>2. s = [modifiers |-> {}, macro |-> e, macroTimer |-> FALSE, timer |-> FALSE,
           timerFunc |-> "sleep", down |-> {}, made |-> {}, told |-> none,
           inverted |-> {}, crossed |-> {}, owed |-> e, disorder |-> FALSE]
      /\ ring = e /\ keyBits = {}
  BY DEF Init, e, KeySet
<1> HIDE DEF none
<1>3. /\ s.modifiers = {} /\ s.macro = e /\ s.down = {} /\ s.made = {} /\ s.inverted = {}
      /\ s.owed = e
  BY <1>2
<1>4. Fine(s) /\ OfMacros(s, held) /\ HeldAreKeys(s)
  BY <1>1, <1>3 DEF Fine, Justified, Themselves, OfMacros, HeldAreKeys
<1>5. Agree
  BY <1>1, <1>2, <1>3 DEF Agree, WillBeUp, Absent
<1>6. QED
  BY <1>2, <1>4, <1>5 DEF Settling

LEMMA AgreeArrives ==
    ASSUME Sides, Agree, keyBits \cap Breakless = {}, NEW p \in KeyPackets, Arrives(p), s' = s
    PROVE  Agree' /\ keyBits' \cap Breakless = {}
<1>1. CASE asleep
  BY <1>1, AgreeThen DEF Arrives
<1>2. CASE ~asleep
  <2>1. /\ ring' = Append(ring, p) /\ ring \in Seq(KeyPackets)
        /\ keyBits' = IF p.down THEN keyBits \cup ({p.key} \ Breakless) ELSE keyBits \ {p.key}
    BY <1>2 DEF Arrives, Sides
  <2>2. \A k : /\ k # p.key => /\ EndsUp(ring, k) => EndsUp(ring', k)
                               /\ Absent(ring, k) => Absent(ring', k)
               /\ k = p.key /\ p.down = FALSE => EndsUp(ring', k)
    BY <2>1, AppendEnds
  <2>3. p.down \in BOOLEAN
    BY DEF KeyPackets
  <2>4. ASSUME NEW k \in Keys \ (Breakless \cup keyBits')
        PROVE  k \in s.crossed \/ EndsUp(ring', k) \/ (Absent(ring', k) /\ WillBeUp(s, k))
    <3>1. CASE k # p.key
      <4>1. k \in Keys \ (Breakless \cup keyBits)
        BY <2>1, <2>4, <3>1
      <4>2. QED
        BY <2>2, <3>1, <4>1 DEF Agree
    <3>2. CASE k = p.key
      <4>1. p.down = FALSE
        BY <2>1, <2>3, <2>4, <3>2
      <4>2. QED
        BY <2>2, <3>2, <4>1
    <3>3. QED
      BY <3>1, <3>2
  <2>5. Agree'
    <3>1. \A k \in Keys \ (Breakless \cup keyBits') :
              k \in s'.crossed \/ EndsUp(ring', k) \/ (Absent(ring', k) /\ WillBeUp(s', k))
      BY <2>4
    <3>2. QED
      BY <3>1, AgreePrimed
  <2>6. QED
    BY <2>1, <2>5
<1>3. QED
  BY <1>1, <1>2

LEMMA KeySettles ==
    ASSUME DispatchInv, Settling, NEW k \in Keys, Press(k) \/ Release(k)
    PROVE  Settling'
<1>1. /\ Sides /\ Agree /\ keyBits \cap Breakless = {} /\ asleep \in BOOLEAN
      /\ asleep = FALSE => keyBits \subseteq held
  BY DEF DispatchInv, Settling, Sides
<1>2. UNCHANGED <<asleep, fkeymode, settings, s>>
  BY DEF Press, Release
<1>3. Packet(TRUE, k) \in KeyPackets /\ Packet(FALSE, k) \in KeyPackets
  BY DEF Packet, KeyPackets
<1>13. OfMacros(s, held) => OfMacros(s, held')
  BY DEF OfMacros, Press, Release
<1>4. Fine(s') /\ OfMacros(s', held') /\ HeldAreKeys(s') /\ OfMacros(s, held')
  BY <1>2, <1>13 DEF Settling
<1>5. CASE Press(k)
  <2>1. Arrives(Packet(TRUE, k)) /\ held' = held \cup {k}
    BY <1>5 DEF Press
  <2>2. Agree' /\ keyBits' \cap Breakless = {}
    BY <1>1, <1>2, <1>3, <2>1, AgreeArrives
  <2>3. asleep' = FALSE => keyBits' \subseteq held'
    BY <1>1, <1>2, <2>1 DEF Arrives, Packet
  <2>4. QED
    BY <1>2, <1>4, <2>2, <2>3, SettlingThen
<1>6. CASE Release(k) /\ k \in Breakless
  <2>1. UNCHANGED <<keyBits, ring>> /\ held' = held \ {k}
    BY <1>6 DEF Release
  <2>2. asleep' = FALSE => keyBits \subseteq held'
    BY <1>1, <1>2, <1>6, <2>1
  <2>3. QED
    BY <1>2, <1>4, <2>1, <2>2, SameSettling
<1>7. CASE Release(k) /\ k \notin Breakless
  <2>1. Arrives(Packet(FALSE, k)) /\ held' = held \ {k}
    BY <1>7 DEF Release
  <2>2. Agree' /\ keyBits' \cap Breakless = {}
    BY <1>1, <1>2, <1>3, <2>1, AgreeArrives
  <2>3. asleep' = FALSE => keyBits' \subseteq held'
    BY <1>1, <1>2, <2>1 DEF Arrives, Packet
  <2>4. QED
    BY <1>2, <1>4, <2>2, <2>3, SettlingThen
<1>8. QED
  BY <1>5, <1>6, <1>7

LEMMA PacketReadySettles ==
    ASSUME OrdinaryMacros, Prompt, DispatchInv, Settling, PacketReady
    PROVE  Settling'
<1> DEFINE p == Head(ring)
           v == [s EXCEPT !.owed = Append(@, p)]
<1>1. /\ s \in Sound /\ keyBits \subseteq Keys /\ Ordered(s) /\ ring \in Seq(KeyPackets)
      /\ Fine(s) /\ OfMacros(s, held) /\ HeldAreKeys(s) /\ Agree /\ keyBits \cap Breakless = {}
  BY DEF DispatchInv, Sides, Settling
<1>2. ring # <<>> /\ ring' = Tail(ring)
  BY DEF PacketReady
<1>3. p \in KeyPackets
  BY <1>1, <1>2
<1>4. p \in Packets /\ p.key \in Keys
  BY <1>3 DEF KeyPackets, Packets
<1>5. PICK late \in Lateness(s) : s' = TakePacket(s, p, late)
  BY DEF PacketReady
<1>6. late \in BOOLEAN
  BY LatenessFacts
<1>7. \A k : /\ k # p.key => /\ EndsUp(ring, k) => EndsUp(ring', k)
                             /\ Absent(ring, k) => Absent(ring', k)
             /\ k = p.key =>
                   /\ ~Absent(ring, k)
                   /\ EndsUp(ring, k) => \/ EndsUp(ring', k)
                                         \/ Absent(ring', k) /\ p.down = FALSE
  BY <1>1, <1>2, TailEnds
<1> HIDE DEF p
<1>8. /\ SameHands(s, v)
      /\ \A k : k # p.key /\ WillBeUp(s, k) => WillBeUp(v, k)
      /\ \A k : k = p.key /\ p.down = FALSE => WillBeUp(v, k)
  BY <1>1, <1>4, WillBeUpAppend
<1>9. HeldAreKeys(s') /\ Kept(v, s') /\ Fine(s') /\ \A h : OfMacros(v, h) => OfMacros(s', h)
  BY <1>1, <1>4, <1>5, <1>6, TakePacketKept
<1> HIDE DEF v
<1>10. OfMacros(s', held')
  BY <1>1, <1>8, <1>9, SameIsKept DEF PacketReady
<1>11. s.crossed \subseteq s'.crossed
  BY <1>8, <1>9 DEF SameHands, SameKeys, Kept
<1>12. \A k \in Keys : WillBeUp(v, k) => WillBeUp(s', k) \/ k \in s'.crossed
  BY <1>9 DEF Kept
<1>13. UNCHANGED <<keyBits, fkeymode, settings, asleep, held>>
  BY DEF PacketReady
<1>14. ASSUME NEW k \in Keys \ (Breakless \cup keyBits')
       PROVE  k \in s'.crossed \/ EndsUp(ring', k) \/ (Absent(ring', k) /\ WillBeUp(s', k))
  <2>1. k \in s.crossed \/ EndsUp(ring, k) \/ (Absent(ring, k) /\ WillBeUp(s, k))
    BY <1>1, <1>13 DEF Agree
  <2>2. k \in s'.crossed \/ EndsUp(ring', k) \/ (Absent(ring', k) /\ WillBeUp(v, k))
    BY <1>7, <1>8, <1>11, <2>1
  <2>3. QED
    BY <1>12, <2>2
<1>15. Agree'
  BY <1>14, AgreePrimed
<1>16. QED
  BY <1>1, <1>9, <1>10, <1>13, <1>15, SettlingThen DEF Settling

(* A packet of a key that the keyboard does not have. *)
LEMMA TakeForeign ==
    ASSUME OrdinaryMacros, NEW t \in Sound, NEW p \in Packets, NEW late \in BOOLEAN,
           keyBits \subseteq Keys, Ordered(t), HeldAreKeys(t), Fine(t), p.key \notin Keys
    PROVE  LET u == TakePacket(t, p, late) IN
           /\ HeldAreKeys(u) /\ Fine(u) /\ t.crossed \subseteq u.crossed
           /\ \A k \in Keys : WillBeUp(t, k) => WillBeUp(u, k) \/ k \in u.crossed
           /\ Tame(t, u, {p.key}) /\ (~p.down => p.key \notin u.made)
<1> DEFINE v == [t EXCEPT !.owed = Append(@, p)]
           u == TakePacket(t, p, late)
<1>1. SameHands(t, v) /\ \A k : k # p.key /\ WillBeUp(t, k) => WillBeUp(v, k)
  BY WillBeUpAppend
<1>2. /\ HeldAreKeys(u) /\ Kept(v, u) /\ Fine(u) /\ Tame(v, u, {p.key})
      /\ ~p.down => p.key \notin u.made
  BY TakePacketKept
<1> HIDE DEF u, v
<1>3. Tame(t, u, {p.key})
  BY <1>1, <1>2, SameIsKept, TameTwice
<1>4. /\ t.crossed \subseteq u.crossed
      /\ \A k \in Keys : WillBeUp(t, k) => WillBeUp(u, k) \/ k \in u.crossed
  BY <1>1, <1>2 DEF SameHands, SameKeys, Kept
<1>5. QED
  BY <1>2, <1>3, <1>4 DEF u

LEMMA MessageOneSettles ==
    ASSUME OrdinaryMacros, Prompt, DispatchInv, Settling, NEW k0 \in AcpiKeys, MessageOne(k0)
    PROVE  Settling'
<1> DEFINE p == Packet(k0 \notin held, k0)
<1>1. p \in Packets /\ p.key = k0 /\ p.down = (k0 \notin held)
  BY DEF Packet, Packets
<1>2. k0 \notin Keys
  BY DEF OrdinaryMacros
<1>3. /\ s \in Sound /\ keyBits \subseteq Keys /\ Ordered(s)
      /\ Fine(s) /\ OfMacros(s, held) /\ HeldAreKeys(s) /\ Agree /\ keyBits \cap Breakless = {}
      /\ asleep = FALSE => keyBits \subseteq held
  BY DEF DispatchInv, Sides, Settling
<1>4. PICK late \in Lateness(s) : s' = TakePacket(s, p, late)
  BY DEF MessageOne
<1> HIDE DEF p
<1>5. late \in BOOLEAN
  BY LatenessFacts
<1>6. /\ HeldAreKeys(s') /\ Fine(s') /\ s.crossed \subseteq s'.crossed
      /\ \A k \in Keys : WillBeUp(s, k) => WillBeUp(s', k) \/ k \in s'.crossed
      /\ Tame(s, s', {k0}) /\ (~p.down => k0 \notin s'.made)
  BY <1>1, <1>2, <1>3, <1>4, <1>5, TakeForeign
<1>7. UNCHANGED <<keyBits, ring, asleep>>
  BY DEF MessageOne
<1>8. Agree'
  BY <1>3, <1>6, <1>7, AgreeThen
<1>9. OfMacros(s', held')
  <2>1. CASE k0 \notin held
    <3>1. held' = held \cup {k0}
      BY <2>1 DEF MessageOne
    <3>2. QED
      BY <1>3, <1>6, <3>1 DEF OfMacros, Tame
  <2>2. CASE k0 \in held
    <3>1. held' = held \ {k0} /\ k0 \notin s'.made
      BY <1>1, <1>6, <2>2 DEF MessageOne
    <3>2. QED
      BY <1>3, <1>6, <3>1 DEF OfMacros, Tame
  <2>3. QED
    BY <2>1, <2>2
<1>10. asleep' = FALSE => keyBits' \subseteq held'
  BY <1>2, <1>3, <1>7 DEF MessageOne
<1>11. QED
  BY <1>3, <1>6, <1>7, <1>8, <1>9, <1>10, SettlingThen

LEMMA MessageSettles ==
    ASSUME OrdinaryMacros, Prompt, DispatchInv, Settling, NEW k0 \in AcpiKeys, Message(k0)
    PROVE  Settling'
<1> DEFINE p == Packet(TRUE, k0)
           q == Packet(FALSE, k0)
<1>1. p \in Packets /\ q \in Packets /\ p.key = k0 /\ q.key = k0 /\ q.down = FALSE
  BY DEF Packet, Packets
<1>2. k0 \notin Keys
  BY DEF OrdinaryMacros
<1>3. /\ s \in Sound /\ keyBits \subseteq Keys /\ Ordered(s)
      /\ Fine(s) /\ OfMacros(s, held) /\ HeldAreKeys(s) /\ Agree /\ keyBits \cap Breakless = {}
  BY DEF DispatchInv, Sides, Settling
<1>4. PICK l1 \in Lateness(s) :
          \E l2 \in Lateness(TakePacket(s, p, l1)) : s' = TakePacket(TakePacket(s, p, l1), q, l2)
  BY DEF Message
<1> HIDE DEF p, q
<1> DEFINE t == TakePacket(s, p, l1)
<1>5. l1 \in BOOLEAN
  BY LatenessFacts
<1>6. t \in Sound /\ Ordered(t)
  BY <1>1, <1>3, <1>5, TakePacketFacts
<1>7. /\ HeldAreKeys(t) /\ Fine(t) /\ s.crossed \subseteq t.crossed
      /\ \A k \in Keys : WillBeUp(s, k) => WillBeUp(t, k) \/ k \in t.crossed
      /\ Tame(s, t, {k0})
  BY <1>1, <1>2, <1>3, <1>5, TakeForeign
<1>8. PICK l2 \in Lateness(t) : s' = TakePacket(t, q, l2)
  BY <1>4
<1> HIDE DEF t
<1>9. l2 \in BOOLEAN
  BY LatenessFacts
<1> DEFINE u == TakePacket(t, q, l2)
<1>19. /\ HeldAreKeys(u) /\ Fine(u) /\ t.crossed \subseteq u.crossed
       /\ \A k \in Keys : WillBeUp(t, k) => WillBeUp(u, k) \/ k \in u.crossed
       /\ Tame(t, u, {q.key}) /\ (~q.down => q.key \notin u.made)
  BY <1>1, <1>2, <1>3, <1>6, <1>7, <1>9, TakeForeign
<1> HIDE DEF u
<1>10. /\ HeldAreKeys(s') /\ Fine(s') /\ t.crossed \subseteq s'.crossed
       /\ \A k \in Keys : WillBeUp(t, k) => WillBeUp(s', k) \/ k \in s'.crossed
       /\ Tame(t, s', {k0}) /\ k0 \notin s'.made
  <2>1. s' = u /\ q.key = k0 /\ ~q.down
    BY <1>1, <1>8 DEF u
  <2>2. QED
    BY <1>19, <2>1
<1>11. UNCHANGED <<keyBits, ring, fkeymode, settings, asleep, held>>
  BY DEF Message
<1>12. Agree'
  <2>1. /\ s.crossed \subseteq s'.crossed
        /\ \A k \in Keys : WillBeUp(s, k) => WillBeUp(s', k) \/ k \in s'.crossed
    BY <1>7, <1>10
  <2>2. QED
    BY <1>3, <1>11, <2>1, AgreeThen
<1>13. OfMacros(s', held')
  <2>1. Tame(s, s', {})
    BY <1>7, <1>10 DEF Tame
  <2>2. QED
    BY <1>3, <1>11, <2>1, TameOfMacros
<1>14. QED
  BY <1>3, <1>10, <1>11, <1>12, <1>13, SettlingThen DEF Settling

LEMMA MacroTimerSettles ==
    ASSUME OrdinaryMacros, Prompt, DispatchInv, Settling, MacroTimerFires \/ MacroTimerEnds
    PROVE  Settling'
<1>1. /\ s \in Sound /\ s \in State /\ keyBits \subseteq Keys /\ Ordered(s)
      /\ Fine(s) /\ OfMacros(s, held) /\ HeldAreKeys(s) /\ Agree /\ keyBits \cap Breakless = {}
  BY DEF DispatchInv, Sides, Settling, Sound
<1>2. UNCHANGED <<keyBits, ring, fkeymode, settings, asleep, held>>
  BY DEF MacroTimerFires, MacroTimerEnds
<1>3. CASE s' = [s EXCEPT !.macroTimer = FALSE]
  <2>1. s'.macro = s.macro /\ s'.owed = s.owed /\ SameHands(s, s')
    BY <1>1, <1>3 DEF State, SameHands, SameKeys
  <2>2. Fine(s') /\ OfMacros(s', held') /\ Kept(s, s')
    BY <1>1, <1>2, <2>1, SameIsKept
  <2>3. HeldAreKeys(s')
    BY <1>1, <2>1 DEF HeldAreKeys
  <2>4. Agree'
    BY <1>1, <1>2, <2>2, AgreeThen DEF Kept
  <2>5. QED
    BY <1>1, <1>2, <2>2, <2>3, <2>4, SettlingThen DEF Settling
<1>4. CASE s' = DispatchInvertBuffer(s)
  <2>1. HeldIsOwed(s)
    <3>1. s.macro \in Seq(Packets)
      BY <1>1 DEF State
    <3>2. QED
      BY <1>1, <3>1 DEF Ordered, HeldIsOwed
  <2>2. Kept(s, s') /\ Tame(s, s', {})
    BY <1>1, <1>4, <2>1, DispatchInvertBufferKept
  <2>3. s'.macro = <<>>
    BY <1>1, <1>4, DispatchInvertBufferFacts
  <2>4. Fine(s') /\ OfMacros(s', held') /\ HeldAreKeys(s')
    BY <1>1, <1>2, <2>2, <2>3, TameOfMacros DEF Kept, HeldAreKeys
  <2>5. Agree'
    BY <1>1, <1>2, <2>2, AgreeThen DEF Kept
  <2>6. QED
    BY <1>1, <1>2, <2>4, <2>5, SettlingThen DEF Settling
<1>5. CASE s' = s
  BY <1>1, <1>2, <1>5, SameSettling DEF Settling
<1>6. QED
  BY <1>3, <1>4, <1>5 DEF MacroTimerFires, MacroTimerEnds

LEMMA SleepEjectTimerSettles ==
    ASSUME OrdinaryMacros, DispatchInv, Settling, SleepEjectTimerFires
    PROVE  Settling'
<1> DEFINE t == [s EXCEPT !.timer = FALSE]
<1>1. /\ s \in State /\ Timed(s) /\ EjectIsKey(s)
      /\ Fine(s) /\ OfMacros(s, held) /\ HeldAreKeys(s) /\ Agree /\ keyBits \cap Breakless = {}
  BY DEF DispatchInv, Sound, Settling
<1>2. s.timer /\ s' = OnSleepEjectTimer(t)
  BY DEF SleepEjectTimerFires
<1>3. t \in State /\ SameHands(s, t) /\ SameAccount(s, t) /\ t.timerFunc = s.timerFunc
  BY <1>1 DEF State, SameHands, SameKeys, SameAccount
<1> HIDE DEF t
<1>4. OnlyTells(t, s')
  BY <1>1, <1>2, <1>3, TimerRoutineFacts DEF EjectIsKey
<1>5. SameKeys(s, s') /\ s'.modifiers = s.modifiers /\ SameAccount(s, s')
  BY <1>3, <1>4 DEF OnlyTells, SameHands, SameKeys, SameAccount
<1>6. s'.down = s.down \/ (s.timerFunc = "eject" /\ s'.down = s.down \cup {"insert"})
  <2>1. CASE s.timerFunc = "eject"
    <3>1. s' = [t EXCEPT !.down = @ \cup {"insert"}]
      BY <1>2, <1>3, <2>1 DEF OnSleepEjectTimer, Tell
    <3>2. s'.down = t.down \cup {"insert"}
      BY <1>3, <3>1 DEF State
    <3>3. QED
      BY <1>3, <2>1, <3>2 DEF SameHands
  <2>2. CASE s.timerFunc # "eject"
    BY <1>2, <1>3, <2>2 DEF OnSleepEjectTimer, SameHands
  <2>3. QED
    BY <2>1, <2>2
<1>7. s.timerFunc = "eject" => "insert" \in KeySet /\ Because(s', "insert", "insert")
  <2> SUFFICES ASSUME s.timerFunc = "eject"
               PROVE  "insert" \in KeySet /\ Because(s', "insert", "insert")
    OBVIOUS
  <2>1. "insert" \in s.crossed \cup s.made /\ "insert" \in KeySet
    BY <1>1, <1>2 DEF Timed, KeyOfTimer, EjectIsKey
  <2>2. /\ "insert" \in OwnFaces("insert")
        /\ "insert" \in s.made => Shown("insert", s.told["insert"])
    BY <1>1 DEF Fine, Themselves, OwnFaces
  <2>3. "insert" \notin Breakless
    BY DEF OrdinaryMacros
  <2>4. QED
    BY <1>5, <2>1, <2>2, <2>3 DEF Because, SameKeys
<1>8. Fine(s')
  <2>1. Justified(s')
    <3>1. ASSUME NEW x \in s'.down PROVE \E k \in KeySet : Because(s', k, x)
      <4>1. CASE x \in s.down
        BY <1>1, <1>5, <4>1 DEF Fine, Justified, Because, SameKeys
      <4>2. CASE x \notin s.down
        BY <1>6, <1>7, <3>1, <4>2
      <4>3. QED
        BY <4>1, <4>2
    <3>2. QED
      BY <3>1 DEF Justified
  <2>2. QED
    BY <1>1, <1>5, <2>1 DEF Fine, Themselves, SameKeys
<1>9. OfMacros(s', held') /\ HeldAreKeys(s')
  BY <1>1, <1>5 DEF OfMacros, HeldAreKeys, SameKeys, SameAccount, SleepEjectTimerFires
<1>10. UNCHANGED <<keyBits, ring, fkeymode, settings, asleep, held>>
  BY DEF SleepEjectTimerFires
<1>11. Agree'
  <2>1. \A k \in Keys : WillBeUp(s, k) => WillBeUp(s', k)
    BY <1>5 DEF WillBeUp, SameKeys, SameAccount
  <2>2. s.crossed \subseteq s'.crossed
    BY <1>5 DEF SameKeys
  <2>3. QED
    BY <1>1, <1>10, <2>1, <2>2, AgreeThen
<1>12. QED
  BY <1>1, <1>8, <1>9, <1>10, <1>11, SettlingThen DEF Settling

LEMMA SetFKeyModeSettles ==
    ASSUME DispatchInv, Settling, SetFKeyMode
    PROVE  Settling'
<1>1. UNCHANGED <<s, ring, keyBits, asleep, held>>
  BY DEF SetFKeyMode
<1>2. QED
  BY <1>1, SameSettling DEF Settling

LEMMA NoModifiersFields ==
    ASSUME NEW t \in Sound
    PROVE  LET u == [t EXCEPT !.modifiers = {}] IN
           /\ u.modifiers = {} /\ u.down = t.down /\ SameKeys(t, u)
           /\ u.macro = t.macro /\ u.owed = t.owed
BY DEF Sound, State, SameKeys

(* The key ups of a wake leave no key of the keyboard down that has not    *)
(* been crossed; a macro's may be, and one that ACPI holds down.           *)
LEMMA InitKeyboardSettles ==
    ASSUME OrdinaryMacros, Prompt, DispatchInv, Settling, InitKeyboard
    PROVE  Settling'
<1> DEFINE t == KeyUpAll(s)
<1>1. /\ s \in Sound /\ keyBits \subseteq Keys /\ Ordered(s)
      /\ Fine(s) /\ OfMacros(s, held) /\ HeldAreKeys(s) /\ Agree
  BY DEF DispatchInv, Sides, Settling
<1>2. /\ ring = <<>> /\ s.macro = <<>> /\ s' = [t EXCEPT !.modifiers = {}]
      /\ keyBits' = {} /\ ring' = <<>> /\ UNCHANGED held
  BY DEF InitKeyboard
<1>3. s.owed = <<>>
  BY <1>1, <1>2 DEF Ordered
<1>4. /\ t \in Sound /\ t.macro = <<>> /\ t.owed = <<>>
      /\ Upped(s, t) /\ \A k \in keyBits : IsUp(t, k)
  BY <1>1, <1>2, <1>3, KeyUpAllFacts
<1> HIDE DEF t
<1>5. /\ s'.modifiers = {} /\ s'.down = t.down /\ SameKeys(t, s')
      /\ s'.macro = <<>> /\ s'.owed = <<>>
  BY <1>2, <1>4, NoModifiersFields
<1>6. \A k : Absent(<<>>, k) /\ ~EndsUp(<<>>, k)
  BY DEF Absent, EndsUp
<1>7. \A k \in Keys \ Breakless : k \in s'.crossed \/ IsUp(s', k)
  <2> SUFFICES ASSUME NEW k \in Keys \ Breakless PROVE k \in s'.crossed \/ IsUp(s', k)
    OBVIOUS
  <2>1. CASE k \in keyBits
    BY <1>4, <1>5, <2>1 DEF IsUp, SameKeys
  <2>2. CASE k \notin keyBits
    <3>1. k \in s.crossed \/ WillBeUp(s, k)
      BY <1>1, <1>2, <1>6, <2>2 DEF Agree
    <3>2. k \in s.crossed \/ IsUp(s, k)
      BY <1>3, <1>6, <3>1 DEF WillBeUp, IsUp
    <3>3. QED
      BY <1>4, <1>5, <3>2 DEF Upped, IsUp, SameKeys
  <2>3. QED
    BY <2>1, <2>2
<1>8. Agree'
  <2>1. \A k \in Keys \ Breakless : k \in s'.crossed \/ (Absent(ring', k) /\ WillBeUp(s', k))
    BY <1>2, <1>5, <1>6, <1>7 DEF WillBeUp, IsUp
  <2>2. QED
    BY <1>2, <2>1, AgreePrimed
<1>9. Fine(t) /\ OfMacros(t, held)
  BY <1>1, <1>4, TameOfMacros DEF Upped
<1>10. OfMacros(s', held')
  BY <1>2, <1>5, <1>9 DEF OfMacros, SameKeys
<1>11. Fine(s')
  <2>1. Justified(s') /\ Themselves(s')
    BY <1>5, <1>9 DEF Fine, Justified, Themselves, Because, SameKeys
  <2>2. QED
    BY <1>5, <1>9, <2>1 DEF Fine, SameKeys
<1>12. HeldAreKeys(s')
  BY <1>5 DEF HeldAreKeys
<1>13. QED
  BY <1>2, <1>8, <1>10, <1>11, <1>12, SettlingThen

LEMMA SettlingStep ==
    ASSUME OrdinaryMacros, Prompt, DispatchInv, Settling, [Next]_vars
    PROVE  Settling'
<1>1. CASE UNCHANGED vars
  BY <1>1, SameSettling DEF vars, Settling
<1>2. CASE DisableDevice
  <2>1. UNCHANGED <<s, ring, keyBits, held>> /\ asleep' = TRUE
    BY <1>2 DEF DisableDevice
  <2>2. QED
    BY <2>1, SameSettling DEF Settling
<1>3. QED
  BY <1>1, <1>2, KeySettles, MessageOneSettles, MessageSettles, PacketReadySettles, MacroTimerSettles,
     SleepEjectTimerSettles, SetFKeyModeSettles, InitKeyboardSettles DEF Next

LEMMA MacroKeysAreKeys ==
    ASSUME OrdinaryMacros
    PROVE  MacroKeys \subseteq Keys /\ MacroKeys \cap Breakless = {}
<1>1. ASSUME NEW m \in MacroKeys PROVE m \in Keys
  <2>1. PICK i \in DOMAIN Macros : \E p \in ToSet(Macros[i].sequence) : m = p.key
    BY <1>1 DEF MacroKeys
  <2>2. PICK j \in DOMAIN Macros[i].sequence : m = Macros[i].sequence[j].key
    BY <2>1 DEF ToSet
  <2>3. QED
    BY <2>2 DEF OrdinaryMacros
<1>2. QED
  BY <1>1 DEF OrdinaryMacros

(* When all has been dealt with, the HID system and the driver take no key *)
(* to be down that is neither held nor crossed, if nothing is held back    *)
(* when the keyboard wakes and the macros are ordinary ones.               *)
THEOREM NothingStuckHolds == Prompt /\ OrdinaryMacros => (Spec => []NothingStuck)
<1> SUFFICES ASSUME Prompt, OrdinaryMacros PROVE Spec => []NothingStuck
  OBVIOUS
<1>1. ASSUME DispatchInv, Settling, Quiet
      PROVE  /\ s.down \subseteq UNION {Faces(k) : k \in held \cup s.crossed}
             /\ s.modifiers \subseteq held \cup s.crossed
  <2>1. /\ s \in State /\ Ordered(s) /\ asleep \in BOOLEAN
        /\ Fine(s) /\ OfMacros(s, held) /\ Agree /\ (asleep = FALSE => keyBits \subseteq held)
    BY <1>1 DEF DispatchInv, Sides, Sound, Settling
  <2>2. ring = <<>> /\ s.macro = <<>> /\ asleep = FALSE /\ s.owed = <<>>
    BY <1>1, <2>1 DEF Quiet, Ordered
  <2>3. \A k : Absent(<<>>, k) /\ ~EndsUp(<<>>, k)
    BY DEF Absent, EndsUp
  <2>4. ASSUME NEW k \in Keys \ Breakless, k \in s.made \cup s.inverted
        PROVE  k \in held \cup s.crossed
    BY <2>1, <2>2, <2>3, <2>4 DEF Agree, WillBeUp
  <2>5. s.modifiers \subseteq held \cup s.crossed
    <3>1. ASSUME NEW k \in s.modifiers PROVE k \in held \cup s.crossed
      <4>1. k \in Modifiers /\ k \in s.made
        BY <2>1, <3>1 DEF State, Fine
      <4>2. k \notin Breakless /\ k # "mirror"
        BY <4>1 DEF OrdinaryMacros, Modifiers
      <4>3. k \in Keys \/ k \in held
        BY <2>1, <4>1, <4>2 DEF OfMacros
      <4>4. QED
        BY <2>4, <4>1, <4>2, <4>3
    <3>2. QED
      BY <3>1
  <2>6. ASSUME NEW x \in s.down PROVE \E k \in held \cup s.crossed : x \in Faces(k)
    <3>1. PICK k \in KeySet : Because(s, k, x)
      BY <2>1, <2>6 DEF Fine, Justified
    <3>2. x \in OwnFaces(k) /\ (k \in s.crossed \/ (k \in s.made /\ k \notin Breakless))
      BY <3>1 DEF Because
    <3>3. x \in Faces(k)
      BY <3>2 DEF OwnFaces, Faces
    <3>4. CASE k \in s.crossed \/ k \in Keys \/ k \in held
      BY <2>4, <3>2, <3>3, <3>4
    <3>5. CASE k \notin s.crossed /\ k \notin Keys /\ k \notin held
      <4>1. k = "mirror" /\ \E m \in MacroKeys : m \in s.inverted \cup s.crossed
        BY <2>1, <3>2, <3>5 DEF OfMacros
      <4>2. x = "mirror"
        BY <3>2, <4>1 DEF OwnFaces
      <4>3. PICK m \in MacroKeys : m \in s.inverted \cup s.crossed
        BY <4>1
      <4>4. m \in Keys \ Breakless
        BY MacroKeysAreKeys
      <4>5. m \in held \cup s.crossed
        BY <2>4, <4>3, <4>4
      <4>6. QED
        BY <4>2, <4>3, <4>5 DEF Faces
    <3>6. QED
      BY <3>4, <3>5
  <2>7. QED
    BY <2>5, <2>6
<1>2. DispatchInv /\ Settling => NothingStuck
  BY <1>1 DEF NothingStuck
<1>3. DispatchInv /\ Settling /\ [Next]_vars => Settling'
  BY SettlingStep
<1>4. QED
  BY <1>2, <1>3, InitSettling, DispatchInvariance, PTL DEF Spec

=============================================================================

----------------------------- MODULE PowerState -----------------------------
(***************************************************************************)
(* Sleep and wake of ApplePS2Controller: power management asks for a state *)
(* (setPowerState), a thread call takes the order to the work loop's gate  *)
(* (setPowerStateCallout), and inside the gate setPowerStateGated moves    *)
(* the interrupt bits, the clocks, the two flags _ignoreInterrupts and     *)
(* _hardwareOffline and the two drivers from one state to the other, step  *)
(* by step.  Starting and stopping drivers use the same gate and the same  *)
(* command byte.                                                           *)
(*                                                                         *)
(* The hardware is external: the command byte of the controller chip, of   *)
(* which four bits are kept, and whether a device is set to report input.  *)
(* If Strays, a scan code that waits in the output buffer can be read in   *)
(* place of the command byte while the keyboard reports.                   *)
(*                                                                         *)
(* The drivers drop the results of the requests that set their devices up, *)
(* and a read of the command byte that times out returns 0: here both may  *)
(* fail at any time.                                                       *)
(*                                                                         *)
(* Four history variables say what went wrong: late, that power management *)
(* gave up waiting; raced, whose start or stop met a power change;         *)
(* unanswered, whose device was last set up with a request that failed;    *)
(* forgotten, whose interrupt bit a wrong reading has cleared.             *)
(***************************************************************************)
EXTENDS Naturals, Sequences, SequencesExt

CONSTANTS
    Strays,         \* may a scan code be read as the command byte?
    MaxLate         \* bound: acknowledgements power management gives up on

ASSUME StraysAssumption == Strays \in BOOLEAN
ASSUME MaxLateAssumption == MaxLate \in Nat

Device == {"keyboard", "mouse"}
IRQ(d) == IF d = "keyboard" THEN "kbdIRQ" ELSE "mouseIRQ"
IRQs == {"kbdIRQ", "mouseIRQ"}
ClocksOff == {"kbdOff", "mouseOff"}
Ordinal == {"sleep", "doze", "normal"}

VARIABLES
    pending,    \* order of the thread call not yet running, or "none"
    waiting,    \* orders of the callouts that wait for the gate
    requested,  \* what power management asked for last
    unacked,    \* it waits for acknowledgeSetPowerState
    late,       \* how often it has stopped waiting
    current,    \* _currentPowerState
    target,     \* powerState of the setPowerStateGated in the gate
    step,       \* where it is; "free" if nobody is in the gate
    first,      \* the driver to be woken first, by _mouseWakeFirst
    ignore,     \* _ignoreInterrupts
    offline,    \* _hardwareOffline
    cmd,        \* the chip's command byte
    oldByte,    \* what resetController has read as the command byte
    reporting,  \* devices set to report
    driver,     \* driver[d]: how far d's driver has started or stopped
    raced,      \* history: drivers that started or stopped meanwhile
    unanswered, \* history: devices whose set-up, unnoticed, has failed
    forgotten   \* history: devices whose interrupt bit was lost

pmVars == <<pending, waiting, requested, unacked, late>>
gateVars == <<current, target, step, first, ignore, offline>>
failVars == <<unanswered, forgotten>>
vars == <<pmVars, gateVars, cmd, oldByte, reporting, driver, raced, failVars>>

(* The firmware leaves the controller in any state. *)
Init ==
    /\ pending = "none" /\ waiting = <<>>
    /\ requested = "normal" /\ unacked = FALSE /\ late = 0
    /\ current = "normal" /\ target = "normal"
    /\ step = "resetRead" /\ first \in Device
    /\ ignore = 0 /\ offline = FALSE
    /\ cmd \in SUBSET (IRQs \cup ClocksOff) /\ oldByte = {}
    /\ reporting \in SUBSET Device
    /\ driver = [d \in Device |-> "none"] /\ raced = {}
    /\ unanswered = {} /\ forgotten = {}

-----------------------------------------------------------------------------
(* What a read of the command byte returns, the byte being b, while the    *)
(* devices in active report; nothing is set in the 0 of a time-out.        *)
ReadBytes(b, active) ==
    IF Strays /\ "keyboard" \in active THEN SUBSET (IRQs \cup ClocksOff) ELSE {b, {}}

(* setCommandByteGated writes if that changes what it has read.  It raises *)
(* _ignoreInterrupts for the read, which is not seen outside the gate.     *)
SetCommandByte(set, clear, active) ==
    /\ \E b \in ReadBytes(cmd, active) :
           LET new == (b \cup set) \ clear IN cmd' = IF new = b THEN cmd ELSE new
    /\ forgotten' = {d \in Device : /\ IRQ(d) \in cmd \/ d \in forgotten
                                    /\ IRQ(d) \notin cmd' \cup clear}

(* A driver's commands reach its device. *)
Reachable(d) ==
    /\ ~offline
    /\ d = "keyboard" => "kbdOff" \notin cmd
    /\ d = "mouse" => "mouseOff" \notin cmd

-----------------------------------------------------------------------------
(* Loss of power and firmware may have changed the hardware during sleep.  *)
FoundCmd == IF current = "sleep" THEN SUBSET (IRQs \cup ClocksOff) ELSE {cmd}
FoundReporting == IF current = "sleep" THEN SUBSET Device ELSE {reporting}

(* resetController, at start and on waking: the commands that enable the   *)
(* clocks clear the bits that disable them; the byte read then is, with    *)
(* some bits cleared, written back after the self tests.                   *)
ResetRead ==
    /\ step = "resetRead"
    /\ \E found \in FoundCmd : cmd' = found \ ClocksOff
    /\ reporting' \in FoundReporting
    /\ oldByte' \in ReadBytes(cmd', reporting')
    /\ step' = "resetWrite"
    /\ UNCHANGED <<pmVars, current, target, first, ignore, offline, driver, raced, failVars>>

(* kCB_DisableMouseClock is named twice in the mask of bits to be cleared, *)
(* kCB_DisableKeyboardClock is not.  Both devices are told to disable      *)
(* themselves.  At start the gate does not exist before this.              *)
ResetWrite ==
    /\ step = "resetWrite"
    /\ cmd' = oldByte \ (IRQs \cup {"mouseOff"})
    /\ reporting' \in SUBSET reporting
    /\ oldByte' = {}            \* a local variable ends here
    /\ step' = IF current = "sleep" THEN "wakeClocks" ELSE "free"
    /\ UNCHANGED <<pmVars, current, target, first, ignore, offline, driver, raced, failVars>>

-----------------------------------------------------------------------------
(* Power management asks for a state when the last change is acknowledged  *)
(* or its time is up.  thread_call_enter1 replaces the order of a call     *)
(* that has not begun to run.                                              *)
SetPowerState(o) ==
    /\ step \notin {"resetRead", "resetWrite"} \/ current = "sleep"
    /\ o # requested
    /\ IF unacked THEN late < MaxLate /\ late' = late + 1 ELSE UNCHANGED late
    /\ requested' = o
    /\ unacked' = TRUE
    /\ pending' = o
    /\ UNCHANGED <<waiting, gateVars, cmd, oldByte, reporting, driver, raced, failVars>>

(* The thread call runs, a second instance of it perhaps beside the first. *)
Callout ==
    /\ pending # "none"
    /\ waiting' = Append(waiting, pending)
    /\ pending' = "none"
    /\ UNCHANGED <<requested, unacked, late, gateVars, cmd, oldByte, reporting, driver, raced, failVars>>

(* setPowerStateGated(waiting[i]) begins: which steps it takes depends on  *)
(* the state it finds.                                                     *)
\* Mutant: between working states nothing is done, not even noted.
FirstStepForgets(o) ==
    IF o = current THEN "acknowledge"
    ELSE IF o = "sleep" THEN "sleepIgnore"
    ELSE IF current = "sleep" THEN "resetRead"
    ELSE "acknowledge"

FirstStep(o) ==
    IF o = current THEN "acknowledge"
    ELSE IF o = "sleep" THEN "sleepIgnore"
    ELSE IF current = "sleep" THEN "resetRead"
    ELSE "arrived"

EnterGate(i) ==
    /\ step = "free"
    /\ target' = waiting[i]
    /\ waiting' = RemoveAt(waiting, i)
    /\ step' = FirstStep(waiting[i])
    /\ raced' = raced \cup {d \in Device : driver[d] \notin {"none", "started"}}
    /\ UNCHANGED <<pending, requested, unacked, late, current, first, ignore, offline,
                   cmd, oldByte, reporting, driver, failVars>>

-----------------------------------------------------------------------------
(* To sleep. *)
SleepIgnore ==
    /\ step = "sleepIgnore"
    /\ ignore' = ignore + 1
    /\ SetCommandByte({}, IRQs, reporting)
    /\ unanswered' = {}         \* waking sets the devices up again
    /\ step' = "sleepMouse"
    /\ UNCHANGED <<pmVars, current, target, first, offline, oldByte, reporting, driver, raced>>

(* dispatchDriverPowerControl reaches a driver that installed its action. *)
HasPowerControl(d) == driver[d] \in {"started", "uninstalled"}

(* setKeyboardEnable(false), setTouchPadEnable(false): whether the device  *)
(* obeys is not looked at.                                                 *)
Disabled(d) ==
    IF Reachable(d) THEN {reporting, reporting \ {d}} ELSE {reporting}

\* Mutant: the queue is frozen before the drivers are told.
DisableDeviceOffline(d, next) ==
    /\ reporting' \in IF HasPowerControl(d) THEN Disabled(d) ELSE {reporting}
    /\ offline' = TRUE
    /\ step' = next
    /\ UNCHANGED <<pmVars, current, target, first, ignore, cmd, oldByte, driver, raced, failVars>>

DisableDevice(d, next) ==
    /\ reporting' \in IF HasPowerControl(d) THEN Disabled(d) ELSE {reporting}
    /\ step' = next
    /\ UNCHANGED <<pmVars, current, target, first, ignore, offline, cmd, oldByte, driver,
                   raced, failVars>>

SleepMouse == step = "sleepMouse" /\ DisableDevice("mouse", "sleepKeyboard")
SleepKeyboard == step = "sleepKeyboard" /\ DisableDevice("keyboard", "sleepOffline")

SleepOffline ==
    /\ step = "sleepOffline"
    /\ offline' = TRUE
    /\ SetCommandByte(ClocksOff, {}, reporting)
    /\ step' = "arrived"
    /\ UNCHANGED <<pmVars, current, target, first, ignore, oldByte, reporting, driver, raced, unanswered>>

-----------------------------------------------------------------------------
(* Awake again, after resetController. *)
\* Mutant: the drivers are called before the queue is unblocked.
WakeClocksOffline ==
    /\ step = "wakeClocks"
    /\ SetCommandByte({}, ClocksOff \cup IRQs, reporting)
    /\ step' = "wakeFirst"
    /\ UNCHANGED <<pmVars, current, target, first, ignore, offline, oldByte, reporting, driver, raced, unanswered>>

WakeClocks ==
    /\ step = "wakeClocks"
    /\ SetCommandByte({}, ClocksOff \cup IRQs, reporting)
    /\ offline' = FALSE
    /\ step' = "wakeFirst"
    /\ UNCHANGED <<pmVars, current, target, first, ignore, oldByte, reporting, driver, raced, unanswered>>

(* The driver's commands make the device report, or one of them fails and  *)
(* leaves it as it may be: initKeyboard and initTouchPad do not look.      *)
SetUp(d) ==
    \/ /\ reporting' = IF Reachable(d) THEN reporting \cup {d} ELSE reporting
       /\ unanswered' = unanswered \ {d}
    \/ /\ Reachable(d)
       /\ reporting' \in {reporting \ {d}, reporting \cup {d}}
       /\ unanswered' = unanswered \cup {d}

(* initKeyboard ends with a setCommandByte of its own, for the translation *)
(* mode, which writes what it has read if that bit was not set in it.      *)
InitDevice(d) ==
    /\ SetUp(d)
    /\ IF d = "keyboard"
       THEN /\ cmd' \in {cmd} \cup ReadBytes(cmd, reporting')
            /\ forgotten' = {e \in Device : IRQ(e) \in cmd \/ e \in forgotten}
                            \ {e \in Device : IRQ(e) \in cmd'}
       ELSE UNCHANGED <<cmd, forgotten>>

EnableDevice(d, next) ==
    /\ IF HasPowerControl(d) THEN InitDevice(d) ELSE UNCHANGED <<reporting, cmd, failVars>>
    /\ step' = next
    /\ UNCHANGED <<pmVars, current, target, first, ignore, offline, oldByte, driver, raced>>

WakeFirst == step = "wakeFirst" /\ EnableDevice(first, "wakeSecond")
WakeSecond ==
    /\ step = "wakeSecond"
    /\ EnableDevice(CHOOSE d \in Device : d # first, "wakeIRQs")

\* Mutant: interrupts are enabled but stay ignored.
WakeIRQsIgnored ==
    /\ step = "wakeIRQs"
    /\ SetCommandByte(IRQs, {}, reporting)
    /\ step' = "arrived"
    /\ UNCHANGED <<pmVars, current, target, first, ignore, offline, oldByte, reporting, driver, raced, unanswered>>

WakeIRQs ==
    /\ step = "wakeIRQs"
    /\ SetCommandByte(IRQs, {}, reporting)
    /\ ignore' = ignore - 1
    /\ step' = "arrived"
    /\ UNCHANGED <<pmVars, current, target, first, offline, oldByte, reporting, driver, raced, unanswered>>

(* The end of setPowerStateGated, changed or not: acknowledgeSetPowerState.*)
Acknowledge ==
    /\ step \in {"arrived", "acknowledge"}
    /\ current' = IF step = "arrived" THEN target ELSE current
    /\ unacked' = FALSE
    /\ step' = "free"
    /\ target' = "normal"       \* an argument no more
    /\ UNCHANGED <<pending, waiting, requested, late, first, ignore, offline, cmd,
                   oldByte, reporting, driver, raced, failVars>>

-----------------------------------------------------------------------------
(* The drivers' start and stop.  The controller is locked from before the  *)
(* device is initialised until its interrupt action is installed, and the  *)
(* power control action is installed after that.                           *)
Drive(d, from, to) ==
    /\ driver[d] = from /\ driver' = [driver EXCEPT ![d] = to]
    /\ raced' = IF step # "free" \/ current = "sleep" THEN raced \cup {d}
                ELSE IF from = "none" THEN raced \ {d} ELSE raced

StartDriver(d) ==
    /\ step = "free"
    /\ \A e \in Device : driver[e] # "initialised"
    /\ d = "mouse" => Reachable(d)      \* or identification fails
    /\ Drive(d, "none", "initialised")
    /\ InitDevice(d)
    /\ UNCHANGED <<pmVars, gateVars, oldByte>>

(* installInterruptAction *)
InstallInterrupt(d) ==
    /\ step = "free"
    /\ Drive(d, "initialised", "installed")
    /\ SetCommandByte({IRQ(d)}, {}, reporting)
    /\ UNCHANGED <<pmVars, gateVars, oldByte, reporting, unanswered>>

InstallPowerControl(d) ==
    /\ Drive(d, "installed", "started")
    /\ UNCHANGED <<pmVars, gateVars, cmd, oldByte, reporting, failVars>>

(* stop() and uninstallInterruptAction.  Only the keyboard's driver        *)
(* disables its device first.                                              *)
UninstallInterrupt(d) ==
    /\ step = "free"
    /\ Drive(d, "started", "uninstalled")
    /\ reporting' \in IF d = "keyboard" THEN Disabled(d) ELSE {reporting}
    /\ SetCommandByte({}, {IRQ(d)}, reporting')
    /\ unanswered' = unanswered \ {d}
    /\ UNCHANGED <<pmVars, gateVars, oldByte>>

UninstallPowerControl(d) ==
    /\ Drive(d, "uninstalled", "none")
    /\ UNCHANGED <<pmVars, gateVars, cmd, oldByte, reporting, failVars>>

-----------------------------------------------------------------------------
GateSteps ==
    \/ ResetRead \/ ResetWrite
    \/ SleepIgnore \/ SleepMouse \/ SleepKeyboard \/ SleepOffline
    \/ WakeClocks \/ WakeFirst \/ WakeSecond \/ WakeIRQs
    \/ Acknowledge

Drivers ==
    \E d \in Device :
        \/ StartDriver(d) \/ InstallInterrupt(d) \/ InstallPowerControl(d)
        \/ UninstallInterrupt(d) \/ UninstallPowerControl(d)

CalloutEnters == \E i \in DOMAIN waiting : EnterGate(i)

Next ==
    \/ \E o \in Ordinal : SetPowerState(o)
    \/ Callout \/ CalloutEnters \/ GateSteps
    \/ Drivers

Spec == Init /\ [][Next]_vars

(* Threads are scheduled and steps in the gate end; nobody need ask for    *)
(* another state, and no driver need start or stop.                        *)
FairSpec == Spec /\ WF_vars(Callout) /\ WF_vars(CalloutEnters) /\ WF_vars(GateSteps)

-----------------------------------------------------------------------------
Step == {"free", "resetRead", "resetWrite", "sleepIgnore", "sleepMouse", "sleepKeyboard",
         "sleepOffline", "wakeClocks", "wakeFirst", "wakeSecond", "wakeIRQs", "arrived",
         "acknowledge"}

TypeOK ==
    /\ pending \in Ordinal \cup {"none"}
    /\ waiting \in Seq(Ordinal)
    /\ requested \in Ordinal /\ unacked \in BOOLEAN /\ late \in 0 .. MaxLate
    /\ current \in Ordinal /\ target \in Ordinal
    /\ step \in Step /\ first \in Device
    /\ ignore \in 0 .. 1 /\ offline \in BOOLEAN
    /\ cmd \subseteq IRQs \cup ClocksOff /\ oldByte \subseteq IRQs \cup ClocksOff
    /\ reporting \subseteq Device
    /\ driver \in [Device -> {"none", "initialised", "installed", "started", "uninstalled"}]
    /\ raced \subseteq Device /\ unanswered \subseteq Device /\ forgotten \subseteq Device

(* Whenever the gate is free, the power state and the two flags agree, and *)
(* the clocks run if the machine is awake, however transitions followed    *)
(* each other and whatever the firmware did.                               *)
Settled ==
    step = "free" =>
        /\ current = "sleep" => ignore = 1 /\ offline
        /\ current # "sleep" => ignore = 0 /\ ~offline /\ cmd \cap ClocksOff = {}

(* "Clients can issue synchronous requests thanks to the recursive lock"   *)
(* (VoodooPS2Controller.cpp:1844): whenever a driver is called to disable  *)
(* or enable its device, the requests are served, the clocks run and no    *)
(* interrupt can take an answer, though before sleep, if the command byte  *)
(* was not read, the interrupt lines are still up.                         *)
ClientsCanTalk ==
    /\ step \in {"sleepMouse", "sleepKeyboard", "wakeFirst", "wakeSecond"} =>
          ~offline /\ ignore = 1 /\ cmd \cap ClocksOff = {}
    /\ step \in {"wakeFirst", "wakeSecond"} => cmd = {}

(* After each wake, and after each start, the devices that have a driver   *)
(* report their input and may interrupt, unless that driver started or     *)
(* stopped while the power state changed.  Two failures of the hardware    *)
(* stay unnoticed, each until the next wake: a request of a device's own   *)
(* last set-up, and a wrong reading of the command byte since the last     *)
(* wake, in the start or stop of either driver, which clears the bit of    *)
(* the other one too.                                                      *)
AwakeDevicesReport ==
    step = "free" /\ current # "sleep" =>
        \A d \in Device : driver[d] = "started" /\ d \notin raced =>
            /\ d \in reporting \cup unanswered
            /\ IRQ(d) \in cmd \/ d \in forgotten

(* Each state that power management asks for is reached, as long as it     *)
(* waits for the acknowledgement of the last one.                          *)
RequestedIsReached ==
    requested # current ~> requested = current \/ late > 0

(* "1. Make sure clocks are enabled, but IRQ lines held low."              *)
(* (VoodooPS2Controller.cpp:1837), which is done when the first driver is  *)
(* notified.                                                               *)
ClocksOnIRQsOff == step = "sleepMouse" => cmd = {}

(* "the IRQs are disabled (don't want interrupts), the clock line is       *)
(* enabled (want to be able to send commands)"                             *)
(* (VoodooPS2Controller.cpp:469): the known state resetController leaves.  *)
KnownState == [][ResetWrite => cmd' = {}]_vars

=============================================================================

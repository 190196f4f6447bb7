-------------------------- MODULE PowerStateProofs --------------------------
(***************************************************************************)
(* Proofs about PowerState for every number of acknowledgements that come  *)
(* late, and so for every number of callouts that wait for the gate.       *)
(***************************************************************************)
EXTENDS PowerState, TLAPS

-----------------------------------------------------------------------------
(* The inductive invariant: what the two flags and the command byte are at *)
(* each step in the gate.                                                  *)
FlagsAsleep == ignore = 1 /\ offline
FlagsAwake == ignore = 0 /\ ~offline
FlagsBetween == ignore = 1 /\ ~offline

Flags ==
    /\ step \in {"resetRead", "resetWrite", "free", "acknowledge"} =>
          IF current = "sleep" THEN FlagsAsleep ELSE FlagsAwake
    /\ step \in {"resetRead", "resetWrite"} /\ current = "sleep" => target # "sleep"
    /\ step = "sleepIgnore" => target = "sleep" /\ FlagsAwake
    /\ step \in {"sleepMouse", "sleepKeyboard", "sleepOffline"} =>
          target = "sleep" /\ FlagsBetween
    /\ step = "wakeClocks" => target # "sleep" /\ FlagsAsleep
    /\ step \in {"wakeFirst", "wakeSecond", "wakeIRQs"} => target # "sleep" /\ FlagsBetween
    /\ step = "arrived" => IF target = "sleep" THEN FlagsAsleep ELSE FlagsAwake

ClocksRun == cmd \cap ClocksOff = {}

Clocks ==
    /\ step = "resetWrite" => oldByte \cap ClocksOff = {}
    /\ step \in {"free", "acknowledge"} /\ current # "sleep" => ClocksRun
    /\ step = "arrived" /\ target # "sleep" => ClocksRun
    /\ step = "sleepIgnore" => ClocksRun
    /\ step \in {"sleepMouse", "sleepKeyboard"} => ClocksRun
    /\ step \in {"wakeClocks", "wakeFirst", "wakeSecond", "wakeIRQs"} => cmd = {}

IInv == TypeOK /\ Flags /\ (~Strays => Clocks)

-----------------------------------------------------------------------------
LEMMA RemoveAtType ==
    ASSUME NEW S, NEW s \in Seq(S), NEW i \in DOMAIN s
    PROVE  RemoveAt(s, i) \in Seq(S)
<1>1. SubSeq(s, 1, i - 1) \in Seq(S) /\ SubSeq(s, i + 1, Len(s)) \in Seq(S)
  OBVIOUS
<1>2. QED
  BY <1>1 DEF RemoveAt

(* A read of the command byte returns four bits, and those there are, or   *)
(* none, if there are no strays.                                           *)
LEMMA ReadBytesRange ==
    ASSUME NEW b \in SUBSET (IRQs \cup ClocksOff), NEW active
    PROVE  /\ ReadBytes(b, active) \subseteq SUBSET (IRQs \cup ClocksOff)
           /\ ~Strays => ReadBytes(b, active) = {b, {}}
BY StraysAssumption DEF ReadBytes

LEMMA InitIInv == Init => IInv
<1> SUFFICES ASSUME Init PROVE IInv
  OBVIOUS
<1>1. waiting \in Seq(Ordinal) /\ first \in Device
  BY DEF Init
<1>2. TypeOK
  <2>1. /\ cmd \subseteq IRQs \cup ClocksOff /\ oldByte \subseteq IRQs \cup ClocksOff
        /\ reporting \subseteq Device /\ raced \subseteq Device
        /\ unanswered \subseteq Device /\ forgotten \subseteq Device
    BY DEF Init
  <2>2. driver \in [Device -> {"none", "initialised", "installed", "started", "uninstalled"}]
    BY DEF Init
  <2>3. /\ pending \in Ordinal \cup {"none"} /\ requested \in Ordinal /\ unacked \in BOOLEAN
        /\ current \in Ordinal /\ target \in Ordinal /\ offline \in BOOLEAN
    BY DEF Init, Ordinal
  <2>4. late \in 0 .. MaxLate /\ ignore \in 0 .. 1 /\ step \in Step
    BY MaxLateAssumption DEF Init, Step
  <2>5. QED
    BY <1>1, <2>1, <2>2, <2>3, <2>4 DEF TypeOK
<1>3. Flags
  BY DEF Init, Flags, FlagsAwake
<1>4. Clocks
  BY DEF Init, Clocks
<1>5. QED
  BY <1>2, <1>3, <1>4 DEF IInv

-----------------------------------------------------------------------------
(* The command byte and the drivers do not enter into Flags; what leaves   *)
(* the gate's variables alone leaves Flags as it is.                       *)
LEMMA FlagsKept == Flags /\ UNCHANGED gateVars => Flags'
BY DEF Flags, gateVars, FlagsAsleep, FlagsAwake, FlagsBetween

LEMMA ClocksKept == Clocks /\ UNCHANGED <<gateVars, cmd, oldByte>> => Clocks'
BY DEF Clocks, gateVars, ClocksRun

LEMMA PowerManagementStep ==
    ASSUME IInv, NEW o \in Ordinal, SetPowerState(o) \/ Callout
    PROVE  IInv'
<1>1. UNCHANGED <<gateVars, cmd, oldByte, reporting, driver, raced, failVars>>
  BY DEF SetPowerState, Callout
<1>2. TypeOK'
  <2>1. CASE SetPowerState(o)
    BY <2>1, MaxLateAssumption DEF IInv, SetPowerState, TypeOK, gateVars, failVars
  <2>2. CASE Callout
    BY <2>2 DEF IInv, Callout, TypeOK, gateVars, failVars
  <2>3. QED
    BY <2>1, <2>2
<1>3. QED
  BY <1>1, <1>2, FlagsKept, ClocksKept DEF IInv

LEMMA EnterGateStep ==
    ASSUME IInv, NEW i \in DOMAIN waiting, EnterGate(i)
    PROVE  IInv'
<1>1. waiting[i] \in Ordinal /\ RemoveAt(waiting, i) \in Seq(Ordinal)
  BY RemoveAtType DEF IInv, TypeOK
<1>2. TypeOK'
  BY <1>1 DEF IInv, TypeOK, EnterGate, FirstStep, Step, failVars
<1>3. Flags'
  BY <1>1 DEF IInv, Flags, FlagsAsleep, FlagsAwake, FlagsBetween, EnterGate, FirstStep
<1>4. Clocks => Clocks'
  BY <1>1 DEF Clocks, ClocksRun, EnterGate, FirstStep
<1>5. QED
  BY <1>2, <1>3, <1>4 DEF IInv

-----------------------------------------------------------------------------
(* What the gate's steps do to the command byte. *)
LEMMA SetCommandByteEffect ==
    ASSUME TypeOK, NEW set \in SUBSET (IRQs \cup ClocksOff), NEW clear, NEW active,
           SetCommandByte(set, clear, active)
    PROVE  /\ cmd' \subseteq IRQs \cup ClocksOff /\ forgotten' \subseteq Device
           /\ ~Strays => cmd' \in {cmd, (cmd \cup set) \ clear, set \ clear}
           /\ ~Strays /\ cmd = {} => cmd' = set \ clear
<1>1. cmd \in SUBSET (IRQs \cup ClocksOff)
  BY DEF TypeOK
<1>2. PICK b \in ReadBytes(cmd, active) :
        cmd' = IF (b \cup set) \ clear = b THEN cmd ELSE (b \cup set) \ clear
  BY DEF SetCommandByte
<1>3. b \subseteq IRQs \cup ClocksOff /\ (~Strays => b = cmd \/ b = {})
  BY <1>1, ReadBytesRange
<1>4. forgotten' \subseteq Device
  BY DEF SetCommandByte
<1>5. QED
  BY <1>1, <1>2, <1>3, <1>4

LEMMA InitDeviceEffect ==
    ASSUME TypeOK, NEW d \in Device, InitDevice(d)
    PROVE  /\ cmd' \subseteq IRQs \cup ClocksOff
           /\ reporting' \subseteq Device /\ unanswered' \subseteq Device
           /\ forgotten' \subseteq Device
           /\ ~Strays => cmd' \in {cmd, {}}
<1>1. cmd \in SUBSET (IRQs \cup ClocksOff)
  BY DEF TypeOK
<1>2. reporting' \subseteq Device /\ unanswered' \subseteq Device
  BY DEF TypeOK, InitDevice, SetUp
<1>3. cmd' \in {cmd} \cup ReadBytes(cmd, reporting')
  BY DEF InitDevice
<1>4. forgotten' \subseteq Device
  BY DEF TypeOK, InitDevice
<1>5. QED
  BY <1>1, <1>2, <1>3, <1>4, ReadBytesRange

(* resetController: whatever it finds, the clock bits are cleared first.   *)
LEMMA ResetStep ==
    ASSUME IInv, ResetRead \/ ResetWrite
    PROVE  IInv'
<1>1. CASE ResetRead
  <2>1. cmd' \subseteq IRQs \cup ClocksOff /\ reporting' \subseteq Device
    BY <1>1 DEF IInv, TypeOK, ResetRead, FoundCmd, FoundReporting
  <2>2. cmd' \in SUBSET (IRQs \cup ClocksOff) /\ cmd' \cap ClocksOff = {}
    BY <2>1, <1>1 DEF ResetRead
  <2>3. oldByte' \subseteq IRQs \cup ClocksOff /\ (~Strays => oldByte' \subseteq cmd')
    BY <2>2, <1>1, ReadBytesRange DEF ResetRead
  <2>4. TypeOK'
    BY <2>1, <2>3, <1>1 DEF IInv, TypeOK, ResetRead, pmVars, failVars, Step
  <2>5. Flags'
    BY <1>1 DEF IInv, Flags, FlagsAsleep, FlagsAwake, ResetRead
  <2>6. ~Strays => Clocks'
    BY <2>2, <2>3, <1>1 DEF Clocks, ResetRead
  <2>7. QED
    BY <2>4, <2>5, <2>6 DEF IInv
<1>2. CASE ResetWrite
  <2>1. TypeOK'
    BY <1>2 DEF IInv, TypeOK, ResetWrite, pmVars, failVars, Step
  <2>2. Flags'
    BY <1>2 DEF IInv, Flags, FlagsAsleep, FlagsAwake, ResetWrite
  <2>3. Clocks => Clocks'
    <3> SUFFICES ASSUME Clocks PROVE Clocks'
      OBVIOUS
    <3>1. cmd' = {}
      BY <1>2 DEF IInv, TypeOK, Clocks, ResetWrite, ClocksOff
    <3>2. QED
      BY <3>1, <1>2 DEF Clocks, ClocksRun, ResetWrite
  <2>4. QED
    BY <2>1, <2>2, <2>3 DEF IInv
<1>3. QED
  BY <1>1, <1>2

LEMMA SleepStep ==
    ASSUME IInv, SleepIgnore \/ SleepMouse \/ SleepKeyboard \/ SleepOffline
    PROVE  IInv'
<1>1. CASE SleepIgnore
  <2>1. /\ cmd' \subseteq IRQs \cup ClocksOff /\ forgotten' \subseteq Device
        /\ ~Strays => cmd' \subseteq cmd
    <3>1. /\ cmd' \subseteq IRQs \cup ClocksOff /\ forgotten' \subseteq Device
          /\ ~Strays => cmd' \in {cmd, (cmd \cup {}) \ IRQs, {} \ IRQs}
      BY <1>1, SetCommandByteEffect DEF IInv, SleepIgnore
    <3>2. QED
      BY <3>1
  <2>2. TypeOK'
    BY <2>1, <1>1 DEF IInv, TypeOK, Flags, FlagsAwake, SleepIgnore, pmVars, Step
  <2>3. Flags'
    BY <1>1 DEF IInv, Flags, FlagsAwake, FlagsBetween, SleepIgnore
  <2>4. ~Strays => Clocks'
    BY <2>1, <1>1 DEF IInv, TypeOK, Clocks, ClocksRun, SleepIgnore
  <2>5. QED
    BY <2>2, <2>3, <2>4 DEF IInv
<1>2. CASE SleepMouse \/ SleepKeyboard
  <2>1. TypeOK'
    BY <1>2 DEF IInv, TypeOK, SleepMouse, SleepKeyboard, DisableDevice, Disabled, pmVars, failVars, Step
  <2>2. Flags'
    BY <1>2 DEF IInv, Flags, FlagsBetween, SleepMouse, SleepKeyboard, DisableDevice
  <2>3. Clocks => Clocks'
    BY <1>2 DEF Clocks, ClocksRun, SleepMouse, SleepKeyboard, DisableDevice
  <2>4. QED
    BY <2>1, <2>2, <2>3 DEF IInv
<1>3. CASE SleepOffline
  <2>1. cmd' \subseteq IRQs \cup ClocksOff /\ forgotten' \subseteq Device
    BY <1>3, SetCommandByteEffect DEF IInv, SleepOffline
  <2>2. TypeOK'
    BY <2>1, <1>3 DEF IInv, TypeOK, SleepOffline, pmVars, Step
  <2>3. Flags'
    BY <1>3 DEF IInv, Flags, FlagsAsleep, FlagsBetween, SleepOffline
  <2>4. Clocks'
    BY <1>3 DEF IInv, Flags, Clocks, SleepOffline
  <2>5. QED
    BY <2>2, <2>3, <2>4 DEF IInv
<1>4. QED
  BY <1>1, <1>2, <1>3

LEMMA WakeStep ==
    ASSUME IInv, WakeClocks \/ WakeFirst \/ WakeSecond \/ WakeIRQs
    PROVE  IInv'
<1>1. CASE WakeClocks
  <2>1. /\ cmd' \subseteq IRQs \cup ClocksOff /\ forgotten' \subseteq Device
        /\ ~Strays /\ cmd = {} => cmd' = {} \ (ClocksOff \cup IRQs)
    BY <1>1, SetCommandByteEffect DEF IInv, WakeClocks
  <2>2. TypeOK'
    BY <2>1, <1>1 DEF IInv, TypeOK, WakeClocks, pmVars, Step
  <2>3. Flags'
    BY <1>1 DEF IInv, Flags, FlagsAsleep, FlagsBetween, WakeClocks
  <2>4. ~Strays => Clocks'
    <3>1. ~Strays => cmd' = {}
      BY <2>1, <1>1 DEF IInv, Clocks, WakeClocks
    <3>2. QED
      BY <3>1, <1>1 DEF Clocks, WakeClocks
  <2>5. QED
    BY <2>2, <2>3, <2>4 DEF IInv
<1>2. ASSUME NEW d \in Device, NEW next \in {"wakeSecond", "wakeIRQs"},
             step \in {"wakeFirst", "wakeSecond"}, EnableDevice(d, next)
      PROVE  IInv'
  <2>1. /\ cmd' \subseteq IRQs \cup ClocksOff /\ reporting' \subseteq Device
        /\ unanswered' \subseteq Device /\ forgotten' \subseteq Device
        /\ ~Strays => cmd' \in {cmd, {}}
    BY <1>2, InitDeviceEffect DEF IInv, TypeOK, EnableDevice, failVars
  <2>2. TypeOK'
    BY <2>1, <1>2 DEF IInv, TypeOK, EnableDevice, pmVars, Step
  <2>3. Flags'
    BY <1>2 DEF IInv, Flags, FlagsBetween, EnableDevice
  <2>4. ~Strays => Clocks'
    BY <2>1, <1>2 DEF IInv, Clocks, EnableDevice
  <2>5. QED
    BY <2>2, <2>3, <2>4 DEF IInv
<1>3. CASE WakeFirst
  BY <1>2, <1>3 DEF WakeFirst, IInv, TypeOK
<1>4. CASE WakeSecond
  <2>1. (CHOOSE d \in Device : d # first) \in Device
    BY DEF IInv, TypeOK, Device
  <2>2. QED
    BY <1>2, <1>4, <2>1 DEF WakeSecond
<1>5. CASE WakeIRQs
  <2>1. /\ cmd' \subseteq IRQs \cup ClocksOff /\ forgotten' \subseteq Device
        /\ ~Strays /\ cmd = {} => cmd' = IRQs \ {}
    BY <1>5, SetCommandByteEffect DEF IInv, WakeIRQs
  <2>2. TypeOK'
    BY <2>1, <1>5 DEF IInv, TypeOK, Flags, FlagsBetween, WakeIRQs, pmVars, Step
  <2>3. Flags'
    BY <1>5 DEF IInv, Flags, FlagsAwake, FlagsBetween, WakeIRQs
  <2>4. ~Strays => Clocks'
    BY <2>1, <1>5 DEF IInv, Clocks, ClocksRun, WakeIRQs, IRQs, ClocksOff
  <2>5. QED
    BY <2>2, <2>3, <2>4 DEF IInv
<1>6. QED
  BY <1>1, <1>3, <1>4, <1>5

LEMMA AcknowledgeStep ==
    ASSUME IInv, Acknowledge
    PROVE  IInv'
<1>1. TypeOK'
  BY DEF IInv, TypeOK, Acknowledge, failVars, Ordinal, Step
<1>2. Flags'
  BY DEF IInv, Flags, FlagsAsleep, FlagsAwake, Acknowledge
<1>3. Clocks => Clocks'
  BY DEF Clocks, ClocksRun, Acknowledge
<1>4. QED
  BY <1>1, <1>2, <1>3 DEF IInv

-----------------------------------------------------------------------------
LEMMA DriverStep ==
    ASSUME IInv, NEW d \in Device,
           \/ StartDriver(d) \/ InstallInterrupt(d) \/ InstallPowerControl(d)
           \/ UninstallInterrupt(d) \/ UninstallPowerControl(d)
    PROVE  IInv'
<1>1. UNCHANGED <<pmVars, gateVars, oldByte>>
  BY DEF StartDriver, InstallInterrupt, InstallPowerControl, UninstallInterrupt,
         UninstallPowerControl
<1>2. driver' \in [Device -> {"none", "initialised", "installed", "started", "uninstalled"}]
      /\ raced' \subseteq Device
  BY DEF IInv, TypeOK, Drive, StartDriver, InstallInterrupt, InstallPowerControl,
         UninstallInterrupt, UninstallPowerControl
<1>3. /\ cmd' \subseteq IRQs \cup ClocksOff /\ reporting' \subseteq Device
      /\ unanswered' \subseteq Device /\ forgotten' \subseteq Device
      /\ ~Strays => cmd' = cmd \/ (step = "free" /\ cmd' \subseteq cmd \cup {IRQ(d)})
  <2>1. CASE StartDriver(d)
    BY <2>1, InitDeviceEffect DEF IInv, StartDriver
  <2>2. CASE InstallInterrupt(d)
    <3>1. {IRQ(d)} \in SUBSET (IRQs \cup ClocksOff)
      BY DEF IRQ, IRQs
    <3>2. SetCommandByte({IRQ(d)}, {}, reporting)
      BY <2>2 DEF InstallInterrupt
    <3>3. /\ cmd' \subseteq IRQs \cup ClocksOff /\ forgotten' \subseteq Device
          /\ ~Strays => cmd' \in {cmd, (cmd \cup {IRQ(d)}) \ {}, {IRQ(d)} \ {}}
      BY <3>1, <3>2, SetCommandByteEffect DEF IInv
    <3>4. QED
      BY <2>2, <3>3 DEF IInv, TypeOK, InstallInterrupt
  <2>3. CASE UninstallInterrupt(d)
    <3>1. SetCommandByte({}, {IRQ(d)}, reporting')
      BY <2>3 DEF UninstallInterrupt
    <3>2. /\ cmd' \subseteq IRQs \cup ClocksOff /\ forgotten' \subseteq Device
          /\ ~Strays => cmd' \in {cmd, (cmd \cup {}) \ {IRQ(d)}, {} \ {IRQ(d)}}
      BY <3>1, SetCommandByteEffect DEF IInv
    <3>3. reporting' \subseteq Device /\ unanswered' \subseteq Device /\ step = "free"
      BY <2>3 DEF UninstallInterrupt, Disabled, IInv, TypeOK
    <3>4. QED
      BY <3>2, <3>3
  <2>4. CASE InstallPowerControl(d) \/ UninstallPowerControl(d)
    BY <2>4 DEF IInv, TypeOK, InstallPowerControl, UninstallPowerControl, failVars
  <2>5. QED
    BY <2>1, <2>2, <2>3, <2>4
<1>4. TypeOK'
  BY <1>1, <1>2, <1>3 DEF IInv, TypeOK, pmVars, gateVars
<1>5. Flags'
  BY <1>1, FlagsKept DEF IInv
<1>6. ~Strays => Clocks'
  <2>1. CASE cmd' = cmd
    BY <1>1, <2>1, ClocksKept DEF IInv
  <2>2. CASE step = "free" /\ cmd' \cap ClocksOff \subseteq cmd \cap ClocksOff
    BY <1>1, <2>2 DEF IInv, Clocks, ClocksRun, gateVars
  <2>3. IRQ(d) \notin ClocksOff
    BY DEF IRQ, ClocksOff
  <2>4. QED
    BY <1>3, <2>1, <2>2, <2>3
<1>7. QED
  BY <1>4, <1>5, <1>6 DEF IInv

LEMMA StepIInv == IInv /\ [Next]_vars => IInv'
<1> SUFFICES ASSUME IInv, [Next]_vars PROVE IInv'
  OBVIOUS
<1>1. CASE \E o \in Ordinal : SetPowerState(o)
  BY <1>1, PowerManagementStep
<1>2. CASE Callout
  BY <1>2, PowerManagementStep DEF Ordinal
<1>3. CASE CalloutEnters
  BY <1>3, EnterGateStep DEF CalloutEnters
<1>4. CASE GateSteps
  BY <1>4, ResetStep, SleepStep, WakeStep, AcknowledgeStep DEF GateSteps
<1>5. CASE Drivers
  BY <1>5, DriverStep DEF Drivers
<1>6. CASE UNCHANGED vars
  <2>1. TypeOK'
    BY <1>6 DEF IInv, TypeOK, vars, pmVars, gateVars, failVars
  <2>2. QED
    BY <1>6, <2>1, FlagsKept, ClocksKept DEF IInv, vars
<1>7. QED
  BY <1>1, <1>2, <1>3, <1>4, <1>5, <1>6 DEF Next

(* IInv holds in every state, strays or not. *)
THEOREM PowerInvariance == Spec => []IInv
BY InitIInv, StepIInv, PTL DEF Spec

(* The variables keep their types; above all, _ignoreInterrupts is never   *)
(* taken below 0 or above 1 by any sequence of power changes.              *)
THEOREM PowerTypeCorrect == Spec => []TypeOK
<1>1. IInv => TypeOK
  BY DEF IInv
<1>2. QED
  BY <1>1, PowerInvariance, PTL

(* Power state, flags and clocks agree whenever the gate is free, however  *)
(* many callouts pile up, if no scan code is read as the command byte.     *)
THEOREM SettledHolds == ~Strays => (Spec => []Settled)
<1> SUFFICES ASSUME ~Strays PROVE Spec => []Settled
  OBVIOUS
<1>1. IInv => Settled
  BY DEF IInv, Flags, FlagsAsleep, FlagsAwake, Clocks, ClocksRun, Settled
<1>2. QED
  BY <1>1, PowerInvariance, PTL

(* Drivers are only called when their requests are served.                 *)
THEOREM ClientsCanTalkHolds == ~Strays => (Spec => []ClientsCanTalk)
<1> SUFFICES ASSUME ~Strays PROVE Spec => []ClientsCanTalk
  OBVIOUS
<1>1. IInv => ClientsCanTalk
  BY DEF IInv, Flags, FlagsBetween, Clocks, ClocksRun, ClientsCanTalk
<1>2. QED
  BY <1>1, PowerInvariance, PTL

-----------------------------------------------------------------------------
(* AwakeDevicesReport.  Of a driver that no power change has met, what it  *)
(* and the power changes have achieved so far; before the first reset is   *)
(* over there is no driver.                                                *)
SettledAwake ==
    \/ step \in {"free", "acknowledge"} /\ current # "sleep"
    \/ step = "arrived" /\ target # "sleep"

IsSetUp(d) == d \in reporting \cup unanswered
Interrupts(d) == IRQ(d) \in cmd \/ d \in forgotten

Reports(d) ==
    /\ driver[d] = "started" /\ SettledAwake => IsSetUp(d) /\ Interrupts(d)
    /\ driver[d] = "started" /\ step = "wakeSecond" /\ first = d => IsSetUp(d)
    /\ driver[d] = "started" /\ step = "wakeIRQs" => IsSetUp(d)
    /\ driver[d] \in {"initialised", "installed"} =>
          step = "free" /\ current # "sleep" /\ IsSetUp(d)
    /\ driver[d] = "installed" => Interrupts(d)

NoDriverYet ==
    step \in {"resetRead", "resetWrite"} /\ current # "sleep" =>
        \A d \in Device : driver[d] = "none"

ReportInv == NoDriverYet /\ \A d \in Device : d \notin raced => Reports(d)

-----------------------------------------------------------------------------
LEMMA InitReportInv == Init => ReportInv
BY DEF Init, ReportInv, NoDriverYet, Reports, IsSetUp, Interrupts, SettledAwake

LEMMA ReportsOrders ==
    ASSUME ReportInv, NEW o \in Ordinal, SetPowerState(o) \/ Callout
    PROVE  ReportInv'
BY DEF SetPowerState, Callout, gateVars, failVars, ReportInv, NoDriverYet, Reports, IsSetUp, Interrupts, SettledAwake

(* A driver that is half started or stopped is marked, and so excepted. *)
LEMMA ReportsEnterGate ==
    ASSUME IInv, ReportInv, NEW i \in DOMAIN waiting, EnterGate(i)
    PROVE  ReportInv'
<1>1. waiting[i] \in Ordinal
  BY DEF IInv, TypeOK
<1>2. NoDriverYet'
  BY <1>1 DEF EnterGate, FirstStep, NoDriverYet
<1>3. ASSUME NEW d \in Device, d \notin raced' PROVE Reports(d)'
  <2>1. d \notin raced /\ driver[d] \in {"none", "started"}
    BY <1>3 DEF EnterGate
  <2>2. QED
    BY <1>1, <2>1 DEF EnterGate, FirstStep, failVars, ReportInv, Reports, IsSetUp, Interrupts,
      SettledAwake
<1>4. QED
  BY <1>2, <1>3 DEF ReportInv

LEMMA ReportsReset ==
    ASSUME IInv, ReportInv, ResetRead \/ ResetWrite
    PROVE  ReportInv'
<1>1. UNCHANGED <<current, target, driver, raced>>
  BY DEF ResetRead, ResetWrite
<1>2. NoDriverYet'
  BY <1>1 DEF ReportInv, NoDriverYet, ResetRead, ResetWrite
<1>3. ASSUME NEW d \in Device, d \notin raced' PROVE Reports(d)'
  <2>1. d \notin raced /\ driver[d] \notin {"initialised", "installed"}
    BY <1>1, <1>3 DEF ReportInv, Reports, ResetRead, ResetWrite
  <2>2. current # "sleep" => driver[d] = "none"
    BY DEF ReportInv, NoDriverYet, ResetRead, ResetWrite
  <2>3. step' \in {"resetWrite", "wakeClocks"} \/ (step' = "free" /\ current # "sleep")
    BY DEF ResetRead, ResetWrite
  <2>4. QED
    BY <1>1, <2>1, <2>2, <2>3 DEF Reports, SettledAwake
<1>4. QED
  BY <1>2, <1>3 DEF ReportInv

(* Going to sleep, nothing is promised but that drivers are whole. *)
LEMMA ReportsSleep ==
    ASSUME IInv, ReportInv, SleepIgnore \/ SleepMouse \/ SleepKeyboard \/ SleepOffline
    PROVE  ReportInv'
<1>1. UNCHANGED <<current, target, driver, raced>>
  BY DEF SleepIgnore, SleepMouse, SleepKeyboard, DisableDevice, SleepOffline
<1>2. /\ step # "free" /\ target = "sleep"
      /\ step' \in {"sleepMouse", "sleepKeyboard", "sleepOffline", "arrived"}
  BY DEF IInv, Flags, SleepIgnore, SleepMouse, SleepKeyboard, DisableDevice, SleepOffline
<1>3. NoDriverYet'
  BY <1>2 DEF NoDriverYet
<1>4. ASSUME NEW d \in Device, d \notin raced' PROVE Reports(d)'
  BY <1>1, <1>2, <1>4 DEF ReportInv, Reports, SettledAwake
<1>5. QED
  BY <1>3, <1>4 DEF ReportInv

(* Waking, the first driver makes its device report, then the second; what *)
(* reports goes on reporting, and at last both may interrupt.              *)
LEMMA EnableReports ==
    ASSUME NEW d \in Device, NEW next, IInv, ~Strays, driver[d] = "started",
           step \in {"wakeFirst", "wakeSecond"}, EnableDevice(d, next)
    PROVE  IsSetUp(d)'
<1>1. Reachable(d)
  BY StraysAssumption DEF IInv, Flags, FlagsBetween, Clocks, Reachable
<1>2. QED
  BY <1>1 DEF EnableDevice, InitDevice, SetUp, HasPowerControl, IsSetUp

(* What a device owes to its set-up, the set-up of the other one keeps;    *)
(* and a wrong reading forgets no bit that is not noted.                   *)
LEMMA SetUpKept ==
    ASSUME NEW d \in Device, NEW e \in Device, e # d, SetUp(d), IsSetUp(e)
    PROVE  IsSetUp(e)'
BY DEF SetUp, IsSetUp

LEMMA BitKept ==
    ASSUME NEW set, NEW clear, NEW active, SetCommandByte(set, clear, active),
           NEW e \in Device, IRQ(e) \notin clear, Interrupts(e)
    PROVE  Interrupts(e)'
BY DEF SetCommandByte, Interrupts

LEMMA InitBitKept ==
    ASSUME NEW d \in Device, InitDevice(d), NEW e \in Device, Interrupts(e)
    PROVE  Interrupts(e)'
BY DEF InitDevice, Interrupts

LEMMA ReportsWake ==
    ASSUME IInv, ~Strays, ReportInv, WakeClocks \/ WakeFirst \/ WakeSecond \/ WakeIRQs
    PROVE  ReportInv'
<1>1. UNCHANGED <<current, target, first, driver, raced>>
  BY DEF WakeClocks, WakeFirst, WakeSecond, EnableDevice, WakeIRQs
<1>2. /\ step \in {"wakeClocks", "wakeFirst", "wakeSecond", "wakeIRQs"}
      /\ step' \in {"wakeFirst", "wakeSecond", "wakeIRQs", "arrived"}
  BY DEF WakeClocks, WakeFirst, WakeSecond, EnableDevice, WakeIRQs
<1>3. NoDriverYet'
  BY <1>2 DEF NoDriverYet
<1>4. ASSUME NEW d \in Device, d \notin raced' PROVE Reports(d)'
  <2>1. Reports(d) /\ driver[d] \notin {"initialised", "installed"}
    BY <1>1, <1>2, <1>4 DEF ReportInv, Reports
  <2>2. CASE WakeClocks
    BY <1>1, <2>1, <2>2 DEF WakeClocks, Reports, SettledAwake
  <2>3. CASE WakeFirst
    <3>1. step' = "wakeSecond"
      BY <2>3 DEF WakeFirst, EnableDevice
    <3>2. driver[d] = "started" /\ first = d => IsSetUp(d)'
      BY <2>3, EnableReports DEF WakeFirst
    <3>3. QED
      BY <1>1, <2>1, <3>1, <3>2 DEF Reports, SettledAwake
  <2>4. CASE WakeSecond
    <3>1. step' = "wakeIRQs"
      BY <2>4 DEF WakeSecond, EnableDevice
    <3>2. PICK o \in Device : o # first /\ EnableDevice(o, "wakeIRQs") /\ step = "wakeSecond"
      BY <2>4 DEF WakeSecond, IInv, TypeOK, Device
    <3>3. ASSUME first = d, driver[d] = "started" PROVE IsSetUp(d)'
      <4>1. IsSetUp(d)
        BY <2>1, <3>2, <3>3 DEF Reports
      <4>2. CASE HasPowerControl(o)
        BY <3>2, <3>3, <4>1, <4>2, SetUpKept DEF EnableDevice, InitDevice
      <4>3. CASE ~HasPowerControl(o)
        BY <3>2, <4>1, <4>3 DEF EnableDevice, failVars, IsSetUp
      <4>4. QED
        BY <4>2, <4>3
    <3>4. ASSUME first # d, driver[d] = "started" PROVE IsSetUp(d)'
      <4>1. d = o
        BY <3>2, <3>4 DEF IInv, TypeOK, Device
      <4>2. QED
        BY <3>2, <3>4, <4>1, EnableReports
    <3>5. QED
      BY <1>1, <2>1, <3>1, <3>3, <3>4 DEF Reports, SettledAwake
  <2>5. CASE WakeIRQs
    <3>1. reporting' = reporting /\ unanswered' = unanswered /\ step' = "arrived" /\ step = "wakeIRQs"
      BY <2>5 DEF WakeIRQs
    <3>2. cmd = {}
      BY <3>1 DEF IInv, Clocks
    <3>3. SetCommandByte(IRQs, {}, reporting) /\ IRQs \in SUBSET (IRQs \cup ClocksOff)
      BY <2>5 DEF WakeIRQs
    <3>4. cmd' = IRQs \ {}
      BY <3>2, <3>3, SetCommandByteEffect DEF IInv
    <3>5. Interrupts(d)'
      BY <3>4 DEF Interrupts, IRQ, IRQs
    <3>6. IsSetUp(d)' <=> IsSetUp(d)
      BY <3>1 DEF IsSetUp
    <3>7. QED
      BY <1>1, <2>1, <3>1, <3>5, <3>6 DEF Reports, SettledAwake
  <2>6. QED
    BY <2>2, <2>3, <2>4, <2>5
<1>5. QED
  BY <1>3, <1>4 DEF ReportInv

LEMMA ReportsAcknowledge ==
    ASSUME IInv, ReportInv, Acknowledge
    PROVE  ReportInv'
<1>1. NoDriverYet'
  BY DEF Acknowledge, NoDriverYet
<1>2. ASSUME NEW d \in Device, d \notin raced' PROVE Reports(d)'
  BY <1>2 DEF Acknowledge, ReportInv, Reports, SettledAwake, failVars, IsSetUp, Interrupts
<1>3. QED
  BY <1>1, <1>2 DEF ReportInv

-----------------------------------------------------------------------------
(* A driver that starts or stops does not disturb the other one. *)
LEMMA OtherDriver ==
    ASSUME ReportInv, NEW d \in Device, NEW from, NEW to, Drive(d, from, to),
           UNCHANGED gateVars, IInv,
           NEW e \in Device, e # d, e \notin raced',
           IsSetUp(e) => IsSetUp(e)', Interrupts(e) => Interrupts(e)'
    PROVE  Reports(e)'
<1>1. e \notin raced /\ driver'[e] = driver[e]
  BY DEF Drive, IInv, TypeOK
<1>2. QED
  BY <1>1 DEF ReportInv, Reports, SettledAwake, gateVars

LEMMA NoDriverYetKept ==
    ASSUME IInv, ReportInv, UNCHANGED gateVars, NEW d \in Device, NEW from, NEW to,
           Drive(d, from, to), step = "free" \/ from # "none"
    PROVE  NoDriverYet'
BY DEF ReportInv, NoDriverYet, Drive, gateVars

LEMMA ReportsDriver ==
    ASSUME IInv, ~Strays, ReportInv, NEW d \in Device,
           \/ StartDriver(d) \/ InstallInterrupt(d) \/ InstallPowerControl(d)
           \/ UninstallInterrupt(d) \/ UninstallPowerControl(d)
    PROVE  ReportInv'
<1>1. UNCHANGED gateVars
  BY DEF StartDriver, InstallInterrupt, InstallPowerControl, UninstallInterrupt,
         UninstallPowerControl
<1>2. NoDriverYet'
  BY <1>1, NoDriverYetKept DEF StartDriver, InstallInterrupt, InstallPowerControl,
         UninstallInterrupt, UninstallPowerControl
<1>3. cmd \in SUBSET (IRQs \cup ClocksOff)
  BY DEF IInv, TypeOK
<1>4. ASSUME NEW e \in Device, e # d, e \notin raced' PROVE Reports(e)'
  <2>1. IRQ(e) # IRQ(d)
    BY <1>4 DEF IRQ, Device
  <2>2. CASE StartDriver(d)
    <3>1. InitDevice(d) /\ SetUp(d)
      BY <2>2 DEF StartDriver, InitDevice
    <3>2. (IsSetUp(e) => IsSetUp(e)') /\ (Interrupts(e) => Interrupts(e)')
      BY <1>4, <3>1, SetUpKept, InitBitKept
    <3>3. QED
      BY <1>1, <1>4, <2>2, <3>2, OtherDriver DEF StartDriver
  <2>3. CASE InstallInterrupt(d)
    <3>1. Interrupts(e) => Interrupts(e)'
      BY <2>3, BitKept DEF InstallInterrupt
    <3>2. IsSetUp(e) => IsSetUp(e)'
      BY <2>3 DEF InstallInterrupt, IsSetUp
    <3>3. QED
      BY <1>1, <1>4, <2>3, <3>1, <3>2, OtherDriver DEF InstallInterrupt
  <2>4. CASE UninstallInterrupt(d)
    <3>1. Interrupts(e) => Interrupts(e)'
      BY <2>1, <2>4, BitKept DEF UninstallInterrupt
    <3>2. IsSetUp(e) => IsSetUp(e)'
      BY <1>4, <2>4 DEF UninstallInterrupt, Disabled, IsSetUp
    <3>3. QED
      BY <1>1, <1>4, <2>4, <3>1, <3>2, OtherDriver DEF UninstallInterrupt
  <2>5. CASE InstallPowerControl(d) \/ UninstallPowerControl(d)
    <3>1. (IsSetUp(e) => IsSetUp(e)') /\ (Interrupts(e) => Interrupts(e)')
      BY <2>5 DEF InstallPowerControl, UninstallPowerControl, failVars, IsSetUp, Interrupts
    <3>2. QED
      BY <1>1, <1>4, <2>5, <3>1, OtherDriver DEF InstallPowerControl, UninstallPowerControl
  <2>6. QED
    BY <2>2, <2>3, <2>4, <2>5
<1>5. ASSUME d \notin raced' PROVE Reports(d)'
  <2>1. step = "free" /\ current # "sleep"
    BY <1>5 DEF Drive, StartDriver, InstallInterrupt, InstallPowerControl,
           UninstallInterrupt, UninstallPowerControl
  <2>2. CASE StartDriver(d)
    <3>1. Reachable(d)
      BY <2>1, StraysAssumption DEF IInv, Flags, FlagsAwake, Clocks, ClocksRun, Reachable, ClocksOff
    <3>2. IsSetUp(d)'
      BY <2>2, <3>1 DEF StartDriver, InitDevice, SetUp, IsSetUp
    <3>3. driver'[d] = "initialised"
      BY <2>2 DEF StartDriver, Drive, IInv, TypeOK
    <3>4. QED
      BY <1>1, <2>1, <3>2, <3>3 DEF Reports, gateVars
  <2>3. CASE InstallInterrupt(d)
    <3>1. PICK b \in ReadBytes(cmd, reporting) :
            cmd' = IF (b \cup {IRQ(d)}) \ {} = b THEN cmd ELSE (b \cup {IRQ(d)}) \ {}
      BY <2>3 DEF InstallInterrupt, SetCommandByte
    <3>2. b = cmd \/ b = {}
      BY <1>3, <3>1, ReadBytesRange
    <3>3. IRQ(d) \in cmd'
      BY <3>1, <3>2
    <3>4. /\ driver'[d] = "installed" /\ driver[d] = "initialised" /\ d \notin raced
          /\ reporting' = reporting /\ unanswered' = unanswered
      BY <1>5, <2>3 DEF InstallInterrupt, Drive, IInv, TypeOK
    <3>5. QED
      BY <1>1, <2>1, <3>3, <3>4 DEF ReportInv, Reports, IsSetUp, Interrupts, gateVars
  <2>4. CASE InstallPowerControl(d)
    <3>1. driver'[d] = "started" /\ driver[d] = "installed" /\ d \notin raced
      BY <1>5, <2>4 DEF InstallPowerControl, Drive, IInv, TypeOK
    <3>2. QED
      BY <1>1, <2>1, <2>4, <3>1 DEF ReportInv, Reports, IsSetUp, Interrupts, gateVars, failVars,
         InstallPowerControl
  <2>5. CASE UninstallInterrupt(d) \/ UninstallPowerControl(d)
    <3>1. driver'[d] \in {"uninstalled", "none"}
      BY <2>5 DEF UninstallInterrupt, UninstallPowerControl, Drive, IInv, TypeOK
    <3>2. QED
      BY <3>1 DEF Reports
  <2>6. QED
    BY <2>2, <2>3, <2>4, <2>5
<1>6. QED
  BY <1>2, <1>4, <1>5 DEF ReportInv

LEMMA StepReportInv == ~Strays /\ IInv /\ ReportInv /\ [Next]_vars => ReportInv'
<1> SUFFICES ASSUME ~Strays, IInv, ReportInv, [Next]_vars PROVE ReportInv'
  OBVIOUS
<1>1. CASE (\E o \in Ordinal : SetPowerState(o)) \/ Callout
  BY <1>1, ReportsOrders DEF Ordinal
<1>2. CASE CalloutEnters
  BY <1>2, ReportsEnterGate DEF CalloutEnters
<1>3. CASE GateSteps
  BY <1>3, ReportsReset, ReportsSleep, ReportsWake, ReportsAcknowledge DEF GateSteps
<1>4. CASE Drivers
  BY <1>4, ReportsDriver DEF Drivers
<1>5. CASE UNCHANGED vars
  BY <1>5 DEF vars, gateVars, failVars, ReportInv, NoDriverYet, Reports, IsSetUp, Interrupts,
     SettledAwake
<1>6. QED
  BY <1>1, <1>2, <1>3, <1>4, <1>5 DEF Next

(* After each wake and each start, a device whose driver no power change   *)
(* has met reports its input and may interrupt, but for a failed request   *)
(* of its own last set-up and a command byte read wrongly since the last   *)
(* wake, if no scan code is read as that byte: the steps of                *)
(* setPowerStateGated undo each other in whatever order the callouts enter *)
(* the gate.                                                               *)
THEOREM AwakeDevicesReportHolds == ~Strays => (Spec => []AwakeDevicesReport)
<1> SUFFICES ASSUME ~Strays PROVE Spec => []AwakeDevicesReport
  OBVIOUS
<1>1. IInv /\ ReportInv /\ [Next]_vars => ReportInv'
  BY StepReportInv
<1>2. Spec => []ReportInv
  BY <1>1, InitReportInv, PowerInvariance, PTL DEF Spec
<1>3. ReportInv => AwakeDevicesReport
  BY DEF ReportInv, Reports, IsSetUp, Interrupts, SettledAwake, AwakeDevicesReport
<1>4. QED
  BY <1>2, <1>3, PTL

=============================================================================

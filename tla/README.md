# A formal model of VoodooPS2 (ALPS)

TLA+ modules, TLC configurations and TLAPS proofs about the PS/2 keyboard and
ALPS trackpad drivers in `src/`: three kernel extensions, a controller and two
device drivers that share one keyboard controller chip, one data port and one
work loop.

## 1. Inventory

| Component | Source | State | Operations | Hard part |
|---|---|---|---|---|
| Ring buffer | `VoodooPS2Controller/ApplePS2Device.h` 169-251 | `m_buffer`, `m_head`, `m_tail` | `head`/`advanceHead` at interrupt time, `count`/`tail`/`advanceTail` on the work loop, `reset` on waking | no lock; two readers of each index; overflow |
| Data port | `VoodooPS2Controller.cpp` 62-236, 1045-1221, 1267-1575 | the chip's output buffer, `_ignoreInterrupts` | the two interrupt handlers, `handleInterrupt`, `processRequest`, both `readDataPort` | one port, two devices, two readers; answers mixed with input; edge-triggered interrupts |
| Request queue | 866-967, 1082-1103, 1223-1263, 673-737 | `_requestQueue`, `_hardwareOffline`, the event source's signal | `submitRequest`, `submitRequestAndBlock`, `processRequestQueue`, `stop` | order and ownership of requests; sleep in between; recursive gate |
| Power management | 435-500, 906-935, 1767-1952 | `_currentPowerState`, `_ignoreInterrupts`, `_hardwareOffline`, the command byte | `setPowerState` and callout, `setPowerStateGated`, `resetController`, `setCommandByte` | a sequence of steps over four pieces of state; late callouts; firmware |
| Actions of the drivers | 748-862, 1026-1059, 1956-2047 | `_interruptInstalled*`, `_interruptAction*`, `_packetAction*`, `_interruptTarget*`, power control and message actions | install, uninstall, dispatch | test and call are two steps, at interrupt time |
| Configuration, properties | 290-430, 2065-2233 | flags | lookups at start, `setPropertiesGated` | links between nodes |
| Device nubs, ACPI nub | `ApplePS2Device.cpp`, `ApplePS2{Keyboard,Mouse}Device.cpp`, `AppleACPIPS2Nub.cpp` | none | forward | none |
| Keyboard decoding | `VoodooPS2Keyboard.cpp` 1165-1303, 2293-2371 | `_extendCount`, `_lastdata`, `_keyBitVector`, the ring buffer | `interruptOccurred`, `packetReady`, `initKeyboard`, `setDevicePowerState` | state kept at interrupt time about events handled later; prefixes; AA 00 |
| Keyboard macros | 1305-1426 | `_macroBuffer`, `_macroCurrent`, a timer | `invertMacros`, `onMacroTimer` | timer against packets |
| Key translation | 1103-1160, 1568-1899, 1430-1566 | modifier state, function key mode, a timer, backlight and brightness levels | `dispatchKeyboardEventWithPacket`, `message`, `onSleepEjectTimer` | make and break taking different paths; one timer for two keys |
| Pad packets | `alps.cpp` 1397-1498 | `_packetByteCount`, `PSMOUSE_BAD_DATA`, the ring buffer | `interruptOccurred`, `packetReady` | state shared by interrupt time and work loop; resynchronisation |
| Pad decoding | `alps.cpp` 285-1378 | `multi_packet`, `multi_data`, `lastbuttons` | `process_packet_*` | state across packets, some of which never come |
| Touch state machine | `alps.cpp` 2744-3244, `VoodooPS2TouchPadBase.cpp` 411-641 | `touchmode`, `_mbuttonstate`, drag, scroll, debounce and button timers | `dispatchEventsWithInfo`, `middleButton`, timer routines | ten modes, four timers, what is kept from packet to packet |
| Pad settings and messages | `VoodooPS2TouchPadBase.cpp` 645-1028 | the settings, `ignoreall`, time of the last key | `setParamPropertiesGated`, `receiveMessage` | they change modes in the middle of a touch |
| Pad hardware | `alps.cpp` 157-284, 1382-1395, 1500-2735 | the pad's modes and registers; `priv.flags`, `priv.pktsize` | `probe`, `identify`, `set_protocol`, `hw_init_*`, `deviceSpecificInit`, `resetMouse` | any request may fail; nested modes; dropped results |

How they interact: an interrupt makes `handleInterrupt` read the port and call
the driver's `interruptOccurred` for each byte; the driver buffers a packet and
says `kPS2IR_packetReady`; the controller signals an event source; the work
loop calls the driver's `packetReady`. In the other direction a driver submits
a request, which runs inside the work loop's gate, polls the same port for its
answers and hands bytes that are not answers to the drivers. Sleep and wake run
inside the same (recursive) gate and call the drivers, which submit requests.

What makes each component correct, and the hazard that stands against it at its
line of code, is in `PROJECT.json` under `hazards`; the properties below are
named there.

## 2. Plan

Order: what every byte passes first, then what can disturb it.

1. `RingBuffer`, with its abstract specification `PacketFifo` and proofs (done).
2. `ControllerPort`, the two readers of the data port (done).
3. `RequestQueue`, `PowerState`, `InterruptActions` (done).
4. `KeyboardInput`, `AlpsPacket`: the two drivers up to whole packets (done).
   `AlpsSetup`: identification and initialisation of the pad (done).
5. `KeyDispatch`: macro inversion, the special cases of the translation and the
   sleep/eject timer (done).
6. `TouchMode`: the pad's state machine, its timers and the middle button, with
   settings and messages (done); the two-part frames, in `AlpsPacket` (done).
7. The three-part bitmaps of version 4 beside the frames; the buttons that pad
   and trackstick of version 7 share; swipes, in `TouchMode`.
8. Abstract specifications: an interrupt-driven input stream per device, which
   `ControllerPort` should implement when no request reads without comparing;
   a power switch (awake or asleep, requests served or failed) for `PowerState`.
9. Proofs: the safety invariants of all modules but `AlpsSetup`, which TLC covers
   (done, section 5).

No module declares a RECURSIVE operator; recursion is a fold or, where there are
proofs about it, a recursive function.

## 3. Modules

Each variable's comment names the member it models. Steps that code takes
without any other party being able to see a state in between are one action;
where another processor, an interrupt or a different thread can look in, they
are separate actions.

**RingBuffer** (`PacketFifo`, `RingBufferProofs`). `WriteByte`, `ReadTail`,
`AdvanceHead`, `DropPacket` and `Signal` are the interrupt side:
`interruptOccurred` fills the packet at `head()` byte by byte, `advanceHead`
reads `m_tail` twice (the order of the operands of `>=` is left open by C++:
`MayAdvance` and `MayDrop` allow both), then the controller signals. `Wake`,
`TestCount`, `ReadByte`, `AdvanceTail` and `WrapTail` are `packetReady`;
`m_tail` is seen beyond the end between the addition and the wrap. Memory is
sequentially consistent, which x86 guarantees for these plain stores and loads
as far as they matter here (the indices are each written by one side).
`PacketFifo` is what a packet buffer promises: accepted packets are taken out
once each, in order.

**ControllerPort**. Each interrupt line has a handler of its own: `EnterHandler`,
`HandlerStatus`, `HandlerData` and `HandlerDispatch`, which are separate steps, as
interrupts are off only from reading the status to reading the data. Between
reading a byte and dispatching it a handler may be interrupted by the other
line's, which can read and dispatch bytes of the same device (the comment at 208
accepts that); on one processor the interrupting handler ends first (`Runs`).
`BeginRequest`, `StartCommand` (one disjunct per command), `WriteMore` (the
second writes of a command), `Flush`, `PollStatus`, `PollData` (one disjunct per
branch of the two `readDataPort`), `TimeOut` and `EndRequest` are
`processRequest`. The chip and the devices are external: one input buffer, which
holds what was written until the chip takes it (`TakeInput`) and makes the next
write wait (`Post`, for `kInputBusy`), and one output buffer, an interrupt latched
as it fills. Input of the mouse may have the value of an acknowledge (kind
`alike`); that of the keyboard, whose scan codes do not include 0xFA, may not.
`SMP` says whether a handler can run while another one or the work loop does.
`_ignoreOutOfOrder` is 0, as nothing sets it. History: `overtaken` are the bytes
that a handler had in hand while another one dispatched to the same driver;
`unsure` tells behaviours in which every request compared its answers, every
answer came at once and no look-alike was compared, from the others.
`ComparingAssumption` says how requests that compare are written: each byte sent
is acknowledged and the acknowledge is read next, from the mouse after
`kDP_TransmitToMouse`, which is the form of every such request in the drivers.

**RequestQueue**. What happens to a request, not what it does. The gate is a
stack, because power changes run inside it and the drivers they call submit
blocking requests from there. Requests are of four kinds, by how they are made
and submitted. `CallerFrees` is a driver that does what the header says
(`ApplePS2Device.h` 314): free a request that was allocated and submitted with
`submitRequestAndBlock`, once that call has returned. `Stop` comes at any time at
which nobody is in the gate, whatever is queued and signalled. `SubmissionOrder` is stated with positions: the requests that wait
are the last ones submitted, and the others have a place each among those
processed, in the same order, with no asynchronous request left over.

**PowerState**. `step` is the place in `setPowerStateGated`; each call made
there is an action. The command byte keeps the two interrupt and the two clock
bits. What power loss and firmware did to the hardware is chosen when
`resetController` looks at it, as nobody sees it earlier. `Strays` lets a scan
code be read in place of the command byte; `MaxLate` lets power management give
up waiting, so that callouts pile up at the gate. The history variable `raced`
names the drivers that started or stopped while a power change went on or the
machine slept: nobody calls them on waking. Reads of the command byte may time out and
then yield 0 (`ReadBytes`), and any request by which a driver sets its device up
may fail, which the drivers do not notice (`SetUp`, `Disabled`); `unanswered`
names the devices whose last set-up has failed so, `forgotten` those whose
interrupt bit was cleared by a wrong reading. `AwakeDevicesReport` excuses a
device for the first, and its bit for the second, until the next wake: that much
the code cannot promise, and it promises no less.

**InterruptActions**. One action per effect of `installInterruptAction` and
`uninstallInterruptAction`; the dispatch of a byte is a test and a call, by
three parties. Its specification is `ActionsSpec`, so that one module of proofs
can extend this module and `RequestQueue`.

**KeyboardInput**. `interruptOccurred` is one disjunct per return statement;
the key bit vector is a set of keys; packets are abstract. `Dispatch` keeps of
the translation only its last part (1876-1885): which keys the HID system takes
to be down. The ring buffer is a FIFO with a capacity here, which is what
`RingBuffer` is shown to implement. A key is its number of prefix and its code;
`KeysAssumption` says so, and that Pause alone has E1. `DownAfter` says which keys
are down once the packets in the buffer have been dispatched: those with no break
code behind the last make code.

**KeyDispatch**. The work loop's side of the keyboard, from whole packets on.
The driver's state there is one record, `s`, and each routine an operator from
state to state, named for the routine or for the part of it: `TakePacket` is
`invertMacros` with what its caller does, `Dispatch` is
`dispatchKeyboardEventWithPacket`, put together from its special cases. Keys are
those the code treats differently, some modifiers, and the keys of a macro.
Three parties bring packets: `PacketReady`; `message`, for ACPI, with one code
(`MessageOne`: these keys pass neither the ring buffer nor the key bit vector, so
a wake does not release them and they stay down until their own break code comes)
or with make and break at once (`Message`); and `MacroTimerFires`, which runs
`packetReady` before it looks at the time, and therefore is split in two around
it. A packet that may be late is taken both ways. History: `owed` and `disorder`
say whether packets are translated once each and in order; `told` is what a key's
last make code was told as, and `crossed` are the keys whose next code was then
told as something else (`Otherwise`), or of whose two codes a macro took only one.
A modifier or function key mode that changes and changes back crosses nothing.
`OrdinaryMacros` says what the macros of the driver's own profile are like, and
that ACPI's keys are none of the keyboard's; the run's instance has these macros,
and TLC evaluates the condition there.

**TouchMode**. `DispatchEvents` is `dispatchEventsWithInfo`, written as one
operator per paragraph of the routine, in their order, from state to state;
`MiddleButton` is `middleButton`, one operator per state. `TouchPacket`,
`GesturePacket` and `StickPacket` are what the protocol versions hand over, the
timer routines are actions, and so are `SetDisableTouchpad`, `NotifyKeyPressed` and
`InitTouchPad` as far as they touch this state. `setParamPropertiesGated` is called
without the gate (`VoodooPS2TouchPadBase.cpp` 866), so it is three actions,
`SetParamProperties`, `ResetTouchMode` and `SetIgnoreAll`, between which packets
and timers may come (`applying`); a packet is still dispatched as a whole, see
section 6. Times and
distances are choices, made where they are tested (`Open`); the counters
`ignoresingle` and the history of scroll amounts are choices, too. `clickpadtype`
and `passbuttons` are 0: nothing in the driver sets them. `dragTimer` exists,
since `dragexitdelay` is not 0 when it is made, and there are three buttons.
History: `quiet` (the last packet said that the pad is at rest), `tapped` (it
ended a tap), `most` (fingers of this touch), `excused`. `InputsAssumption` gives
packets, trackstick buttons and settings their types, and nothing else.

**AlpsPacket**. Bytes have kinds instead of bits, and a pad is a record of what
its protocol version's tests make of each kind: which pass as the first byte (they
may come at any other place, too, and for version 7 must at one), which begin a
bare packet, which are wrong at an index. Any byte may be of any of the version's
kinds, the last one included, on which no test ever falls: it would be tested with
the byte behind it, which begins the next packet. `InterruptOccurred` takes a byte
whenever it comes, also while `packetReady` has yet to look at what was buffered
before (`late`); the guard on the buffer's domain keeps a count that has run away
inside the modelled memory. What becomes of a packet that is handled is here, too:
`ProcessPacket` keeps the first packet of a frame in `multi` until the second one
comes, for the versions that report in two parts; the decoders are abstracted to
the part they see in a packet. A trackstick's packet leaves the kept one alone in
version 3 (`keeps`; `alps.cpp` 820) and gives it up in version 8 (1341).

What the properties excuse is what the code gives up on when a byte is late:
`_packetByteCount` and `PSMOUSE_BAD_DATA` are then about the wrong packet.
`TypeOK` lets the count run on after one, `WholeAndValid` speaks of packets that
were handled before another byte came, and `KeepsStep` of packets none of whose
bytes was late, and, for those behind a wrong one, if no later byte of that one was
taken for a first byte (`misled`). What was late before, and is over, excuses
nothing: after it the decoder has to be in step again.

**AlpsSetup**. The routines that talk to the pad do one request after the other
and nobody else talks to the pad meanwhile, so a routine is an operator: from the
pad's state to the set of its outcomes, `[ok, s]`. Three operators put routines
together the way the code does: `AndThen` for `goto error` and early returns,
`Regardless` for a call whose result is dropped, `AndAlso` for a clean-up whose
result is joined with the one before. `Request` is where things go wrong: it may
fail, having reached the pad or not. `Probe`, `Start`, `Sleep`, `Wake` and `Stop`
are the driver's life; the pad (`Fresh`, `Obey`, `Stored`) is external, and
registers and commands are kept as far as they set modes. The history fields
`missed` (a failure whose result was dropped) and `bare` (a register accessed
outside of command mode) say when the properties are to be excused or broken.

The `MC` modules extend a module and define the values its configurations use.
Definitions marked as mutants are the code with one plausible fault; no action
uses them.

## 4. Runs

| Run | Question | Answer |
|---|---|---|
| RingBuffer | Is the ring buffer a FIFO of whole packets, and is none left unnoticed? | yes |
| Port | Do drivers get exactly their own bytes in order, whatever the request? Do requests that compare answers always work? Does every request end? | in order but for bytes of an interrupted handler; yes, if answers come at once and no input looks like one; yes |
| RequestQueue | Are requests processed in order, once each, freed once by the controller, never lost, also over `stop`? | yes; a driver that frees as the header says frees a second time |
| PowerState | Do state, flags and clocks agree through any sequence of power changes, with drivers coming and going? Do devices work after waking, is each state reached? | yes; a driver that starts during a change is left out, and so is a device whose set-up has failed unnoticed |
| PowerReset | Does `resetController` leave the state its comment describes? | no: one clock bit is missing in its mask |
| Install | Do a device's own handler and its packet routine always call an installed driver? | yes, with any number of processors |
| KeyDecoding | Are the right keys down, and up again? | yes, unless the buffer overflows |
| KeyWake | Are all keys up after waking? | no: buffered break codes are dropped |
| KeyDispatching | Are packets translated once and in order, and do special cases, macros and timers let every key up again? | yes, but for keys whose make and break were not treated alike |
| AlpsPackets | Whole valid packets only, soon in step again, and frames of their own packets? | yes, but for packets with a late byte |
| TouchModes | Do buttons come up, waits end, and is what is remembered of a touch its own? | yes |
| AlpsSetups | Whichever request fails, is the pad either set up or reset, and never left in command mode? | yes, unless the failed request's result is dropped |

The runs that end in a violation each check one sentence of the code's own
comments; `PROJECT.json` quotes it under `findings`. PowerReset's initial command
byte is arbitrary, and a scan code may be read in its place: a clock bit that is
set in the byte read is written back.

What passing runs leave out is as important. Port has `SMP = FALSE`: handlers
interrupt the work loop and each other but do not run beside them (with several
processors, see the table below). PowerState has `Strays = FALSE`. KeyDecoding
has `Prompt = TRUE`: the work loop has emptied the ring buffer before a wake
(without, KeyWake fails); so has KeyDispatching, where nothing is held back
then, either. AlpsPackets excuses packets with a late byte. AlpsSetups excuses
failures that the code drops. `NothingStuck` excuses keys that are crossed: for
those it is simply not so. `ButtonsSettle` speaks of a pad whose last packet
has said that nothing touches it, and allows the left button that a tap holds
down until the next packet (PREDRAG has no timer of its own); trackstick
packets, settings and messages end that until the next such packet.

Properties are conjunctions where their parts speak of one promise:
`InputDelivered` is `OwnStream`, `InOrder` and `Conserved`; `ComparingWorks` is
`SecondChance` and `AnswersAreNotInput`; `ProcessedInOrder` is
`SubmissionOrder` and `BlockingComesLast`; `NothingLeaks` is `FreedOnce`,
`DriverFreesAgain` and `NothingLeftByStop`; `CallsReachDrivers` is
`OwnHandlersAreConnected` and `PacketsAreConnected`; `DownMeansHeld` is
`OnlyPressed` and `NothingStuck` of `KeyboardInput`; `KeepsStep` is
`StaysInStep` and `ResyncAtOnce`; `LeftInOrder` is `CommandModeIsLeft` and
`SilentWhenUnused`.

Some more sentences, most of them of comments, are stated beside the properties, without a run
of their own. Each of them fails in the instance named here, which is a way to
see the behaviour:

| Property | Instance | What TLC shows |
|---|---|---|
| `OutputIsRead` | Port with `KeyboardCommand` as the only program, one request, one input byte | a byte whose interrupt came while interrupts were ignored, and that no read of the request took, stays in the output buffer (`VoodooPS2Controller.cpp` 1212-1214) |
| `AnswersAreNotInput`, and with it `ComparingWorks`; `InputDelivered` | Port with `SMP = TRUE` | a handler past the test of `_ignoreInterrupts` on another processor reads the answer to a request (`VoodooPS2Controller.cpp` 1105) |
| `CallsAreConnected` | Install, also with `Polling = FALSE` | the other device's handler, past its test of `_interruptInstalled*`, calls a driver that has gone: unregistering the own handler (`VoodooPS2Controller.cpp` 819-821, 857) does not wait for it |
| `FrozenWhileAsleep` | RequestQueue | requests fail during sleep instead of waiting (1851) |
| `ClocksOnIRQsOff` | PowerState with `Strays = TRUE` | a scan code read as the command byte is written back with clock bits set (1837) |
| `ResetCausesReset` | KeyDecoding | the packet of a reset is passed over (`VoodooPS2Keyboard.cpp` 1185, 1295) |
| `EnableStartsReporting` | AlpsSetups | leaving passthrough mode ends with F5, so a pad with a pass-through port is initialised without reporting (`alps.cpp` 1385, 1882-1889) |
| `TrackstickIsKnown` | AlpsSetups | the flags of the table replace those the probe has found (`alps.cpp` 102, 2650-2652) |
| `DragHolds` | TouchModes | while a drag goes on without touch, a trackstick packet reports its own buttons only and so lets the button go (`alps.cpp` 607, 616) |

### Bounds

`RingBuffer`: three slots of two bytes and eight packets fill, overflow and
wrap the buffer twice; two bytes are the least that can be torn. The proofs
lift these bounds. `ControllerPort`: two requests and two input bytes, so that
one can be held by a comparison or be in a handler's hand while the other
follows it; one read may end too early. `RequestQueue`: one request of each
kind and one sleep: enough for one to be queued, one being worked off and one
inside the gate of a power change. `PowerState` is finite but for `late`,
bounded by 1: two callouts at the gate. `InterruptActions` is finite.
`KeyboardInput`: five events, so a key with a prefix can be pressed, released
and pressed again with noise and a reset in between; a capacity of 2, which
three packets overflow. `KeyDispatch`: five events among eleven keys, ACPI's
key, mode changes and a sleep, so that a chord of two modifiers and a key can
be pressed and one of them let go, or a macro of two packets begin, be matched
and be left over; two packets of room; two settings, with each delay and hack
on and off. `AlpsPacket`: packets of six bytes, as all versions but 4 have
them; three slots and three packets, which hold a frame torn apart by what
comes between, or a packet lost between two good ones; a pad for each set of
tests (versions 2, 3, 3 of the Rushmore kind, 5, 7, 8); two bytes per behaviour
that are late or not of the usual kind at their place, which is one to lose
step and one to lose it again. `TouchMode` is finite but for `changes`, bounded
by 1 (switching the pad on again does not count): one change at any place of
any sequence of touches, and the states afterwards are those of `Init` and
later ones. Up to three fingers, which is where taps differ; two sets of
settings, as shipped and with what these leave off; one pad that has both the
gestures of version 1 and a trackstick, so that it has more behaviours than any
real one. `AlpsSetup` is finite, and its only constant is the set of pads: the
run takes all that `PadsAssumption` allows, each version, listed or not, with
any flags and with or without a trackstick. Where a bound makes all activity
end, `CHECK_DEADLOCK FALSE` is set; `PowerState`, `InterruptActions`,
`KeyboardInput`, `TouchMode` and `AlpsSetup` are checked for deadlock.

### Fairness

`RingBuffer`: an interrupt routine that has begun runs to its end, and the work
loop thread, being signalled, is scheduled. The device need not send.
`ControllerPort`: the chip passes bytes on and takes what is written to it, latched
interrupts are taken, a request goes on (the waits of its reads time out); no input
and no request need come. That the chip takes what is written is an assumption
about the hardware: the waits in `writeCommandPort` and `writeDataPort` have no end
of their own, and without it a request can wait forever.
`RequestQueue`: submitters signal, the work loop runs, a power change that has
begun ends; nobody need wake the machine. `PowerState`: callouts run, enter the
gate and their steps end. All of it is weak fairness, which is what a scheduler
that starves nobody gives.

## 5. Proofs

Each `...Proofs` module extends the module it is about (`DriverInterfaceProofs` is
about two, what the controller offers its drivers: requests, and the actions they
install) and lists its theorems after the lemmas they rest on. They use no assumption but the named ones on the
constants, so they hold for every number of slots, packets, requests, keys, bytes
and events. The inductive invariants were checked with TLC, in the instances of
the runs or smaller ones, before they were proved.

| Module | Theorem | Property | Condition |
|---|---|---|---|
| `RingBufferProofs` | `TypeCorrect`, `Intact`, `WakeupKept` | `TypeOK`, `PacketIntact`, `NoLostWakeup` | |
| | `ImplementsFifo` | `FifoSpec`, the refinement of `PacketFifo` | |
| `ControllerPortProofs` | `PortTypeCorrect` | `TypeOK` | |
| | `InputDeliveredHolds`, `ComparingWorksHolds` | `InputDelivered`, `ComparingWorks` | `~SMP` |
| `DriverInterfaceProofs` | `QueueTypeCorrect`, `ProcessedInOrderHolds`, `NothingLeaksHolds` | `TypeOK`, `ProcessedInOrder`, `NothingLeaks` | |
| | `ActionsTypeCorrect`, `CallsReachDriversHolds` | `ActionsTypeOK`, `CallsReachDrivers` | |
| `PowerStateProofs` | `PowerTypeCorrect` | `TypeOK` | |
| | `SettledHolds`, `ClientsCanTalkHolds`, `AwakeDevicesReportHolds` | `Settled`, `ClientsCanTalk`, `AwakeDevicesReport` | `~Strays` |
| `KeyboardInputProofs` | `KeyboardTypeCorrect` | `TypeOK` | |
| | `BitsAgreeHolds`, `DownMeansHeldHolds` | `BitsAgree`, `DownMeansHeld` | `Prompt` |
| `KeyDispatchProofs` | `DispatchTypeCorrect`, `TimerHasItsKeyHolds`, `HeldBackIsTimedHolds` | `TypeOK`, `TimerHasItsKey`, `HeldBackIsTimed` | |
| | `MacrosKeepOrderHolds` | `MacrosKeepOrder` | `Prompt` |
| | `NothingStuckHolds` | `NothingStuck` | `Prompt`, `OrdinaryMacros` |
| `AlpsPacketProofs` | `PacketTypeCorrect`, `WholeAndValidHolds`, `KeepsStepHolds`, `FramesArePairedHolds` | `TypeOK`, `WholeAndValid`, `KeepsStep`, `FramesArePaired` | |
| `TouchModeProofs` | `TouchTypeCorrect`, `WaitsAreTimedHolds`, `FingersAreThisTouchsHolds`, `ButtonsSettleHolds` | `TypeOK`, `WaitsAreTimed`, `FingersAreThisTouchs`, `ButtonsSettle` | |

The conditions are those of the passing runs. Without them the properties fail
(section 4, and below for `OrdinaryMacros`), so they cannot be left out.

**RingBuffer.** `PacketIntact` is not inductive: that the oldest packet is
untouched rests on every slot between tail and head holding one whole accepted
packet (`Whole`), in the order of their numbers (`Ordered`), with no unread packet
elsewhere (`Complete`); on the slot at the head being outside (`HeadSlot`); and on
a stale `m_tail` only ever making the buffer look fuller than it is (`Indices`):
the tail moves away from it in the direction that makes room. `Count` and
`Advanced` are dealt with by lemmas of their own, so that the steps of the proof
do not reason about wrap-around again.

**PowerState.** The properties speak of a few steps only. Each lemma is about all
outcomes of the reads and the set-up requests, the failed ones included. `Flags` says for each
step in the gate what `_ignoreInterrupts` and `_hardwareOffline` are and whether
the target is sleep, and holds with strays as well; `Clocks` says what the command
byte is. The decrement of `_ignoreInterrupts` at the end of waking is safe because
that step is only reached through sleep, which `Flags` carries along.

**InterruptActions.** The test of `_interruptInstalled*` protects nothing by
itself. What does is the order of the steps: `Wired` says at which of them a
handler is registered and an event source added, `Callers` that a handler runs
only while registered and the packet routine only between the end of installing
and the removal of the source, and `Pointers` that the pointers outlast both.

**ControllerPort.** The properties need to know where every byte of a device's
input is. `PipeOf` states that driver and handlers' hands, byte put aside by a comparison,
port and device, in this order, hold increasing numbers, and that with what requests
have taken they hold every number sent; `HandsOf` orders the first of these places:
the driver's bytes but for those that were overtaken, and behind all of them what is
in a hand, unless it was overtaken, too. `Control` is where one
processor matters: while a request runs no handler is inside its loop, and while a
handler is about to read the data no other one goes on, so a status that was read
is still that of the byte in the port. For `ComparingWorks` the same places are asked for
answers (`AnswersInTime`): between a write and the read that compares, exactly one
acknowledge is on its way: still in the chip's input buffer behind the command
(`AckWritten`), the next byte of its device (`AckIsNext`) or in the port
(`AckInPort`), with at most one byte of input before it, which is the one the
second chance passes; otherwise there is nothing but input. It holds as long as
every answer came at once, no look-alike was compared and no other kind of request
was made, which is what the property excuses.

**RequestQueue.** `QInv` puts the queues in one line with what was submitted
(`Line`), says that at most one blocking request is inside the gate and that what
was ahead of it has been processed or is in the local queue (`InGate`), and that
memory is released with a request's end and not before (`Disposed`), so that a
driver which frees a request after its end always finds it released. `stop` works
off the queue itself; that nobody else has a part of it then is in `InGate`: while
the gate is free no local queue holds anything.

**KeyboardInput.** `WireRead` says what the bytes still on the wire will be read
as, given `_extendCount`: complete sequences, of keys that were pressed, after
which every key that is not held is up; noise does not change it. `Known` says the
same of the bit vector, the ring and the HID system. `BitsAgree` is a part of the
invariant as it stands. `Calm` is where `Prompt` comes in: nothing is buffered
when `initKeyboard` runs.

**KeyDispatch.** The state of the work loop is a record and each routine an
operator on it, so there is a lemma per routine that says what it leaves alone and
what it does to the rest, up to `Dispatch` and `TakePacket`. `HandOnAll` and
`KeyUpAll` take any number of packets and keys in one step, by recursive functions;
`Chain` shows that such a function exists, and `Induct` reasons along its index with
the set of the indices for which the claim holds, which needs no operator as a
parameter. `DispatchInv` adds to the properties that an eject key which has not been
crossed went down without modifiers, and there still are none, so that its break
code cancels the timer (`Timed`); and it keeps `owed` and `macro` the same
(`Ordered`), but for the packet just taken (`OrderedBut`).

`NothingStuck` is about states in which nothing is on its way, so its invariant
`Settling` says where things stand before. `Fine` gives a reason (`Because`) for
everything the HID system takes to be down: a key that is down for the translation,
sends break codes and was told of as that thing, or one that has been crossed.
What a key's make code was told as stays on record (`told`), so a modifier that
goes down or up spoils no reason: only the break code itself can, by being told as
something else, and then it crosses its key. `Agree` follows the break codes: a key
that is up for the key bit vector has a break code as its last packet in the ring,
or else among those held back, or is up for the translation already (`EndsUp`,
`Absent`, `WillBeUp`). `Kept` is what each routine
does to this: what would be up still will, or is crossed. `OfMacros` is about keys
that the keyboard does not have: one that is down for the translation is held, as
ACPI says, or a macro's output, whose keys were taken or crossed. A wake releases
the keys of the key bit vector only; a key of ACPI's stays, for the reason it had. `OrdinaryMacros` is needed because a macro can make any key out of others: where a
macro of break codes puts out a make code, TLC finds `mirror` down with nothing
held or crossed, and where the output is Ctrl, or another key of the keyboard, it
is down while only the macro's keys are held. That no macro mixes makes and breaks
is a convenience of the proof; TLC finds no violation with ones that do.

**AlpsPacket.** `AInv` is about the buffer. Only while no byte is late does at most
one packet wait and the count stay inside a packet (`Phases`); but whatever was late
before, when nothing waits the count has been reset, so the bytes at the head are
the last ones that came, and the tests have let them pass, all but the last
(`Assembly`). A packet that then comes to wait is a whole one (`Waiting`), until a
byte comes late, and that is all `WholeAndValid` speaks of. The last byte of a
packet is tested by nothing; `Passes` says so, and a packet that ends in any byte
is a good one.

`SInv` is about the pad's packets. `Numbers` places them one behind the other;
`BehindHandled` says that the bytes at the head were not handled before; `Led` that
only a byte which misled the driver is at the head from inside a packet, so that
behind a packet none of whose bytes did so the next one is met at its beginning. A
packet that may be expected to be processed (a good one, not late, behind one that
was processed or did not mislead) is then the one at the head, byte for byte, while
it comes (`InStep`), and has been processed, or is about to be, once it has come
(`Arrived`). Frames need neither: `Decoder` says that `priv.multi_data` is the last
first packet handled, unless something came behind it that gives it up, and it holds
however late bytes come.

**TouchMode.** The run tries two settings and nine packets; the theorems hold
for every combination of settings and every packet. The state is one record that a
packet's routine changes step by step, so there is one lemma per step: the steps
of `middleButton` leave the touch alone (`TouchKept`), those of a touch leave the
middle button alone (`MiddleKept`), and each keeps timed what waits. `TouchInv` adds
to the properties that a button is held back exactly while `middleButton` waits
(`HeldBack`: without it a packet that says no button is down need not end the
wait); that a wait which no change of settings excuses has its setting on, so that
the timer, once it has fired, is not passed by (`HeldBackIsTimed`); that between the
steps of a change of settings a drag without touch may have lost its timer and
nothing else may (`AppliedKeeps` is the lemma); that without a
touch nothing is remembered of fingers (`Recalled`), as only a lift forgets it; and
that a pad left alone has said no button is down (`Settled`), which is what the
timer routines go by.

Each proof has a lemma per action, and under it a step per part of the invariant
the action can disturb; facts about sequences, slots and positions that several
of them need are lemmas.

Only model-checked:

- liveness (`EventuallyHandled`, `RequestEnds`, `EventuallyProcessed`,
  `RequestedIsReached`), which is beyond the prover;
- the four invariants of `AlpsSetup`: its routines are put together by operators
  that take operators (`AndThen` and its like), which the prover cannot
  instantiate. The module is finite once the pad is given, a behaviour has one pad,
  and the run takes every pad there may be; so what TLC shows there holds for every
  value of the constant.

## 6. Not modelled

See the components in `PROJECT.json`. In short: the debugger's escape sequences
(compiled out); tables and their parsing; ACPI calls and the levels they set;
forwarding classes; pointer movement, scroll amounts and swipes, with the decay
filters; the arithmetic of positions and bitmaps. Of the pad's initialisation
version 6 is left out, which no pad of the table has and `identify` never yields.

Some behaviour that reading shows is not in a module, either:

- `message` of the keyboard runs on the notifier's thread, without the gate;
  `KeyDispatch` takes each packet it dispatches, and make and break together, as one
  step. In the same way `setParamPropertiesGated` may change a setting or a mode in
  the middle of `dispatchEventsWithInfo`; `TouchMode` has it come between packets.
- Version 4's packets of eight bytes are not among the run's pads (the proofs take
  any length from five on).
- The packets of version 7 that announce a discontinuity are ignored, says the
  comment (`alps.cpp` 1039), but are dispatched as a lift with no buttons (1041,
  1143).
- The bitmaps of version 4 are put together from three packets by a counter that
  only the first one sets right (`alps.cpp` 896-907).
- `stop` of the pad's driver leaves its drag and debounce timers on the work loop,
  and `start`, when it fails, all of them (`VoodooPS2TouchPadBase.cpp` 307, 347-419).
- `ButtonCount` may be set after `start` has decided whether there is a button
  timer (`VoodooPS2TouchPadBase.cpp` 263, 696).

-------------------------- MODULE InterruptActions --------------------------
(***************************************************************************)
(* How a driver's routines get connected to the controller and come off it *)
(* again (installInterruptAction, uninstallInterruptAction) while bytes    *)
(* arrive.  A byte is dispatched in two steps, the test of                 *)
(* _interruptInstalled and the call through _interruptAction, and by three *)
(* parties: the handlers of both interrupts, each of which serves whatever *)
(* device the status names, and a request on the work loop that polls.     *)
(*                                                                         *)
(* External: an interrupt can occur while it is registered and its bit in  *)
(* the command byte is set; taking a handler off waits until it has ended; *)
(* removing an event source takes the work loop's gate.                    *)
(***************************************************************************)
EXTENDS Naturals

CONSTANTS
    SMP,        \* do handlers run beside the thread that installs?
    Polling     \* does a request dispatch bytes at the same time?

ASSUME FlagsAssumption == {SMP, Polling} \subseteq BOOLEAN

Device == {"keyboard", "mouse"}
Dispatcher == Device \cup {"request"}

VARIABLES
    installed,  \* _interruptInstalledKeyboard, ...Mouse
    action,     \* is _interruptAction... set?
    packetAction, \* is _packetAction... set?
    target,     \* is _interruptTarget... set and retained?
    source,     \* is the device's event source on the work loop?
    sourceSignalled,  \* has it been signalled?
    irqBit,     \* the interrupt enable bit in the command byte
    registered, \* is the handler registered and enabled?
    client,     \* client[d]: how far d's driver is with (un)installing
    at,         \* at[x]: where dispatcher x is
    for,        \* for[x]: the device whose byte it has
    loop        \* device whose packetReady runs in the gate, or "none"

deviceVars == <<installed, action, packetAction, target>>
wiring == <<source, irqBit, registered>>
actionsVars == <<deviceVars, wiring, sourceSignalled, client, at, for, loop>>

ActionsInit ==
    /\ installed = [d \in Device |-> FALSE] /\ action = [d \in Device |-> FALSE]
    /\ packetAction = [d \in Device |-> FALSE] /\ target = [d \in Device |-> FALSE]
    /\ source = [d \in Device |-> FALSE] /\ sourceSignalled = [d \in Device |-> FALSE]
    /\ irqBit = [d \in Device |-> FALSE] /\ registered = [d \in Device |-> FALSE]
    /\ client = [d \in Device |-> "out"]
    /\ at = [x \in Dispatcher |-> "idle"] /\ for = [x \in Dispatcher |-> "keyboard"]
    /\ loop = "none"

(* Without SMP a handler that has begun ends before any thread goes on.    *)
ThreadRuns == SMP \/ \A e \in Device : at[e] = "idle"
GateIsFree == loop = "none" /\ at["request"] = "idle"

Client(d, from, to) ==
    ThreadRuns /\ client[d] = from /\ client' = [client EXCEPT ![d] = to]

-----------------------------------------------------------------------------
(* installInterruptAction *)
SetAction(d) ==
    /\ Client(d, "out", "set") /\ ~installed[d]
    /\ target' = [target EXCEPT ![d] = TRUE]
    /\ action' = [action EXCEPT ![d] = TRUE]
    /\ packetAction' = [packetAction EXCEPT ![d] = TRUE]
    /\ UNCHANGED <<installed, wiring, sourceSignalled, at, for, loop>>

AddSource(d) ==
    /\ Client(d, "set", "sourceAdded") /\ GateIsFree
    /\ source' = [source EXCEPT ![d] = TRUE]
    /\ UNCHANGED <<deviceVars, irqBit, registered, sourceSignalled, at, for, loop>>

EnableIRQ(d) ==
    /\ Client(d, "sourceAdded", "enabled") /\ GateIsFree
    /\ irqBit' = [irqBit EXCEPT ![d] = TRUE]
    /\ UNCHANGED <<deviceVars, source, registered, sourceSignalled, at, for, loop>>

Register(d) ==
    /\ Client(d, "enabled", "registered")
    /\ registered' = [registered EXCEPT ![d] = TRUE]
    /\ UNCHANGED <<deviceVars, source, irqBit, sourceSignalled, at, for, loop>>

SetInstalled(d) ==
    /\ Client(d, "registered", "in")
    /\ installed' = [installed EXCEPT ![d] = TRUE]
    /\ UNCHANGED <<action, packetAction, target, wiring, sourceSignalled, at, for, loop>>

-----------------------------------------------------------------------------
(* uninstallInterruptAction *)
DisableIRQ(d) ==
    /\ Client(d, "in", "disabled") /\ GateIsFree
    /\ irqBit' = [irqBit EXCEPT ![d] = FALSE]
    /\ UNCHANGED <<deviceVars, source, registered, sourceSignalled, at, for, loop>>

\* Mutant: the handler stays registered.
UnregisterForgotten(d) ==
    /\ Client(d, "disabled", "unregistered")
    /\ UNCHANGED <<deviceVars, wiring, sourceSignalled, at, for, loop>>

Unregister(d) ==
    /\ Client(d, "disabled", "unregistered") /\ at[d] = "idle"
    /\ registered' = [registered EXCEPT ![d] = FALSE]
    /\ UNCHANGED <<deviceVars, source, irqBit, sourceSignalled, at, for, loop>>

RemoveSource(d) ==
    /\ Client(d, "unregistered", "sourceRemoved") /\ GateIsFree
    /\ source' = [source EXCEPT ![d] = FALSE]
    /\ UNCHANGED <<deviceVars, irqBit, registered, sourceSignalled, at, for, loop>>

\* Mutant: the flag is not cleared.
ClearInstalledLate(d) ==
    /\ Client(d, "sourceRemoved", "cleared")
    /\ UNCHANGED <<deviceVars, wiring, sourceSignalled, at, for, loop>>

ClearInstalled(d) ==
    /\ Client(d, "sourceRemoved", "cleared")
    /\ installed' = [installed EXCEPT ![d] = FALSE]
    /\ UNCHANGED <<action, packetAction, target, wiring, sourceSignalled, at, for, loop>>

ClearAction(d) ==
    /\ Client(d, "cleared", "out")
    /\ action' = [action EXCEPT ![d] = FALSE]
    /\ packetAction' = [packetAction EXCEPT ![d] = FALSE]
    /\ target' = [target EXCEPT ![d] = FALSE]
    /\ UNCHANGED <<installed, wiring, sourceSignalled, at, for, loop>>

-----------------------------------------------------------------------------
(* handleInterrupt(e), with a byte of device d; readDataPort in a request  *)
(* for one device, with a byte of the other or an early one of its own.    *)
Interrupt(e, d) ==
    /\ registered[e] /\ irqBit[e] /\ at[e] = "idle"
    /\ SMP \/ \A x \in Device : at[x] = "idle"
    /\ at' = [at EXCEPT ![e] = "test"] /\ for' = [for EXCEPT ![e] = d]
    /\ UNCHANGED <<deviceVars, wiring, sourceSignalled, client, loop>>

Poll(d) ==
    /\ Polling /\ ThreadRuns /\ GateIsFree
    /\ at' = [at EXCEPT !["request"] = "test"] /\ for' = [for EXCEPT !["request"] = d]
    /\ UNCHANGED <<deviceVars, wiring, sourceSignalled, client, loop>>

(* A handler goes on at once; a request is a thread. *)
Runs(x) == x = "request" => ThreadRuns

(* _dispatchDriverInterrupt tests the flag, then calls through the pointer.*)
TestInstalled(x) ==
    /\ at[x] = "test" /\ Runs(x)
    /\ at' = [at EXCEPT ![x] = IF installed[for[x]] THEN "call" ELSE "idle"]
    /\ UNCHANGED <<deviceVars, wiring, sourceSignalled, client, for, loop>>

(* The driver's interruptOccurred says whether a packet is ready. *)
CallAction(x) ==
    /\ at[x] = "call" /\ Runs(x)
    /\ \E ready \in BOOLEAN :
          sourceSignalled' = [sourceSignalled EXCEPT ![for[x]] = @ \/ ready]
    /\ at' = [at EXCEPT ![x] = "idle"]
    /\ UNCHANGED <<deviceVars, wiring, client, for, loop>>

(* packetReadyKeyboard, packetReadyMouse on the work loop.                 *)
PacketReady(d) ==
    /\ ThreadRuns /\ GateIsFree /\ source[d] /\ sourceSignalled[d]
    /\ sourceSignalled' = [sourceSignalled EXCEPT ![d] = FALSE]
    /\ loop' = IF installed[d] THEN d ELSE "none"
    /\ UNCHANGED <<deviceVars, wiring, client, at, for>>

PacketsDone ==
    /\ ThreadRuns /\ loop # "none"
    /\ loop' = "none"
    /\ UNCHANGED <<deviceVars, wiring, sourceSignalled, client, at, for>>

-----------------------------------------------------------------------------
Install(d) == SetAction(d) \/ AddSource(d) \/ EnableIRQ(d) \/ Register(d) \/ SetInstalled(d)
Uninstall(d) ==
    \/ DisableIRQ(d) \/ Unregister(d) \/ RemoveSource(d)
    \/ ClearInstalled(d) \/ ClearAction(d)

ActionsNext ==
    \/ \E d \in Device : Install(d) \/ Uninstall(d) \/ Poll(d) \/ PacketReady(d)
    \/ \E e, d \in Device : Interrupt(e, d)
    \/ \E x \in Dispatcher : TestInstalled(x) \/ CallAction(x)
    \/ PacketsDone

ActionsSpec == ActionsInit /\ [][ActionsNext]_actionsVars

-----------------------------------------------------------------------------
ActionsTypeOK ==
    /\ \A f \in {installed, action, packetAction, target, source, sourceSignalled, irqBit,
                 registered} : f \in [Device -> BOOLEAN]
    /\ client \in [Device -> {"out", "set", "sourceAdded", "enabled", "registered", "in",
                              "disabled", "unregistered", "sourceRemoved", "cleared"}]
    /\ at \in [Dispatcher -> {"idle", "test", "call"}] /\ for \in [Dispatcher -> Device]
    /\ loop \in Device \cup {"none"}
    /\ \A d \in Device :
          installed[d] <=> client[d] \in {"in", "disabled", "unregistered", "sourceRemoved"}

(* A device's own handler never calls through a pointer that is not set,   *)
(* on however many processors: it has ended before the pointer is cleared, *)
(* although it tested the flag earlier (uninstallInterruptAction, 828-838).*)
OwnHandlersAreConnected ==
    \A d \in Device : at[d] = "call" /\ for[d] = d => action[d] /\ target[d]

(* Nor does any other party that dispatches the device's bytes.            *)
(* "[installInterruptAction] assumes two distinct interrupt handlers for   *)
(* each, hence needs no protection against races"                          *)
(* (VoodooPS2Controller.cpp:756, 819).                                     *)
CallsAreConnected ==
    \A x \in Dispatcher : at[x] = "call" => action[for[x]] /\ target[for[x]]

(* The packet routine is never called on a driver that has gone, not even  *)
(* by a signal given before it went and served after another has come.     *)
PacketsAreConnected ==
    loop # "none" => packetAction[loop] /\ target[loop] /\ installed[loop]

(* CallsReachDrivers: what is called for a device's own interrupt, or for  *)
(* its packets, is a driver that has come and not gone.                    *)
CallsReachDrivers == OwnHandlersAreConnected /\ PacketsAreConnected

=============================================================================

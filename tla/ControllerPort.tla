--------------------------- MODULE ControllerPort ---------------------------
(***************************************************************************)
(* ApplePS2Controller's two readers of the one data port of the keyboard   *)
(* controller: the interrupt handlers, which hand every byte to the driver *)
(* of the device it came from, and the work loop, which while it processes *)
(* a request polls the port for the answers and hands on, itself, the      *)
(* bytes that are not an answer (readDataPort, in both versions).          *)
(*                                                                         *)
(* The controller chip and the devices are external.  The chip has an      *)
(* input buffer, for the byte written to one of its ports until it takes   *)
(* it (kInputBusy), and an output buffer, filled from a device or with its *)
(* own answer whenever it is empty, which latches an edge-triggered        *)
(* interrupt as it fills and keeps its last byte when it is read again.  A *)
(* device answers a command after at most MaxBefore of the bytes it was    *)
(* about to send.                                                          *)
(*                                                                         *)
(* A byte is the record of its origin, of what it is ("async" input,       *)
(* "alike" if that has the value of an acknowledge, as movement may; an    *)
(* "ack", "data" in an answer, the command byte "cb") and, for input, its  *)
(* number; every comparison in a request is with the acknowledge.          *)
(***************************************************************************)
EXTENDS Naturals, Sequences, SequencesExt

CONSTANTS
    SMP,            \* may handlers run beside each other and the work loop?
    Programs,       \* command lists of the requests the drivers submit
    MaxRequests,    \* bound: requests processed
    MaxAsync,       \* bound: input bytes the devices send, together
    MaxBefore,      \* input bytes a device sends before it answers
    MaxEarly        \* bound: reads that time out though an answer will come

ASSUME SMPAssumption == SMP \in BOOLEAN
ASSUME BoundsAssumption == {MaxRequests, MaxAsync, MaxBefore, MaxEarly} \subseteq Nat

(* kPS2C_ commands; those that send say what the device answers.           *)
Command ==
    [op : {"WriteCommandPort"}, mouse : BOOLEAN]
    \cup [op : {"WriteDataPort", "SendMouseCommandAndCompareAck"}, answer : Seq({"ack", "data"})]
    \cup [op : {"ReadDataPort", "ReadDataPortAndCompare", "ReadMouseDataPort",
                "ReadMouseDataPortAndCompare", "ModifyCommandByte", "FlushDataPort"}]

ASSUME ProgramsAssumption == Programs \subseteq Seq(Command)

OnlyCompares(p) ==
    \A i \in DOMAIN p : p[i].op \notin {"ReadDataPort", "ReadMouseDataPort",
                                      "ModifyCommandByte", "FlushDataPort"}

(* The drivers that compare send one byte at a time: each is acknowledged  *)
(* by its device, and the acknowledge is read before anything else is      *)
(* done, with kPS2C_ReadMouseDataPortAndCompare after kDP_TransmitToMouse. *)
CompareReads == {"ReadDataPortAndCompare", "ReadMouseDataPortAndCompare"}

Acknowledged(p) ==
    \A i \in DOMAIN p :
        /\ p[i].op \in {"WriteDataPort", "SendMouseCommandAndCompareAck"} => p[i].answer = <<"ack">>
        /\ p[i].op = "WriteDataPort" => i + 1 \in DOMAIN p
        /\ i + 1 \in DOMAIN p => (p[i].op = "WriteDataPort" <=> p[i + 1].op \in CompareReads)
        /\ i + 2 \in DOMAIN p /\ p[i + 2].op = "ReadMouseDataPortAndCompare" =>
               p[i].op = "WriteCommandPort" /\ p[i].mouse

StartsWithSend(p) ==
    /\ 1 \in DOMAIN p => p[1].op \notin CompareReads
    /\ 2 \in DOMAIN p => p[2].op # "ReadMouseDataPortAndCompare"

ASSUME ComparingAssumption ==
    \A p \in Programs : OnlyCompares(p) => Acknowledged(p) /\ StartsWithSend(p)

Device == {"keyboard", "mouse"}
Other(d) == IF d = "keyboard" THEN "mouse" ELSE "keyboard"
NoByte == [dev |-> "none", kind |-> "none", n |-> 0]

(* A keyboard sends no 0xFA but to acknowledge.                            *)
InputKinds(d) == IF d = "mouse" THEN {"async", "alike"} ELSE {"async"}
IsInput(b) == b.kind \in {"async", "alike"}
Matches(b) == b.kind \in {"ack", "alike"}

NoInput == [to |-> "none", answer |-> <<>>]

VARIABLES
    dev,        \* dev[d]: bytes device d has yet to send
    ctl,        \* answers of the chip itself, on the keyboard's stream
    input,      \* the chip's input buffer: whom the byte is for, its answer
    sent,       \* sent[d]: input bytes device d has produced
    full, out,  \* kOutputReady; the byte of the data port (and its kMouseData)
    irq,        \* devices whose interrupt is latched
    handler,    \* handler[d]: where the handler of d's interrupt line is
    hstatus,    \* hstatus[d]: device according to the status it has read
    hdata,      \* hdata[d]: the byte it has read and not yet dispatched
    top,        \* the line whose handler began last
    ignore,     \* _ignoreInterrupts
    pc,         \* where processRequest is
    request,    \* the commands still to be processed
    mode,       \* deviceMode; set at a request's end for the next one
    toMouse,    \* transmitToMouse, the same
    held,       \* firstByte if firstByteHeld, else NoByte
    wstatus,    \* the same for the work loop, "none" while it waits for data
    delivered,  \* delivered[d]: bytes handed to the driver of d, in order
    overtaken,  \* history: bytes held by a handler while another dispatched
    returned,   \* input bytes returned to a request as if they were answers
    failures,   \* requests that failed
    requests,   \* requests begun
    early,      \* reads that timed out though an answer was on its way
    unsure      \* history: a request did not compare, an answer came late,
                \* or input was taken for one

chipVars == <<dev, ctl, input, sent, full, out, irq>>
handlerVars == <<handler, hstatus, hdata, top, overtaken>>
requestVars == <<request, mode, toMouse>>
countVars == <<returned, failures, requests, early, unsure>>
vars == <<chipVars, handlerVars, ignore, pc, requestVars, held, wstatus,
          delivered, countVars>>

Init ==
    /\ dev = [d \in Device |-> <<>>] /\ ctl = <<>> /\ input = NoInput
    /\ sent = [d \in Device |-> 0]
    /\ full = FALSE /\ out = NoByte /\ irq = {}
    /\ handler = [d \in Device |-> "idle"] /\ hstatus = [d \in Device |-> d]
    /\ hdata = [d \in Device |-> NoByte] /\ top = "keyboard" /\ overtaken = {}
    /\ ignore = 0
    /\ pc = "idle" /\ request = <<>> /\ mode = "keyboard" /\ toMouse = FALSE
    /\ held = NoByte /\ wstatus = "none"
    /\ delivered = [d \in Device |-> <<>>]
    /\ returned = {} /\ failures = 0 /\ requests = 0 /\ early = 0
    /\ unsure = FALSE

-----------------------------------------------------------------------------
(* The chip and the devices. *)

(* A key is pressed, the pad is touched. *)
Input(d) ==
    /\ sent["keyboard"] + sent["mouse"] < MaxAsync
    /\ sent' = [sent EXCEPT ![d] = @ + 1]
    /\ \E k \in InputKinds(d) :
           dev' = [dev EXCEPT ![d] = Append(@, [dev |-> d, kind |-> k, n |-> sent[d] + 1])]
    /\ UNCHANGED <<ctl, input, full, out, irq, handlerVars, ignore, pc, requestVars, held,
                   wstatus, delivered, countVars>>

(* The empty output buffer takes the next byte and requests an interrupt.  *)
(* A device that has a command to come is late if it sends input first.    *)
FillFromDevice(d) ==
    /\ ~full /\ dev[d] # <<>>
    /\ full' = TRUE /\ out' = Head(dev[d]) /\ irq' = irq \cup {d}
    /\ dev' = [dev EXCEPT ![d] = Tail(@)]
    /\ unsure' = (unsure \/ input.to = d)
    /\ UNCHANGED <<ctl, input, sent, handlerVars, ignore, pc, requestVars, held, wstatus,
                   delivered, returned, failures, requests, early>>

FillFromChip ==
    /\ ~full /\ ctl # <<>>
    /\ full' = TRUE /\ out' = Head(ctl) /\ irq' = irq \cup {"keyboard"}
    /\ ctl' = Tail(ctl)
    /\ UNCHANGED <<dev, input, sent, handlerVars, ignore, pc, requestVars, held, wstatus,
                   delivered, countVars>>

(* Device d queues its answer behind at most MaxBefore input bytes. *)
Answer(d, kinds) ==
    LET bytes == [i \in DOMAIN kinds |-> [dev |-> d, kind |-> kinds[i], n |-> 0]]
        waiting == dev[d]
    IN  \E k \in 0 .. MaxBefore :
            /\ k <= Len(waiting)
            /\ dev' = [dev EXCEPT ![d] = SubSeq(waiting, 1, k) \o bytes
                                         \o SubSeq(waiting, k + 1, Len(waiting))]
            /\ unsure' = (unsure \/ k > 0)

(* The chip takes what was written: a command of its own, which it answers *)
(* with the command byte if it was asked for it, or a byte it passes on.   *)
TakeCommand ==
    /\ input.to = "chip"
    /\ ctl' = IF input.answer = <<>> THEN ctl
              ELSE Append(ctl, [dev |-> "keyboard", kind |-> "cb", n |-> 0])
    /\ UNCHANGED <<dev, unsure>>

PassOn ==
    /\ input.to \in Device
    /\ Answer(input.to, input.answer)
    /\ UNCHANGED ctl

TakeInput ==
    /\ TakeCommand \/ PassOn
    /\ input' = NoInput
    /\ UNCHANGED <<sent, full, out, irq, handlerVars, ignore, pc, requestVars, held, wstatus,
                   delivered, returned, failures, requests, early>>

-----------------------------------------------------------------------------
(* interruptHandlerKeyboard, interruptHandlerMouse and handleInterrupt.    *)
(* Interrupts are off from reading the status to reading the data, and on  *)
(* elsewhere: there the other line's handler may begin, which on a single  *)
(* processor ends before this one goes on.                                 *)
Runs(d) == SMP \/ handler[Other(d)] = "idle" \/ top = d

EnterHandler(d) ==
    /\ handler[d] = "idle" /\ d \in irq
    /\ SMP \/ handler[Other(d)] # "data"
    /\ irq' = irq \ {d}
    /\ IF ignore > 0 THEN UNCHANGED <<handler, top>>
       ELSE handler' = [handler EXCEPT ![d] = "status"] /\ top' = d
    /\ UNCHANGED <<dev, ctl, input, sent, full, out, hstatus, hdata, overtaken, ignore, pc,
                   requestVars, held, wstatus, delivered, countVars>>

(* Read the status; leave the loop when there is no data. *)
HandlerStatus(d) ==
    /\ handler[d] = "status" /\ Runs(d)
    /\ handler' = [handler EXCEPT ![d] = IF full THEN "data" ELSE "idle"]
    /\ hstatus' = IF full THEN [hstatus EXCEPT ![d] = out.dev] ELSE hstatus
    /\ UNCHANGED <<chipVars, hdata, top, overtaken, ignore, pc, requestVars, held, wstatus,
                   delivered, countVars>>

(* Read the data; interrupts are back on. *)
HandlerData(d) ==
    /\ handler[d] = "data" /\ Runs(d)
    /\ full' = FALSE
    /\ hdata' = [hdata EXCEPT ![d] = out]
    /\ handler' = [handler EXCEPT ![d] = "dispatch"]
    /\ UNCHANGED <<dev, ctl, input, sent, out, irq, hstatus, top, overtaken, ignore, pc,
                   requestVars, held, wstatus, delivered, countVars>>

(* Dispatch it to the driver the status named, and look for more. *)
HandlerDispatch(d) ==
    /\ handler[d] = "dispatch" /\ Runs(d)
    /\ delivered' = [delivered EXCEPT ![hstatus[d]] = Append(@, hdata[d])]
    /\ overtaken' = IF handler[Other(d)] = "dispatch" /\ hstatus[Other(d)] = hstatus[d]
                    THEN overtaken \cup {hdata[Other(d)]} ELSE overtaken
    /\ hdata' = [hdata EXCEPT ![d] = NoByte] /\ hstatus' = [hstatus EXCEPT ![d] = d]
    /\ handler' = [handler EXCEPT ![d] = "status"]
    /\ UNCHANGED <<chipVars, top, ignore, pc, requestVars, held, wstatus, countVars>>

-----------------------------------------------------------------------------
(* processRequest on the work loop.  On a single processor it does not run *)
(* while a handler does.                                                   *)
WorkLoopRuns == SMP \/ \A d \in Device : handler[d] = "idle"

BeginRequest ==
    /\ WorkLoopRuns /\ pc = "idle" /\ requests < MaxRequests
    /\ \E p \in Programs : request' = p /\ unsure' = (unsure \/ ~OnlyCompares(p))
    /\ ignore' = ignore + 1
    /\ requests' = requests + 1
    /\ pc' = "command"
    /\ UNCHANGED <<chipVars, handlerVars, mode, toMouse, held, wstatus, delivered, returned, failures, early>>

(* writeCommandPort and writeDataPort wait until the chip has taken what   *)
(* was written before.                                                     *)
Post(to, answer) == input = NoInput /\ input' = [to |-> to, answer |-> answer]

(* One command that does not read; the commands that do begin their read.  *)
(* "Compare" reads are for the acknowledge, see readDataPort(dev, byte).   *)
WriteCommandPort(c) ==
    /\ c.op = "WriteCommandPort"
    /\ Post("chip", <<>>)
    /\ toMouse' = IF c.mouse THEN TRUE ELSE toMouse
    /\ request' = Tail(request)
    /\ UNCHANGED <<mode, pc>>

WriteDataPort(c) ==
    /\ c.op = "WriteDataPort"
    /\ mode' = IF toMouse THEN "mouse" ELSE "keyboard"
    /\ toMouse' = FALSE
    /\ Post(mode', c.answer)
    /\ request' = Tail(request)
    /\ UNCHANGED pc

(* The first of its two writes. *)
SendMouseCommandAndCompareAck(c) ==
    /\ c.op = "SendMouseCommandAndCompareAck"
    /\ Post("chip", <<>>)
    /\ pc' = "transmit"
    /\ UNCHANGED <<mode, toMouse, request>>

ReadPort(c) ==
    /\ c.op \in {"ReadDataPort", "ReadDataPortAndCompare", "ReadMouseDataPort",
                 "ReadMouseDataPortAndCompare"}
    /\ mode' = IF c.op \in {"ReadMouseDataPort", "ReadMouseDataPortAndCompare"}
               THEN "mouse" ELSE mode
    /\ pc' = IF c.op \in {"ReadDataPortAndCompare", "ReadMouseDataPortAndCompare"}
             THEN "compare" ELSE "read"
    /\ UNCHANGED <<input, toMouse, request>>

(* Its read is of the keyboard's stream whatever deviceMode is, and the    *)
(* two writes of the new command byte, which follow, have no answer.       *)
ModifyCommandByte(c) ==
    /\ c.op = "ModifyCommandByte"
    /\ Post("chip", <<"cb">>)
    /\ pc' = "readCommandByte"
    /\ UNCHANGED <<mode, toMouse, request>>

StartCommand ==
    /\ WorkLoopRuns /\ pc = "command" /\ request # <<>>
    /\ \/ WriteCommandPort(Head(request))
       \/ WriteDataPort(Head(request))
       \/ SendMouseCommandAndCompareAck(Head(request))
       \/ ReadPort(Head(request))
       \/ ModifyCommandByte(Head(request))
    /\ UNCHANGED <<dev, ctl, sent, full, out, irq, handlerVars, ignore, held, wstatus, delivered,
                   countVars>>

(* The second write of kPS2C_SendMouseCommandAndCompareAck. *)
Transmit ==
    /\ pc = "transmit"
    /\ Post("mouse", Head(request).answer)
    /\ mode' = "mouse"
    /\ pc' = "compare"
    /\ UNCHANGED request

SetCommandByte ==
    /\ pc = "setCommandByte"
    /\ Post("chip", <<>>)
    /\ pc' = "newCommandByte"
    /\ UNCHANGED <<mode, request>>

NewCommandByte ==
    /\ pc = "newCommandByte"
    /\ Post("chip", <<>>)
    /\ pc' = "command"
    /\ request' = Tail(request)
    /\ UNCHANGED mode

WriteMore ==
    /\ WorkLoopRuns
    /\ Transmit \/ SetCommandByte \/ NewCommandByte
    /\ UNCHANGED <<dev, ctl, sent, full, out, irq, handlerVars, ignore, toMouse, held, wstatus,
                   delivered, countVars>>

(* kPS2C_FlushDataPort throws away what is in the output buffer, from      *)
(* either device, until it finds the buffer empty.                         *)
Flush ==
    /\ WorkLoopRuns /\ pc = "command" /\ request # <<>>
    /\ Head(request).op = "FlushDataPort"
    /\ IF full
       THEN /\ full' = FALSE
            /\ returned' = returned \cup (IF IsInput(out) THEN {out} ELSE {})
            /\ UNCHANGED request
       ELSE request' = Tail(request) /\ UNCHANGED <<full, returned>>
    /\ UNCHANGED <<dev, ctl, input, sent, out, irq, handlerVars, ignore, pc, mode, toMouse, held,
                   wstatus, delivered, failures, requests, early, unsure>>

-----------------------------------------------------------------------------
(* readDataPort. *)
Reading == pc \in {"read", "compare", "readCommandByte"}
Requested == IF pc = "readCommandByte" THEN "keyboard" ELSE mode

\* Mutant: the wait is for a byte of the device that is to answer.
PollOwnStatus ==
    /\ WorkLoopRuns /\ Reading /\ wstatus = "none" /\ full /\ out.dev = Requested
    /\ wstatus' = out.dev
    /\ UNCHANGED <<chipVars, handlerVars, ignore, pc, requestVars, held, delivered, countVars>>

(* The wait for kOutputReady ends. *)
PollStatus ==
    /\ WorkLoopRuns /\ Reading /\ wstatus = "none" /\ full
    /\ wstatus' = out.dev
    /\ UNCHANGED <<chipVars, handlerVars, ignore, pc, requestVars, held, delivered, countVars>>

(* The command gets byte b; a failed comparison ends the request.          *)
Return(b) ==
    /\ pc' = IF pc = "readCommandByte" THEN "setCommandByte" ELSE "command"
    /\ held' = NoByte
    /\ returned' = IF IsInput(b) THEN returned \cup {b} ELSE returned
    /\ request' = IF pc = "readCommandByte" THEN request
                  ELSE IF pc = "compare" /\ ~Matches(b) THEN <<>> ELSE Tail(request)
    /\ failures' = IF pc = "compare" /\ ~Matches(b) THEN failures + 1 ELSE failures
    /\ unsure' = (unsure \/ (pc = "compare" /\ b.kind = "alike"))

Dispatch(d, b) == delivered' = [delivered EXCEPT ![d] = Append(@, b)]

(* A byte of the other stream goes to the other driver. *)
ReadOther ==
    /\ wstatus # Requested
    /\ Dispatch(Other(Requested), out)
    /\ UNCHANGED <<pc, request, held, returned, failures, unsure>>

(* readDataPort(deviceType). *)
ReadPlain ==
    /\ wstatus = Requested /\ pc # "compare"
    /\ Return(out)
    /\ UNCHANGED delivered

\* Mutant: the byte that was put aside is forgotten.
ReadExpectedForgets ==
    /\ wstatus = Requested /\ pc = "compare" /\ Matches(out)
    /\ Return(out)
    /\ UNCHANGED delivered

(* readDataPort(deviceType, expectedByte): the first byte that does not    *)
(* match is held; the second decides.                                      *)
ReadExpected ==
    /\ wstatus = Requested /\ pc = "compare" /\ Matches(out)
    /\ IF held # NoByte THEN Dispatch(Requested, held) ELSE UNCHANGED delivered
    /\ Return(out)

\* Mutant: no second chance, the first byte read is returned.
HoldFirstReturns ==
    /\ wstatus = Requested /\ pc = "compare" /\ ~Matches(out)
    /\ held = NoByte
    /\ Return(out)
    /\ UNCHANGED delivered

HoldFirst ==
    /\ wstatus = Requested /\ pc = "compare" /\ ~Matches(out)
    /\ held = NoByte
    /\ held' = out
    /\ UNCHANGED <<pc, request, delivered, returned, failures, unsure>>

SecondMismatch ==
    /\ wstatus = Requested /\ pc = "compare" /\ ~Matches(out)
    /\ held # NoByte
    /\ Dispatch(Requested, out)
    /\ Return(held)

PollData ==
    /\ WorkLoopRuns /\ Reading /\ wstatus # "none"
    /\ full' = FALSE
    /\ wstatus' = "none"
    /\ (ReadOther \/ ReadPlain \/ ReadExpected \/ HoldFirst \/ SecondMismatch)
    /\ UNCHANGED <<dev, ctl, input, sent, out, irq, handlerVars, ignore, mode, toMouse, requests,
                   early>>

(* The wait times out: nothing more will come, or not in time.  The result *)
(* is the byte held, or a fake value.                                      *)
Quiet == ~full /\ input = NoInput /\ ctl = <<>> /\ \A d \in Device : dev[d] = <<>>

TimeOut ==
    /\ WorkLoopRuns /\ Reading /\ wstatus = "none" /\ ~full
    /\ Quiet \/ early < MaxEarly
    /\ early' = IF Quiet THEN early ELSE early + 1
    /\ Return(held)
    /\ UNCHANGED <<chipVars, handlerVars, ignore, mode, toMouse, wstatus, delivered,
                   requests>>

\* Mutant: interrupts stay ignored after the request.
EndRequestUnbalanced ==
    /\ WorkLoopRuns /\ pc = "command" /\ request = <<>>
    /\ ignore' = ignore
    /\ pc' = "idle" /\ mode' = "keyboard" /\ toMouse' = FALSE
    /\ UNCHANGED <<chipVars, handlerVars, request, held, wstatus, delivered, countVars>>

(* All commands done or one failed: interrupts are handled again.          *)
EndRequest ==
    /\ WorkLoopRuns /\ pc = "command" /\ request = <<>>
    /\ ignore' = ignore - 1
    /\ pc' = "idle" /\ mode' = "keyboard" /\ toMouse' = FALSE
    /\ UNCHANGED <<chipVars, handlerVars, request, held, wstatus, delivered, countVars>>

-----------------------------------------------------------------------------
Chip == (\E d \in Device : FillFromDevice(d)) \/ FillFromChip
Handler == \E d \in Device : \/ EnterHandler(d) \/ HandlerStatus(d) \/ HandlerData(d)
                             \/ HandlerDispatch(d)
WorkLoop == \/ StartCommand \/ WriteMore \/ Flush \/ PollStatus \/ PollData \/ TimeOut
            \/ EndRequest

Next == \/ \E d \in Device : Input(d)
        \/ Chip \/ TakeInput \/ Handler \/ BeginRequest \/ WorkLoop

Spec == Init /\ [][Next]_vars

(* The chip passes bytes on and takes what is written (the waits while     *)
(* kInputBusy have no end of their own), an interrupt that is latched is   *)
(* taken, and a request that has begun is worked on.  Neither input nor    *)
(* another request need ever come.                                         *)
FairSpec == /\ Spec
            /\ WF_vars(Chip) /\ WF_vars(TakeInput) /\ WF_vars(Handler) /\ WF_vars(WorkLoop)

-----------------------------------------------------------------------------
Byte == [dev : Device, kind : {"async", "alike", "ack", "data", "cb"}, n : Nat]

TypeOK ==
    /\ dev \in [Device -> Seq(Byte)] /\ ctl \in Seq(Byte) /\ sent \in [Device -> Nat]
    /\ input = NoInput \/ input \in [to : Device \cup {"chip"}, answer : Seq({"ack", "data", "cb"})]
    /\ full \in BOOLEAN /\ out \in Byte \cup {NoByte}
    /\ irq \subseteq Device
    /\ handler \in [Device -> {"idle", "status", "data", "dispatch"}]
    /\ hstatus \in [Device -> Device] /\ hdata \in [Device -> Byte \cup {NoByte}]
    /\ top \in Device /\ overtaken \subseteq Byte
    /\ ignore \in 0 .. 1
    /\ pc \in {"idle", "command", "transmit", "read", "compare", "readCommandByte",
               "setCommandByte", "newCommandByte"}
    /\ request \in Seq(Command) /\ mode \in Device /\ toMouse \in BOOLEAN
    /\ held \in Byte \cup {NoByte} /\ wstatus \in Device \cup {"none"}
    /\ delivered \in [Device -> Seq(Byte)]
    /\ returned \subseteq Byte /\ unsure \in BOOLEAN

(* A driver's interrupt routine is given the bytes of its own device only. *)
OwnStream == \A d \in Device : \A i \in DOMAIN delivered[d] : delivered[d][i].dev = d

(* It is given the device's input in the order it was sent, and no byte    *)
(* twice, through whichever of the two readers a byte came.  Only a byte   *)
(* that a handler had in its hand while a handler that interrupted it      *)
(* dispatched may come late: "(it does not matter [too much] if keyboard   *)
(* data is delivered out of order)" (VoodooPS2Controller.cpp:208).         *)
InputIn(bytes) == {i \in DOMAIN bytes : IsInput(bytes[i])}
InOrder ==
    \A d \in Device : \A i, j \in InputIn(delivered[d]) :
        i < j => \/ delivered[d][i].n < delivered[d][j].n
                 \/ delivered[d][j] \in overtaken /\ delivered[d][i].n # delivered[d][j].n

(* No input byte disappears: each one sent has been delivered, or is on    *)
(* its way, or was returned to a request as an answer.                     *)
Places(d) ==
    ToSet(delivered[d]) \cup ToSet(dev[d]) \cup returned
    \cup {hdata[e] : e \in {h \in Device : handler[h] = "dispatch"}}
    \cup (IF full THEN {out} ELSE {}) \cup (IF pc = "compare" THEN {held} ELSE {})
Conserved ==
    \A d \in Device : \A n \in 1 .. sent[d] :
        \E b \in Places(d) : b.dev = d /\ IsInput(b) /\ b.n = n

(* InputDelivered: together, each driver is given exactly its device's     *)
(* input stream, up to what answers to requests have been taken from it    *)
(* and what an interrupted handler delivers late.                          *)
InputDelivered == OwnStream /\ InOrder /\ Conserved

(* The second chance is enough: if a device answers without first sending  *)
(* more of its input, and no input that looks like the acknowledge was     *)
(* read in its place, a request that only compares neither fails nor takes *)
(* any input away, although a byte may be waiting in the output buffer.    *)
Assured == ~unsure /\ early = 0
SecondChance == Assured => failures = 0 /\ returned = {}

(* Nor is an answer then given to a driver as input.  "Don't handle        *)
(* interrupts during this process.  We want to read the data by polling    *)
(* for it here."  (VoodooPS2Controller.cpp:1105)                           *)
AnswersAreNotInput ==
    Assured => \A d \in Device : \A i \in DOMAIN delivered[d] : IsInput(delivered[d][i])

(* ComparingWorks: with answers in time, comparing requests and the        *)
(* drivers' input do not disturb each other, in either direction.          *)
ComparingWorks == SecondChance /\ AnswersAreNotInput

(* A request that has begun ends. *)
RequestEnds == pc # "idle" ~> pc = "idle"

(* "Now it is ok to process interrupts normally"                           *)
(* (VoodooPS2Controller.cpp:1212): a byte in the output buffer is read,    *)
(* even if it came while interrupts were ignored.                          *)
OutputIsRead == full ~> ~full

=============================================================================

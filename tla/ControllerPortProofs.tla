------------------------ MODULE ControllerPortProofs ------------------------
(***************************************************************************)
(* Proofs about ControllerPort, for any command lists, any number of       *)
(* requests, input bytes, early time-outs and bytes before an answer.      *)
(***************************************************************************)
EXTENDS ControllerPort, TLAPS

-----------------------------------------------------------------------------
(* Sequences of bytes. *)
LEMMA TailElements ==
    ASSUME NEW S, NEW q \in Seq(S), q # <<>>
    PROVE  /\ Head(q) \in S /\ Tail(q) \in Seq(S) /\ Head(q) = q[1] /\ 1 \in DOMAIN q
           /\ DOMAIN Tail(q) = 1 .. Len(q) - 1
           /\ \A i \in DOMAIN Tail(q) : i + 1 \in DOMAIN q /\ Tail(q)[i] = q[i + 1]
           /\ ToSet(q) = {Head(q)} \cup ToSet(Tail(q))
<1>1. /\ Head(q) \in S /\ Tail(q) \in Seq(S) /\ Head(q) = q[1] /\ 1 \in DOMAIN q
      /\ DOMAIN Tail(q) = 1 .. Len(q) - 1
      /\ \A i \in DOMAIN Tail(q) : i + 1 \in DOMAIN q /\ Tail(q)[i] = q[i + 1]
  OBVIOUS
<1>2. \A i \in DOMAIN q : i = 1 \/ (i - 1 \in DOMAIN Tail(q) /\ Tail(q)[i - 1] = q[i])
  OBVIOUS
<1>3. ToSet(q) \subseteq {Head(q)} \cup ToSet(Tail(q))
  BY <1>1, <1>2 DEF ToSet
<1>4. {Head(q)} \cup ToSet(Tail(q)) \subseteq ToSet(q)
  BY <1>1 DEF ToSet
<1>5. QED
  BY <1>1, <1>3, <1>4

LEMMA AppendElements ==
    ASSUME NEW S, NEW q \in Seq(S), NEW b \in S
    PROVE  /\ Append(q, b) \in Seq(S)
           /\ DOMAIN Append(q, b) = 1 .. Len(q) + 1 /\ DOMAIN q = 1 .. Len(q)
           /\ Append(q, b)[Len(q) + 1] = b
           /\ \A i \in DOMAIN q : Append(q, b)[i] = q[i]
           /\ ToSet(Append(q, b)) = ToSet(q) \cup {b}
<1>1. /\ Append(q, b) \in Seq(S)
      /\ DOMAIN Append(q, b) = 1 .. Len(q) + 1 /\ DOMAIN q = 1 .. Len(q)
      /\ Append(q, b)[Len(q) + 1] = b
      /\ \A i \in DOMAIN q : Append(q, b)[i] = q[i]
  OBVIOUS
<1>2. ToSet(Append(q, b)) = ToSet(q) \cup {b}
  BY <1>1 DEF ToSet
<1>3. QED
  BY <1>1, <1>2

(* Bytes put in among others: where each byte of the result comes from. *)
Inserted(q, r, k) == SubSeq(q, 1, k) \o r \o SubSeq(q, k + 1, Len(q))

PutIn(w, q, r, k) ==
    /\ Len(w) = Len(q) + Len(r)
    /\ \A i \in 1 .. k : w[i] = q[i]
    /\ \A i \in k + 1 .. k + Len(r) : w[i] = r[i - k]
    /\ \A i \in k + Len(r) + 1 .. Len(q) + Len(r) : w[i] = q[i - Len(r)]

LEMMA InsertedElements ==
    ASSUME NEW S, NEW q \in Seq(S), NEW r \in Seq(S), NEW k \in 0 .. Len(q)
    PROVE  Inserted(q, r, k) \in Seq(S) /\ PutIn(Inserted(q, r, k), q, r, k)
<1>1. /\ SubSeq(q, 1, k) \in Seq(S) /\ SubSeq(q, k + 1, Len(q)) \in Seq(S)
  OBVIOUS
<1>2. PICK a \in Seq(S) : a = SubSeq(q, 1, k)
  BY <1>1
<1>3. PICK z \in Seq(S) : z = SubSeq(q, k + 1, Len(q))
  BY <1>1
<1>4. Len(a) = k /\ \A i \in 1 .. k : a[i] = q[i]
  BY <1>2
<1>5. Len(z) = Len(q) - k /\ \A i \in 1 .. Len(q) - k : z[i] = q[i + k]
  BY <1>3
<1>6. PICK w \in Seq(S) : w = Inserted(q, r, k)
  <2>1. (a \o r) \o z \in Seq(S)
    OBVIOUS
  <2>2. QED
    BY <1>2, <1>3, <2>1 DEF Inserted
<1>7. /\ Len(w) = Len(a) + Len(r) + Len(z)
      /\ \A i \in 1 .. Len(a) : w[i] = a[i]
      /\ \A i \in Len(a) + 1 .. Len(a) + Len(r) : w[i] = r[i - Len(a)]
      /\ \A i \in Len(a) + Len(r) + 1 .. Len(a) + Len(r) + Len(z) :
            w[i] = z[i - (Len(a) + Len(r))]
  <2>1. w = (a \o r) \o z
    BY <1>2, <1>3, <1>6 DEF Inserted
  <2>2. QED
    BY <2>1
<1>8. \A i \in k + Len(r) + 1 .. Len(q) + Len(r) : w[i] = q[i - Len(r)]
  <2> TAKE i \in k + Len(r) + 1 .. Len(q) + Len(r)
  <2>1. i - (k + Len(r)) \in 1 .. Len(q) - k /\ (i - (k + Len(r))) + k = i - Len(r)
    OBVIOUS
  <2>2. w[i] = z[i - (k + Len(r))]
    BY <1>4, <1>5, <1>7
  <2>3. QED
    BY <1>5, <2>1, <2>2
<1>9. /\ Len(w) = Len(q) + Len(r)
      /\ \A i \in 1 .. k : w[i] = q[i]
      /\ \A i \in k + 1 .. k + Len(r) : w[i] = r[i - k]
  BY <1>4, <1>5, <1>7
<1>10. PutIn(w, q, r, k)
  BY <1>8, <1>9 DEF PutIn
<1>11. QED
  BY <1>6, <1>10

-----------------------------------------------------------------------------
(* Types.  The output buffer has had a byte in it when one is read, a read *)
(* and the writes that go with it are of a command, and _ignoreInterrupts  *)
(* counts the request that runs.                                           *)
TInv ==
    /\ TypeOK
    /\ full \/ wstatus # "none" => out \in Byte
    /\ \A d \in Device : /\ handler[d] = "data" => out \in Byte
                         /\ handler[d] = "dispatch" => hdata[d] \in Byte
    /\ pc \notin {"idle", "command"} => request # <<>>
    /\ pc = "transmit" => Head(request).op = "SendMouseCommandAndCompareAck"
    /\ ignore = IF pc = "idle" THEN 0 ELSE 1

LEMMA ByteFacts ==
    /\ NoByte \notin Byte /\ NoByte.kind = "none" /\ NoByte.dev = "none"
    /\ ~IsInput(NoByte) /\ ~Matches(NoByte)
    /\ \A b \in Byte : b.dev \in Device /\ b.n \in Nat
    /\ \A d \in Device, n \in Nat : \A k \in InputKinds(d) :
          [dev |-> d, kind |-> k, n |-> n] \in Byte /\ k \in {"async", "alike"}
BY DEF NoByte, Byte, Device, InputKinds, IsInput, Matches

LEMMA InitTInv == Init => TInv
<1> SUFFICES ASSUME Init PROVE TInv
  OBVIOUS
<1>1. sent \in [Device -> Nat]
  BY DEF Init
<1>2. /\ dev \in [Device -> Seq(Byte)] /\ ctl \in Seq(Byte) /\ delivered \in [Device -> Seq(Byte)]
      /\ request \in Seq(Command) /\ input = NoInput
  BY DEF Init
<1>3. /\ out \in Byte \cup {NoByte} /\ held \in Byte \cup {NoByte}
      /\ irq \subseteq Device /\ returned \subseteq Byte /\ overtaken \subseteq Byte
      /\ top \in Device /\ mode \in Device /\ wstatus \in Device \cup {"none"}
  BY DEF Init, Device
<1>4. full = FALSE /\ toMouse = FALSE /\ unsure = FALSE /\ ignore = 0
      /\ handler = [d \in Device |-> "idle"] /\ pc = "idle" /\ wstatus = "none"
  BY DEF Init
<1>5. full \in BOOLEAN /\ toMouse \in BOOLEAN /\ unsure \in BOOLEAN
  BY <1>4, Zenon
<1>6. /\ ignore \in 0 .. 1
      /\ handler \in [Device -> {"idle", "status", "data", "dispatch"}]
      /\ hstatus \in [Device -> Device] /\ hdata \in [Device -> Byte \cup {NoByte}]
      /\ pc \in {"idle", "command", "transmit", "read", "compare", "readCommandByte",
                 "setCommandByte", "newCommandByte"}
  BY <1>4 DEF Init
<1>7. TypeOK
  BY <1>1, <1>2, <1>3, <1>5, <1>6 DEF TypeOK
<1>8. QED
  BY <1>4, <1>7 DEF TInv

LEMMA TypeInput ==
    ASSUME TInv, NEW d \in Device, Input(d)
    PROVE  TInv'
<1>1. sent[d] + 1 \in Nat
  BY DEF TInv, TypeOK, Input
<1>2. PICK k \in InputKinds(d) :
         dev' = [dev EXCEPT ![d] = Append(@, [dev |-> d, kind |-> k, n |-> sent[d] + 1])]
  BY DEF Input
<1>3. PICK b \in Byte : b = [dev |-> d, kind |-> k, n |-> sent[d] + 1]
  BY <1>1, ByteFacts
<1>4. Append(dev[d], b) \in Seq(Byte)
  BY AppendElements DEF TInv, TypeOK
<1>5. dev' \in [Device -> Seq(Byte)]
  BY <1>2, <1>3, <1>4 DEF TInv, TypeOK
<1>6. QED
  BY <1>1, <1>5 DEF TInv, TypeOK, Input, handlerVars, requestVars, countVars

LEMMA TypeChip ==
    ASSUME TInv, Chip
    PROVE  TInv'
<1>1. ASSUME NEW d \in Device, FillFromDevice(d) PROVE TInv'
  <2>1. Head(dev[d]) \in Byte /\ Tail(dev[d]) \in Seq(Byte)
    BY <1>1, TailElements DEF TInv, TypeOK, FillFromDevice
  <2>2. unsure' \in BOOLEAN
    BY <1>1 DEF FillFromDevice
  <2>3. QED
    BY <1>1, <2>1, <2>2 DEF TInv, TypeOK, FillFromDevice, handlerVars, requestVars, countVars
<1>2. CASE FillFromChip
  <2>1. Head(ctl) \in Byte /\ Tail(ctl) \in Seq(Byte)
    BY <1>2, TailElements DEF TInv, TypeOK, FillFromChip
  <2>2. QED
    BY <1>2, <2>1 DEF TInv, TypeOK, FillFromChip, Device, handlerVars, requestVars, countVars
<1>3. QED
  BY <1>1, <1>2 DEF Chip

LEMMA TypeHandler ==
    ASSUME TInv, Handler
    PROVE  TInv'
<1>1. ASSUME NEW d \in Device, EnterHandler(d) PROVE TInv'
  <2>1. /\ UNCHANGED <<dev, ctl, input, sent, full, out, hstatus, hdata, overtaken, ignore, pc,
                       request, mode, toMouse, held, wstatus, delivered, returned, unsure>>
        /\ irq' = irq \ {d}
        /\ \/ handler' = handler /\ top' = top
           \/ handler' = [handler EXCEPT ![d] = "status"] /\ top' = d
    BY <1>1 DEF EnterHandler, requestVars, countVars
  <2>2. handler' \in [Device -> {"idle", "status", "data", "dispatch"}] /\ top' \in Device
    BY <2>1 DEF TInv, TypeOK
  <2>3. \A e \in Device : handler'[e] # "status" => handler'[e] = handler[e]
    BY <2>1 DEF TInv, TypeOK
  <2>4. TypeOK'
    BY <2>1, <2>2 DEF TInv, TypeOK
  <2>5. QED
    BY <2>1, <2>3, <2>4 DEF TInv
<1>2. ASSUME NEW d \in Device, HandlerStatus(d) PROVE TInv'
  <2>1. hstatus' \in [Device -> Device]
    BY <1>2, ByteFacts DEF TInv, TypeOK, HandlerStatus
  <2>2. /\ UNCHANGED <<dev, ctl, input, sent, full, out, irq, hdata, top, overtaken, ignore, pc,
                       request, mode, toMouse, held, wstatus, delivered, returned, unsure>>
        /\ handler' = [handler EXCEPT ![d] = IF full THEN "data" ELSE "idle"]
    BY <1>2 DEF HandlerStatus, chipVars, requestVars, countVars
  <2>3. /\ handler' \in [Device -> {"idle", "status", "data", "dispatch"}]
        /\ \A e \in Device : /\ handler'[e] = "data" => full \/ handler[e] = "data"
                             /\ handler'[e] = "dispatch" => handler[e] = "dispatch"
    BY <2>2 DEF TInv, TypeOK
  <2>4. TypeOK'
    BY <2>1, <2>2, <2>3 DEF TInv, TypeOK
  <2>5. QED
    BY <2>2, <2>3, <2>4 DEF TInv
<1>3. ASSUME NEW d \in Device, HandlerData(d) PROVE TInv'
  BY <1>3 DEF TInv, TypeOK, HandlerData, requestVars, countVars
<1>4. ASSUME NEW d \in Device, HandlerDispatch(d) PROVE TInv'
  <2>1. hstatus[d] \in Device /\ hdata[d] \in Byte
    BY <1>4 DEF TInv, TypeOK, HandlerDispatch
  <2>2. Append(delivered[hstatus[d]], hdata[d]) \in Seq(Byte)
    BY <2>1, AppendElements DEF TInv, TypeOK
  <2>3. overtaken' \subseteq Byte
    BY <1>4 DEF TInv, TypeOK, HandlerDispatch, Other, Device
  <2>4. delivered' \in [Device -> Seq(Byte)]
    BY <1>4, <2>2 DEF TInv, TypeOK, HandlerDispatch
  <2>5. /\ handler' \in [Device -> {"idle", "status", "data", "dispatch"}]
        /\ hstatus' \in [Device -> Device] /\ hdata' \in [Device -> Byte \cup {NoByte}]
        /\ \A e \in Device : e # d => handler'[e] = handler[e] /\ hdata'[e] = hdata[e]
        /\ handler'[d] = "status"
    BY <1>4 DEF TInv, TypeOK, HandlerDispatch
  <2>6. QED
    BY <1>4, <2>3, <2>4, <2>5
       DEF TInv, TypeOK, HandlerDispatch, chipVars, requestVars, countVars
<1>5. QED
  BY <1>1, <1>2, <1>3, <1>4 DEF Handler

(* What a program sends is typed, and so is what is left of a request.     *)
LEMMA RequestRest ==
    ASSUME TInv, request # <<>>
    PROVE  /\ Head(request) \in Command /\ Tail(request) \in Seq(Command)
           /\ Head(request).op = "WriteCommandPort" => Head(request).mouse \in BOOLEAN
           /\ Head(request).op \in {"WriteDataPort", "SendMouseCommandAndCompareAck"} =>
                 Head(request).answer \in Seq({"ack", "data"})
<1>1. Head(request) \in Command /\ Tail(request) \in Seq(Command)
  BY TailElements DEF TInv, TypeOK
<1>2. QED
  BY <1>1 DEF Command

(* The bytes of an answer; none is input. *)
AnswerKinds == {"ack", "data", "cb"}
AnswerBytes(d, kinds) == [i \in DOMAIN kinds |-> [dev |-> d, kind |-> kinds[i], n |-> 0]]

LEMMA AnswerBytesType ==
    ASSUME NEW d \in Device, NEW kinds \in Seq(AnswerKinds)
    PROVE  /\ AnswerBytes(d, kinds) \in Seq(Byte) /\ Len(AnswerBytes(d, kinds)) = Len(kinds)
           /\ \A i \in 1 .. Len(kinds) :
                 /\ AnswerBytes(d, kinds)[i].dev = d
                 /\ AnswerBytes(d, kinds)[i].kind = kinds[i] /\ kinds[i] \in AnswerKinds
                 /\ ~IsInput(AnswerBytes(d, kinds)[i])
<1>1. DOMAIN kinds = 1 .. Len(kinds) /\ Len(kinds) \in Nat
  OBVIOUS
<1>2. \A i \in 1 .. Len(kinds) : kinds[i] \in AnswerKinds
  OBVIOUS
<1>3. \A i \in 1 .. Len(kinds) : [dev |-> d, kind |-> kinds[i], n |-> 0] \in Byte
  BY <1>2 DEF Byte, AnswerKinds
<1>4. AnswerBytes(d, kinds) \in [1 .. Len(kinds) -> Byte]
  BY <1>1, <1>3 DEF AnswerBytes
<1>5. AnswerBytes(d, kinds) \in Seq(Byte) /\ Len(AnswerBytes(d, kinds)) = Len(kinds)
  BY <1>1, <1>4
<1>6. \A i \in 1 .. Len(kinds) :
         /\ AnswerBytes(d, kinds)[i].dev = d
         /\ AnswerBytes(d, kinds)[i].kind = kinds[i] /\ kinds[i] \in AnswerKinds
  BY <1>1, <1>2, <1>5 DEF AnswerBytes
<1>7. QED
  BY <1>5, <1>6 DEF IsInput, AnswerKinds

LEMMA AnswerInserts ==
    ASSUME TInv, NEW d \in Device, NEW kinds \in Seq(AnswerKinds), Answer(d, kinds)
    PROVE  \E k \in 0 .. Len(dev[d]) :
              /\ dev' = [dev EXCEPT ![d] = Inserted(dev[d], AnswerBytes(d, kinds), k)]
              /\ unsure' = (unsure \/ k > 0)
              /\ Inserted(dev[d], AnswerBytes(d, kinds), k) \in Seq(Byte)
<1>1. PICK k \in 0 .. MaxBefore :
         /\ k <= Len(dev[d])
         /\ dev' = [dev EXCEPT ![d] = Inserted(dev[d], AnswerBytes(d, kinds), k)]
         /\ unsure' = (unsure \/ k > 0)
  BY DEF Answer, Inserted, AnswerBytes
<1>2. dev[d] \in Seq(Byte)
  BY DEF TInv, TypeOK
<1>3. k \in 0 .. Len(dev[d])
  BY <1>1, <1>2, BoundsAssumption
<1>4. Inserted(dev[d], AnswerBytes(d, kinds), k) \in Seq(Byte)
  BY <1>2, <1>3, AnswerBytesType, InsertedElements
<1>5. QED
  BY <1>1, <1>3, <1>4

(* The chip's own answer is one byte that is not input. *)
LEMMA TakesCommand ==
    ASSUME TInv, TakeCommand
    PROVE  \/ ctl' = ctl
           \/ \E b \in Byte : /\ ctl' = Append(ctl, b) /\ Append(ctl, b) \in Seq(Byte)
                             /\ b.dev = "keyboard" /\ ~IsInput(b)
<1>1. [dev |-> "keyboard", kind |-> "cb", n |-> 0] \in Byte
  BY DEF Byte, Device
<1>2. PICK b \in Byte : b = [dev |-> "keyboard", kind |-> "cb", n |-> 0]
  BY <1>1, Zenon
<1>3. ctl' = ctl \/ ctl' = Append(ctl, b)
  BY <1>2 DEF TakeCommand
<1>4. b.dev = "keyboard" /\ ~IsInput(b)
  BY <1>2 DEF IsInput
<1>5. Append(ctl, b) \in Seq(Byte)
  BY AppendElements DEF TInv, TypeOK
<1>6. QED
  BY <1>3, <1>4, <1>5

(* What is passed on is for a device, and what it answers is typed. *)
LEMMA PassesOn ==
    ASSUME TInv, PassOn
    PROVE  /\ input.to \in Device /\ input.answer \in Seq(AnswerKinds)
           /\ Answer(input.to, input.answer)
BY DEF TInv, TypeOK, PassOn, NoInput, Device, AnswerKinds

LEMMA TypeTakeInput ==
    ASSUME TInv, TakeInput
    PROVE  TInv'
<1>1. /\ UNCHANGED <<sent, full, out, irq, handler, hstatus, hdata, top, overtaken, ignore, pc,
                     request, mode, toMouse, held, wstatus, delivered, returned>>
      /\ input' = NoInput
  BY DEF TakeInput, handlerVars, requestVars
<1>2. ctl' \in Seq(Byte) /\ dev' \in [Device -> Seq(Byte)] /\ unsure' \in BOOLEAN
  <2>1. CASE TakeCommand
    <3>1. ctl' \in Seq(Byte)
      BY <2>1, TakesCommand DEF TInv, TypeOK
    <3>2. QED
      BY <2>1, <3>1 DEF TakeCommand, TInv, TypeOK
  <2>2. CASE PassOn
    <3>1. PICK d \in Device, a \in Seq(AnswerKinds) : Answer(d, a)
      BY <2>2, PassesOn
    <3>2. PICK k \in 0 .. Len(dev[d]) :
             /\ dev' = [dev EXCEPT ![d] = Inserted(dev[d], AnswerBytes(d, a), k)]
             /\ unsure' = (unsure \/ k > 0)
             /\ Inserted(dev[d], AnswerBytes(d, a), k) \in Seq(Byte)
      BY <3>1, AnswerInserts
    <3>3. dev' \in [Device -> Seq(Byte)]
      BY <3>2 DEF TInv, TypeOK
    <3>4. unsure' \in BOOLEAN
      BY <3>2 DEF TInv, TypeOK
    <3>5. QED
      BY <2>2, <3>3, <3>4 DEF PassOn, TInv, TypeOK
  <2>3. QED
    BY <2>1, <2>2 DEF TakeInput
<1>3. QED
  BY <1>1, <1>2 DEF TInv, TypeOK

LEMMA TypeBegin ==
    ASSUME TInv, BeginRequest
    PROVE  TInv'
<1>1. request' \in Seq(Command) /\ unsure' \in BOOLEAN
  BY ProgramsAssumption DEF TInv, TypeOK, BeginRequest
<1>2. ignore' = 1 /\ pc' = "command"
  BY DEF TInv, TypeOK, BeginRequest
<1>3. UNCHANGED <<dev, ctl, input, sent, full, out, irq, handler, hstatus, hdata, top, overtaken,
                  mode, toMouse, held, wstatus, delivered, returned>>
  BY DEF BeginRequest, chipVars, handlerVars
<1>4. TypeOK'
  BY <1>1, <1>2, <1>3 DEF TInv, TypeOK
<1>5. QED
  BY <1>2, <1>3, <1>4 DEF TInv

(* What is written is typed. *)
LEMMA TypePost ==
    ASSUME TInv, NEW to \in Device \cup {"chip"}, NEW answer \in Seq(AnswerKinds),
           Post(to, answer)
    PROVE  input' \in [to : Device \cup {"chip"}, answer : Seq(AnswerKinds)]
BY DEF Post

LEMMA CommandAnswers ==
    /\ <<>> \in Seq(AnswerKinds) /\ <<"cb">> \in Seq(AnswerKinds)
    /\ \A a \in Seq({"ack", "data"}) : a \in Seq(AnswerKinds)
BY DEF AnswerKinds

LEMMA TypeStart ==
    ASSUME TInv, StartCommand
    PROVE  TInv'
<1>1. UNCHANGED <<dev, ctl, sent, full, out, irq, handlerVars, ignore, held, wstatus, delivered,
                  returned, unsure>>
      /\ pc = "command" /\ request # <<>>
  BY DEF StartCommand, countVars
<1>2. /\ mode' \in Device
      /\ input' = NoInput \/ input' \in [to : Device \cup {"chip"}, answer : Seq(AnswerKinds)]
  <2>1. CASE WriteDataPort(Head(request))
    <3>1. mode' \in Device /\ Head(request).answer \in Seq(AnswerKinds)
          /\ Post(mode', Head(request).answer)
      BY <1>1, <2>1, RequestRest, CommandAnswers DEF WriteDataPort, Device
    <3>2. QED
      BY <3>1, TypePost
  <2>2. CASE WriteCommandPort(Head(request)) \/ SendMouseCommandAndCompareAck(Head(request))
    BY <2>2, TypePost, CommandAnswers DEF WriteCommandPort, SendMouseCommandAndCompareAck, TInv, TypeOK
  <2>3. CASE ModifyCommandByte(Head(request))
    BY <2>3, TypePost, CommandAnswers DEF ModifyCommandByte, TInv, TypeOK
  <2>4. CASE ReadPort(Head(request))
    BY <2>4 DEF ReadPort, TInv, TypeOK, Device, AnswerKinds
  <2>5. QED
    BY <2>1, <2>2, <2>3, <2>4 DEF StartCommand
<1>3. /\ request' \in Seq(Command) /\ toMouse' \in BOOLEAN
      /\ pc' \in {"command", "transmit", "read", "compare", "readCommandByte"}
  BY <1>1, RequestRest DEF StartCommand, WriteCommandPort, WriteDataPort,
         SendMouseCommandAndCompareAck, ReadPort, ModifyCommandByte, TInv, TypeOK
<1>4. /\ pc' # "command" => request' = request
      /\ pc' = "transmit" => Head(request).op = "SendMouseCommandAndCompareAck"
  BY <1>1 DEF StartCommand, WriteCommandPort, WriteDataPort, SendMouseCommandAndCompareAck,
         ReadPort, ModifyCommandByte
<1>5. TypeOK'
  BY <1>1, <1>2, <1>3 DEF TInv, TypeOK, handlerVars, AnswerKinds
<1>6. QED
  BY <1>1, <1>3, <1>4, <1>5 DEF TInv, handlerVars

LEMMA TypeWriteMore ==
    ASSUME TInv, WriteMore
    PROVE  TInv'
<1>1. /\ UNCHANGED <<dev, ctl, sent, full, out, irq, handlerVars, ignore, toMouse, held, wstatus,
                     delivered, returned, unsure>>
      /\ pc \notin {"idle", "command"} /\ request # <<>>
  BY DEF WriteMore, Transmit, SetCommandByte, NewCommandByte, countVars, TInv
<1>2. input' \in [to : Device \cup {"chip"}, answer : Seq(AnswerKinds)]
  <2>1. CASE Transmit
    <3>1. Head(request).answer \in Seq(AnswerKinds)
      BY <1>1, <2>1, RequestRest, CommandAnswers DEF Transmit, TInv
    <3>2. QED
      BY <2>1, <3>1, TypePost DEF Transmit, Device
  <2>2. CASE SetCommandByte \/ NewCommandByte
    BY <2>2, TypePost, CommandAnswers DEF SetCommandByte, NewCommandByte
  <2>3. QED
    BY <2>1, <2>2 DEF WriteMore
<1>3. /\ mode' \in Device /\ request' \in Seq(Command)
      /\ pc' \in {"command", "compare", "newCommandByte"}
      /\ pc' # "command" => request' = request
  BY <1>1, RequestRest
     DEF WriteMore, Transmit, SetCommandByte, NewCommandByte, TInv, TypeOK, Device
<1>4. TypeOK'
  BY <1>1, <1>2, <1>3 DEF TInv, TypeOK, handlerVars, AnswerKinds
<1>5. QED
  BY <1>1, <1>3, <1>4 DEF TInv, handlerVars

LEMMA TypeFlush ==
    ASSUME TInv, Flush
    PROVE  TInv'
<1>1. request' \in Seq(Command) /\ full' \in BOOLEAN /\ (full' => full)
  BY RequestRest DEF TInv, TypeOK, Flush
<1>2. returned' \subseteq Byte
  BY DEF TInv, TypeOK, Flush, IsInput
<1>3. UNCHANGED <<dev, ctl, input, sent, out, irq, handlerVars, ignore, pc, mode, toMouse, held,
                  wstatus, delivered, unsure>> /\ pc = "command"
  BY DEF Flush
<1>4. QED
  BY <1>1, <1>2, <1>3 DEF TInv, TypeOK, handlerVars

(* A read ends with a byte, or with NoByte when it timed out. *)
LEMMA TypeReturn ==
    ASSUME TInv, Reading, NEW b \in Byte \cup {NoByte}, Return(b)
    PROVE  /\ returned' \subseteq Byte /\ request' \in Seq(Command) /\ unsure' \in BOOLEAN
           /\ held' = NoByte
           /\ \/ pc' = "command"
              \/ pc' = "setCommandByte" /\ request' = request
<1>1. request # <<>>
  BY DEF TInv, Reading
<1>2. request' = <<>> \/ request' = Tail(request) \/ request' = request
  BY DEF Return
<1>3. request' \in Seq(Command)
  <2>1. Tail(request) \in Seq(Command) /\ request \in Seq(Command)
    BY <1>1, RequestRest DEF TInv, TypeOK
  <2>2. <<>> \in Seq(Command)
    OBVIOUS
  <2>3. QED
    BY <1>2, <2>1, <2>2, Zenon
<1>4. returned' \subseteq Byte
  BY ByteFacts DEF TInv, TypeOK, Return
<1>5. unsure' \in BOOLEAN
  BY DEF Return
<1>6. QED
  BY <1>3, <1>4, <1>5 DEF Return

LEMMA TypePollData ==
    ASSUME TInv, PollData
    PROVE  TInv'
<1>1. /\ Reading /\ wstatus # "none" /\ full' = FALSE /\ wstatus' = "none"
      /\ UNCHANGED <<dev, ctl, input, sent, out, irq, handlerVars, ignore, mode, toMouse>>
  BY DEF PollData
<1>2. out \in Byte /\ Requested \in Device /\ Other(Requested) \in Device
  BY <1>1 DEF TInv, TypeOK, Requested, Other, Device
<1>3. held \in Byte \cup {NoByte} /\ (held # NoByte => held \in Byte)
  BY DEF TInv, TypeOK
<1>4. delivered' \in [Device -> Seq(Byte)]
  <2>1. ASSUME NEW d \in Device, NEW b \in Byte, Dispatch(d, b)
        PROVE  delivered' \in [Device -> Seq(Byte)]
    <3>1. Append(delivered[d], b) \in Seq(Byte)
      BY AppendElements DEF TInv, TypeOK
    <3>2. QED
      BY <2>1, <3>1 DEF Dispatch, TInv, TypeOK
  <2>2. CASE ReadOther
    BY <1>2, <2>1, <2>2 DEF ReadOther
  <2>3. CASE ReadPlain \/ HoldFirst
    BY <2>3 DEF ReadPlain, HoldFirst, TInv, TypeOK
  <2>4. CASE ReadExpected
    BY <1>2, <1>3, <2>1, <2>4 DEF ReadExpected, TInv, TypeOK
  <2>5. CASE SecondMismatch
    BY <1>2, <2>1, <2>5 DEF SecondMismatch
  <2>6. QED
    BY <2>2, <2>3, <2>4, <2>5 DEF PollData
<1>5. /\ returned' \subseteq Byte /\ request' \in Seq(Command) /\ unsure' \in BOOLEAN
      /\ held' \in Byte \cup {NoByte}
      /\ \/ pc' = "command"
         \/ pc' = "setCommandByte" /\ request' = request
         \/ pc' = pc /\ request' = request
  <2>1. CASE ReadOther \/ HoldFirst
    BY <1>2, <2>1 DEF ReadOther, HoldFirst, TInv, TypeOK
  <2>2. CASE ReadPlain \/ ReadExpected
    BY <1>1, <1>2, <2>2, TypeReturn DEF ReadPlain, ReadExpected
  <2>3. CASE SecondMismatch
    BY <1>1, <1>3, <2>3, TypeReturn DEF SecondMismatch
  <2>4. QED
    BY <2>1, <2>2, <2>3 DEF PollData
<1>6. full' \in BOOLEAN
  BY <1>1, Zenon
<1>7. TypeOK'
  BY <1>1, <1>4, <1>5, <1>6 DEF TInv, TypeOK, Reading, handlerVars
<1>8. QED
  BY <1>1, <1>2, <1>5, <1>7 DEF TInv, Reading, handlerVars

LEMMA TypeTimeOut ==
    ASSUME TInv, TimeOut
    PROVE  TInv'
<1>1. /\ Reading /\ Return(held) /\ held \in Byte \cup {NoByte}
      /\ UNCHANGED <<dev, ctl, input, sent, full, out, irq, handlerVars, ignore, mode, toMouse,
                     wstatus, delivered>>
  BY DEF TimeOut, TInv, TypeOK, chipVars
<1>2. /\ returned' \subseteq Byte /\ request' \in Seq(Command) /\ unsure' \in BOOLEAN
      /\ held' = NoByte
      /\ \/ pc' = "command"
         \/ pc' = "setCommandByte" /\ request' = request
  BY <1>1, TypeReturn
<1>3. TypeOK'
  BY <1>1, <1>2 DEF TInv, TypeOK, handlerVars
<1>4. QED
  BY <1>1, <1>2, <1>3 DEF TInv, Reading, handlerVars

LEMMA TypeWorkLoop ==
    ASSUME TInv, WorkLoop
    PROVE  TInv'
<1>1. CASE PollStatus
  <2>1. wstatus' \in Device /\ out \in Byte
    BY <1>1, ByteFacts DEF PollStatus, TInv
  <2>2. QED
    BY <1>1, <2>1 DEF PollStatus, TInv, TypeOK, chipVars, handlerVars, requestVars, countVars
<1>2. CASE EndRequest
  <2>1. mode' \in Device /\ toMouse' = FALSE /\ pc' = "idle" /\ ignore' = 0
    BY <1>2 DEF EndRequest, Device, TInv
  <2>2. toMouse' \in BOOLEAN
    BY <2>1, Zenon
  <2>3. UNCHANGED <<chipVars, handlerVars, request, held, wstatus, delivered, countVars>>
    BY <1>2 DEF EndRequest
  <2>4. QED
    BY <2>1, <2>2, <2>3 DEF TInv, TypeOK, chipVars, handlerVars, countVars
<1>3. QED
  BY <1>1, <1>2, TypeStart, TypeWriteMore, TypeFlush, TypePollData, TypeTimeOut DEF WorkLoop

LEMMA NextTInv == TInv /\ [Next]_vars => TInv'
<1>1. ASSUME TInv, UNCHANGED vars PROVE TInv'
  BY <1>1 DEF TInv, TypeOK, vars, chipVars, handlerVars, requestVars, countVars
<1>2. QED
  BY <1>1, TypeInput, TypeChip, TypeTakeInput, TypeHandler, TypeBegin, TypeWorkLoop DEF Next

LEMMA TypesHold == Spec => []TInv
BY InitTInv, NextTInv, PTL DEF Spec

(* On any number of processors and for any requests, the work loop and the *)
(* handlers keep the port's state well typed; _ignoreInterrupts never      *)
(* leaves 0 and 1.                                                         *)
THEOREM PortTypeCorrect == Spec => []TypeOK
<1>1. TInv => TypeOK
  BY DEF TInv
<1>2. QED
  BY <1>1, TypesHold, PTL

-----------------------------------------------------------------------------
(* On one processor.  While a request runs no handler reads the port, and  *)
(* none begins between another's two reads, so a status that was read is   *)
(* still the status of the byte in the port; a byte put aside is of the    *)
(* stream the request reads.                                               *)
Control ==
    /\ pc # "idle" => \A d \in Device : handler[d] = "idle"
    /\ \A d \in Device : handler[d] = "data" =>
          full /\ hstatus[d] = out.dev /\ (handler[Other(d)] = "idle" \/ top = d)
    /\ wstatus # "none" => full /\ wstatus = out.dev /\ Reading
    /\ pc # "compare" => held = NoByte
    /\ held # NoByte => held.dev = mode

(* The bytes of a stream are of one device; the chip's are not input. *)
Of(bytes, d) == \A i \in DOMAIN bytes : bytes[i].dev = d

Streams ==
    /\ \A d \in Device : Of(dev[d], d) /\ Of(delivered[d], d)
    /\ Of(ctl, "keyboard") /\ \A i \in DOMAIN ctl : ~IsInput(ctl[i])
    /\ \A d \in Device : handler[d] = "dispatch" => hdata[d].dev = hstatus[d]

(* Where the numbers of a device's input are: with its driver or in the    *)
(* hand of a handler, put aside by a comparison, in the port, still in the *)
(* device, or taken by a request.                                          *)
Number(b) == IF IsInput(b) THEN {b.n} ELSE {}
Numbers(bytes) == {bytes[i].n : i \in InputIn(bytes)}

InHand(e, d) == handler[e] = "dispatch" /\ hdata[e].dev = d /\ IsInput(hdata[e])
InHands(d) == {hdata[e].n : e \in {h \in Device : InHand(h, d)}}
InHeld(d) == IF pc = "compare" /\ held.dev = d THEN Number(held) ELSE {}
InPort(d) == IF full /\ out.dev = d THEN Number(out) ELSE {}
Taken(d) == {b.n : b \in {r \in returned : r.dev = d /\ IsInput(r)}}

Less(S, T) == \A m \in S : \A n \in T : m < n

(* In the order of their numbers, and none is missing. *)
Pipe(driver, aside, port, device, taken, number) ==
    /\ Less(driver, aside) /\ Less(driver, port) /\ Less(driver, device)
    /\ Less(aside, port) /\ Less(aside, device) /\ Less(port, device)
    /\ driver \cup aside \cup port \cup device \subseteq 0 .. number
    /\ 1 .. number \subseteq driver \cup aside \cup port \cup device \cup taken

(* What a driver has is in order but for the bytes that were overtaken;    *)
(* what is in a hand comes after all of it, unless it was overtaken.       *)
Increasing(bytes) == \A i, j \in InputIn(bytes) : i < j => bytes[i].n < bytes[j].n
Sorted(bytes, late) ==
    \A i, j \in InputIn(bytes) :
        i < j => \/ bytes[i].n < bytes[j].n
                 \/ bytes[j] \in late /\ bytes[i].n # bytes[j].n

Follows(numbers, b, late) ==
    IsInput(b) => /\ b.n \notin numbers
                  /\ b \in late \/ Less(numbers, {b.n})

HandsOf(d) ==
    /\ Sorted(delivered[d], overtaken)
    /\ \A e \in Device : InHand(e, d) =>
          /\ Follows(Numbers(delivered[d]), hdata[e], overtaken)
          /\ InHand(Other(e), d) => hdata[e].n # hdata[Other(e)].n

PipeOf(d) ==
    /\ Increasing(dev[d])
    /\ Pipe(Numbers(delivered[d]) \cup InHands(d), InHeld(d), InPort(d), Numbers(dev[d]),
            Taken(d), sent[d])

Pipes == \A d \in Device : PipeOf(d) /\ HandsOf(d)

PortInv == TInv /\ Control /\ Streams /\ Pipes

-----------------------------------------------------------------------------
(* The numbers in a stream that loses its head, grows at its end, or into  *)
(* which an answer is put.                                                 *)
LEMMA NumbersTail ==
    ASSUME NEW q \in Seq(Byte), q # <<>>
    PROVE  /\ Numbers(q) = Number(Head(q)) \cup Numbers(Tail(q))
           /\ Increasing(q) => Increasing(Tail(q)) /\ Less(Number(Head(q)), Numbers(Tail(q)))
<1>1. PICK r \in Seq(Byte) : r = Tail(q)
  BY TailElements
<1>2. PICK b \in Byte : b = Head(q)
  BY TailElements
<1>3. /\ b = q[1] /\ 1 \in DOMAIN q
      /\ \A i \in DOMAIN r : i + 1 \in DOMAIN q /\ r[i] = q[i + 1]
      /\ DOMAIN r \subseteq Nat \ {0}
  BY <1>1, <1>2, TailElements
<1>4. \A i \in DOMAIN q : i = 1 \/ (i - 1 \in DOMAIN r /\ r[i - 1] = q[i])
  BY <1>1
<1>5. Numbers(q) \subseteq Number(b) \cup Numbers(r)
  BY <1>3, <1>4 DEF Numbers, Number, InputIn
<1>6. Number(b) \cup Numbers(r) \subseteq Numbers(q)
  BY <1>3 DEF Numbers, Number, InputIn
<1>7. ASSUME Increasing(q) PROVE Increasing(r)
  <2> SUFFICES ASSUME NEW i \in InputIn(r), NEW j \in InputIn(r), i < j
               PROVE  r[i].n < r[j].n
    BY DEF Increasing
  <2>1. i + 1 \in InputIn(q) /\ j + 1 \in InputIn(q) /\ i + 1 < j + 1
        /\ r[i] = q[i + 1] /\ r[j] = q[j + 1]
    BY <1>3 DEF InputIn
  <2>2. QED
    BY <1>7, <2>1 DEF Increasing
<1>8. ASSUME Increasing(q) PROVE Less(Number(b), Numbers(r))
  <2> SUFFICES ASSUME IsInput(b), NEW i \in InputIn(r) PROVE b.n < r[i].n
    BY DEF Less, Number, Numbers
  <2>1. 1 \in InputIn(q) /\ i + 1 \in InputIn(q) /\ 1 < i + 1 /\ r[i] = q[i + 1]
    BY <1>3 DEF InputIn
  <2>2. QED
    BY <1>3, <1>8, <2>1 DEF Increasing
<1>9. QED
  BY <1>1, <1>2, <1>5, <1>6, <1>7, <1>8

LEMMA NumbersAppend ==
    ASSUME NEW q \in Seq(Byte), NEW b \in Byte
    PROVE  /\ Numbers(Append(q, b)) = Numbers(q) \cup Number(b)
           /\ Increasing(q) /\ Less(Numbers(q), Number(b)) => Increasing(Append(q, b))
<1>1. PICK r \in Seq(Byte) : r = Append(q, b)
  BY AppendElements
<1>2. /\ DOMAIN r = 1 .. Len(q) + 1 /\ DOMAIN q = 1 .. Len(q) /\ Len(q) \in Nat
      /\ r[Len(q) + 1] = b /\ \A i \in DOMAIN q : r[i] = q[i]
  BY <1>1, AppendElements
<1>3. \A i \in DOMAIN r : i \in DOMAIN q \/ i = Len(q) + 1
  BY <1>2
<1>4. Numbers(r) \subseteq Numbers(q) \cup Number(b)
  BY <1>2, <1>3 DEF Numbers, Number, InputIn
<1>5. Numbers(q) \subseteq Numbers(r)
  BY <1>2 DEF Numbers, InputIn
<1>6. Number(b) \subseteq Numbers(r)
  BY <1>2 DEF Numbers, Number, InputIn
<1>7. ASSUME Increasing(q), Less(Numbers(q), Number(b)) PROVE Increasing(r)
  <2> SUFFICES ASSUME NEW i \in InputIn(r), NEW j \in InputIn(r), i < j
               PROVE  r[i].n < r[j].n
    BY DEF Increasing
  <2>1. i \in InputIn(q) /\ r[i] = q[i]
    BY <1>2 DEF InputIn
  <2>2. CASE j \in DOMAIN q
    BY <1>2, <1>7, <2>1, <2>2 DEF Increasing, InputIn
  <2>3. CASE j = Len(q) + 1
    <3>1. r[j] = b /\ IsInput(b)
      BY <1>2, <2>3 DEF InputIn
    <3>2. q[i].n \in Numbers(q) /\ b.n \in Number(b)
      BY <2>1, <3>1 DEF Numbers, Number
    <3>3. QED
      BY <1>7, <2>1, <3>1, <3>2 DEF Less
  <2>4. QED
    BY <1>3, <2>2, <2>3 DEF InputIn
<1>8. QED
  BY <1>1, <1>4, <1>5, <1>6, <1>7

LEMMA SortedAppend ==
    ASSUME NEW q \in Seq(Byte), NEW b \in Byte, NEW late, Sorted(q, late),
           Follows(Numbers(q), b, late)
    PROVE  Sorted(Append(q, b), late)
<1>1. PICK r \in Seq(Byte) : r = Append(q, b)
  BY AppendElements
<1>2. /\ DOMAIN r = 1 .. Len(q) + 1 /\ DOMAIN q = 1 .. Len(q) /\ Len(q) \in Nat
      /\ r[Len(q) + 1] = b /\ \A i \in DOMAIN q : r[i] = q[i]
  BY <1>1, AppendElements
<1>3. SUFFICES ASSUME NEW i \in InputIn(r), NEW j \in InputIn(r), i < j
               PROVE  \/ r[i].n < r[j].n
                      \/ r[j] \in late /\ r[i].n # r[j].n
  BY <1>1 DEF Sorted
<1>4. i \in InputIn(q) /\ r[i] = q[i] /\ (j \in DOMAIN q \/ j = Len(q) + 1)
  BY <1>2, <1>3 DEF InputIn
<1>5. CASE j \in DOMAIN q
  <2>1. j \in InputIn(q) /\ r[j] = q[j]
    BY <1>2, <1>3, <1>5 DEF InputIn
  <2>2. QED
    BY <1>3, <1>4, <2>1 DEF Sorted
<1>6. CASE j = Len(q) + 1
  <2>1. r[j] = b /\ IsInput(b)
    BY <1>2, <1>3, <1>6 DEF InputIn
  <2>2. q[i].n \in Numbers(q) /\ b.n \in {b.n}
    BY <1>4 DEF Numbers
  <2>3. QED
    BY <1>4, <2>1, <2>2 DEF Follows, Less
<1>7. QED
  BY <1>4, <1>5, <1>6

(* What is with a driver or in a hand stays in order as more is overtaken. *)
LEMMA MoreLate ==
    ASSUME NEW q, NEW late, NEW more, late \subseteq more
    PROVE  /\ Sorted(q, late) => Sorted(q, more)
           /\ \A S, b : Follows(S, b, late) => Follows(S, b, more)
BY DEF Sorted, Follows

LEMMA NumbersInserted ==
    ASSUME NEW q \in Seq(Byte), NEW r \in Seq(Byte), NEW k \in 0 .. Len(q),
           \A i \in 1 .. Len(r) : ~IsInput(r[i])
    PROVE  /\ Numbers(Inserted(q, r, k)) = Numbers(q)
           /\ Increasing(q) => Increasing(Inserted(q, r, k))
<1>1. PICK w \in Seq(Byte) :
         /\ w = Inserted(q, r, k)
         /\ Len(w) = Len(q) + Len(r)
         /\ \A i \in 1 .. k : w[i] = q[i]
         /\ \A i \in k + 1 .. k + Len(r) : w[i] = r[i - k]
         /\ \A i \in k + Len(r) + 1 .. Len(q) + Len(r) : w[i] = q[i - Len(r)]
  <2>1. PICK w \in Seq(Byte) : w = Inserted(q, r, k) /\ PutIn(w, q, r, k)
    BY InsertedElements
  <2>2. QED
    BY <2>1 DEF PutIn
<1>3. /\ Len(q) \in Nat /\ Len(r) \in Nat /\ DOMAIN q = 1 .. Len(q)
      /\ DOMAIN w = 1 .. Len(q) + Len(r)
  BY <1>1
<1>4. \A i \in InputIn(w) :
         \/ i \in 1 .. k /\ i \in InputIn(q) /\ w[i] = q[i]
         \/ i \in k + Len(r) + 1 .. Len(q) + Len(r) /\ i - Len(r) \in InputIn(q)
            /\ w[i] = q[i - Len(r)]
  <2> TAKE i \in InputIn(w)
  <2>1. i \in 1 .. Len(q) + Len(r) /\ IsInput(w[i])
    BY <1>3 DEF InputIn
  <2>2. i \notin k + 1 .. k + Len(r)
    <3> SUFFICES ASSUME i \in k + 1 .. k + Len(r) PROVE FALSE
      OBVIOUS
    <3>1. i - k \in 1 .. Len(r)
      BY <1>3
    <3>2. QED
      BY <1>1, <2>1, <3>1
  <2>3. CASE i \in 1 .. k
    BY <1>1, <1>3, <2>1, <2>3 DEF InputIn
  <2>4. CASE i \in k + Len(r) + 1 .. Len(q) + Len(r)
    <3>1. i - Len(r) \in DOMAIN q
      BY <1>3, <2>4
    <3>2. QED
      BY <1>1, <2>1, <2>4, <3>1 DEF InputIn
  <2>5. QED
    BY <1>3, <2>1, <2>2, <2>3, <2>4
<1>5. \A i \in InputIn(q) : \E j \in InputIn(w) : w[j] = q[i]
  <2> TAKE i \in InputIn(q)
  <2>1. CASE i <= k
    <3>1. i \in 1 .. k /\ i \in DOMAIN w
      BY <1>3, <2>1 DEF InputIn
    <3>2. QED
      BY <1>1, <3>1 DEF InputIn
  <2>2. CASE ~(i <= k)
    <3>1. /\ i + Len(r) \in k + Len(r) + 1 .. Len(q) + Len(r) /\ i + Len(r) \in DOMAIN w
          /\ (i + Len(r)) - Len(r) = i
      BY <1>3, <2>2 DEF InputIn
    <3>2. QED
      BY <1>1, <3>1 DEF InputIn
  <2>3. QED
    BY <2>1, <2>2
<1>6. Numbers(w) \subseteq Numbers(q)
  BY <1>4 DEF Numbers
<1>7. Numbers(q) \subseteq Numbers(w)
  BY <1>5 DEF Numbers
<1>8. ASSUME Increasing(q) PROVE Increasing(w)
  <2> SUFFICES ASSUME NEW i \in InputIn(w), NEW j \in InputIn(w), i < j
               PROVE  w[i].n < w[j].n
    BY DEF Increasing
  <2>1. PICK a \in InputIn(q) : /\ w[i] = q[a]
                                /\ \/ a = i /\ i <= k
                                   \/ a = i - Len(r) /\ k + Len(r) + 1 <= i
    BY <1>4
  <2>2. PICK b \in InputIn(q) : /\ w[j] = q[b]
                                /\ \/ b = j /\ j <= k
                                   \/ b = j - Len(r) /\ k + Len(r) + 1 <= j
    BY <1>4
  <2>3. a < b
    BY <1>3, <2>1, <2>2 DEF InputIn
  <2>4. QED
    BY <1>8, <2>1, <2>2, <2>3 DEF Increasing
<1>9. QED
  BY <1>1, <1>6, <1>7, <1>8

(* The devices the bytes of a stream are of. *)
LEMMA OfTail ==
    ASSUME NEW q \in Seq(Byte), q # <<>>, NEW d, Of(q, d)
    PROVE  Of(Tail(q), d) /\ Head(q).dev = d
BY TailElements DEF Of

LEMMA OfAppend ==
    ASSUME NEW q \in Seq(Byte), NEW b \in Byte, NEW d, Of(q, d), b.dev = d
    PROVE  Of(Append(q, b), d)
<1>1. PICK r \in Seq(Byte) : r = Append(q, b)
  BY AppendElements
<1>2. /\ DOMAIN r = 1 .. Len(q) + 1 /\ DOMAIN q = 1 .. Len(q) /\ Len(q) \in Nat
      /\ r[Len(q) + 1] = b /\ \A i \in DOMAIN q : r[i] = q[i]
  BY <1>1, AppendElements
<1>3. QED
  BY <1>1, <1>2 DEF Of

LEMMA OfInserted ==
    ASSUME NEW q \in Seq(Byte), NEW r \in Seq(Byte), NEW k \in 0 .. Len(q), NEW d,
           Of(q, d), Of(r, d)
    PROVE  Of(Inserted(q, r, k), d)
<1>1. PICK w \in Seq(Byte) : w = Inserted(q, r, k) /\ PutIn(w, q, r, k)
  BY InsertedElements
<1>2. SUFFICES ASSUME NEW i \in DOMAIN w PROVE w[i].dev = d
  BY <1>1 DEF Of
<1>3. i \in 1 .. Len(q) + Len(r) /\ Len(q) \in Nat /\ Len(r) \in Nat
  BY <1>1 DEF PutIn
<1>4. CASE i <= k
  BY <1>1, <1>3, <1>4 DEF PutIn, Of
<1>5. CASE k < i /\ i <= k + Len(r)
  <2>1. i - k \in DOMAIN r /\ w[i] = r[i - k]
    BY <1>1, <1>3, <1>5 DEF PutIn
  <2>2. QED
    BY <2>1 DEF Of
<1>6. CASE k + Len(r) < i
  <2>1. i - Len(r) \in DOMAIN q /\ w[i] = q[i - Len(r)]
    BY <1>1, <1>3, <1>6 DEF PutIn
  <2>2. QED
    BY <2>1 DEF Of
<1>7. QED
  BY <1>3, <1>4, <1>5, <1>6

-----------------------------------------------------------------------------
(* What the steps do to a pipe. *)
LEMMA PipeInput ==
    ASSUME NEW D, NEW H, NEW O, NEW V, NEW R, NEW s \in Nat, Pipe(D, H, O, V, R, s)
    PROVE  Pipe(D, H, O, V \cup {s + 1}, R, s + 1)
BY DEF Pipe, Less

LEMMA PipeFill ==
    ASSUME NEW D, NEW H, NEW O, NEW V, NEW R, NEW s \in Nat, NEW U,
           Pipe(D, H, {}, U, R, s), U = O \cup V, Less(O, V)
    PROVE  Pipe(D, H, O, V, R, s)
BY DEF Pipe, Less

LEMMA PipeDeliver ==
    ASSUME NEW D, NEW O, NEW V, NEW R, NEW s \in Nat, Pipe(D, {}, O, V, R, s)
    PROVE  Pipe(D \cup O, {}, {}, V, R, s)
BY DEF Pipe, Less

LEMMA PipeAside ==
    ASSUME NEW D, NEW O, NEW V, NEW R, NEW s \in Nat, Pipe(D, {}, O, V, R, s)
    PROVE  Pipe(D, O, {}, V, R, s)
BY DEF Pipe, Less

LEMMA PipeMatch ==
    ASSUME NEW D, NEW H, NEW V, NEW R, NEW s \in Nat, Pipe(D, H, {}, V, R, s)
    PROVE  Pipe(D \cup H, {}, {}, V, R, s)
BY DEF Pipe, Less

LEMMA PipeMismatch ==
    ASSUME NEW D, NEW H, NEW O, NEW V, NEW R, NEW s \in Nat, NEW T,
           Pipe(D, H, O, V, R, s), R \cup H \subseteq T
    PROVE  Pipe(D \cup O, {}, {}, V, T, s)
BY DEF Pipe, Less

LEMMA PipeTakeAside ==
    ASSUME NEW D, NEW H, NEW O, NEW V, NEW R, NEW s \in Nat, NEW T,
           Pipe(D, H, O, V, R, s), R \cup H \subseteq T
    PROVE  Pipe(D, {}, O, V, T, s)
BY DEF Pipe, Less

LEMMA PipeTakePort ==
    ASSUME NEW D, NEW O, NEW V, NEW R, NEW s \in Nat, NEW T,
           Pipe(D, {}, O, V, R, s), R \cup O \subseteq T
    PROVE  Pipe(D, {}, {}, V, T, s)
BY DEF Pipe, Less

LEMMA PipeTakeLast ==
    ASSUME NEW D, NEW H, NEW O, NEW V, NEW R, NEW s \in Nat, NEW T,
           Pipe(D, H, O, V, R, s), R \cup O \subseteq T
    PROVE  Pipe(D, H, {}, V, T, s)
BY DEF Pipe, Less

-----------------------------------------------------------------------------
LEMMA Others == \A d \in Device : /\ Other(d) \in Device \ {d} /\ Other(Other(d)) = d
                                  /\ \A e \in Device : e = d \/ e = Other(d)
BY DEF Other, Device

(* The types the steps need. *)
LEMMA PortTypes ==
    ASSUME PortInv
    PROVE  /\ \A d \in Device : /\ dev[d] \in Seq(Byte) /\ delivered[d] \in Seq(Byte)
                               /\ sent[d] \in Nat /\ hstatus[d] \in Device
           /\ DOMAIN dev = Device /\ DOMAIN delivered = Device /\ DOMAIN sent = Device
           /\ DOMAIN handler = Device /\ DOMAIN hdata = Device /\ DOMAIN hstatus = Device
           /\ \A d \in Device : handler[d] = "dispatch" => hdata[d] \in Byte
           /\ ctl \in Seq(Byte) /\ (full => out \in Byte)
           /\ held \in Byte \cup {NoByte} /\ mode \in Device
BY DEF PortInv, TInv, TypeOK

(* What is in the handlers' hands is the same if no byte is taken or given *)
(* away.                                                                   *)
LEMMA HandsSame ==
    ASSUME UNCHANGED <<hdata, overtaken, delivered>>,
           \A h \in Device : handler'[h] = "dispatch" <=> handler[h] = "dispatch"
    PROVE  \A e \in Device : InHands(e)' = InHands(e) /\ (HandsOf(e) => HandsOf(e)')
<1>1. \A h, e \in Device : InHand(h, e)' <=> InHand(h, e)
  BY DEF InHand
<1>2. \A e \in Device : InHands(e)' = InHands(e)
  BY <1>1 DEF InHands
<1>3. ASSUME NEW e \in Device, HandsOf(e) PROVE HandsOf(e)'
  BY <1>1, <1>3, Others DEF HandsOf
<1>4. QED
  BY <1>2, <1>3

(* While a request runs there is nothing in them. *)
LEMMA NoHands ==
    ASSUME PortInv, pc # "idle", UNCHANGED <<handler, hdata, overtaken>>, NEW e \in Device
    PROVE  /\ InHands(e) = {} /\ InHands(e)' = {}
           /\ Sorted(delivered[e], overtaken)
           /\ Sorted(delivered'[e], overtaken) => HandsOf(e)'
           /\ Pipe(Numbers(delivered[e]), InHeld(e), InPort(e), Numbers(dev[e]), Taken(e), sent[e])
<1>1. \A h \in Device : ~InHand(h, e) /\ ~InHand(h, e)'
  BY DEF PortInv, Control, InHand
<1>2. InHands(e) = {} /\ InHands(e)' = {}
  BY <1>1 DEF InHands
<1>3. Sorted(delivered'[e], overtaken) => HandsOf(e)'
  BY <1>1 DEF HandsOf
<1>4. Numbers(delivered[e]) \cup InHands(e) = Numbers(delivered[e])
  BY <1>2
<1>5. QED
  BY <1>2, <1>3, <1>4 DEF PortInv, Pipes, PipeOf, HandsOf

(* And the invariant of the streams again, from that.                      *)
LEMMA NoHandsAfter ==
    ASSUME NEW e \in Device, InHands(e)' = {}, HandsOf(e)', Increasing(dev'[e]),
           Pipe(Numbers(delivered'[e]), InHeld(e)', InPort(e)', Numbers(dev'[e]), Taken(e)', sent'[e])
    PROVE  PipeOf(e)' /\ HandsOf(e)'
<1>1. Numbers(delivered'[e]) \cup InHands(e)' = Numbers(delivered'[e])
  OBVIOUS
<1>2. QED
  BY <1>1 DEF PipeOf

LEMMA InitPort == Init => PortInv
<1> SUFFICES ASSUME Init PROVE PortInv
  OBVIOUS
<1>1. /\ pc = "idle" /\ wstatus = "none" /\ full = FALSE /\ held = NoByte
      /\ ctl = <<>> /\ \A d \in Device : /\ dev[d] = <<>> /\ delivered[d] = <<>> /\ sent[d] = 0
                                        /\ handler[d] = "idle"
  BY DEF Init
<1>2. Control
  BY <1>1 DEF Control
<1>3. Streams
  BY <1>1 DEF Streams, Of
<1>4. ASSUME NEW d \in Device PROVE PipeOf(d) /\ HandsOf(d)
  <2>1. InputIn(dev[d]) = {} /\ InputIn(delivered[d]) = {}
    BY <1>1 DEF InputIn
  <2>2. Increasing(dev[d]) /\ Sorted(delivered[d], overtaken)
    BY <2>1 DEF Increasing, Sorted
  <2>3. \A h \in Device : ~InHand(h, d)
    BY <1>1 DEF InHand
  <2>4. /\ Numbers(dev[d]) = {} /\ Numbers(delivered[d]) = {} /\ InHeld(d) = {}
        /\ InPort(d) = {} /\ sent[d] = 0 /\ InHands(d) = {}
    BY <1>1, <2>1, <2>3 DEF Numbers, InHeld, InPort, InHands
  <2>5. QED
    BY <2>2, <2>3, <2>4 DEF PipeOf, Pipe, Less, HandsOf
<1>5. QED
  BY <1>2, <1>3, <1>4, InitTInv DEF PortInv, Pipes

LEMMA PortInput ==
    ASSUME PortInv, NEW d \in Device, Input(d)
    PROVE  Control' /\ Streams' /\ Pipes'
<1>1. PICK k \in InputKinds(d) :
         /\ sent' = [sent EXCEPT ![d] = @ + 1]
         /\ dev' = [dev EXCEPT ![d] = Append(@, [dev |-> d, kind |-> k, n |-> sent[d] + 1])]
  BY DEF Input
<1>2. UNCHANGED <<ctl, full, out, handler, hstatus, hdata, top, overtaken, pc, mode, request, held,
                  wstatus, delivered, returned>>
  BY DEF Input, handlerVars, requestVars, countVars
<1>3. Control'
  BY <1>2 DEF PortInv, Control, Reading
<1>4. PICK b \in Byte : b = [dev |-> d, kind |-> k, n |-> sent[d] + 1]
  <2>1. sent[d] + 1 \in Nat
    BY PortTypes
  <2>2. QED
    BY <2>1, ByteFacts
<1>5. b.dev = d /\ IsInput(b) /\ Number(b) = {sent[d] + 1}
  <2>1. b.kind = k /\ b.dev = d /\ b.n = sent[d] + 1
    BY <1>4
  <2>2. IsInput(b)
    BY <2>1 DEF IsInput, InputKinds
  <2>3. QED
    BY <2>1, <2>2 DEF Number
<1>6. Streams'
  <2>1. Of(Append(dev[d], b), d)
    BY <1>5, OfAppend, PortTypes DEF PortInv, Streams
  <2>2. QED
    BY <1>1, <1>2, <1>4, <2>1, PortTypes DEF PortInv, Streams
<1>7. \A e \in Device : InHands(e)' = InHands(e) /\ HandsOf(e)'
  BY <1>2, HandsSame DEF PortInv, Pipes
<1>8. ASSUME NEW e \in Device PROVE PipeOf(e)'
  <2>1. InHeld(e)' = InHeld(e) /\ InPort(e)' = InPort(e) /\ Taken(e)' = Taken(e)
        /\ delivered'[e] = delivered[e]
    BY <1>2 DEF InHeld, InPort, Taken
  <2>2. CASE e = d
    <3>1. dev'[e] = Append(dev[e], b) /\ sent'[e] = sent[e] + 1
      BY <1>1, <1>4, <2>2, PortTypes
    <3>2. Less(Numbers(dev[e]), Number(b))
      <4>1. Numbers(dev[e]) \subseteq 0 .. sent[e]
        BY DEF PortInv, Pipes, PipeOf, Pipe
      <4>2. QED
        BY <1>5, <2>2, <4>1, PortTypes DEF Less
    <3>3. /\ Numbers(Append(dev[e], b)) = Numbers(dev[e]) \cup {sent[e] + 1}
          /\ Increasing(Append(dev[e], b))
      BY <1>5, <2>2, <3>2, NumbersAppend, PortTypes DEF PortInv, Pipes, PipeOf
    <3>4. Pipe(Numbers(delivered[e]) \cup InHands(e), InHeld(e), InPort(e),
               Numbers(dev[e]) \cup {sent[e] + 1}, Taken(e), sent[e] + 1)
      BY PipeInput, PortTypes DEF PortInv, Pipes, PipeOf
    <3>5. QED
      BY <1>7, <2>1, <3>1, <3>3, <3>4 DEF PipeOf
  <2>3. CASE e # d
    <3>1. dev'[e] = dev[e] /\ sent'[e] = sent[e]
      BY <1>1, <2>3, PortTypes
    <3>2. QED
      BY <1>7, <2>1, <3>1 DEF PortInv, Pipes, PipeOf
  <2>4. QED
    BY <2>2, <2>3
<1>9. QED
  BY <1>3, <1>6, <1>7, <1>8 DEF Pipes

(* The port takes a byte: from a device, or an answer of the chip. *)
LEMMA PortFillDevice ==
    ASSUME PortInv, NEW d \in Device, FillFromDevice(d)
    PROVE  Control' /\ Streams' /\ Pipes'
<1>1. /\ ~full /\ dev[d] # <<>> /\ full' = TRUE /\ out' = Head(dev[d])
      /\ dev' = [dev EXCEPT ![d] = Tail(@)]
      /\ UNCHANGED <<ctl, sent, handler, hstatus, hdata, top, overtaken, pc, mode, request, held,
                     wstatus, delivered, returned>>
  BY DEF FillFromDevice, handlerVars, requestVars
<1>2. Control'
  BY <1>1 DEF PortInv, Control, Reading
<1>3. /\ Of(Tail(dev[d]), d) /\ out'.dev = d
  BY <1>1, OfTail, PortTypes DEF PortInv, Streams
<1>4. Streams'
  BY <1>1, <1>3, PortTypes DEF PortInv, Streams
<1>5. \A e \in Device : InHands(e)' = InHands(e) /\ HandsOf(e)'
  BY <1>1, HandsSame DEF PortInv, Pipes
<1>6. ASSUME NEW e \in Device PROVE PipeOf(e)'
  <2>1. InHeld(e)' = InHeld(e) /\ Taken(e)' = Taken(e) /\ InPort(e) = {}
        /\ delivered'[e] = delivered[e] /\ sent'[e] = sent[e]
    BY <1>1 DEF InHeld, InPort, Taken
  <2>2. CASE e = d
    <3>1. dev'[e] = Tail(dev[e]) /\ InPort(e)' = Number(Head(dev[e]))
      BY <1>1, <1>3, <2>2, PortTypes DEF InPort
    <3>2. /\ Numbers(dev[e]) = Number(Head(dev[e])) \cup Numbers(Tail(dev[e]))
          /\ Increasing(Tail(dev[e])) /\ Less(Number(Head(dev[e])), Numbers(Tail(dev[e])))
      BY <1>1, <2>2, NumbersTail, PortTypes DEF PortInv, Pipes, PipeOf
    <3>3. Pipe(Numbers(delivered[e]) \cup InHands(e), InHeld(e), {}, Numbers(dev[e]), Taken(e),
               sent[e])
      BY <2>1 DEF PortInv, Pipes, PipeOf
    <3>4. Pipe(Numbers(delivered[e]) \cup InHands(e), InHeld(e), Number(Head(dev[e])),
               Numbers(Tail(dev[e])), Taken(e), sent[e])
      BY <3>2, <3>3, PipeFill, PortTypes
    <3>5. QED
      BY <1>5, <2>1, <3>1, <3>2, <3>4 DEF PipeOf
  <2>3. CASE e # d
    <3>1. dev'[e] = dev[e] /\ InPort(e)' = {}
      BY <1>1, <1>3, <2>3, PortTypes DEF InPort
    <3>2. QED
      BY <1>5, <2>1, <3>1 DEF PortInv, Pipes, PipeOf
  <2>4. QED
    BY <2>2, <2>3
<1>7. QED
  BY <1>2, <1>4, <1>5, <1>6 DEF Pipes

LEMMA PortFillChip ==
    ASSUME PortInv, FillFromChip
    PROVE  Control' /\ Streams' /\ Pipes'
<1>1. /\ ~full /\ ctl # <<>> /\ full' = TRUE /\ out' = Head(ctl) /\ ctl' = Tail(ctl)
      /\ UNCHANGED <<dev, sent, handler, hstatus, hdata, top, overtaken, pc, mode, request, held,
                     wstatus, delivered, returned>>
  BY DEF FillFromChip, handlerVars, requestVars, countVars
<1>2. Control'
  BY <1>1 DEF PortInv, Control, Reading
<1>3. ~IsInput(out') /\ \A i \in DOMAIN Tail(ctl) : ~IsInput(Tail(ctl)[i])
  BY <1>1, TailElements, PortTypes DEF PortInv, Streams
<1>4. Of(Tail(ctl), "keyboard")
  BY <1>1, OfTail, PortTypes DEF PortInv, Streams
<1>5. Streams'
  BY <1>1, <1>3, <1>4 DEF PortInv, Streams
<1>6. \A e \in Device : InHands(e)' = InHands(e) /\ HandsOf(e)'
  BY <1>1, HandsSame DEF PortInv, Pipes
<1>7. ASSUME NEW e \in Device PROVE PipeOf(e)'
  <2>1. /\ InHeld(e)' = InHeld(e) /\ Taken(e)' = Taken(e) /\ InPort(e) = {} /\ InPort(e)' = {}
        /\ delivered'[e] = delivered[e] /\ sent'[e] = sent[e] /\ dev'[e] = dev[e]
    BY <1>1, <1>3 DEF InHeld, InPort, Taken, Number
  <2>2. QED
    BY <1>6, <2>1 DEF PortInv, Pipes, PipeOf
<1>8. QED
  BY <1>2, <1>5, <1>6, <1>7 DEF Pipes

(* A step that leaves the streams and the port alone, and reads nothing. *)
LEMMA PortSame ==
    ASSUME PortInv, UNCHANGED <<dev, ctl, sent, full, out, delivered, returned, hdata, overtaken>>,
           \A h \in Device : handler'[h] = "dispatch" <=> handler[h] = "dispatch",
           \A h \in Device : handler[h] = "dispatch" => hstatus'[h] = hstatus[h],
           \A e \in Device : InHeld(e)' = InHeld(e)
    PROVE  Streams' /\ Pipes'
<1>1. Streams'
  BY DEF PortInv, Streams
<1>2. \A e \in Device : InHands(e)' = InHands(e) /\ HandsOf(e)'
  BY HandsSame DEF PortInv, Pipes
<1>3. ASSUME NEW e \in Device PROVE PipeOf(e)'
  <2>1. /\ InHeld(e)' = InHeld(e) /\ Taken(e)' = Taken(e) /\ InPort(e)' = InPort(e)
        /\ delivered'[e] = delivered[e] /\ sent'[e] = sent[e] /\ dev'[e] = dev[e]
    BY DEF InPort, Taken
  <2>2. QED
    BY <1>2, <2>1 DEF PortInv, Pipes, PipeOf
<1>4. QED
  BY <1>1, <1>2, <1>3 DEF Pipes

-----------------------------------------------------------------------------
(* The handlers, on one processor: one that runs is alone, or the other    *)
(* waits for it outside of its two reads.                                  *)
LEMMA RunsAlone ==
    ASSUME PortInv, ~SMP, NEW d \in Device, Runs(d), handler[d] # "idle"
    PROVE  handler[Other(d)] # "data" /\ pc = "idle"
<1>1. SUFFICES ASSUME handler[Other(d)] = "data" PROVE FALSE
  BY DEF PortInv, Control
<1>2. handler[Other(Other(d))] = "idle" \/ top = Other(d)
  BY <1>1, Others DEF PortInv, Control
<1>3. top = Other(d) /\ Other(d) # d
  BY <1>2, Others
<1>4. QED
  BY <1>1, <1>3 DEF Runs

LEMMA PortEnter ==
    ASSUME PortInv, ~SMP, NEW d \in Device, EnterHandler(d)
    PROVE  Control' /\ Streams' /\ Pipes'
<1>1. /\ UNCHANGED <<dev, ctl, sent, full, out, hstatus, hdata, overtaken, pc, mode, held, wstatus,
                     delivered, returned>>
      /\ handler[d] = "idle" /\ handler[Other(d)] # "data"
      /\ \/ UNCHANGED <<handler, top>>
         \/ /\ pc = "idle" /\ handler' = [handler EXCEPT ![d] = "status"]
  BY DEF EnterHandler, requestVars, countVars, PortInv, TInv
<1>2. \A h \in Device : /\ handler'[h] = "dispatch" <=> handler[h] = "dispatch"
                        /\ handler'[h] # "data"
  BY <1>1, Others, PortTypes
<1>3. pc' # "idle" => \A h \in Device : handler'[h] = "idle"
  BY <1>1 DEF PortInv, Control
<1>4. Control'
  BY <1>1, <1>2, <1>3 DEF PortInv, Control, Reading
<1>5. QED
  BY <1>1, <1>2, <1>4, PortSame DEF InHeld

LEMMA PortStatus ==
    ASSUME PortInv, ~SMP, NEW d \in Device, HandlerStatus(d)
    PROVE  Control' /\ Streams' /\ Pipes'
<1>1. /\ UNCHANGED <<dev, ctl, sent, full, out, hdata, top, overtaken, pc, mode, held, wstatus,
                     delivered, returned>>
      /\ handler[d] = "status" /\ Runs(d)
      /\ handler' = [handler EXCEPT ![d] = IF full THEN "data" ELSE "idle"]
      /\ hstatus' = IF full THEN [hstatus EXCEPT ![d] = out.dev] ELSE hstatus
  BY DEF HandlerStatus, chipVars, requestVars, countVars
<1>2. handler[Other(d)] # "data" /\ pc = "idle"
  BY <1>1, RunsAlone
<1>3. /\ \A h \in Device : h # d => handler'[h] = handler[h] /\ hstatus'[h] = hstatus[h]
      /\ handler'[d] = "data" => full /\ hstatus'[d] = out.dev
      /\ handler'[d] # "dispatch"
  BY <1>1, PortTypes
<1>4. handler'[Other(d)] = "idle" \/ top = d
  BY <1>1, <1>2, <1>3, Others DEF Runs
<1>5. Control'
  BY <1>1, <1>2, <1>3, <1>4, Others DEF PortInv, Control, Reading
<1>6. /\ \A h \in Device : handler'[h] = "dispatch" <=> handler[h] = "dispatch"
      /\ \A h \in Device : handler[h] = "dispatch" => hstatus'[h] = hstatus[h]
  BY <1>1, <1>3
<1>7. QED
  BY <1>1, <1>5, <1>6, PortSame DEF InHeld

LEMMA PortData ==
    ASSUME PortInv, ~SMP, NEW d \in Device, HandlerData(d)
    PROVE  Control' /\ Streams' /\ Pipes'
<1>1. /\ UNCHANGED <<dev, ctl, sent, out, hstatus, top, overtaken, pc, mode, held, wstatus,
                     delivered, returned>>
      /\ handler[d] = "data" /\ Runs(d) /\ full' = FALSE
      /\ hdata' = [hdata EXCEPT ![d] = out]
      /\ handler' = [handler EXCEPT ![d] = "dispatch"]
  BY DEF HandlerData, requestVars, countVars
<1>2. handler[Other(d)] # "data" /\ pc = "idle" /\ full /\ hstatus[d] = out.dev
  BY <1>1, RunsAlone DEF PortInv, Control
<1>3. /\ \A h \in Device : h # d => handler'[h] = handler[h] /\ hdata'[h] = hdata[h]
      /\ handler'[d] = "dispatch" /\ hdata'[d] = out
  BY <1>1, PortTypes
<1>4. Control'
  BY <1>1, <1>2, <1>3, Others DEF PortInv, Control, Reading
<1>5. Streams'
  BY <1>1, <1>2, <1>3 DEF PortInv, Streams
<1>6. /\ \A h, e \in Device : h # d => (InHand(h, e)' <=> InHand(h, e))
      /\ \A e \in Device : ~InHand(d, e) /\ (InHand(d, e)' <=> out.dev = e /\ IsInput(out))
  BY <1>1, <1>3 DEF InHand
<1>7. ASSUME NEW e \in Device
      PROVE  /\ InHands(e)' = InHands(e) \cup InPort(e) /\ InPort(e)' = {}
             /\ InHeld(e) = {} /\ InHeld(e)' = {} /\ Taken(e)' = Taken(e)
  <2>1. InPort(e) = IF out.dev = e /\ IsInput(out) THEN {out.n} ELSE {}
    BY <1>2 DEF InPort, Number
  <2>2. InHands(e)' = InHands(e) \cup InPort(e)
    <3>1. ASSUME NEW h \in Device, InHand(h, e)' PROVE hdata'[h].n \in InHands(e) \cup InPort(e)
      BY <1>3, <1>6, <2>1, <3>1 DEF InHands
    <3>2. ASSUME NEW h \in Device, InHand(h, e) PROVE hdata[h].n \in InHands(e)'
      BY <1>3, <1>6, <3>2 DEF InHands
    <3>3. InPort(e) \subseteq InHands(e)'
      BY <1>3, <1>6, <2>1 DEF InHands
    <3>4. QED
      BY <3>1, <3>2, <3>3 DEF InHands
  <2>3. QED
    BY <1>1, <1>2, <2>2 DEF InPort, InHeld, Taken
<1>8. ASSUME NEW e \in Device PROVE PipeOf(e)'
  <2>1. Pipe(Numbers(delivered[e]) \cup InHands(e), {}, InPort(e), Numbers(dev[e]), Taken(e), sent[e])
        /\ Increasing(dev[e])
    BY <1>7 DEF PortInv, Pipes, PipeOf
  <2>2. Pipe((Numbers(delivered[e]) \cup InHands(e)) \cup InPort(e), {}, {}, Numbers(dev[e]),
             Taken(e), sent[e])
    BY <2>1, PipeDeliver, PortTypes
  <2>3. (Numbers(delivered[e]) \cup InHands(e)) \cup InPort(e)
        = Numbers(delivered[e]) \cup (InHands(e) \cup InPort(e))
    OBVIOUS
  <2>4. QED
    BY <1>1, <1>7, <2>1, <2>2, <2>3 DEF PipeOf
<1>9. ASSUME NEW e \in Device PROVE HandsOf(e)'
  <2>1. HandsOf(e) /\ Less(Numbers(delivered[e]) \cup InHands(e), InPort(e))
    BY DEF PortInv, Pipes, PipeOf, Pipe
  <2>2. ASSUME NEW h \in Device, InHand(h, e)'
        PROVE  Follows(Numbers(delivered[e]), hdata'[h], overtaken)
    <3>1. CASE h # d
      BY <1>3, <1>6, <2>1, <2>2, <3>1 DEF HandsOf
    <3>2. CASE h = d
      <4>1. InPort(e) = {out.n} /\ hdata'[h] = out
        BY <1>2, <1>3, <1>6, <2>2, <3>2 DEF InPort, Number
      <4>2. Less(Numbers(delivered[e]), {out.n}) /\ out.n \in Nat
        BY <1>2, <2>1, <4>1, ByteFacts, PortTypes DEF Less
      <4>3. out.n \notin Numbers(delivered[e])
        BY <4>2 DEF Less
      <4>4. QED
        BY <4>1, <4>2, <4>3 DEF Follows
    <3>3. QED
      BY <3>1, <3>2
  <2>3. ASSUME NEW h \in Device, InHand(h, e)', InHand(Other(h), e)'
        PROVE  hdata'[h].n # hdata'[Other(h)].n
    <3>1. PICK o \in Device : /\ o # d /\ InHand(o, e)'
                              /\ (h = d /\ o = Other(h)) \/ (o = h /\ Other(h) = d)
      BY <2>3, Others
    <3>2. InHand(o, e) /\ hdata'[o] = hdata[o] /\ hdata[o].n \in InHands(e)
      BY <1>3, <1>6, <3>1 DEF InHands
    <3>3. InHand(d, e)' /\ hdata'[d] = out /\ InPort(e) = {out.n} /\ out.n \in Nat
      BY <1>2, <1>3, <1>6, <2>3, <3>1, ByteFacts, PortTypes DEF InPort, Number
    <3>4. hdata[o].n < out.n
      BY <2>1, <3>2, <3>3 DEF Less
    <3>5. hdata[o].n # out.n
      BY <3>3, <3>4
    <3>6. QED
      BY <3>1, <3>2, <3>3, <3>5
  <2>4. QED
    BY <1>1, <2>1, <2>2, <2>3 DEF HandsOf
<1>10. QED
  BY <1>4, <1>5, <1>8, <1>9 DEF Pipes

LEMMA PortDispatch ==
    ASSUME PortInv, ~SMP, NEW d \in Device, HandlerDispatch(d)
    PROVE  Control' /\ Streams' /\ Pipes'
<1>1. /\ UNCHANGED <<dev, ctl, sent, full, out, top, pc, mode, held, wstatus, returned>>
      /\ handler[d] = "dispatch" /\ Runs(d)
      /\ delivered' = [delivered EXCEPT ![hstatus[d]] = Append(@, hdata[d])]
      /\ overtaken' = IF handler[Other(d)] = "dispatch" /\ hstatus[Other(d)] = hstatus[d]
                      THEN overtaken \cup {hdata[Other(d)]} ELSE overtaken
      /\ hdata' = [hdata EXCEPT ![d] = NoByte] /\ hstatus' = [hstatus EXCEPT ![d] = d]
      /\ handler' = [handler EXCEPT ![d] = "status"]
  BY DEF HandlerDispatch, chipVars, requestVars, countVars
<1>2. PICK s \in Device, b \in Byte : s = hstatus[d] /\ b = hdata[d] /\ b.dev = s
  BY <1>1, PortTypes DEF PortInv, Streams
<1>3. /\ \A h \in Device : h # d => /\ handler'[h] = handler[h] /\ hdata'[h] = hdata[h]
                                    /\ hstatus'[h] = hstatus[h]
      /\ handler'[d] = "status" /\ overtaken \subseteq overtaken'
      /\ \A e \in Device : delivered'[e] = IF e = s THEN Append(delivered[s], b) ELSE delivered[e]
  BY <1>1, <1>2, PortTypes
<1>4. handler[Other(d)] # "data" /\ pc = "idle"
  BY <1>1, RunsAlone
<1>5. Control'
  BY <1>1, <1>3, <1>4, Others DEF PortInv, Control, Reading
<1>6. Streams'
  <2>1. Of(Append(delivered[s], b), s)
    BY <1>2, OfAppend, PortTypes DEF PortInv, Streams
  <2>2. \A h \in Device : handler'[h] = "dispatch" => hdata'[h].dev = hstatus'[h]
    BY <1>3 DEF PortInv, Streams
  <2>3. QED
    BY <1>1, <1>3, <2>1, <2>2 DEF PortInv, Streams
<1>7. /\ \A h, e \in Device : h # d => (InHand(h, e)' <=> InHand(h, e))
      /\ \A e \in Device : ~InHand(d, e)' /\ (InHand(d, e) <=> e = s /\ IsInput(b))
  BY <1>1, <1>2, <1>3 DEF InHand
<1>8. Numbers(delivered'[s]) = Numbers(delivered[s]) \cup Number(b)
  BY <1>3, NumbersAppend, PortTypes
<1>9. Number(b) = IF IsInput(b) THEN {b.n} ELSE {}
  BY DEF Number
<1>10. ASSUME NEW e \in Device
       PROVE  Numbers(delivered'[e]) \cup InHands(e)' = Numbers(delivered[e]) \cup InHands(e)
  <2>1. ASSUME NEW h \in Device, InHand(h, e)' PROVE hdata'[h].n \in InHands(e)
    BY <1>3, <1>7, <2>1 DEF InHands
  <2>2. ASSUME NEW h \in Device, InHand(h, e), h # d PROVE hdata[h].n \in InHands(e)'
    BY <1>3, <1>7, <2>2 DEF InHands
  <2>3. InHands(e)' \subseteq InHands(e)
    BY <2>1 DEF InHands
  <2>4. CASE e = s
    <3>1. InHands(e) \subseteq InHands(e)' \cup Number(b)
      BY <1>2, <1>7, <1>9, <2>2 DEF InHands
    <3>2. Number(b) \subseteq InHands(e)
      BY <1>2, <1>7, <1>9, <2>4 DEF InHands
    <3>3. QED
      BY <1>8, <2>3, <2>4, <3>1, <3>2
  <2>5. CASE e # s
    <3>1. InHands(e) \subseteq InHands(e)'
      BY <1>7, <2>2, <2>5 DEF InHands
    <3>2. QED
      BY <1>3, <2>3, <2>5, <3>1
  <2>6. QED
    BY <2>4, <2>5
<1>11. ASSUME NEW e \in Device PROVE PipeOf(e)'
  <2>1. InHeld(e)' = InHeld(e) /\ InPort(e)' = InPort(e) /\ Taken(e)' = Taken(e)
    BY <1>1 DEF InHeld, InPort, Taken
  <2>2. QED
    BY <1>1, <1>10, <2>1 DEF PortInv, Pipes, PipeOf
<1>12. ASSUME NEW e \in Device PROVE HandsOf(e)'
  <2>1. HandsOf(e) /\ HandsOf(s)
    BY DEF PortInv, Pipes
  <2>2. Sorted(delivered'[e], overtaken')
    <3>1. CASE e = s
      <4>1. Follows(Numbers(delivered[s]), b, overtaken)
        <5>1. CASE IsInput(b)
          BY <1>2, <1>7, <2>1, <5>1 DEF HandsOf
        <5>2. CASE ~IsInput(b)
          BY <5>2 DEF Follows
        <5>3. QED
          BY <5>1, <5>2
      <4>2. Sorted(Append(delivered[s], b), overtaken)
        BY <2>1, <4>1, SortedAppend, PortTypes DEF HandsOf
      <4>3. QED
        BY <1>3, <3>1, <4>2, MoreLate
    <3>2. CASE e # s
      BY <1>3, <2>1, <3>2, MoreLate DEF HandsOf
    <3>3. QED
      BY <3>1, <3>2
  <2>3. ASSUME NEW h \in Device, InHand(h, e)'
        PROVE  Follows(Numbers(delivered'[e]), hdata'[h], overtaken')
    <3>1. h # d /\ InHand(h, e) /\ hdata'[h] = hdata[h] /\ h = Other(d) /\ d = Other(h)
      BY <1>3, <1>7, <2>3, Others
    <3>2. Follows(Numbers(delivered[e]), hdata[h], overtaken)
      BY <2>1, <3>1 DEF HandsOf
    <3>3. CASE e # s
      BY <1>3, <3>1, <3>2, <3>3, MoreLate
    <3>4. CASE e = s
      <4>1. handler[h] = "dispatch" /\ hdata[h].dev = s /\ IsInput(hdata[h])
        BY <3>1, <3>4 DEF InHand
      <4>2. hdata[h] \in overtaken'
        BY <1>1, <1>2, <3>1, <4>1 DEF PortInv, Streams
      <4>3. hdata[h].n \notin Number(b)
        BY <1>2, <1>7, <1>9, <2>1, <3>1, <3>4 DEF HandsOf
      <4>4. hdata[h].n \notin Numbers(delivered'[e])
        BY <1>8, <3>2, <3>4, <4>1, <4>3 DEF Follows
      <4>5. QED
        BY <3>1, <4>2, <4>4 DEF Follows
    <3>5. QED
      BY <3>3, <3>4
  <2>4. ASSUME NEW h \in Device, InHand(h, e)', InHand(Other(h), e)' PROVE FALSE
    BY <1>7, <2>4, Others
  <2>5. QED
    BY <2>2, <2>3, <2>4 DEF HandsOf
<1>13. QED
  BY <1>5, <1>6, <1>11, <1>12 DEF Pipes

LEMMA PortHandler ==
    ASSUME PortInv, ~SMP, Handler
    PROVE  Control' /\ Streams' /\ Pipes'
BY PortEnter, PortStatus, PortData, PortDispatch DEF Handler

-----------------------------------------------------------------------------
(* An answer adds no input and leaves the input in its order. *)
SameInput ==
    \A e \in Device : /\ Numbers(dev'[e]) = Numbers(dev[e])
                      /\ Increasing(dev'[e]) /\ Of(dev'[e], e)

LEMMA AnswerKeepsInput ==
    ASSUME PortInv, NEW d \in Device, NEW kinds \in Seq(AnswerKinds), Answer(d, kinds)
    PROVE  SameInput
<1>1. PICK k \in 0 .. Len(dev[d]) :
         dev' = [dev EXCEPT ![d] = Inserted(dev[d], AnswerBytes(d, kinds), k)]
  BY AnswerInserts DEF PortInv
<1>2. PICK r \in Seq(Byte) : r = AnswerBytes(d, kinds)
  BY AnswerBytesType
<1>3. \A i \in 1 .. Len(r) : ~IsInput(r[i]) /\ r[i].dev = d
  BY <1>2, AnswerBytesType
<1>4. Of(r, d)
  BY <1>3 DEF Of
<1>5. Of(Inserted(dev[d], r, k), d)
  BY <1>4, OfInserted, PortTypes DEF PortInv, Streams
<1>6. /\ Numbers(Inserted(dev[d], r, k)) = Numbers(dev[d])
      /\ Increasing(Inserted(dev[d], r, k))
  BY <1>3, NumbersInserted, PortTypes DEF PortInv, Pipes, PipeOf
<1>7. \A e \in Device : dev'[e] = IF e = d THEN Inserted(dev[d], r, k) ELSE dev[e]
  BY <1>1, <1>2, PortTypes
<1>8. QED
  BY <1>5, <1>6, <1>7 DEF SameInput, PortInv, Streams, Pipes, PipeOf

(* The chip takes what was written, and answers or passes it on. *)
LEMMA PortTakeInput ==
    ASSUME PortInv, TakeInput
    PROVE  Control' /\ Streams' /\ Pipes'
<1>1. UNCHANGED <<sent, full, out, handler, hstatus, hdata, top, overtaken, pc, mode, held, wstatus,
                  delivered, returned>>
  BY DEF TakeInput, handlerVars, requestVars
<1>2. Control'
  BY <1>1 DEF PortInv, Control, Reading
<1>3. SameInput /\ Of(ctl', "keyboard") /\ \A i \in DOMAIN ctl' : ~IsInput(ctl'[i])
  <2>1. CASE TakeCommand
    <3>1. dev' = dev
      BY <2>1 DEF TakeCommand
    <3>2. SameInput
      BY <3>1 DEF SameInput, PortInv, Streams, Pipes, PipeOf
    <3>3. CASE ctl' = ctl
      BY <3>2, <3>3 DEF PortInv, Streams
    <3>4. CASE ctl' # ctl
      <4>1. PICK b \in Byte : ctl' = Append(ctl, b) /\ b.dev = "keyboard" /\ ~IsInput(b)
        BY <2>1, <3>4, TakesCommand DEF PortInv
      <4>2. Of(Append(ctl, b), "keyboard")
        BY <4>1, OfAppend, PortTypes DEF PortInv, Streams
      <4>3. \A i \in DOMAIN Append(ctl, b) :
              \/ i \in DOMAIN ctl /\ Append(ctl, b)[i] = ctl[i]
              \/ Append(ctl, b)[i] = b
        BY PortTypes
      <4>4. QED
        BY <3>2, <4>1, <4>2, <4>3 DEF PortInv, Streams
    <3>5. QED
      BY <3>3, <3>4
  <2>2. CASE PassOn
    <3>1. SameInput
      BY <2>2, PassesOn, AnswerKeepsInput DEF PortInv
    <3>2. QED
      BY <2>2, <3>1 DEF PassOn, PortInv, Streams
  <2>3. QED
    BY <2>1, <2>2 DEF TakeInput
<1>4. Streams'
  BY <1>1, <1>3 DEF SameInput, PortInv, Streams
<1>5. \A e \in Device : InHands(e)' = InHands(e) /\ HandsOf(e)'
  BY <1>1, HandsSame DEF PortInv, Pipes
<1>6. ASSUME NEW e \in Device PROVE PipeOf(e)'
  <2>1. /\ InHeld(e)' = InHeld(e) /\ InPort(e)' = InPort(e) /\ Taken(e)' = Taken(e)
        /\ delivered'[e] = delivered[e] /\ sent'[e] = sent[e]
    BY <1>1 DEF InHeld, InPort, Taken
  <2>2. QED
    BY <1>3, <1>5, <2>1 DEF SameInput, PortInv, Pipes, PipeOf
<1>7. QED
  BY <1>2, <1>4, <1>5, <1>6 DEF Pipes

-----------------------------------------------------------------------------
(* The work loop.  The commands that write read nothing. *)
LEMMA PortWrites ==
    ASSUME PortInv, StartCommand \/ WriteMore
    PROVE  Control' /\ Streams' /\ Pipes'
<1>1. /\ UNCHANGED <<dev, ctl, sent, full, out, handler, hstatus, hdata, top, overtaken, held,
                     wstatus, delivered, returned>>
      /\ pc \in {"command", "transmit", "setCommandByte", "newCommandByte"}
  BY DEF StartCommand, WriteMore, Transmit, SetCommandByte, NewCommandByte, handlerVars, countVars
<1>2. held = NoByte /\ wstatus = "none"
  BY <1>1 DEF PortInv, Control, Reading
<1>3. Control'
  BY <1>1, <1>2 DEF PortInv, Control
<1>4. \A e \in Device : InHeld(e)' = InHeld(e)
  BY <1>1, <1>2, ByteFacts DEF InHeld, Number
<1>5. QED
  BY <1>1, <1>3, <1>4, PortSame

(* A byte of the stream that is read, or one put aside, goes to a request. *)
LEMMA PortTakes ==
    ASSUME PortInv, NEW b \in Byte \cup {NoByte},
           returned \cup (IF IsInput(b) THEN {b} ELSE {}) \subseteq returned',
           NEW e
    PROVE  Taken(e) \subseteq Taken(e)' /\ (b.dev = e => Number(b) \subseteq Taken(e)')
BY DEF Taken, Number

(* The invariant of a stream when the driver's part has not changed.       *)
LEMMA PortSameDriver ==
    ASSUME PortInv, pc # "idle", UNCHANGED <<handler, hdata, overtaken, dev, sent, delivered>>,
           NEW e \in Device,
           Pipe(Numbers(delivered[e]), InHeld(e)', InPort(e)', Numbers(dev[e]), Taken(e)', sent[e])
    PROVE  PipeOf(e)' /\ HandsOf(e)'
<1>1. InHands(e)' = {} /\ HandsOf(e)'
  BY NoHands
<1>2. Increasing(dev[e])
  BY DEF PortInv, Pipes, PipeOf
<1>3. QED
  BY <1>1, <1>2, NoHandsAfter

LEMMA PortFlush ==
    ASSUME PortInv, Flush
    PROVE  Control' /\ Streams' /\ Pipes'
<1>1. /\ UNCHANGED <<dev, ctl, sent, out, handler, hstatus, hdata, top, overtaken, pc, mode, held,
                     wstatus, delivered>>
      /\ pc = "command"
  BY DEF Flush, handlerVars
<1>2. wstatus = "none"
  BY <1>1 DEF PortInv, Control, Reading
<1>3. Control'
  BY <1>1, <1>2 DEF PortInv, Control, Reading
<1>4. Streams'
  BY <1>1 DEF PortInv, Streams
<1>5. ASSUME NEW e \in Device PROVE PipeOf(e)' /\ HandsOf(e)'
  <2>1. InHeld(e) = {} /\ InHeld(e)' = {}
    BY <1>1 DEF InHeld
  <2>2. Pipe(Numbers(delivered[e]), {}, InPort(e), Numbers(dev[e]), Taken(e), sent[e])
    BY <1>1, <2>1, NoHands
  <2>3. CASE full
    <3>1. full' = FALSE /\ returned \cup (IF IsInput(out) THEN {out} ELSE {}) \subseteq returned'
          /\ out \in Byte
      BY <2>3, PortTypes DEF Flush
    <3>2. InPort(e)' = {}
      BY <3>1 DEF InPort
    <3>3. Taken(e) \cup InPort(e) \subseteq Taken(e)'
      BY <3>1, PortTakes DEF InPort
    <3>4. Pipe(Numbers(delivered[e]), {}, {}, Numbers(dev[e]), Taken(e)', sent[e])
      BY <2>2, <3>3, PipeTakePort, PortTypes
    <3>5. QED
      BY <1>1, <2>1, <3>2, <3>4, PortSameDriver
  <2>4. CASE ~full
    <3>1. InPort(e)' = InPort(e) /\ Taken(e)' = Taken(e)
      BY <1>1, <2>4 DEF Flush, InPort, Taken
    <3>2. QED
      BY <1>1, <2>1, <2>2, <3>1, PortSameDriver
  <2>5. QED
    BY <2>3, <2>4
<1>6. QED
  BY <1>3, <1>4, <1>5 DEF Pipes

(* What a read that ends changes, whatever its result. *)
LEMMA PortReturn ==
    ASSUME PortInv, NEW b \in Byte \cup {NoByte}, Return(b), NEW e
    PROVE  /\ pc' \in {"command", "setCommandByte"} /\ held' = NoByte /\ InHeld(e)' = {}
           /\ Taken(e) \subseteq Taken(e)' /\ (b.dev = e => Number(b) \subseteq Taken(e)')
<1>1. /\ returned \cup (IF IsInput(b) THEN {b} ELSE {}) \subseteq returned'
      /\ pc' \in {"command", "setCommandByte"} /\ held' = NoByte
  BY DEF Return
<1>2. QED
  BY <1>1, PortTakes DEF InHeld

(* The byte in the port goes to the driver of the device it is of. *)
LEMMA PortGives ==
    ASSUME PortInv, pc # "idle", full, full' = FALSE, NEW b \in Byte, NEW d \in Device, b.dev = d,
           delivered' = [delivered EXCEPT ![d] = Append(@, b)],
           UNCHANGED <<handler, hdata, overtaken, dev, ctl, sent, hstatus>>,
           \A e \in Device : Less(Numbers(delivered[e]), IF e = d THEN Number(b) ELSE {}),
           \A e \in Device :
              Pipe(Numbers(delivered[e]) \cup (IF e = d THEN Number(b) ELSE {}), InHeld(e)', {},
                   Numbers(dev[e]), Taken(e)', sent[e])
    PROVE  Streams' /\ Pipes'
<1>1. \A e \in Device : delivered'[e] = IF e = d THEN Append(delivered[d], b) ELSE delivered[e]
  BY PortTypes
<1>2. Streams'
  <2>1. Of(Append(delivered[d], b), d)
    BY OfAppend, PortTypes DEF PortInv, Streams
  <2>2. QED
    BY <1>1, <2>1 DEF PortInv, Streams
<1>3. ASSUME NEW e \in Device PROVE PipeOf(e)' /\ HandsOf(e)'
  <2>1. Sorted(delivered[e], overtaken) /\ InHands(e)' = {}
    BY NoHands
  <2>2. /\ Numbers(delivered'[e]) = Numbers(delivered[e]) \cup (IF e = d THEN Number(b) ELSE {})
        /\ Sorted(delivered'[e], overtaken)
    <3>1. CASE e = d
      <4>1. Less(Numbers(delivered[d]), Number(b)) /\ b.n \in Nat
        BY <3>1, ByteFacts
      <4>2. Follows(Numbers(delivered[d]), b, overtaken)
        <5>1. SUFFICES ASSUME IsInput(b) PROVE Follows(Numbers(delivered[d]), b, overtaken)
          BY DEF Follows
        <5>2. Less(Numbers(delivered[d]), {b.n})
          BY <4>1, <5>1 DEF Number
        <5>3. b.n \notin Numbers(delivered[d])
          BY <4>1, <5>2 DEF Less
        <5>4. QED
          BY <5>2, <5>3 DEF Follows
      <4>3. QED
        BY <1>1, <2>1, <3>1, <4>2, SortedAppend, NumbersAppend, PortTypes
    <3>2. CASE e # d
      BY <1>1, <2>1, <3>2
    <3>3. QED
      BY <3>1, <3>2
  <2>3. HandsOf(e)'
    BY <2>2, NoHands
  <2>4. InPort(e)' = {} /\ Increasing(dev'[e])
    BY DEF InPort, PortInv, Pipes, PipeOf
  <2>5. QED
    BY <2>1, <2>2, <2>3, <2>4, NoHandsAfter
<1>4. QED
  BY <1>2, <1>3 DEF Pipes

LEMMA PortPollData ==
    ASSUME PortInv, PollData
    PROVE  Control' /\ Streams' /\ Pipes'
<1>1. /\ Reading /\ wstatus # "none" /\ full' = FALSE /\ wstatus' = "none"
      /\ UNCHANGED <<dev, ctl, sent, out, handler, hstatus, hdata, top, overtaken, mode>>
  BY DEF PollData, handlerVars
<1>2. /\ full /\ wstatus = out.dev /\ pc # "idle" /\ out \in Byte
      /\ out.dev \in Device /\ Requested \in Device
      /\ \A h \in Device : handler[h] = "idle"
  <2>1. full /\ wstatus = out.dev /\ pc # "idle"
    BY <1>1 DEF PortInv, Control, Reading
  <2>2. QED
    BY <2>1, ByteFacts, PortTypes DEF Requested, Device, PortInv, Control
<1>3. \A e \in Device : InPort(e)' = {} /\ InPort(e) = IF e = out.dev THEN Number(out) ELSE {}
  BY <1>1, <1>2 DEF InPort
<1>4. \A e \in Device :
         /\ Pipe(Numbers(delivered[e]), InHeld(e), InPort(e), Numbers(dev[e]), Taken(e), sent[e])
         /\ Less(Numbers(delivered[e]), InPort(e)) /\ Less(Numbers(delivered[e]), InHeld(e))
  BY <1>1, <1>2, NoHands DEF Pipe
<1>5. held' = NoByte \/ (held'.dev = mode /\ pc' = "compare") => Control'
  BY <1>1, <1>2 DEF PortInv, Control
<1>6. delivered' = delivered => Streams'
  BY <1>1 DEF PortInv, Streams
<1>7. CASE ReadOther
  <2>1. /\ UNCHANGED <<pc, request, held, returned>> /\ wstatus # Requested
        /\ delivered' = [delivered EXCEPT ![Other(Requested)] = Append(@, out)]
    BY <1>7 DEF ReadOther, Dispatch
  <2>2. Other(Requested) = out.dev
    BY <1>2, <2>1, Others
  <2>3. \A e \in Device : InHeld(e)' = InHeld(e) /\ Taken(e)' = Taken(e)
    BY <2>1 DEF InHeld, Taken
  <2>4. InHeld(out.dev) = {}
    BY <1>2, <2>1, ByteFacts, PortTypes DEF InHeld, Number, Requested, PortInv, Control
  <2>5. Control'
    BY <1>1, <1>2, <2>1 DEF PortInv, Control, Reading
  <2>6. ASSUME NEW e \in Device
        PROVE  Pipe(Numbers(delivered[e]) \cup InPort(e), InHeld(e), {}, Numbers(dev[e]), Taken(e),
                    sent[e])
    <3>1. CASE e = out.dev
      <4>1. Pipe(Numbers(delivered[e]), {}, InPort(e), Numbers(dev[e]), Taken(e), sent[e])
        BY <1>4, <2>4, <3>1
      <4>2. Pipe(Numbers(delivered[e]) \cup InPort(e), {}, {}, Numbers(dev[e]), Taken(e), sent[e])
        BY <4>1, PipeDeliver, PortTypes
      <4>3. QED
        BY <2>4, <3>1, <4>2
    <3>2. CASE e # out.dev
      <4>1. InPort(e) = {} /\ Numbers(delivered[e]) \cup {} = Numbers(delivered[e])
        BY <1>3, <3>2
      <4>2. QED
        BY <1>4, <4>1
    <3>3. QED
      BY <3>1, <3>2
  <2>7. \A e \in Device :
          /\ Less(Numbers(delivered[e]), IF e = out.dev THEN Number(out) ELSE {})
          /\ Pipe(Numbers(delivered[e]) \cup (IF e = out.dev THEN Number(out) ELSE {}), InHeld(e)', {},
                  Numbers(dev[e]), Taken(e)', sent[e])
    BY <1>3, <1>4, <2>3, <2>6
  <2>8. Streams' /\ Pipes'
    BY <1>1, <1>2, <2>1, <2>2, <2>7, PortGives
  <2>9. QED
    BY <2>5, <2>8
<1>8. CASE ReadPlain
  <2>1. Return(out) /\ UNCHANGED delivered /\ pc # "compare" /\ wstatus = Requested
    BY <1>8 DEF ReadPlain
  <2>2. ASSUME NEW e \in Device PROVE PipeOf(e)' /\ HandsOf(e)'
    <3>1. InHeld(e) = {} /\ InHeld(e)' = {} /\ Taken(e) \cup InPort(e) \subseteq Taken(e)'
      BY <1>2, <1>3, <2>1, PortReturn DEF InHeld
    <3>2. Pipe(Numbers(delivered[e]), {}, InPort(e), Numbers(dev[e]), Taken(e), sent[e])
      BY <1>4, <3>1
    <3>3. Pipe(Numbers(delivered[e]), {}, {}, Numbers(dev[e]), Taken(e)', sent[e])
      BY <3>1, <3>2, PipeTakePort, PortTypes
    <3>4. QED
      BY <1>1, <1>2, <1>3, <2>1, <3>1, <3>3, PortSameDriver
  <2>3. held' = NoByte
    BY <1>2, <2>1, PortReturn
  <2>4. QED
    BY <1>5, <1>6, <2>1, <2>2, <2>3 DEF Pipes
<1>9. CASE HoldFirst
  <2>1. /\ UNCHANGED <<pc, request, delivered, returned>> /\ held = NoByte /\ held' = out
        /\ pc = "compare" /\ wstatus = Requested
    BY <1>9 DEF HoldFirst
  <2>2. held'.dev = mode /\ pc' = "compare"
    BY <1>2, <2>1, ByteFacts DEF Requested
  <2>3. ASSUME NEW e \in Device PROVE PipeOf(e)' /\ HandsOf(e)'
    <3>1. InHeld(e) = {} /\ InHeld(e)' = InPort(e) /\ Taken(e)' = Taken(e)
      BY <1>3, <2>1, ByteFacts DEF InHeld, Number, Taken
    <3>2. Pipe(Numbers(delivered[e]), {}, InPort(e), Numbers(dev[e]), Taken(e), sent[e])
      BY <1>4, <3>1
    <3>3. Pipe(Numbers(delivered[e]), InPort(e), {}, Numbers(dev[e]), Taken(e), sent[e])
      BY <3>2, PipeAside, PortTypes
    <3>4. QED
      BY <1>1, <1>2, <1>3, <2>1, <3>1, <3>3, PortSameDriver
  <2>4. QED
    BY <1>5, <1>6, <2>1, <2>2, <2>3 DEF Pipes
<1>10. CASE ReadExpected
  <2>1. /\ wstatus = Requested /\ pc = "compare" /\ Return(out) /\ Requested = mode
        /\ IF held # NoByte THEN Dispatch(Requested, held) ELSE UNCHANGED delivered
    BY <1>10 DEF ReadExpected, Requested
  <2>2. held' = NoByte /\ \A e \in Device : InHeld(e)' = {} /\ Taken(e) \cup InPort(e) \subseteq Taken(e)'
    BY <1>2, <1>3, <2>1, PortReturn
  <2>3. \A e \in Device : Pipe(Numbers(delivered[e]) \cup InHeld(e), {}, {}, Numbers(dev[e]),
                              Taken(e)', sent[e])
    <3>1. TAKE e \in Device
    <3>2. Less(Numbers(delivered[e]), InHeld(e))
      BY <1>4
    <3>3. Pipe(Numbers(delivered[e]), InHeld(e), {}, Numbers(dev[e]), Taken(e)', sent[e])
      BY <1>4, <2>2, PipeTakeLast, PortTypes
    <3>4. QED
      BY <3>3, PipeMatch, PortTypes
  <2>4. CASE held = NoByte
    <3>1. delivered' = delivered
      BY <2>1, <2>4
    <3>2. ASSUME NEW e \in Device PROVE PipeOf(e)' /\ HandsOf(e)'
      <4>1. InHeld(e) = {} /\ Numbers(delivered[e]) \cup {} = Numbers(delivered[e])
        BY <2>4, ByteFacts DEF InHeld, Number
      <4>2. Pipe(Numbers(delivered[e]), {}, {}, Numbers(dev[e]), Taken(e)', sent[e])
        BY <2>3, <4>1
      <4>3. QED
        BY <1>1, <1>2, <1>3, <2>2, <3>1, <4>2, PortSameDriver
    <3>3. QED
      BY <1>5, <1>6, <2>2, <3>1, <3>2 DEF Pipes
  <2>5. CASE held # NoByte
    <3>1. PICK b \in Byte : b = held
      BY <2>5, PortTypes
    <3>2. b.dev = mode /\ delivered' = [delivered EXCEPT ![mode] = Append(@, b)] /\ mode \in Device
      BY <2>1, <2>5, <3>1, PortTypes DEF Dispatch, PortInv, Control
    <3>3. \A e \in Device : InHeld(e) = IF e = mode THEN Number(b) ELSE {}
      BY <2>1, <3>1, <3>2 DEF InHeld
    <3>4. Control'
      BY <1>5, <2>2
    <3>5. \A e \in Device :
            /\ Less(Numbers(delivered[e]), IF e = mode THEN Number(b) ELSE {})
            /\ Pipe(Numbers(delivered[e]) \cup (IF e = mode THEN Number(b) ELSE {}), InHeld(e)', {},
                    Numbers(dev[e]), Taken(e)', sent[e])
      BY <1>4, <2>2, <2>3, <3>3
    <3>6. Streams' /\ Pipes'
      BY <1>1, <1>2, <3>2, <3>5, PortGives
    <3>7. QED
      BY <3>4, <3>6
  <2>6. QED
    BY <2>4, <2>5
<1>11. CASE SecondMismatch
  <2>1. /\ wstatus = Requested /\ pc = "compare" /\ Return(held) /\ Requested = mode
        /\ held # NoByte
        /\ delivered' = [delivered EXCEPT ![mode] = Append(@, out)]
    BY <1>11 DEF SecondMismatch, Dispatch, Requested
  <2>2. out.dev = mode /\ held.dev = mode /\ mode \in Device
    BY <1>2, <2>1 DEF PortInv, Control
  <2>3. \A e \in Device : InHeld(e)' = {} /\ Taken(e) \cup InHeld(e) \subseteq Taken(e)'
    BY <2>1, PortReturn, PortTypes DEF InHeld
  <2>4. Control'
    BY <1>5, <2>1, PortReturn, PortTypes
  <2>5. \A e \in Device : Pipe(Numbers(delivered[e]) \cup InPort(e), {}, {}, Numbers(dev[e]),
                              Taken(e)', sent[e])
    BY <1>4, <2>3, PipeMismatch, PortTypes
  <2>6. \A e \in Device :
          /\ Less(Numbers(delivered[e]), IF e = mode THEN Number(out) ELSE {})
          /\ Pipe(Numbers(delivered[e]) \cup (IF e = mode THEN Number(out) ELSE {}), InHeld(e)', {},
                  Numbers(dev[e]), Taken(e)', sent[e])
    BY <1>3, <1>4, <2>2, <2>3, <2>5
  <2>7. Streams' /\ Pipes'
    BY <1>1, <1>2, <2>1, <2>2, <2>6, PortGives
  <2>8. QED
    BY <2>4, <2>7
<1>12. QED
  BY <1>7, <1>8, <1>9, <1>10, <1>11 DEF PollData

LEMMA PortTimeOut ==
    ASSUME PortInv, TimeOut
    PROVE  Control' /\ Streams' /\ Pipes'
<1>1. /\ UNCHANGED <<dev, ctl, sent, full, out, handler, hstatus, hdata, top, overtaken, mode,
                     wstatus, delivered>>
      /\ Reading /\ Return(held) /\ wstatus = "none"
  BY DEF TimeOut, chipVars, handlerVars
<1>2. held' = NoByte /\ pc # "idle"
  BY <1>1, PortReturn, PortTypes DEF Reading
<1>3. Control'
  BY <1>1, <1>2 DEF PortInv, Control
<1>4. Streams'
  BY <1>1 DEF PortInv, Streams
<1>5. ASSUME NEW e \in Device PROVE PipeOf(e)' /\ HandsOf(e)'
  <2>1. InHeld(e)' = {} /\ Taken(e) \cup InHeld(e) \subseteq Taken(e)'
    BY <1>1, PortReturn, PortTypes DEF InHeld
  <2>2. InPort(e)' = InPort(e)
    BY <1>1 DEF InPort
  <2>3. Pipe(Numbers(delivered[e]), InHeld(e), InPort(e), Numbers(dev[e]), Taken(e), sent[e])
    BY <1>1, <1>2, NoHands
  <2>4. Pipe(Numbers(delivered[e]), {}, InPort(e), Numbers(dev[e]), Taken(e)', sent[e])
    BY <2>1, <2>3, PipeTakeAside, PortTypes
  <2>5. QED
    BY <1>1, <1>2, <2>1, <2>2, <2>4, PortSameDriver
<1>6. QED
  BY <1>3, <1>4, <1>5 DEF Pipes

(* The steps that move no byte; a request begins only between interrupts.  *)
LEMMA PortQuietSteps ==
    ASSUME PortInv, ~SMP, BeginRequest \/ PollStatus \/ EndRequest
    PROVE  Control' /\ Streams' /\ Pipes'
<1>1. UNCHANGED <<dev, ctl, sent, full, out, handler, hstatus, hdata, top, overtaken, held,
                  delivered, returned>>
  BY DEF BeginRequest, PollStatus, EndRequest, chipVars, handlerVars, countVars
<1>2. \A h \in Device : handler[h] = "idle"
  BY DEF BeginRequest, PollStatus, EndRequest, WorkLoopRuns
<1>3. CASE BeginRequest
  <2>1. pc = "idle" /\ pc' = "command" /\ wstatus' = wstatus
    BY <1>3 DEF BeginRequest
  <2>2. Control'
    BY <1>1, <1>2, <2>1 DEF PortInv, Control, Reading
  <2>3. QED
    BY <1>1, <2>1, <2>2, PortSame DEF InHeld
<1>4. CASE PollStatus
  <2>1. pc' = pc /\ mode' = mode /\ Reading /\ full /\ wstatus' = out.dev
    BY <1>4 DEF PollStatus, requestVars
  <2>2. Control'
    BY <1>1, <1>2, <2>1 DEF PortInv, Control, Reading
  <2>3. QED
    BY <1>1, <2>1, <2>2, PortSame DEF InHeld
<1>5. CASE EndRequest
  <2>1. pc = "command" /\ pc' = "idle" /\ wstatus' = wstatus
    BY <1>5 DEF EndRequest
  <2>2. Control'
    BY <1>1, <1>2, <2>1 DEF PortInv, Control, Reading
  <2>3. QED
    BY <1>1, <2>1, <2>2, PortSame DEF InHeld
<1>6. QED
  BY <1>3, <1>4, <1>5

LEMMA NextPort ==
    ASSUME ~SMP, PortInv, [Next]_vars
    PROVE  PortInv'
<1>1. TInv'
  BY NextTInv DEF PortInv
<1>2. CASE UNCHANGED vars
  <2>1. UNCHANGED <<dev, ctl, sent, full, out, delivered, returned, pc, held, handler, hstatus,
                    hdata, overtaken>>
    BY <1>2 DEF vars, chipVars, handlerVars, countVars
  <2>2. Control'
    BY <1>2 DEF vars, chipVars, handlerVars, requestVars, PortInv, Control, Reading
  <2>3. QED
    BY <1>1, <2>1, <2>2, PortSame DEF InHeld, PortInv
<1>3. CASE \E d \in Device : Input(d)
  BY <1>1, <1>3, PortInput DEF PortInv
<1>4. CASE Chip \/ TakeInput
  BY <1>1, <1>4, PortFillDevice, PortFillChip, PortTakeInput DEF Chip, PortInv
<1>5. CASE Handler
  BY <1>1, <1>5, PortHandler DEF PortInv
<1>6. CASE BeginRequest \/ WorkLoop
  BY <1>1, <1>6, PortQuietSteps, PortWrites, PortFlush, PortPollData, PortTimeOut
     DEF WorkLoop, PortInv
<1>7. QED
  BY <1>2, <1>3, <1>4, <1>5, <1>6 DEF Next

LEMMA PortDelivered == PortInv => InputDelivered
<1> SUFFICES ASSUME PortInv PROVE InputDelivered
  OBVIOUS
<1>1. OwnStream
  BY DEF PortInv, Streams, Of, OwnStream
<1>2. InOrder
  BY DEF PortInv, Pipes, HandsOf, Sorted, InOrder
<1>3. ASSUME NEW q \in Seq(Byte), NEW d, NEW n, Of(q, d), n \in Numbers(q)
      PROVE  \E b \in ToSet(q) : b.dev = d /\ IsInput(b) /\ b.n = n
  <2>1. PICK i \in InputIn(q) : q[i].n = n
    BY <1>3 DEF Numbers
  <2>2. i \in DOMAIN q /\ q[i].dev = d /\ IsInput(q[i]) /\ q[i] \in ToSet(q)
    BY <1>3 DEF InputIn, Of, ToSet
  <2>3. QED
    BY <2>1, <2>2
<1>4. ASSUME NEW d \in Device, NEW n \in 1 .. sent[d]
      PROVE  \E b \in Places(d) : b.dev = d /\ IsInput(b) /\ b.n = n
  <2>1. \/ n \in Numbers(delivered[d]) \/ n \in InHands(d) \/ n \in InHeld(d) \/ n \in InPort(d)
        \/ n \in Numbers(dev[d]) \/ n \in Taken(d)
    <3>1. Pipe(Numbers(delivered[d]) \cup InHands(d), InHeld(d), InPort(d), Numbers(dev[d]), Taken(d),
               sent[d])
      BY DEF PortInv, Pipes, PipeOf
    <3>2. \/ n \in Numbers(delivered[d]) \cup InHands(d) \/ n \in InHeld(d) \/ n \in InPort(d)
          \/ n \in Numbers(dev[d]) \/ n \in Taken(d)
      BY <3>1 DEF Pipe
    <3>3. QED
      BY <3>2
  <2>2. CASE n \in Numbers(delivered[d])
    <3>1. delivered[d] \in Seq(Byte) /\ Of(delivered[d], d) /\ ToSet(delivered[d]) \subseteq Places(d)
      BY PortTypes DEF PortInv, Streams, Places
    <3>2. \E b \in ToSet(delivered[d]) : b.dev = d /\ IsInput(b) /\ b.n = n
      BY <1>3, <2>2, <3>1
    <3>3. QED
      BY <3>1, <3>2
  <2>3. CASE n \in InHands(d)
    BY <2>3 DEF InHands, InHand, Places
  <2>4. CASE n \in InHeld(d)
    BY <2>4 DEF InHeld, Number, Places
  <2>5. CASE n \in InPort(d)
    BY <2>5 DEF InPort, Number, Places
  <2>6. CASE n \in Numbers(dev[d])
    <3>1. dev[d] \in Seq(Byte) /\ Of(dev[d], d) /\ ToSet(dev[d]) \subseteq Places(d)
      BY PortTypes DEF PortInv, Streams, Places
    <3>2. \E b \in ToSet(dev[d]) : b.dev = d /\ IsInput(b) /\ b.n = n
      BY <1>3, <2>6, <3>1
    <3>3. QED
      BY <3>1, <3>2
  <2>7. CASE n \in Taken(d)
    BY <2>7 DEF Taken, Places
  <2>8. QED
    BY <2>1, <2>2, <2>3, <2>4, <2>5, <2>6, <2>7
<1>5. Conserved
  BY <1>4 DEF Conserved
<1>6. QED
  BY <1>1, <1>2, <1>5 DEF InputDelivered

(* On one processor, whatever the requests and however their reads end:    *)
(* what readDataPort polls for a request and what the handlers read and    *)
(* dispatch together give each driver its device's input stream, each byte *)
(* once, in order but for what was overtaken in an interrupted handler's   *)
(* hand, and every byte is accounted for.                                  *)
THEOREM InputDeliveredHolds == ~SMP => (Spec => []InputDelivered)
<1> SUFFICES ASSUME ~SMP PROVE Spec => []InputDelivered
  OBVIOUS
<1>1. PortInv /\ [Next]_vars => PortInv'
  BY NextPort
<1>2. QED
  BY <1>1, InitPort, PortDelivered, PTL DEF Spec

-----------------------------------------------------------------------------
(* Answers.  As long as every answer comes first and in time, requests     *)
(* only compare and nothing is taken for an acknowledge that is none:      *)
(* between the write and the read that compares, exactly one acknowledge   *)
(* is on its way: it is still to be asked for in the chip's input buffer,  *)
(* or the next byte of its device, or in the port, and but for the one     *)
(* byte that was already in the port it is the first that is read;         *)
(* otherwise there is nothing but input.                                   *)
AllInput(bytes) == \A i \in DOMAIN bytes : IsInput(bytes[i])
AckFirst(bytes) == /\ 1 \in DOMAIN bytes /\ bytes[1].kind = "ack"
                   /\ \A i \in DOMAIN bytes : i # 1 => IsInput(bytes[i])
Waiting == \/ pc = "compare"
           \/ pc = "command" /\ request # <<>> /\ request[1].op \in CompareReads
ForChip == [to |-> "chip", answer |-> <<>>]
ForDevice(d) == [to |-> d, answer |-> <<"ack">>]
PortBefore == (full => IsInput(out)) /\ (held # NoByte => ~(full /\ out.dev = mode))
AckWritten == input = ForDevice(mode) /\ AllInput(dev[mode]) /\ PortBefore
AckIsNext == input = NoInput /\ AckFirst(dev[mode]) /\ PortBefore
AckInPort == /\ input = NoInput
             /\ full /\ out.dev = mode /\ out.kind = "ack" /\ AllInput(dev[mode])
AckComes == (AckWritten \/ AckIsNext \/ AckInPort) /\ AllInput(dev[Other(mode)])
OnlyInput == /\ input \in {NoInput, ForChip}
             /\ full => IsInput(out)
             /\ \A d \in Device : AllInput(dev[d])
RestCompares ==
    /\ OnlyCompares(request) /\ Acknowledged(request)
    /\ pc = "command" =>
          /\ 1 \in DOMAIN request /\ request[1].op = "ReadMouseDataPortAndCompare" => mode = "mouse"
          /\ 2 \in DOMAIN request /\ request[2].op = "ReadMouseDataPortAndCompare" => toMouse
    /\ pc = "compare" =>
          /\ 1 \in DOMAIN request
          /\ request[1].op \in CompareReads \cup {"SendMouseCommandAndCompareAck"}
AnswersInTime ==
    /\ pc \in {"idle", "command", "transmit", "compare"} /\ ctl = <<>>
    /\ pc # "idle" => RestCompares
    /\ IF Waiting THEN AckComes ELSE OnlyInput
    /\ held # NoByte => IsInput(held)
    /\ failures = 0 /\ returned = {}
    /\ \A d \in Device : /\ AllInput(delivered[d])
                         /\ handler[d] = "dispatch" => IsInput(hdata[d])

AnswerInv == early \in Nat /\ (Assured => AnswersInTime)

LEMMA InputAppend ==
    ASSUME NEW q \in Seq(Byte), NEW b \in Byte, IsInput(b)
    PROVE  /\ AllInput(q) => AllInput(Append(q, b))
           /\ AckFirst(q) => AckFirst(Append(q, b))
<1>1. PICK r \in Seq(Byte) : r = Append(q, b)
  BY AppendElements
<1>2. /\ DOMAIN r = 1 .. Len(q) + 1 /\ DOMAIN q = 1 .. Len(q) /\ Len(q) \in Nat
      /\ r[Len(q) + 1] = b /\ \A i \in DOMAIN q : r[i] = q[i]
  BY <1>1, AppendElements
<1>3. QED
  BY <1>1, <1>2 DEF AllInput, AckFirst

LEMMA InputTail ==
    ASSUME NEW q \in Seq(Byte), q # <<>>
    PROVE  /\ AllInput(q) => AllInput(Tail(q)) /\ IsInput(Head(q))
           /\ AckFirst(q) => AllInput(Tail(q)) /\ Head(q).kind = "ack"
<1>1. PICK r \in Seq(Byte) : r = Tail(q)
  BY TailElements
<1>2. /\ Head(q) = q[1] /\ 1 \in DOMAIN q
      /\ \A i \in DOMAIN r : i \in Nat \ {0} /\ i + 1 \in DOMAIN q /\ r[i] = q[i + 1]
  BY <1>1, TailElements
<1>3. QED
  BY <1>1, <1>2 DEF AllInput, AckFirst

(* The one byte of an answer that does not come late is the next byte. *)
LEMMA InputAnswer ==
    ASSUME PortInv, NEW d \in Device, Answer(d, <<"ack">>), ~unsure', AllInput(dev[d])
    PROVE  AckFirst(dev'[d]) /\ \A e \in Device \ {d} : dev'[e] = dev[e]
<1>1. PICK kinds \in Seq(AnswerKinds) : kinds = <<"ack">> /\ Len(kinds) = 1 /\ kinds[1] = "ack"
  <2>1. <<"ack">> \in Seq(AnswerKinds) /\ Len(<<"ack">>) = 1 /\ <<"ack">>[1] = "ack"
    BY DEF AnswerKinds
  <2>2. QED
    BY <2>1, Zenon
<1>2. PICK q \in Seq(Byte) : q = dev[d]
  BY PortTypes
<1>3. PICK k \in 0 .. Len(q) :
         /\ dev' = [dev EXCEPT ![d] = Inserted(q, AnswerBytes(d, kinds), k)]
         /\ unsure' = (unsure \/ k > 0)
  BY <1>1, <1>2, AnswerInserts DEF PortInv
<1>4. k = 0
  <2>1. ~(k > 0)
    BY <1>3, Zenon
  <2>2. Len(q) \in Nat
    OBVIOUS
  <2>3. QED
    BY <2>1, <2>2
<1>5. PICK r \in Seq(Byte) : r = AnswerBytes(d, kinds)
  BY AnswerBytesType
<1>6. Len(r) = 1 /\ r[1].kind = "ack"
  <2>1. Len(kinds) = 1 /\ kinds[1] = "ack"
    BY <1>1, Zenon
  <2>2. Len(r) = Len(kinds)
    BY <1>5, AnswerBytesType
  <2>3. \A i \in 1 .. Len(kinds) : r[i].kind = kinds[i]
    BY <1>5, AnswerBytesType
  <2>4. QED
    BY <2>1, <2>2, <2>3
<1>7. PICK w \in Seq(Byte) : w = Inserted(q, r, 0) /\ PutIn(w, q, r, 0)
  BY <1>3, <1>4, InsertedElements
<1>8. AckFirst(w)
  <2>1. /\ Len(w) = Len(q) + 1 /\ w[1] = r[1 - 0] /\ Len(q) \in Nat
        /\ \A i \in 2 .. Len(q) + 1 : w[i] = q[i - 1] /\ i - 1 \in DOMAIN q
    BY <1>6, <1>7 DEF PutIn
  <2>2. AllInput(q)
    BY <1>2
  <2>3. \A i \in DOMAIN w : i # 1 => i \in 2 .. Len(q) + 1
    BY <2>1
  <2>4. QED
    BY <1>6, <2>1, <2>2, <2>3 DEF AckFirst, AllInput
<1>9. QED
  BY <1>3, <1>4, <1>5, <1>7, <1>8, PortTypes

(* What a request that only compares has left once its first command is    *)
(* done.                                                                   *)
LEMMA ComparesTail ==
    ASSUME NEW r \in Seq(Command), r # <<>>, OnlyCompares(r), Acknowledged(r)
    PROVE  /\ OnlyCompares(Tail(r)) /\ Acknowledged(Tail(r))
           /\ 1 \in DOMAIN r /\ Head(r) = r[1]
           /\ 1 \in DOMAIN Tail(r) => (Tail(r)[1].op \in CompareReads <=> r[1].op = "WriteDataPort")
           /\ Tail(r) = <<>> => r[1].op # "WriteDataPort"
           /\ 1 \in DOMAIN Tail(r) => 2 \in DOMAIN r /\ Tail(r)[1] = r[2]
           /\ 2 \in DOMAIN Tail(r) /\ Tail(r)[2].op = "ReadMouseDataPortAndCompare" =>
                  r[1].op = "WriteCommandPort" /\ r[1].mouse
<1>1. PICK t \in Seq(Command) : t = Tail(r)
  BY TailElements
<1>2. /\ Head(r) = r[1] /\ 1 \in DOMAIN r /\ DOMAIN r = 1 .. Len(r) /\ Len(r) \in Nat
      /\ DOMAIN t = 1 .. Len(r) - 1
      /\ \A i \in DOMAIN t : i \in Nat \ {0} /\ i + 1 \in DOMAIN r /\ t[i] = r[i + 1]
  BY <1>1, TailElements
<1>3. OnlyCompares(t)
  BY <1>2 DEF OnlyCompares
<1>4. Acknowledged(t)
  <2> SUFFICES ASSUME NEW i \in DOMAIN t
               PROVE  /\ t[i].op \in {"WriteDataPort", "SendMouseCommandAndCompareAck"} =>
                            t[i].answer = <<"ack">>
                      /\ t[i].op = "WriteDataPort" => i + 1 \in DOMAIN t
                      /\ i + 1 \in DOMAIN t =>
                            (t[i].op = "WriteDataPort" <=> t[i + 1].op \in CompareReads)
                      /\ i + 2 \in DOMAIN t /\ t[i + 2].op = "ReadMouseDataPortAndCompare" =>
                            t[i].op = "WriteCommandPort" /\ t[i].mouse
    BY DEF Acknowledged
  <2>1. i + 1 \in DOMAIN r /\ t[i] = r[i + 1] /\ i \in Nat
    BY <1>2
  <2>2. i + 1 \in DOMAIN t <=> (i + 1) + 1 \in DOMAIN r
    BY <1>2, <2>1
  <2>3. i + 1 \in DOMAIN t => t[i + 1] = r[(i + 1) + 1]
    BY <1>2
  <2>4. i + 2 \in DOMAIN t => (i + 1) + 2 \in DOMAIN r /\ t[i + 2] = r[(i + 1) + 2]
    BY <1>2, <2>1
  <2>5. QED
    BY <2>1, <2>2, <2>3, <2>4 DEF Acknowledged
<1>5. 1 \in DOMAIN t => 1 + 1 \in DOMAIN r /\ t[1] = r[1 + 1]
  BY <1>2
<1>6. 2 \in DOMAIN t => 1 + 2 \in DOMAIN r /\ t[2] = r[1 + 2]
  BY <1>2
<1>7. t = <<>> => ~(1 + 1 \in DOMAIN r)
  <2>1. t = <<>> => 1 \notin DOMAIN t
    OBVIOUS
  <2>2. QED
    BY <1>2, <2>1
<1>8. /\ 1 \in DOMAIN t => (t[1].op \in CompareReads <=> r[1].op = "WriteDataPort")
      /\ t = <<>> => r[1].op # "WriteDataPort"
      /\ 2 \in DOMAIN t /\ t[2].op = "ReadMouseDataPortAndCompare" =>
             r[1].op = "WriteCommandPort" /\ r[1].mouse
  BY <1>2, <1>5, <1>6, <1>7 DEF Acknowledged
<1>9. QED
  BY <1>1, <1>2, <1>3, <1>4, <1>5, <1>8

-----------------------------------------------------------------------------
(* Steps that leave requests, port and streams alone. *)
LEMMA AnswersSame ==
    ASSUME AnswersInTime, UNCHANGED <<dev, ctl, input, full, out, pc, request, mode, toMouse, held,
                                      delivered, returned, failures, hdata>>,
           \A h \in Device : handler'[h] = "dispatch" => handler[h] = "dispatch"
    PROVE  AnswersInTime'
<1>1. (Waiting' <=> Waiting) /\ (RestCompares => RestCompares')
  BY DEF Waiting, RestCompares
<1>2. (AckComes => AckComes') /\ (OnlyInput => OnlyInput')
  BY DEF AckComes, AckWritten, AckInPort, AckIsNext, PortBefore, OnlyInput
<1>3. QED
  BY <1>1, <1>2 DEF AnswersInTime

LEMMA AnswersInput ==
    ASSUME PortInv, AnswersInTime, NEW d \in Device, Input(d)
    PROVE  AnswersInTime'
<1>1. PICK k \in InputKinds(d) :
         dev' = [dev EXCEPT ![d] = Append(@, [dev |-> d, kind |-> k, n |-> sent[d] + 1])]
  BY DEF Input
<1>2. UNCHANGED <<ctl, input, full, out, pc, request, mode, toMouse, held, delivered, returned,
                  failures, handler, hdata>>
  BY DEF Input, requestVars, countVars, handlerVars
<1>3. PICK b \in Byte : b = [dev |-> d, kind |-> k, n |-> sent[d] + 1] /\ IsInput(b)
  <2>1. sent[d] + 1 \in Nat
    BY PortTypes
  <2>2. PICK b \in Byte : b = [dev |-> d, kind |-> k, n |-> sent[d] + 1]
    BY <2>1, ByteFacts
  <2>3. b.kind = k /\ k \in {"async", "alike"}
    BY <2>2 DEF InputKinds
  <2>4. QED
    BY <2>2, <2>3 DEF IsInput
<1>4. \A e \in Device : /\ AllInput(dev[e]) => AllInput(dev'[e])
                        /\ AckFirst(dev[e]) => AckFirst(dev'[e])
  <2>1. \A e \in Device : dev'[e] = IF e = d THEN Append(dev[e], b) ELSE dev[e]
    BY <1>1, <1>3, PortTypes
  <2>2. QED
    BY <1>3, <2>1, InputAppend, PortTypes
<1>5. mode \in Device /\ Other(mode) \in Device
  BY PortTypes, Others
<1>6. AckComes => AckComes'
  BY <1>2, <1>4, <1>5 DEF AckComes, AckWritten, AckInPort, AckIsNext, PortBefore
<1>7. OnlyInput => OnlyInput'
  BY <1>2, <1>4 DEF OnlyInput
<1>8. (Waiting' <=> Waiting) /\ (RestCompares => RestCompares')
  BY <1>2 DEF Waiting, RestCompares
<1>9. QED
  BY <1>2, <1>6, <1>7, <1>8 DEF AnswersInTime

LEMMA AnswersFill ==
    ASSUME PortInv, AnswersInTime, Chip, ~unsure'
    PROVE  AnswersInTime'
<1>1. PICK d \in Device : FillFromDevice(d)
  BY DEF Chip, FillFromChip, AnswersInTime
<1>2. /\ ~full /\ dev[d] # <<>> /\ full' = TRUE /\ out' = Head(dev[d])
      /\ dev' = [dev EXCEPT ![d] = Tail(@)]
      /\ UNCHANGED <<ctl, input, pc, request, mode, toMouse, held, delivered, returned, failures,
                     handler, hdata>>
  BY <1>1 DEF FillFromDevice, requestVars, handlerVars
<1>3. input.to # d
  <2>1. unsure' = (unsure \/ input.to = d)
    BY <1>1 DEF FillFromDevice
  <2>2. QED
    BY <2>1, Zenon
<1>4. out'.dev = d
  BY <1>2, OfTail, PortTypes DEF PortInv, Streams
<1>5. \A e \in Device : dev'[e] = IF e = d THEN Tail(dev[e]) ELSE dev[e]
  BY <1>2, PortTypes
<1>6. /\ AllInput(dev[d]) => AllInput(dev'[d]) /\ IsInput(out')
      /\ AckFirst(dev[d]) => AllInput(dev'[d]) /\ out'.kind = "ack"
  BY <1>2, <1>5, InputTail, PortTypes
<1>7. mode \in Device /\ Other(mode) \in Device /\ (d = mode \/ d = Other(mode)) /\ Other(mode) # mode
  BY PortTypes, Others
<1>8. ASSUME AckComes PROVE AckComes'
  <2>1. /\ AckWritten \/ AckIsNext
        /\ AllInput(dev[Other(mode)])
    BY <1>2, <1>8 DEF AckComes, AckInPort
  <2>2. CASE d = mode
    <3>1. AckIsNext
      BY <1>3, <2>1, <2>2 DEF AckWritten, ForDevice
    <3>2. AckInPort'
      BY <1>2, <1>4, <1>6, <2>2, <3>1 DEF AckInPort, AckIsNext
    <3>3. AllInput(dev'[Other(mode)])
      BY <1>5, <1>7, <2>1, <2>2
    <3>4. QED
      BY <1>2, <3>2, <3>3 DEF AckComes
  <2>3. CASE d = Other(mode)
    <3>1. AllInput(dev'[Other(mode)]) /\ IsInput(out') /\ dev'[mode] = dev[mode] /\ mode' = mode
      BY <1>2, <1>5, <1>6, <1>7, <2>1, <2>3
    <3>2. PortBefore'
      BY <1>2, <1>4, <1>7, <2>3, <3>1 DEF PortBefore
    <3>3. AckWritten' \/ AckIsNext'
      BY <1>2, <2>1, <3>1, <3>2 DEF AckWritten, AckIsNext
    <3>4. QED
      BY <3>1, <3>3 DEF AckComes
  <2>4. QED
    BY <1>7, <2>2, <2>3
<1>9. OnlyInput => OnlyInput'
  BY <1>2, <1>5, <1>6 DEF OnlyInput
<1>10. (Waiting' <=> Waiting) /\ (RestCompares => RestCompares')
  BY <1>2 DEF Waiting, RestCompares
<1>11. QED
  BY <1>2, <1>8, <1>9, <1>10 DEF AnswersInTime

(* The chip takes a command it does not answer, or passes on the byte that *)
(* is acknowledged.                                                        *)
LEMMA AnswersTakeInput ==
    ASSUME PortInv, AnswersInTime, TakeInput, ~unsure'
    PROVE  AnswersInTime'
<1>1. /\ input' = NoInput
      /\ UNCHANGED <<full, out, pc, request, mode, toMouse, held, delivered, returned, failures,
                     handler, hdata>>
  BY DEF TakeInput, requestVars, handlerVars
<1>2. (Waiting' <=> Waiting) /\ (RestCompares => RestCompares')
  BY <1>1 DEF Waiting, RestCompares
<1>3. mode \in Device /\ Other(mode) \in Device \ {mode} /\ NoInput.to = "none"
      /\ "chip" \notin Device /\ "none" \notin Device /\ "none" # "chip"
  BY PortTypes, Others DEF NoInput, Device
<1>4. CASE TakeCommand
  <2>1. input.to = "chip" /\ dev' = dev
    BY <1>4 DEF TakeCommand
  <2>2. ~Waiting /\ input = ForChip
    BY <1>3, <2>1 DEF AnswersInTime, AckComes, AckWritten, AckIsNext, AckInPort, ForDevice, OnlyInput,
                      ForChip
  <2>3. ctl' = ctl
    BY <1>4, <2>2 DEF TakeCommand, ForChip
  <2>4. OnlyInput'
    BY <1>1, <2>1, <2>2 DEF AnswersInTime, OnlyInput
  <2>5. QED
    BY <1>1, <1>2, <2>2, <2>3, <2>4 DEF AnswersInTime
<1>5. CASE PassOn
  <2>1. input.to \in Device /\ Answer(input.to, input.answer) /\ ctl' = ctl
    BY <1>5 DEF PassOn
  <2>2. Waiting /\ AckWritten /\ AllInput(dev[Other(mode)])
    BY <1>3, <2>1 DEF AnswersInTime, AckComes, AckIsNext, AckInPort, OnlyInput, ForChip
  <2>3. Answer(mode, <<"ack">>) /\ AllInput(dev[mode])
    BY <2>1, <2>2 DEF AckWritten, ForDevice
  <2>4. AckFirst(dev'[mode]) /\ dev'[Other(mode)] = dev[Other(mode)]
    BY <1>3, <2>3, InputAnswer
  <2>5. PortBefore'
    BY <1>1, <2>2 DEF AckWritten, PortBefore
  <2>6. AckComes'
    BY <1>1, <2>2, <2>4, <2>5 DEF AckComes, AckIsNext
  <2>7. QED
    BY <1>1, <1>2, <2>1, <2>2, <2>6 DEF AnswersInTime
<1>6. QED
  BY <1>4, <1>5 DEF TakeInput

LEMMA AnswersHandler ==
    ASSUME PortInv, AnswersInTime, Handler
    PROVE  AnswersInTime'
<1>1. ASSUME NEW d \in Device, EnterHandler(d) \/ HandlerStatus(d) PROVE AnswersInTime'
  <2>1. /\ UNCHANGED <<dev, ctl, input, full, out, pc, request, mode, toMouse, held, delivered,
                       returned, failures, hdata>>
        /\ \/ handler' = handler
           \/ \E v \in {"status", "data", "idle"} : handler' = [handler EXCEPT ![d] = v]
    BY <1>1 DEF EnterHandler, HandlerStatus, chipVars, requestVars, countVars
  <2>2. \A h \in Device : handler'[h] = "dispatch" => handler[h] = "dispatch"
    BY <2>1, PortTypes
  <2>3. QED
    BY <2>1, <2>2, AnswersSame
<1>2. ASSUME NEW d \in Device, handler[d] # "idle" PROVE ~Waiting /\ OnlyInput /\ pc = "idle"
  BY <1>2 DEF PortInv, Control, AnswersInTime, Waiting
<1>3. ASSUME NEW d \in Device, HandlerData(d) PROVE AnswersInTime'
  <2>1. /\ UNCHANGED <<dev, ctl, input, out, pc, request, mode, toMouse, held, delivered, returned,
                       failures>>
        /\ handler[d] = "data" /\ full' = FALSE
        /\ hdata' = [hdata EXCEPT ![d] = out] /\ handler' = [handler EXCEPT ![d] = "dispatch"]
    BY <1>3 DEF HandlerData, requestVars, countVars
  <2>2. ~Waiting /\ OnlyInput /\ pc = "idle" /\ full
    BY <1>2, <2>1 DEF PortInv, Control
  <2>3. IsInput(out)
    BY <2>2 DEF OnlyInput
  <2>4. \A h \in Device : handler'[h] = "dispatch" => IsInput(hdata'[h])
    BY <2>1, <2>3, PortTypes DEF AnswersInTime
  <2>5. OnlyInput' /\ ~Waiting'
    BY <2>1, <2>2 DEF OnlyInput, Waiting
  <2>6. QED
    BY <2>1, <2>2, <2>4, <2>5 DEF AnswersInTime
<1>4. ASSUME NEW d \in Device, HandlerDispatch(d) PROVE AnswersInTime'
  <2>1. /\ UNCHANGED <<dev, ctl, input, full, out, pc, request, mode, toMouse, held, returned,
                       failures>>
        /\ handler[d] = "dispatch"
        /\ delivered' = [delivered EXCEPT ![hstatus[d]] = Append(@, hdata[d])]
        /\ hdata' = [hdata EXCEPT ![d] = NoByte] /\ handler' = [handler EXCEPT ![d] = "status"]
    BY <1>4 DEF HandlerDispatch, chipVars, requestVars, countVars
  <2>2. ~Waiting /\ OnlyInput /\ pc = "idle"
    BY <1>2, <2>1
  <2>3. hdata[d] \in Byte /\ IsInput(hdata[d]) /\ hstatus[d] \in Device
    BY <2>1, PortTypes DEF AnswersInTime
  <2>4. AllInput(Append(delivered[hstatus[d]], hdata[d]))
    BY <2>3, InputAppend, PortTypes DEF AnswersInTime
  <2>5. \A e \in Device : AllInput(delivered'[e])
    BY <2>1, <2>3, <2>4, PortTypes DEF AnswersInTime
  <2>6. \A h \in Device : handler'[h] = "dispatch" => IsInput(hdata'[h])
    BY <2>1, PortTypes DEF AnswersInTime
  <2>7. OnlyInput' /\ ~Waiting'
    BY <2>1, <2>2 DEF OnlyInput, Waiting
  <2>8. QED
    BY <2>1, <2>2, <2>5, <2>6, <2>7 DEF AnswersInTime
<1>5. QED
  BY <1>1, <1>3, <1>4 DEF Handler

LEMMA AnswersBegin ==
    ASSUME PortInv, AnswersInTime, BeginRequest, ~unsure'
    PROVE  AnswersInTime'
<1>1. /\ UNCHANGED <<dev, ctl, input, full, out, held, delivered, returned, failures, handler, hdata>>
      /\ pc = "idle" /\ pc' = "command"
  BY DEF BeginRequest, chipVars, handlerVars
<1>2. PICK p \in Programs : request' = p /\ unsure' = (unsure \/ ~OnlyCompares(p))
  BY DEF BeginRequest
<1>3. OnlyCompares(p)
  BY <1>2, Zenon
<1>4. Acknowledged(p) /\ StartsWithSend(p) /\ p \in Seq(Command)
  BY <1>3, ComparingAssumption, ProgramsAssumption
<1>5. RestCompares'
  BY <1>1, <1>2, <1>3, <1>4 DEF RestCompares, StartsWithSend, CompareReads
<1>6. p # <<>> => 1 \in DOMAIN p
  BY <1>4
<1>7. ~Waiting'
  BY <1>1, <1>2, <1>4, <1>6 DEF Waiting, StartsWithSend
<1>8. OnlyInput'
  BY <1>1 DEF AnswersInTime, Waiting, OnlyInput
<1>9. QED
  BY <1>1, <1>5, <1>7, <1>8 DEF AnswersInTime

(* The commands that write; a byte that is to be acknowledged is the only  *)
(* one written until the acknowledge has been read.                        *)
LEMMA AnswersStart ==
    ASSUME PortInv, AnswersInTime, StartCommand
    PROVE  AnswersInTime'
<1>1. /\ UNCHANGED <<dev, ctl, full, out, held, delivered, returned, failures, handler, hdata>>
      /\ pc = "command" /\ request # <<>>
  BY DEF StartCommand, handlerVars, countVars
<1>2. /\ request \in Seq(Command) /\ OnlyCompares(request) /\ Acknowledged(request) /\ RestCompares
      /\ held = NoByte
  BY <1>1 DEF PortInv, TInv, TypeOK, AnswersInTime, RestCompares, Control
<1>3. PICK t \in Seq(Command) : t = Tail(request)
  BY <1>1, <1>2, TailElements
<1>4. /\ OnlyCompares(t) /\ Acknowledged(t)
      /\ 1 \in DOMAIN request /\ Head(request) = request[1]
      /\ 1 \in DOMAIN t => (t[1].op \in CompareReads <=> request[1].op = "WriteDataPort")
      /\ t = <<>> => request[1].op # "WriteDataPort"
      /\ 1 \in DOMAIN t => 2 \in DOMAIN request /\ t[1] = request[2]
      /\ 2 \in DOMAIN t /\ t[2].op = "ReadMouseDataPortAndCompare" =>
             request[1].op = "WriteCommandPort" /\ request[1].mouse
  BY <1>1, <1>2, <1>3, ComparesTail
<1>5. t # <<>> => 1 \in DOMAIN t
  OBVIOUS
<1>6. request[1].op \notin CompareReads => OnlyInput
  BY <1>1 DEF AnswersInTime, Waiting
<1>7. request[1].op \notin {"ReadDataPort", "ReadMouseDataPort", "ModifyCommandByte", "FlushDataPort"}
  BY <1>2, <1>4 DEF OnlyCompares
<1>8. CASE WriteCommandPort(Head(request))
  <2>1. /\ UNCHANGED <<mode, pc>> /\ request' = t /\ request[1].op = "WriteCommandPort"
        /\ toMouse' = (IF request[1].mouse THEN TRUE ELSE toMouse) /\ input' = ForChip
    BY <1>3, <1>4, <1>8 DEF WriteCommandPort, Post, ForChip
  <2>2. t[1].op \in CompareReads => ~(1 \in DOMAIN t)
    BY <1>4, <2>1
  <2>3. RestCompares'
    BY <1>1, <1>4, <2>1, <2>2 DEF RestCompares, CompareReads
  <2>4. ~Waiting'
    BY <1>1, <1>5, <2>1, <2>2 DEF Waiting
  <2>5. OnlyInput'
    BY <1>1, <1>6, <2>1 DEF OnlyInput, CompareReads
  <2>6. QED
    BY <1>1, <2>1, <2>3, <2>4, <2>5 DEF AnswersInTime
<1>9. CASE WriteDataPort(Head(request))
  <2>1. /\ pc' = pc /\ request' = t /\ request[1].op = "WriteDataPort"
        /\ mode' = (IF toMouse THEN "mouse" ELSE "keyboard")
        /\ input' = [to |-> mode', answer |-> request[1].answer]
    BY <1>3, <1>4, <1>9 DEF WriteDataPort, Post
  <2>2. input' = ForDevice(mode)'
    BY <1>2, <1>4, <2>1 DEF Acknowledged, ForDevice
  <2>3. PICK d \in Device : d = mode'
    BY <2>1 DEF Device
  <2>4. OnlyInput
    BY <1>6, <2>1 DEF CompareReads
  <2>5. AckComes'
    BY <1>1, <1>2, <2>2, <2>3, <2>4, Others DEF AckComes, AckWritten, PortBefore, OnlyInput
  <2>6. 1 \in DOMAIN t /\ t[1].op \in CompareReads
    BY <1>4, <1>5, <2>1
  <2>7. Waiting'
    BY <1>1, <2>1, <2>6 DEF Waiting
  <2>8. t[1].op = "ReadMouseDataPortAndCompare" => mode' = "mouse"
    BY <1>1, <1>2, <1>4, <2>1, <2>6 DEF RestCompares
  <2>9. RestCompares'
    BY <1>1, <1>4, <2>1, <2>8 DEF RestCompares
  <2>10. QED
    BY <1>1, <2>1, <2>5, <2>7, <2>9 DEF AnswersInTime
<1>10. CASE SendMouseCommandAndCompareAck(Head(request))
  <2>1. /\ UNCHANGED <<request, toMouse, mode>> /\ pc' = "transmit" /\ input' = ForChip
        /\ request[1].op = "SendMouseCommandAndCompareAck"
    BY <1>4, <1>10 DEF SendMouseCommandAndCompareAck, Post, ForChip
  <2>2. OnlyInput'
    BY <1>1, <1>6, <2>1 DEF OnlyInput, CompareReads
  <2>3. RestCompares' /\ ~Waiting'
    BY <1>2, <2>1 DEF RestCompares, Waiting
  <2>4. QED
    BY <1>1, <2>1, <2>2, <2>3 DEF AnswersInTime
<1>11. CASE ReadPort(Head(request))
  <2>1. /\ UNCHANGED <<input, toMouse, request>> /\ request[1].op \in CompareReads
        /\ pc' = "compare"
        /\ mode' = IF request[1].op = "ReadMouseDataPortAndCompare" THEN "mouse" ELSE mode
    BY <1>4, <1>7, <1>11 DEF ReadPort, CompareReads
  <2>2. mode' = mode
    BY <1>1, <1>2, <1>4, <2>1 DEF RestCompares
  <2>3. AckComes
    BY <1>1, <2>1 DEF AnswersInTime, Waiting
  <2>4. AckComes'
    BY <1>1, <2>1, <2>2, <2>3 DEF AckComes, AckWritten, AckInPort, AckIsNext, PortBefore
  <2>5. RestCompares' /\ Waiting'
    BY <1>2, <1>4, <2>1 DEF RestCompares, Waiting
  <2>6. QED
    BY <1>1, <2>1, <2>4, <2>5 DEF AnswersInTime
<1>12. CASE ModifyCommandByte(Head(request))
  BY <1>4, <1>7, <1>12 DEF ModifyCommandByte
<1>13. QED
  BY <1>8, <1>9, <1>10, <1>11, <1>12 DEF StartCommand

LEMMA AnswersWriteMore ==
    ASSUME PortInv, AnswersInTime, WriteMore
    PROVE  AnswersInTime'
<1>1. /\ UNCHANGED <<dev, ctl, full, out, held, toMouse, delivered, returned, failures, handler, hdata>>
      /\ Transmit \/ SetCommandByte \/ NewCommandByte
  BY DEF WriteMore, handlerVars, countVars
<1>2. Transmit
  BY <1>1 DEF SetCommandByte, NewCommandByte, AnswersInTime
<1>3. /\ pc = "transmit" /\ pc' = "compare" /\ mode' = "mouse" /\ request' = request
      /\ input' = [to |-> "mouse", answer |-> Head(request).answer]
  BY <1>2 DEF Transmit, Post
<1>4. /\ request \in Seq(Command) /\ request # <<>> /\ RestCompares /\ held = NoByte
      /\ Head(request).op = "SendMouseCommandAndCompareAck" /\ ~Waiting
  BY <1>3 DEF PortInv, TInv, TypeOK, Control, AnswersInTime, Waiting
<1>5. 1 \in DOMAIN request /\ Head(request) = request[1]
  BY <1>4, TailElements
<1>6. request[1].answer = <<"ack">>
  BY <1>4, <1>5 DEF RestCompares, Acknowledged
<1>7. input' = ForDevice(mode)'
  BY <1>3, <1>5, <1>6 DEF ForDevice
<1>8. OnlyInput
  BY <1>4 DEF AnswersInTime
<1>9. AckComes'
  <2>1. "mouse" \in Device /\ Other("mouse") \in Device
    BY Others DEF Device
  <2>2. QED
    BY <1>1, <1>3, <1>4, <1>7, <1>8, <2>1 DEF AckComes, AckWritten, PortBefore, OnlyInput
<1>10. RestCompares' /\ Waiting'
  BY <1>3, <1>4, <1>5 DEF RestCompares, Waiting
<1>11. QED
  BY <1>1, <1>3, <1>9, <1>10 DEF AnswersInTime

(* The byte that is read while the acknowledge is awaited: input of the    *)
(* other device, the input that was in the port, or the acknowledge.       *)
LEMMA AnswersPollData ==
    ASSUME PortInv, AnswersInTime, PollData, ~unsure'
    PROVE  AnswersInTime'
<1>1. /\ UNCHANGED <<dev, ctl, input, out, mode, toMouse, handler, hdata>> /\ full' = FALSE
      /\ pc = "compare" /\ wstatus # "none"
  BY DEF PollData, Reading, AnswersInTime, handlerVars
<1>2. full /\ wstatus = out.dev /\ out \in Byte /\ Requested = mode /\ mode \in Device
  BY <1>1, PortTypes DEF PortInv, Control, Requested
<1>3. AckComes /\ RestCompares
  BY <1>1 DEF AnswersInTime, Waiting
<1>4. /\ Other(mode) \in Device /\ Other(mode) # mode
      /\ \A d \in Device : d = mode \/ d = Other(mode)
  BY <1>2, Others
<1>5. ASSUME IsInput(out), UNCHANGED <<pc, request>>, held' = held \/ (held' = out /\ held = NoByte)
      PROVE  AckComes' /\ Waiting' /\ RestCompares'
  <2>1. /\ AckWritten \/ AckIsNext
        /\ AllInput(dev[Other(mode)])
    BY <1>3, <1>5 DEF AckComes, AckInPort, IsInput
  <2>2. PortBefore'
    BY <1>1 DEF PortBefore
  <2>3. AckComes'
    BY <1>1, <2>1, <2>2 DEF AckComes, AckWritten, AckIsNext
  <2>4. QED
    BY <1>1, <1>3, <1>5, <2>3 DEF Waiting, RestCompares
<1>6. CASE ReadOther
  <2>1. /\ UNCHANGED <<pc, request, held, returned, failures>> /\ out.dev # mode
        /\ delivered' = [delivered EXCEPT ![Other(mode)] = Append(@, out)]
    BY <1>2, <1>6 DEF ReadOther, Dispatch
  <2>2. IsInput(out)
    BY <1>2, <1>3, <2>1 DEF AckComes, AckWritten, AckInPort, AckIsNext, PortBefore
  <2>3. AllInput(Append(delivered[Other(mode)], out))
    BY <1>2, <1>4, <2>2, InputAppend, PortTypes DEF AnswersInTime
  <2>4. \A e \in Device : AllInput(delivered'[e])
    BY <2>1, <2>3, PortTypes DEF AnswersInTime
  <2>5. AckComes' /\ Waiting' /\ RestCompares'
    BY <1>5, <2>1, <2>2
  <2>6. QED
    BY <1>1, <2>1, <2>4, <2>5 DEF AnswersInTime
<1>7. CASE HoldFirst
  <2>1. /\ UNCHANGED <<pc, request, delivered, returned, failures>> /\ held' = out /\ held = NoByte
        /\ ~Matches(out)
    BY <1>7 DEF HoldFirst
  <2>2. IsInput(out)
    BY <1>2, <1>3, <2>1 DEF AckComes, AckWritten, AckInPort, AckIsNext, PortBefore, Matches
  <2>3. AckComes' /\ Waiting' /\ RestCompares'
    BY <1>5, <2>1, <2>2
  <2>4. QED
    BY <1>1, <2>1, <2>2, <2>3 DEF AnswersInTime
<1>8. CASE ReadExpected
  <2>1. /\ Matches(out) /\ wstatus = mode /\ Return(out)
        /\ IF held # NoByte THEN Dispatch(mode, held) ELSE UNCHANGED delivered
    BY <1>2, <1>8 DEF ReadExpected
  <2>2. out.kind = "ack" /\ ~IsInput(out)
    <3>1. unsure' = (unsure \/ (pc = "compare" /\ out.kind = "alike"))
      BY <2>1 DEF Return
    <3>2. out.kind # "alike"
      BY <1>1, <3>1, Zenon
    <3>3. QED
      BY <2>1, <3>2 DEF Matches, IsInput
  <2>3. /\ pc' = "command" /\ returned' = returned /\ failures' = failures /\ request' = Tail(request)
        /\ held' = NoByte
    BY <1>1, <2>1, <2>2 DEF Return
  <2>4. input = NoInput /\ \A d \in Device : AllInput(dev[d])
    BY <1>2, <1>3, <1>4, <2>2 DEF AckComes, AckWritten, AckInPort, AckIsNext, PortBefore
  <2>5. OnlyInput'
    BY <1>1, <2>4 DEF OnlyInput
  <2>6. request \in Seq(Command) /\ request # <<>>
    BY <1>1 DEF PortInv, TInv, TypeOK
  <2>7. PICK t \in Seq(Command) : t = Tail(request)
    BY <2>6, TailElements
  <2>8. /\ OnlyCompares(t) /\ Acknowledged(t)
        /\ 1 \in DOMAIN t => (t[1].op \in CompareReads <=> request[1].op = "WriteDataPort")
        /\ 2 \in DOMAIN t /\ t[2].op = "ReadMouseDataPortAndCompare" =>
               request[1].op = "WriteCommandPort" /\ request[1].mouse
    BY <1>3, <2>6, <2>7, ComparesTail DEF RestCompares
  <2>9. request[1].op \notin {"WriteDataPort", "WriteCommandPort"}
    BY <1>1, <1>3 DEF RestCompares, CompareReads
  <2>10. RestCompares'
    BY <2>3, <2>7, <2>8, <2>9 DEF RestCompares, CompareReads
  <2>11. t # <<>> => 1 \in DOMAIN t
    OBVIOUS
  <2>12. ~Waiting'
    BY <2>3, <2>7, <2>8, <2>9, <2>11 DEF Waiting
  <2>13. \A e \in Device : AllInput(delivered'[e])
    <3>1. CASE held = NoByte
      BY <2>1, <3>1 DEF AnswersInTime
    <3>2. CASE held # NoByte
      <4>1. held \in Byte /\ IsInput(held)
        BY <3>2, PortTypes DEF AnswersInTime
      <4>2. AllInput(Append(delivered[mode], held))
        BY <1>2, <4>1, InputAppend, PortTypes DEF AnswersInTime
      <4>3. QED
        BY <2>1, <3>2, <4>2, PortTypes DEF Dispatch, AnswersInTime
    <3>3. QED
      BY <3>1, <3>2
  <2>14. QED
    BY <1>1, <2>3, <2>5, <2>10, <2>12, <2>13 DEF AnswersInTime
<1>9. CASE ReadPlain
  BY <1>1, <1>9 DEF ReadPlain
<1>10. CASE SecondMismatch
  <2>1. out.dev = mode /\ ~Matches(out) /\ held # NoByte
    BY <1>2, <1>10 DEF SecondMismatch
  <2>2. QED
    BY <1>1, <1>2, <1>3, <2>1 DEF AckComes, AckWritten, AckInPort, AckIsNext, PortBefore, Matches
<1>11. QED
  BY <1>6, <1>7, <1>8, <1>9, <1>10 DEF PollData

(* The last steps: a flush and a time-out that is not early do not happen. *)
LEMMA AnswersRest ==
    ASSUME PortInv, AnswersInTime, early = 0, early' = 0,
           Flush \/ PollStatus \/ TimeOut \/ EndRequest
    PROVE  AnswersInTime'
<1>1. CASE Flush
  <2>1. /\ pc = "command" /\ request # <<>> /\ Head(request).op = "FlushDataPort"
        /\ request \in Seq(Command)
    BY <1>1 DEF Flush, PortInv, TInv, TypeOK
  <2>2. 1 \in DOMAIN request /\ request[1].op = "FlushDataPort"
    BY <2>1, TailElements
  <2>3. QED
    BY <2>1, <2>2 DEF AnswersInTime, RestCompares, OnlyCompares
<1>2. CASE PollStatus
  <2>1. UNCHANGED <<dev, ctl, input, full, out, pc, request, mode, toMouse, held, delivered, returned,
                    failures, handler, hdata>>
    BY <1>2 DEF PollStatus, chipVars, handlerVars, requestVars, countVars
  <2>2. QED
    BY <2>1, AnswersSame
<1>3. CASE TimeOut
  <2>1. Reading /\ ~full /\ early' = IF Quiet THEN early ELSE early + 1
    BY <1>3 DEF TimeOut
  <2>2. Quiet
    BY <2>1
  <2>3. pc = "compare"
    BY <2>1 DEF Reading, AnswersInTime
  <2>4. AckWritten \/ AckIsNext
    BY <2>1, <2>3 DEF AnswersInTime, Waiting, AckComes, AckInPort
  <2>5. dev[mode] = <<>> /\ input.to = "none" /\ mode \in Device /\ "none" \notin Device
    BY <2>2, PortTypes DEF Quiet, NoInput, Device
  <2>6. QED
    BY <2>4, <2>5 DEF AckWritten, AckIsNext, AckFirst, ForDevice
<1>4. CASE EndRequest
  <2>1. /\ UNCHANGED <<dev, ctl, input, full, out, request, held, delivered, returned, failures,
                       handler, hdata>>
        /\ pc = "command" /\ request = <<>> /\ pc' = "idle"
    BY <1>4 DEF EndRequest, chipVars, handlerVars, countVars
  <2>2. ~Waiting /\ ~Waiting'
    BY <2>1 DEF Waiting
  <2>3. OnlyInput'
    BY <2>1, <2>2 DEF AnswersInTime, OnlyInput
  <2>4. QED
    BY <2>1, <2>2, <2>3 DEF AnswersInTime
<1>5. QED
  BY <1>1, <1>2, <1>3, <1>4

(* What was assured stays so only as long as nothing comes late. *)
LEMMA StaysUnsure ==
    ASSUME early \in Nat, [Next]_vars
    PROVE  early' \in Nat /\ (~unsure' => ~unsure) /\ (early' = 0 => early = 0)
<1>1. CASE (\E d \in Device : Input(d)) \/ FillFromChip \/ Handler \/ StartCommand \/ WriteMore
  <2>1. UNCHANGED <<early, unsure>>
    BY <1>1 DEF Input, FillFromChip, Handler, EnterHandler, HandlerStatus, HandlerData,
                HandlerDispatch, StartCommand, WriteMore, countVars
  <2>2. QED
    BY <2>1
<1>2. CASE Flush \/ PollStatus \/ EndRequest \/ UNCHANGED vars
  <2>1. UNCHANGED <<early, unsure>>
    BY <1>2 DEF Flush, PollStatus, EndRequest, vars, countVars
  <2>2. QED
    BY <2>1
<1>3. CASE (\E d \in Device : FillFromDevice(d)) \/ TakeInput
  <2>1. early' = early
    BY <1>3 DEF FillFromDevice, TakeInput
  <2>2. ~unsure' => ~unsure
    BY <1>3 DEF FillFromDevice, TakeInput, TakeCommand, PassOn, Answer
  <2>3. QED
    BY <2>1, <2>2
<1>4. CASE BeginRequest
  BY <1>4 DEF BeginRequest
<1>5. CASE PollData
  <2>1. early' = early
    BY <1>5 DEF PollData
  <2>2. unsure' = unsure \/ \E b \in {out, held} : Return(b)
    BY <1>5 DEF PollData, ReadOther, ReadPlain, ReadExpected, HoldFirst, SecondMismatch
  <2>3. ~unsure' => ~unsure
    BY <2>2 DEF Return
  <2>4. QED
    BY <2>1, <2>3
<1>6. CASE TimeOut
  <2>1. early' = early \/ early' = early + 1
    BY <1>6 DEF TimeOut
  <2>2. ~unsure' => ~unsure
    BY <1>6 DEF TimeOut, Return
  <2>3. QED
    BY <2>1, <2>2
<1>7. QED
  BY <1>1, <1>2, <1>3, <1>4, <1>5, <1>6 DEF Next, Chip, WorkLoop

LEMMA NextAnswers ==
    ASSUME PortInv, AnswerInv, [Next]_vars
    PROVE  AnswerInv'
<1>1. early' \in Nat /\ (~unsure' => ~unsure) /\ (early' = 0 => early = 0)
  BY StaysUnsure DEF AnswerInv
<1>2. ASSUME ~unsure', early' = 0 PROVE AnswersInTime'
  <2>1. AnswersInTime /\ early = 0
    BY <1>1, <1>2 DEF AnswerInv, Assured
  <2>2. CASE UNCHANGED vars
    <3>1. UNCHANGED <<dev, ctl, input, full, out, pc, request, mode, toMouse, held, delivered, returned,
                      failures, handler, hdata>>
      BY <2>2 DEF vars, chipVars, handlerVars, requestVars, countVars
    <3>2. QED
      BY <2>1, <3>1, AnswersSame
  <2>3. CASE (\E d \in Device : Input(d)) \/ Chip \/ TakeInput \/ Handler
    BY <1>2, <2>1, <2>3, AnswersInput, AnswersFill, AnswersTakeInput, AnswersHandler
  <2>4. CASE BeginRequest \/ WorkLoop
    BY <1>2, <2>1, <2>4, AnswersBegin, AnswersStart, AnswersWriteMore, AnswersPollData, AnswersRest
       DEF WorkLoop
  <2>5. QED
    BY <2>2, <2>3, <2>4 DEF Next
<1>3. QED
  BY <1>1, <1>2 DEF AnswerInv, Assured

LEMMA InitAnswers == Init => AnswerInv
<1> SUFFICES ASSUME Init PROVE AnswersInTime /\ early \in Nat
  BY DEF AnswerInv
<1>1. /\ pc = "idle" /\ ctl = <<>> /\ full = FALSE /\ failures = 0 /\ returned = {} /\ early = 0
      /\ input = NoInput /\ held = NoByte
      /\ \A d \in Device : dev[d] = <<>> /\ delivered[d] = <<>> /\ handler[d] = "idle"
  BY DEF Init
<1>2. OnlyInput /\ ~Waiting /\ \A d \in Device : AllInput(delivered[d])
  BY <1>1 DEF OnlyInput, Waiting, AllInput
<1>3. QED
  BY <1>1, <1>2 DEF AnswersInTime

(* On one processor, for any requests that read the acknowledge of each    *)
(* byte they send, and as long as no movement that looks like it is taken  *)
(* for it: the second chance readDataPort gives is enough, no comparison   *)
(* fails, no input is taken as an answer and no answer given to a driver   *)
(* as input.                                                               *)
THEOREM ComparingWorksHolds == ~SMP => (Spec => []ComparingWorks)
<1> SUFFICES ASSUME ~SMP PROVE Spec => []ComparingWorks
  OBVIOUS
<1>1. Init => PortInv /\ AnswerInv
  BY InitPort, InitAnswers
<1>2. PortInv /\ AnswerInv /\ [Next]_vars => (PortInv /\ AnswerInv)'
  BY NextPort, NextAnswers
<1>3. AnswerInv => ComparingWorks
  BY DEF AnswerInv, AnswersInTime, AllInput, ComparingWorks, SecondChance, AnswersAreNotInput
<1>4. QED
  BY <1>1, <1>2, <1>3, PTL DEF Spec

=============================================================================

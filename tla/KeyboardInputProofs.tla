------------------------ MODULE KeyboardInputProofs ------------------------
(***************************************************************************)
(* Proofs about KeyboardInput, for any keyboard, any capacity of the       *)
(* buffer and any number of events.                                        *)
(***************************************************************************)
EXTENDS KeyboardInput, TLAPS

-----------------------------------------------------------------------------
(* The types are preserved. *)
LEMMA CodesType ==
    ASSUME NEW k \in Keys, NEW kind \in {"make", "break"}
    PROVE  Codes(k, kind) \in Seq(Bytes)
<1>1. k[2] \in {j[2] : j \in Keys} \cup {"shift", "zero", "ctrl"}
  OBVIOUS
<1>2. /\ Prefix0 \in Bytes /\ Prefix1 \in Bytes
      /\ Byte(kind, k[2]) \in Bytes /\ Byte(kind, "ctrl") \in Bytes
  BY <1>1 DEF Bytes, Byte
<1>3. QED
  BY <1>2 DEF Codes

LEMMA ResetType == SC_Reset \in Bytes /\ Zero \in Bytes /\ Byte("ack", "") \in Bytes
BY DEF SC_Reset, Zero, Bytes, Byte

LEMMA SendType ==
    ASSUME wire \in Seq(Bytes), NEW bytes \in Seq(Bytes), Send(bytes)
    PROVE  wire' \in Seq(Bytes)
BY DEF Send

LEMMA EventTypes ==
    ASSUME TypeOK, Event, wire' \in Seq(Bytes), held' \subseteq Keys, pressed' \subseteq Keys
    PROVE  TypeOK'
<1>1. sent' \in 0 .. MaxSent
  BY BoundsAssumption DEF TypeOK, Event
<1>2. QED
  BY <1>1 DEF TypeOK, Event, decoderVars

LEMMA BufferType ==
    ASSUME TypeOK, NEW p \in Packets, Buffer(p)
    PROVE  ring' \in Seq(Packets) /\ Len(ring') <= Capacity /\ dropped' \in Nat
<1>1. CASE Len(ring) < Capacity
  <2>1. ring' = Append(ring, p) /\ dropped' = dropped
    BY <1>1 DEF Buffer
  <2>2. Append(ring, p) \in Seq(Packets) /\ Len(Append(ring, p)) = Len(ring) + 1 /\ Len(ring) \in Nat
    BY DEF TypeOK
  <2>3. QED
    BY <1>1, <2>1, <2>2, BoundsAssumption DEF TypeOK
<1>2. CASE ~(Len(ring) < Capacity)
  BY <1>2 DEF Buffer, TypeOK
<1>3. QED
  BY <1>1, <1>2

(* What a byte may do to the decoder, whatever its case. *)
LEMMA DecoderTypes ==
    ASSUME TypeOK, NEW b \in Bytes,
           SpontaneousReset(b) \/ Ignored(b) \/ ExtendCode(b) \/ Useless(b) \/ KeyCode(b)
    PROVE  /\ extendCount' \in 0 .. 2 /\ lastReset' \in BOOLEAN
           /\ keyBits' \subseteq AllKeys \ Breakless
           /\ ring' \in Seq(Packets) /\ Len(ring') <= Capacity /\ dropped' \in Nat
<1>1. /\ extendCount \in 0 .. 2 /\ lastReset \in BOOLEAN /\ keyBits \subseteq AllKeys \ Breakless
      /\ ring \in Seq(Packets) /\ Len(ring) <= Capacity /\ dropped \in Nat
  BY DEF TypeOK
<1>2. Ordinary(b) => lastReset' \in BOOLEAN
  BY Zenon DEF Ordinary
<1>3. CASE SpontaneousReset(b)
  <2>1. ResetPacket \in Packets
    BY DEF ResetPacket, Packet, Packets, AllKeys
  <2>2. QED
    BY <1>1, <1>3, <2>1, BufferType DEF SpontaneousReset
<1>4. CASE Ignored(b)
  BY <1>1, <1>2, <1>4 DEF Ignored
<1>5. CASE ExtendCode(b)
  BY <1>1, <1>2, <1>5 DEF ExtendCode
<1>6. CASE Useless(b)
  BY <1>1, <1>2, <1>6 DEF Useless
<1>7. CASE KeyCode(b)
  <2>1. PICK key : key = <<extendCount, b.code>>
    OBVIOUS
  <2>2. b.kind \in {"make", "break"} /\ extendCount \in 0 .. 1
    BY <1>1, <1>7 DEF KeyCode
  <2>3. b.code \in {k[2] : k \in Keys} \cup {"shift", "zero", "ctrl"}
    <3>1. Prefix0.kind = "E0" /\ Prefix1.kind = "E1" /\ Byte("ack", "").kind = "ack"
      BY DEF Byte, Prefix0, Prefix1
    <3>2. b \in [kind : {"make", "break"}, code : {k[2] : k \in Keys} \cup {"shift", "zero", "ctrl"}]
      BY <2>2, <3>1 DEF Bytes
    <3>3. QED
      BY <3>2
  <2>4. key \in AllKeys
    BY <2>1, <2>2, <2>3 DEF AllKeys
  <2>5. Packet(b.kind, key) \in Packets /\ Packet("make", key) \in Packets /\ Packet("break", key) \in Packets
    BY <2>2, <2>4 DEF Packet, Packets
  <2>6. extendCount' = 0 /\ Ordinary(b)
    BY <1>7 DEF KeyCode
  <2>7. CASE key \in Breakless
    <3>1. Buffer(Packet(b.kind, key)) /\ UNCHANGED keyBits
      BY <1>7, <2>1, <2>7 DEF KeyCode
    <3>2. QED
      BY <1>1, <1>2, <2>5, <2>6, <3>1, BufferType
  <2>8. CASE key \notin Breakless /\ b.kind = "make"
    <3>1. FilteredMake(key)
      BY <1>7, <2>1, <2>8 DEF KeyCode
    <3>2. CASE key \in keyBits
      BY <1>1, <1>2, <2>6, <3>1, <3>2 DEF FilteredMake
    <3>3. CASE key \notin keyBits
      <4>1. keyBits' = keyBits \cup {key} /\ Buffer(Packet("make", key))
        BY <3>1, <3>3 DEF FilteredMake
      <4>2. QED
        BY <1>1, <1>2, <2>4, <2>5, <2>6, <2>8, <4>1, BufferType
    <3>4. QED
      BY <3>2, <3>3
  <2>9. CASE key \notin Breakless /\ b.kind = "break"
    <3>1. keyBits' = keyBits \ {key} /\ Buffer(Packet("break", key))
      BY <1>7, <2>1, <2>9 DEF KeyCode
    <3>2. QED
      BY <1>1, <1>2, <2>5, <2>6, <3>1, BufferType
  <2>10. QED
    BY <2>2, <2>7, <2>8, <2>9
<1>8. QED
  BY <1>3, <1>4, <1>5, <1>6, <1>7

LEMMA NextTypeOK == TypeOK /\ [Next]_vars => TypeOK'
<1> SUFFICES ASSUME TypeOK, [Next]_vars PROVE TypeOK'
  OBVIOUS
<1>1. wire \in Seq(Bytes) /\ held \subseteq Keys /\ pressed \subseteq Keys /\ ring \in Seq(Packets)
  BY DEF TypeOK
<1>2. ASSUME NEW k \in Keys, Press(k) PROVE TypeOK'
  <2>1. wire' \in Seq(Bytes)
    BY <1>1, <1>2, CodesType, SendType DEF Press
  <2>2. held' \subseteq Keys /\ pressed' \subseteq Keys
    BY <1>1, <1>2 DEF Press
  <2>3. QED
    BY <1>2, <2>1, <2>2, EventTypes DEF Press
<1>3. ASSUME NEW k \in Keys, Release(k) PROVE TypeOK'
  <2>1. wire' \in Seq(Bytes)
    BY <1>1, <1>3, CodesType, SendType DEF Release
  <2>2. QED
    BY <1>1, <1>3, <2>1, EventTypes DEF Release
<1>4. CASE Noise
  <2>1. PICK x \in Bytes : x = Byte("ack", "")
    BY ResetType
  <2>2. <<x>> \o wire \in Seq(Bytes)
    BY <1>1
  <2>3. QED
    BY <1>1, <1>4, <2>1, <2>2, EventTypes DEF Noise
<1>5. CASE SelfReset
  <2>1. <<SC_Reset, Zero>> \in Seq(Bytes)
    <3>1. \A x, y \in Bytes : <<x, y>> \in Seq(Bytes)
      OBVIOUS
    <3>2. QED
      BY <3>1, ResetType
  <2>2. wire' \in Seq(Bytes)
    BY <1>1, <1>5, <2>1, SendType DEF SelfReset
  <2>3. QED
    BY <1>1, <1>5, <2>2, EventTypes DEF SelfReset
<1>6. CASE InterruptOccurred
  <2>1. Head(wire) \in Bytes /\ wire' \in Seq(Bytes)
    BY <1>1, <1>6 DEF InterruptOccurred
  <2>2. /\ SpontaneousReset(Head(wire)) \/ Ignored(Head(wire)) \/ ExtendCode(Head(wire))
             \/ Useless(Head(wire)) \/ KeyCode(Head(wire))
        /\ UNCHANGED <<held, pressed, sent, power, loop, os>>
    BY <1>6 DEF InterruptOccurred
  <2>3. QED
    BY <2>1, <2>2, DecoderTypes DEF TypeOK
<1>7. CASE PacketReady
  <2>1. Head(ring) \in Packets /\ Tail(ring) \in Seq(Packets) /\ Len(Tail(ring)) <= Capacity
    <3>1. ring # <<>>
      BY <1>7 DEF PacketReady
    <3>2. Len(Tail(ring)) = Len(ring) - 1 /\ Len(ring) \in Nat
      BY <1>1, <3>1
    <3>3. QED
      BY <1>1, <3>1, <3>2, BoundsAssumption DEF TypeOK
  <2>2. Head(ring).kind \in {"make", "break", "reset"} /\ Head(ring).key \in AllKeys
    BY <2>1 DEF Packets
  <2>3. os' \subseteq AllKeys \ Breakless
    <3>1. os \subseteq AllKeys \ Breakless /\ os' = Dispatch(os, Head(ring))
      BY <1>7 DEF PacketReady, TypeOK
    <3>2. PICK kind, key : kind = Head(ring).kind /\ key = Head(ring).key
      OBVIOUS
    <3>3. os' = os \/ (os' = os \cup {key} /\ key \notin Breakless) \/ os' = os \ {key}
      BY <2>2, <3>1, <3>2 DEF Dispatch
    <3>4. QED
      BY <2>2, <3>1, <3>2, <3>3
  <2>4. loop' \in BOOLEAN
    BY <1>7, Zenon DEF PacketReady
  <2>5. QED
    BY <1>7, <2>1, <2>3, <2>4 DEF PacketReady, TypeOK, keyboardVars, decoderVars
<1>8. CASE DisableDevice \/ WakeBegins
  BY <1>8 DEF DisableDevice, WakeBegins, TypeOK, keyboardVars, decoderVars
<1>9. CASE InitKeyboard
  <2>1. /\ os' = os \ keyBits /\ keyBits' = {} /\ ring' = <<>> /\ extendCount' = 0
        /\ power' = "awake" /\ UNCHANGED <<keyboardVars, lastReset, loop, dropped>>
    BY <1>9 DEF InitKeyboard
  <2>2. ring' \in Seq(Packets) /\ Len(ring') <= Capacity
    BY <2>1, BoundsAssumption
  <2>3. QED
    BY <2>1, <2>2 DEF TypeOK, keyboardVars
<1>10. CASE UNCHANGED vars
  BY <1>10 DEF TypeOK, vars, keyboardVars, decoderVars
<1>11. QED
  BY <1>2, <1>3, <1>4, <1>5, <1>6, <1>7, <1>8, <1>9, <1>10 DEF Next

(* The decoder, the key bit vector and the buffer keep their types: only   *)
(* keys the keyboard can name are ever down, and none that is breakless.   *)
THEOREM KeyboardTypeCorrect == Spec => []TypeOK
<1>1. Init => TypeOK
  <2> SUFFICES ASSUME Init PROVE TypeOK
    OBVIOUS
  <2>1. lastReset \in BOOLEAN /\ loop \in BOOLEAN
    BY Zenon DEF Init
  <2>2. wire \in Seq(Bytes) /\ ring \in Seq(Packets) /\ Len(ring) <= Capacity
    BY BoundsAssumption DEF Init
  <2>3. QED
    BY <2>1, <2>2, BoundsAssumption DEF Init, TypeOK
<1>2. QED
  BY <1>1, NextTypeOK, PTL DEF Spec

-----------------------------------------------------------------------------
(* What is down after a sequence of packets. *)
KeyEvents == [kind : {"make", "break", "reset", "none"}, key : AllKeys]

LEMMA PacketEquals ==
    ASSUME NEW a, NEW k, NEW b, NEW l
    PROVE  (Packet(a, k) = Packet(b, l) <=> a = b /\ k = l) /\ Packet(a, k).kind = a /\ Packet(a, k).key = k
BY DEF Packet

LEMMA DownNone == \A S, k : DownAfter(S, <<>>, k) <=> k \in S
BY DEF DownAfter, NoBreak

LEMMA DownAppend ==
    ASSUME NEW S, NEW q \in Seq(KeyEvents), NEW p \in KeyEvents, NEW k
    PROVE  DownAfter(S, Append(q, p), k) <=>
              p = Packet("make", k) \/ (p # Packet("break", k) /\ DownAfter(S, q, k))
<1>1. PICK w \in Seq(KeyEvents) : w = Append(q, p)
  <2>1. Append(q, p) \in Seq(KeyEvents)
    OBVIOUS
  <2>2. QED
    BY <2>1, Zenon
<1>2. PICK n \in Nat : n = Len(q) /\ DOMAIN q = 1 .. n /\ DOMAIN w = 1 .. n + 1
  BY <1>1
<1>3. w[n + 1] = p /\ \A i \in 1 .. n : w[i] = q[i]
  BY <1>1, <1>2
<1>4. Packet("make", k) # Packet("break", k)
  BY PacketEquals
<1>5. CASE p = Packet("make", k)
  <2>1. n + 1 \in DOMAIN w /\ \A j \in DOMAIN w : ~(n + 1 < j)
    BY <1>2
  <2>2. DownAfter(S, w, k)
    BY <1>3, <1>5, <2>1 DEF DownAfter, NoBreak
  <2>3. QED
    BY <1>1, <1>5, <2>2
<1>6. CASE p = Packet("break", k)
  <2>1. n + 1 \in DOMAIN w /\ \A i \in DOMAIN w : i # n + 1 => i < n + 1
    BY <1>2
  <2>2. 0 < n + 1
    BY <1>2
  <2>3. ~DownAfter(S, w, k)
    BY <1>3, <1>4, <1>6, <2>1, <2>2 DEF DownAfter, NoBreak
  <2>4. QED
    BY <1>1, <1>4, <1>6, <2>3
<1>7. CASE p # Packet("make", k) /\ p # Packet("break", k)
  <2>1. \A j \in DOMAIN w : j \in DOMAIN q \/ j = n + 1
    BY <1>2
  <2>2. \A j \in DOMAIN q : j \in DOMAIN w /\ w[j] = q[j]
    BY <1>2, <1>3
  <2>3. \A i : NoBreak(w, k, i) <=> NoBreak(q, k, i)
    BY <1>3, <1>7, <2>1, <2>2 DEF NoBreak
  <2>4. DownAfter(S, w, k) <=> DownAfter(S, q, k)
    BY <1>3, <1>7, <2>1, <2>2, <2>3 DEF DownAfter
  <2>5. QED
    BY <1>1, <1>7, <2>4
<1>8. QED
  BY <1>5, <1>6, <1>7

LEMMA DownTail ==
    ASSUME NEW S, NEW T, NEW q \in Seq(KeyEvents), q # <<>>, NEW k,
           k \in T <=> (Head(q) = Packet("make", k) \/ (Head(q) # Packet("break", k) /\ k \in S))
    PROVE  DownAfter(S, q, k) <=> DownAfter(T, Tail(q), k)
<1>1. PICK w \in Seq(KeyEvents) : w = Tail(q)
  <2>1. Tail(q) \in Seq(KeyEvents)
    OBVIOUS
  <2>2. QED
    BY <2>1, Zenon
<1>2. PICK n \in Nat : DOMAIN w = 1 .. n /\ DOMAIN q = 1 .. n + 1
  <2>1. Len(q) \in Nat \ {0} /\ Len(w) = Len(q) - 1
    BY <1>1
  <2>2. Len(w) \in Nat /\ DOMAIN w = 1 .. Len(w) /\ DOMAIN q = 1 .. Len(w) + 1
    BY <1>1, <2>1
  <2>3. QED
    BY <2>2, Zenon
<1>3. Head(q) = q[1] /\ \A i \in 1 .. n : w[i] = q[i + 1]
  BY <1>1, <1>2
<1>4. Packet("make", k) # Packet("break", k)
  BY PacketEquals
<1>5. \A i \in DOMAIN w : i + 1 \in DOMAIN q /\ q[i + 1] = w[i] /\ i + 1 # 1 /\ 0 < i /\ 0 < i + 1
  BY <1>2, <1>3
<1>6. \A i \in DOMAIN q : i = 1 \/ (i - 1 \in DOMAIN w /\ (i - 1) + 1 = i)
  BY <1>2
<1>7. \A i \in DOMAIN w : NoBreak(w, k, i) <=> NoBreak(q, k, i + 1)
  <2> TAKE i \in DOMAIN w
  <2>1. ASSUME NoBreak(w, k, i), NEW j \in DOMAIN q, i + 1 < j PROVE q[j] # Packet("break", k)
    <3>1. j - 1 \in DOMAIN w /\ i < j - 1 /\ q[j] = w[j - 1]
      BY <1>2, <1>3, <2>1
    <3>2. QED
      BY <2>1, <3>1 DEF NoBreak
  <2>2. ASSUME NoBreak(q, k, i + 1), NEW j \in DOMAIN w, i < j PROVE w[j] # Packet("break", k)
    <3>1. j + 1 \in DOMAIN q /\ i + 1 < j + 1 /\ w[j] = q[j + 1]
      BY <1>2, <1>3, <2>2
    <3>2. QED
      BY <2>2, <3>1 DEF NoBreak
  <2>3. QED
    BY <2>1, <2>2 DEF NoBreak
<1>8. NoBreak(q, k, 1) <=> NoBreak(w, k, 0)
  <2>1. \A j \in DOMAIN q : 1 < j => j - 1 \in DOMAIN w /\ 0 < j - 1 /\ q[j] = w[j - 1]
    BY <1>2, <1>3
  <2>2. \A j \in DOMAIN w : j + 1 \in DOMAIN q /\ 1 < j + 1 /\ w[j] = q[j + 1]
    BY <1>2, <1>3
  <2>3. QED
    BY <2>1, <2>2, <1>5 DEF NoBreak
<1>9. NoBreak(q, k, 0) <=> Head(q) # Packet("break", k) /\ NoBreak(w, k, 0)
  <2>1. \A j \in DOMAIN q : 0 < j /\ (j = 1 \/ 1 < j)
    BY <1>2
  <2>2. 1 \in DOMAIN q /\ 0 < 1
    BY <1>2
  <2>3. NoBreak(q, k, 0) <=> q[1] # Packet("break", k) /\ NoBreak(q, k, 1)
    BY <2>1, <2>2 DEF NoBreak
  <2>4. QED
    BY <1>3, <1>8, <2>3
<1>10. (\E i \in DOMAIN q : q[i] = Packet("make", k) /\ NoBreak(q, k, i)) <=>
          \/ Head(q) = Packet("make", k) /\ NoBreak(w, k, 0)
          \/ \E i \in DOMAIN w : w[i] = Packet("make", k) /\ NoBreak(w, k, i)
  <2>1. 1 \in DOMAIN q
    BY <1>2
  <2>2. QED
    BY <1>3, <1>5, <1>6, <1>7, <1>8, <2>1
<1>11. QED
  BY <1>1, <1>4, <1>9, <1>10 DEF DownAfter

-----------------------------------------------------------------------------
(* A byte is read in the context that the bytes before it have left, and   *)
(* is a key event or none.                                                 *)
NextContext(c, b) ==
    IF b.kind = "ack" THEN c
    ELSE IF b.kind = "E0" THEN 1
    ELSE IF b.kind = "E1" THEN 2
    ELSE IF c = 2 THEN 1 ELSE 0

ZeroKey == <<0, "zero">>
NoEvent == Packet("none", ZeroKey)
Decoded(c, b) ==
    IF b.kind \in {"make", "break"} /\ c < 2 THEN Packet(b.kind, <<c, b.code>>) ELSE NoEvent

LEMMA DecodedType ==
    ASSUME NEW c \in 0 .. 2, NEW b \in Bytes
    PROVE  NextContext(c, b) \in 0 .. 2 /\ Decoded(c, b) \in KeyEvents /\ NoEvent \in KeyEvents
<1>1. NextContext(c, b) \in 0 .. 2
  BY DEF NextContext
<1>2. ZeroKey \in AllKeys
  BY DEF AllKeys, ZeroKey
<1>3. NoEvent \in KeyEvents
  BY <1>2 DEF NoEvent, Packet, KeyEvents
<1>4. CASE b.kind \in {"make", "break"} /\ c < 2
  <2>1. Prefix0.kind = "E0" /\ Prefix1.kind = "E1" /\ Byte("ack", "").kind = "ack"
    BY DEF Byte, Prefix0, Prefix1
  <2>2. b \in [kind : {"make", "break"}, code : {k[2] : k \in Keys} \cup {"shift", "zero", "ctrl"}]
    BY <1>4, <2>1 DEF Bytes
  <2>3. b.code \in {k[2] : k \in Keys} \cup {"shift", "zero", "ctrl"} /\ c \in 0 .. 1
    BY <1>4, <2>2
  <2>4. <<c, b.code>> \in AllKeys
    BY <2>3 DEF AllKeys
  <2>5. QED
    BY <1>1, <1>3, <1>4, <2>4 DEF Decoded, Packet, KeyEvents
<1>5. QED
  BY <1>1, <1>3, <1>4 DEF Decoded

Contexts(c, w, e) ==
    \A i \in 1 .. Len(w) :
        /\ c[i + 1] = NextContext(c[i], w[i]) /\ e[i] = Decoded(c[i], w[i])
        /\ c[i] = 2 => w[i].kind = "ack" \/ w[i].code = "ctrl"
Reading(w, from, to, e) ==
    \E c \in [1 .. Len(w) + 1 -> 0 .. 2] :
        Contexts(c, w, e) /\ c[1] = from /\ c[Len(w) + 1] = to
OnlyMakes(e, known) == \A i \in DOMAIN e : e[i].kind = "make" => e[i].key \in known

(* The bytes w, read from one context to another, are the events e. *)
Reads(w, from, to, e, known) ==
    e \in Seq(KeyEvents) /\ Len(e) = Len(w) /\ Reading(w, from, to, e) /\ OnlyMakes(e, known)

LEMMA MakesAppend ==
    ASSUME NEW e \in Seq(KeyEvents), NEW p \in KeyEvents, NEW known, OnlyMakes(e, known),
           p.kind = "make" => p.key \in known
    PROVE  OnlyMakes(Append(e, p), known)
<1>1. PICK w \in Seq(KeyEvents) : w = Append(e, p)
  <2>1. Append(e, p) \in Seq(KeyEvents)
    OBVIOUS
  <2>2. QED
    BY <2>1, Zenon
<1>2. \A i \in DOMAIN w : (i \in DOMAIN e /\ w[i] = e[i]) \/ w[i] = p
  BY <1>1
<1>3. QED
  BY <1>1, <1>2 DEF OnlyMakes

LEMMA MakesTail ==
    ASSUME NEW e \in Seq(KeyEvents), NEW known, OnlyMakes(e, known), e # <<>>
    PROVE  OnlyMakes(Tail(e), known) /\ (Head(e).kind = "make" => Head(e).key \in known)
<1>1. PICK w \in Seq(KeyEvents) : w = Tail(e)
  <2>1. Tail(e) \in Seq(KeyEvents)
    OBVIOUS
  <2>2. QED
    BY <2>1, Zenon
<1>2. \A i \in DOMAIN w : i + 1 \in DOMAIN e /\ w[i] = e[i + 1]
  BY <1>1
<1>3. 1 \in DOMAIN e /\ Head(e) = e[1]
  OBVIOUS
<1>4. QED
  BY <1>1, <1>2, <1>3 DEF OnlyMakes

(* In context c, byte x leads to context d and is event p. *)
Steps(c, x, d, p, known) ==
    /\ d = NextContext(c, x) /\ p = Decoded(c, x)
    /\ c = 2 => x.kind = "ack" \/ x.code = "ctrl"
    /\ p.kind = "make" => p.key \in known

LEMMA ReadsAppend ==
    ASSUME NEW w \in Seq(Bytes), NEW from, NEW to \in 0 .. 2, NEW e, NEW known, NEW x \in Bytes,
           NEW next, NEW p, Reads(w, from, to, e, known), Steps(to, x, next, p, known)
    PROVE  Reads(Append(w, x), from, next, Append(e, p), known)
<1>1. e \in Seq(KeyEvents) /\ Len(e) = Len(w) /\ OnlyMakes(e, known)
  BY DEF Reads
<1>2. p \in KeyEvents /\ p = Decoded(to, x) /\ (p.kind = "make" => p.key \in known)
  BY DecodedType DEF Steps
<1>3. next \in 0 .. 2 /\ next = NextContext(to, x) /\ (to = 2 => x.kind = "ack" \/ x.code = "ctrl")
  BY DecodedType DEF Steps
<1>4. PICK n \in Nat : n = Len(w)
  OBVIOUS
<1>5. PICK c \in [1 .. n + 1 -> 0 .. 2] : Contexts(c, w, e) /\ c[1] = from /\ c[n + 1] = to
  BY <1>4 DEF Reads, Reading
<1>6. PICK v \in Seq(Bytes) : v = Append(w, x)
  <2>1. Append(w, x) \in Seq(Bytes)
    OBVIOUS
  <2>2. QED
    BY <2>1, Zenon
<1>7. Len(v) = n + 1 /\ v[n + 1] = x /\ \A i \in 1 .. n : v[i] = w[i]
  BY <1>4, <1>6
<1>8. PICK f \in Seq(KeyEvents) : f = Append(e, p)
  <2>1. Append(e, p) \in Seq(KeyEvents)
    BY <1>1, <1>2
  <2>2. QED
    BY <2>1, Zenon
<1>9. Len(f) = n + 1 /\ f[n + 1] = p /\ \A i \in 1 .. n : f[i] = e[i]
  BY <1>1, <1>4, <1>8
<1>10. DEFINE d == [i \in 1 .. n + 2 |-> IF i = n + 2 THEN next ELSE c[i]]
<1>11. /\ d \in [1 .. n + 2 -> 0 .. 2] /\ d[n + 2] = next
       /\ \A i \in 1 .. n + 1 : d[i] = c[i]
  BY <1>3, <1>5
<1> HIDE DEF d
<1>12. Contexts(d, v, f)
  <2>1. \A i \in 1 .. n : /\ c[i + 1] = NextContext(c[i], w[i]) /\ e[i] = Decoded(c[i], w[i])
                          /\ c[i] = 2 => w[i].kind = "ack" \/ w[i].code = "ctrl"
    BY <1>4, <1>5 DEF Contexts
  <2>2. \A i \in 1 .. n : d[i] = c[i] /\ d[i + 1] = c[i + 1]
    BY <1>11
  <2>3. \A i \in 1 .. n : /\ d[i + 1] = NextContext(d[i], v[i]) /\ f[i] = Decoded(d[i], v[i])
                          /\ d[i] = 2 => v[i].kind = "ack" \/ v[i].code = "ctrl"
    BY <1>7, <1>9, <2>1, <2>2
  <2>4. d[n + 1] = to /\ d[(n + 1) + 1] = next
    BY <1>5, <1>11
  <2>5. \A i \in 1 .. n + 1 : i \in 1 .. n \/ i = n + 1
    OBVIOUS
  <2>6. QED
    <3>1. /\ d[(n + 1) + 1] = NextContext(d[n + 1], v[n + 1]) /\ f[n + 1] = Decoded(d[n + 1], v[n + 1])
          /\ d[n + 1] = 2 => v[n + 1].kind = "ack" \/ v[n + 1].code = "ctrl"
      BY <1>2, <1>3, <1>7, <1>9, <2>4
    <3>2. QED
      BY <1>7, <2>3, <2>5, <3>1 DEF Contexts
<1>13. d[1] = from /\ d[(n + 1) + 1] = next /\ d \in [1 .. (n + 1) + 1 -> 0 .. 2]
  BY <1>5, <1>11
<1>14. Reading(v, from, next, f)
  BY <1>7, <1>12, <1>13 DEF Reading
<1>15. OnlyMakes(f, known)
  BY <1>1, <1>2, <1>8, MakesAppend
<1>16. QED
  BY <1>2, <1>3, <1>6, <1>7, <1>8, <1>9, <1>14, <1>15 DEF Reads

LEMMA ReadsTail ==
    ASSUME NEW w \in Seq(Bytes), w # <<>>, NEW from \in 0 .. 2, NEW to, NEW e, NEW known,
           Reads(w, from, to, e, known)
    PROVE  /\ Reads(Tail(w), NextContext(from, Head(w)), to, Tail(e), known)
           /\ e # <<>> /\ Head(e) = Decoded(from, Head(w))
           /\ from = 2 => Head(w).kind = "ack" \/ Head(w).code = "ctrl"
<1>1. e \in Seq(KeyEvents) /\ Len(e) = Len(w) /\ OnlyMakes(e, known)
  BY DEF Reads
<1>2. PICK n \in Nat : Len(w) = n + 1
  <2>1. Len(w) \in Nat \ {0}
    OBVIOUS
  <2>2. Len(w) - 1 \in Nat /\ Len(w) = (Len(w) - 1) + 1
    BY <2>1
  <2>3. QED
    BY <2>2, Zenon
<1>3. PICK c \in [1 .. n + 2 -> 0 .. 2] : Contexts(c, w, e) /\ c[1] = from /\ c[n + 2] = to
  <2>1. (n + 1) + 1 = n + 2
    OBVIOUS
  <2>2. QED
    BY <1>2, <2>1 DEF Reads, Reading
<1>4. e # <<>> /\ Head(e) = e[1] /\ Head(w) = w[1]
  BY <1>1, <1>2
<1>5. \A i \in 1 .. n + 1 : /\ c[i + 1] = NextContext(c[i], w[i]) /\ e[i] = Decoded(c[i], w[i])
                            /\ c[i] = 2 => w[i].kind = "ack" \/ w[i].code = "ctrl"
  BY <1>2, <1>3 DEF Contexts
<1>6. 1 \in 1 .. n + 1 /\ 1 + 1 = 2
  OBVIOUS
<1>7. /\ c[2] = NextContext(from, Head(w)) /\ Head(e) = Decoded(from, Head(w))
      /\ from = 2 => Head(w).kind = "ack" \/ Head(w).code = "ctrl"
  BY <1>3, <1>4, <1>5, <1>6
<1>8. PICK v \in Seq(Bytes) : v = Tail(w)
  <2>1. Tail(w) \in Seq(Bytes)
    OBVIOUS
  <2>2. QED
    BY <2>1, Zenon
<1>9. Len(v) = n /\ \A i \in 1 .. n : v[i] = w[i + 1]
  BY <1>2, <1>8
<1>10. PICK f \in Seq(KeyEvents) : f = Tail(e)
  <2>1. Tail(e) \in Seq(KeyEvents)
    BY <1>1, <1>4
  <2>2. QED
    BY <2>1, Zenon
<1>11. Len(f) = n /\ \A i \in 1 .. n : f[i] = e[i + 1]
  BY <1>1, <1>2, <1>4, <1>10
<1>12. DEFINE d == [i \in 1 .. n + 1 |-> c[i + 1]]
<1>13. d \in [1 .. n + 1 -> 0 .. 2] /\ \A i \in 1 .. n + 1 : d[i] = c[i + 1]
  BY <1>3
<1> HIDE DEF d
<1>14. Contexts(d, v, f)
  <2>1. \A i \in 1 .. n : i + 1 \in 1 .. n + 1 /\ i \in 1 .. n + 1
    OBVIOUS
  <2>2. \A i \in 1 .. n : d[i] = c[i + 1] /\ d[i + 1] = c[(i + 1) + 1]
    BY <1>13, <2>1
  <2>3. ASSUME NEW i \in 1 .. n
        PROVE  /\ d[i + 1] = NextContext(d[i], v[i]) /\ f[i] = Decoded(d[i], v[i])
               /\ d[i] = 2 => v[i].kind = "ack" \/ v[i].code = "ctrl"
    <3>1. PICK j \in 1 .. n + 1 : j = i + 1
      BY <2>1
    <3>2. d[i] = c[j] /\ d[i + 1] = c[j + 1] /\ v[i] = w[j] /\ f[i] = e[j]
      BY <1>9, <1>11, <2>2, <3>1
    <3>3. QED
      BY <1>5, <3>2
  <2>4. QED
    BY <1>9, <2>3 DEF Contexts
<1>15. d[1] = c[2] /\ d[n + 1] = to
  <2>1. 1 \in 1 .. n + 1 /\ n + 1 \in 1 .. n + 1 /\ 1 + 1 = 2 /\ (n + 1) + 1 = n + 2
    OBVIOUS
  <2>2. QED
    BY <1>3, <1>13, <2>1
<1>16. Reading(v, c[2], to, f)
  BY <1>9, <1>13, <1>14, <1>15 DEF Reading
<1>17. OnlyMakes(f, known)
  BY <1>1, <1>4, <1>10, MakesTail
<1>18. QED
  BY <1>4, <1>7, <1>8, <1>9, <1>10, <1>11, <1>16, <1>17 DEF Reads

LEMMA ReadsNone ==
    ASSUME NEW from \in 0 .. 2, NEW to, NEW e, NEW known, Reads(<<>>, from, to, e, known)
    PROVE  from = to /\ e = <<>>
<1>1. Len(<<>>) = 0
  OBVIOUS
<1>2. e \in Seq(KeyEvents) /\ Len(e) = 0 /\ Reading(<<>>, from, to, e)
  BY <1>1 DEF Reads
<1>3. from = to
  BY <1>1, <1>2 DEF Reading
<1>4. QED
  BY <1>2, <1>3

LEMMA NoneReads ==
    ASSUME NEW known
    PROVE  Reads(<<>>, 0, 0, <<>>, known)
<1>1. Len(<<>>) = 0 /\ <<>> \in Seq(KeyEvents)
  OBVIOUS
<1>2. [i \in 1 .. 1 |-> 0] \in [1 .. 1 -> 0 .. 2] /\ [i \in 1 .. 1 |-> 0][1] = 0
  OBVIOUS
<1>3. Contexts([i \in 1 .. 1 |-> 0], <<>>, <<>>)
  BY <1>1 DEF Contexts
<1>4. Reading(<<>>, 0, 0, <<>>)
  BY <1>1, <1>2, <1>3 DEF Reading
<1>5. OnlyMakes(<<>>, known)
  BY DEF OnlyMakes
<1>6. QED
  BY <1>1, <1>4, <1>5 DEF Reads

LEMMA ReadsKnown ==
    ASSUME NEW w, NEW from, NEW to, NEW e, NEW known, NEW more, Reads(w, from, to, e, known),
           known \subseteq more
    PROVE  Reads(w, from, to, e, more)
BY DEF Reads, OnlyMakes

(* A byte that is ignored, ahead of the others. *)
LEMMA ReadsNoise ==
    ASSUME NEW w \in Seq(Bytes), NEW from \in 0 .. 2, NEW to, NEW e, NEW known,
           Reads(w, from, to, e, known), NEW x \in Bytes, x.kind = "ack"
    PROVE  Reads(<<x>> \o w, from, to, <<NoEvent>> \o e, known)
<1>1. e \in Seq(KeyEvents) /\ Len(e) = Len(w) /\ OnlyMakes(e, known)
  BY DEF Reads
<1>2. PICK p \in KeyEvents : p = NoEvent
  BY DecodedType
<1>3. p.kind # "make" /\ p = Decoded(from, x) /\ from = NextContext(from, x)
  BY <1>2, PacketEquals DEF NoEvent, Decoded, NextContext
<1>4. PICK n \in Nat : n = Len(w)
  OBVIOUS
<1>5. PICK c \in [1 .. n + 1 -> 0 .. 2] : Contexts(c, w, e) /\ c[1] = from /\ c[n + 1] = to
  BY <1>4 DEF Reads, Reading
<1>6. PICK v \in Seq(Bytes) : v = <<x>> \o w
  <2>1. <<x>> \o w \in Seq(Bytes)
    OBVIOUS
  <2>2. QED
    BY <2>1, Zenon
<1>7. Len(v) = n + 1 /\ v[1] = x /\ \A i \in 2 .. n + 1 : v[i] = w[i - 1]
  BY <1>4, <1>6
<1>8. PICK f \in Seq(KeyEvents) : f = <<p>> \o e
  <2>1. <<p>> \o e \in Seq(KeyEvents)
    BY <1>1
  <2>2. QED
    BY <2>1, Zenon
<1>9. Len(f) = n + 1 /\ f[1] = p /\ (\A i \in 2 .. n + 1 : f[i] = e[i - 1]) /\ DOMAIN e = 1 .. n
  BY <1>1, <1>4, <1>8
<1>10. DEFINE d == [i \in 1 .. n + 2 |-> IF i = 1 THEN from ELSE c[i - 1]]
<1>11. /\ d \in [1 .. n + 2 -> 0 .. 2] /\ d[1] = from
       /\ \A i \in 2 .. n + 2 : d[i] = c[i - 1]
  BY <1>5
<1> HIDE DEF d
<1>12. Contexts(d, v, f)
  <2>1. \A i \in 1 .. n : /\ c[i + 1] = NextContext(c[i], w[i]) /\ e[i] = Decoded(c[i], w[i])
                          /\ c[i] = 2 => w[i].kind = "ack" \/ w[i].code = "ctrl"
    BY <1>4, <1>5 DEF Contexts
  <2>2. ASSUME NEW i \in 2 .. n + 1
        PROVE  /\ d[i + 1] = NextContext(d[i], v[i]) /\ f[i] = Decoded(d[i], v[i])
               /\ d[i] = 2 => v[i].kind = "ack" \/ v[i].code = "ctrl"
    <3>1. PICK j \in 1 .. n : j = i - 1 /\ j + 1 = i /\ (i + 1) - 1 = j + 1
      OBVIOUS
    <3>2. i \in 2 .. n + 2 /\ i + 1 \in 2 .. n + 2
      OBVIOUS
    <3>3. d[i] = c[j] /\ d[i + 1] = c[j + 1]
      BY <1>11, <3>1, <3>2
    <3>4. QED
      BY <1>7, <1>9, <2>1, <3>1, <3>3
  <2>3. d[1 + 1] = from
    <3>1. 1 + 1 \in 2 .. n + 2 /\ (1 + 1) - 1 = 1
      OBVIOUS
    <3>2. QED
      BY <1>5, <1>11, <3>1
  <2>4. \A i \in 1 .. n + 1 : i = 1 \/ i \in 2 .. n + 1
    OBVIOUS
  <2>5. QED
    BY <1>3, <1>7, <1>9, <1>11, <2>2, <2>3, <2>4 DEF Contexts
<1>13. d[(n + 1) + 1] = to /\ d \in [1 .. (n + 1) + 1 -> 0 .. 2]
  <2>1. (n + 1) + 1 = n + 2 /\ n + 2 \in 2 .. n + 2 /\ (n + 2) - 1 = n + 1
    OBVIOUS
  <2>2. QED
    BY <1>5, <1>11, <2>1
<1>14. Reading(v, from, to, f)
  BY <1>7, <1>11, <1>12, <1>13 DEF Reading
<1>15. OnlyMakes(f, known)
  <2>1. \A i \in DOMAIN f : i = 1 \/ (i - 1 \in DOMAIN e /\ f[i] = e[i - 1])
    BY <1>8, <1>9
  <2>2. QED
    BY <1>1, <1>3, <1>9, <2>1 DEF OnlyMakes
<1>16. QED
  BY <1>2, <1>4, <1>6, <1>7, <1>8, <1>9, <1>14, <1>15 DEF Reads

LEMMA DownNoise ==
    ASSUME NEW e \in Seq(KeyEvents), NEW S, NEW k
    PROVE  DownAfter(S, <<NoEvent>> \o e, k) <=> DownAfter(S, e, k)
<1>1. PICK p \in KeyEvents : p = NoEvent
  <2>1. NoEvent \in KeyEvents
    <3>1. 0 \in 0 .. 2
      OBVIOUS
    <3>2. QED
      BY <3>1, ResetType, DecodedType
  <2>2. QED
    BY <2>1, Zenon
<1>2. p # Packet("make", k) /\ p # Packet("break", k)
  BY <1>1, PacketEquals DEF NoEvent
<1>3. /\ <<p>> \o e \in Seq(KeyEvents) /\ <<p>> \o e # <<>> /\ Head(<<p>> \o e) = p
      /\ Tail(<<p>> \o e) = e
  OBVIOUS
<1>4. DownAfter(S, <<p>> \o e, k) <=> DownAfter(S, Tail(<<p>> \o e), k)
  BY <1>2, <1>3, DownTail
<1>5. QED
  BY <1>1, <1>3, <1>4

(* The bytes of a key, sent after complete sequences, are one event of it. *)
LEMMA AppendTwoThree ==
    ASSUME NEW w \in Seq(Bytes), NEW x \in Bytes, NEW y \in Bytes, NEW z \in Bytes
    PROVE  /\ w \o <<x>> = Append(w, x) /\ w \o <<x, y>> = Append(Append(w, x), y)
           /\ w \o <<x, y, z>> = Append(Append(Append(w, x), y), z)
           /\ w \o <<x>> # w /\ w \o <<x, y>> # w /\ w \o <<x, y, z>> # w
OBVIOUS

(* Event p and no other is added. *)
Adds(e, f, p) ==
    \A S, j : DownAfter(S, f, j) <=>
        p = Packet("make", j) \/ (p # Packet("break", j) /\ DownAfter(S, e, j))

LEMMA AddsLast ==
    ASSUME NEW e \in Seq(KeyEvents), NEW p \in KeyEvents
    PROVE  Adds(e, Append(e, p), p)
BY DownAppend DEF Adds

LEMMA AddsAfterNone ==
    ASSUME NEW e, NEW f, NEW g, NEW p, Adds(e, f, NoEvent), Adds(f, g, p)
    PROVE  Adds(e, g, p)
<1>1. \A j : NoEvent # Packet("make", j) /\ NoEvent # Packet("break", j)
  BY PacketEquals DEF NoEvent
<1>2. QED
  BY <1>1 DEF Adds

LEMMA CodesRead ==
    ASSUME NEW w \in Seq(Bytes), NEW from \in 0 .. 2, NEW e, NEW known, Reads(w, from, 0, e, known),
           NEW k \in Keys, NEW kind \in {"make", "break"}, kind = "make" => k \in known
    PROVE  /\ \E f : Reads(w \o Codes(k, kind), from, 0, f, known) /\ Adds(e, f, Packet(kind, k))
           /\ w \o Codes(k, kind) # w
<1>1. k = <<k[1], k[2]>> /\ k[1] \in 0 .. 1 /\ (k[2] = "pause" => k[1] = 1)
  BY KeysAssumption
<1>2. PICK x \in Bytes : x = Byte(kind, k[2])
  BY DEF Bytes, Byte
<1>3. PICK p0 \in Bytes, p1 \in Bytes, u \in Bytes : p0 = Prefix0 /\ p1 = Prefix1 /\ u = Byte(kind, "ctrl")
  BY DEF Bytes, Byte
<1>4. /\ x.kind = kind /\ x.code = k[2] /\ p0.kind = "E0" /\ p1.kind = "E1"
      /\ u.kind = kind /\ u.code = "ctrl"
  BY <1>2, <1>3 DEF Byte, Prefix0, Prefix1
<1>5. e \in Seq(KeyEvents) /\ 0 \in 0 .. 2 /\ 1 \in 0 .. 2 /\ 2 \in 0 .. 2
  BY DEF Reads
<1>6. /\ Decoded(0, p0) = NoEvent /\ Decoded(0, p1) = NoEvent /\ Decoded(2, u) = NoEvent
      /\ NextContext(0, p0) = 1 /\ NextContext(0, p1) = 2 /\ NextContext(2, u) = 1
      /\ \A c \in 0 .. 1 : Decoded(c, x) = Packet(kind, <<c, k[2]>>) /\ NextContext(c, x) = 0
  BY <1>4 DEF Decoded, NextContext
<1>7. NoEvent.kind = "none" /\ Packet(kind, k).kind = kind /\ Packet(kind, k).key = k
  BY PacketEquals DEF NoEvent
<1>8. Decoded(k[1], x) = Packet(kind, k) /\ NextContext(k[1], x) = 0
  BY <1>1, <1>6
<1>9. Packet(kind, k) \in KeyEvents /\ NoEvent \in KeyEvents
  BY <1>1, <1>5, <1>8, DecodedType
<1>10. /\ Steps(0, p0, 1, NoEvent, known) /\ Steps(0, p1, 2, NoEvent, known)
       /\ Steps(2, u, 1, NoEvent, known)
  BY <1>4, <1>6, <1>7 DEF Steps
<1>11. Steps(k[1], x, 0, Packet(kind, k), known)
  BY <1>1, <1>7, <1>8 DEF Steps
<1>12. CASE k[2] = "pause"
  <2>1. w \o Codes(k, kind) = w \o <<p1, u, x>>
    BY <1>2, <1>3, <1>12 DEF Codes
  <2>2. w \o <<p1, u, x>> = Append(Append(Append(w, p1), u), x) /\ w \o <<p1, u, x>> # w
    BY AppendTwoThree
  <2>3. PICK v \in Seq(Bytes), y \in Seq(Bytes) : v = Append(w, p1) /\ y = Append(v, u)
    <3>1. Append(w, p1) \in Seq(Bytes) /\ Append(Append(w, p1), u) \in Seq(Bytes)
      OBVIOUS
    <3>2. QED
      BY <3>1, Zenon
  <2>4. PICK f \in Seq(KeyEvents) : Reads(v, from, 2, f, known) /\ Adds(e, f, NoEvent)
    <3>1. Reads(v, from, 2, Append(e, NoEvent), known)
      BY <1>5, <1>10, <2>3, ReadsAppend
    <3>2. QED
      BY <1>5, <1>9, <3>1, AddsLast DEF Reads
  <2>5. PICK g \in Seq(KeyEvents) : Reads(y, from, 1, g, known) /\ Adds(f, g, NoEvent)
    <3>1. Reads(y, from, 1, Append(f, NoEvent), known)
      BY <1>5, <1>10, <2>3, <2>4, ReadsAppend
    <3>2. QED
      BY <1>9, <3>1, AddsLast DEF Reads
  <2>6. Reads(Append(y, x), from, 0, Append(g, Packet(kind, k)), known)
    <3>1. Steps(1, x, 0, Packet(kind, k), known)
      BY <1>1, <1>11, <1>12
    <3>2. QED
      BY <1>5, <2>5, <3>1, ReadsAppend
  <2>7. Adds(e, Append(g, Packet(kind, k)), Packet(kind, k))
    BY <1>9, <2>4, <2>5, AddsLast, AddsAfterNone
  <2>8. QED
    BY <2>1, <2>2, <2>3, <2>6, <2>7
<1>13. CASE k[2] # "pause" /\ k[1] = 1
  <2>1. w \o Codes(k, kind) = w \o <<p0, x>>
    BY <1>2, <1>3, <1>13 DEF Codes
  <2>2. w \o <<p0, x>> = Append(Append(w, p0), x) /\ w \o <<p0, x>> # w
    BY AppendTwoThree
  <2>3. PICK v \in Seq(Bytes) : v = Append(w, p0)
    <3>1. Append(w, p0) \in Seq(Bytes)
      OBVIOUS
    <3>2. QED
      BY <3>1, Zenon
  <2>4. PICK f \in Seq(KeyEvents) : Reads(v, from, 1, f, known) /\ Adds(e, f, NoEvent)
    <3>1. Reads(v, from, 1, Append(e, NoEvent), known)
      BY <1>5, <1>10, <2>3, ReadsAppend
    <3>2. QED
      BY <1>5, <1>9, <3>1, AddsLast DEF Reads
  <2>5. Reads(Append(v, x), from, 0, Append(f, Packet(kind, k)), known)
    BY <1>5, <1>11, <1>13, <2>4, ReadsAppend
  <2>6. Adds(e, Append(f, Packet(kind, k)), Packet(kind, k))
    BY <1>9, <2>4, AddsLast, AddsAfterNone
  <2>7. QED
    BY <2>1, <2>2, <2>3, <2>5, <2>6
<1>14. CASE k[2] # "pause" /\ k[1] = 0
  <2>1. w \o Codes(k, kind) = w \o <<x>>
    BY <1>2, <1>14 DEF Codes
  <2>2. w \o <<x>> = Append(w, x) /\ w \o <<x>> # w
    BY AppendTwoThree
  <2>3. Reads(Append(w, x), from, 0, Append(e, Packet(kind, k)), known)
    BY <1>5, <1>11, <1>14, ReadsAppend
  <2>4. Adds(e, Append(e, Packet(kind, k)), Packet(kind, k))
    BY <1>5, <1>9, AddsLast
  <2>5. QED
    BY <2>1, <2>2, <2>3, <2>4
<1>15. QED
  BY <1>1, <1>12, <1>13, <1>14

LEMMA ResetRead ==
    ASSUME NEW w \in Seq(Bytes), NEW from \in 0 .. 2, NEW e, NEW known, Reads(w, from, 0, e, known),
           ZeroKey \in known
    PROVE  \E f : /\ Reads(w \o <<SC_Reset, Zero>>, from, 0, f, known)
                  /\ \A S, j : DownAfter(S, f, j) => j = ZeroKey \/ DownAfter(S, e, j)
<1>1. PICK x \in Bytes, y \in Bytes : x = SC_Reset /\ y = Zero
  BY ResetType
<1>2. x.kind = "break" /\ x.code = "shift" /\ y.kind = "make" /\ y.code = "zero"
  BY <1>1 DEF SC_Reset, Zero, Byte
<1>3. /\ Decoded(0, x) = Packet("break", <<0, "shift">>) /\ NextContext(0, x) = 0
      /\ Decoded(0, y) = Packet("make", ZeroKey) /\ NextContext(0, y) = 0
  BY <1>2 DEF Decoded, NextContext, ZeroKey
<1>4. /\ Packet("break", <<0, "shift">>).kind = "break"
      /\ Packet("make", ZeroKey).kind = "make" /\ Packet("make", ZeroKey).key = ZeroKey
  BY PacketEquals
<1>5. e \in Seq(KeyEvents) /\ 0 \in 0 .. 2
  BY DEF Reads
<1>6. Packet("break", <<0, "shift">>) \in KeyEvents /\ Packet("make", ZeroKey) \in KeyEvents
  BY <1>3, <1>5, DecodedType
<1>7. PICK v \in Seq(Bytes) : v = Append(w, x)
  <2>1. Append(w, x) \in Seq(Bytes)
    OBVIOUS
  <2>2. QED
    BY <2>1, Zenon
<1>8. PICK f \in Seq(KeyEvents) : /\ Reads(v, from, 0, f, known)
                                  /\ Adds(e, f, Packet("break", <<0, "shift">>))
  <2>1. Reads(v, from, 0, Append(e, Packet("break", <<0, "shift">>)), known)
    <3>1. Steps(0, x, 0, Packet("break", <<0, "shift">>), known)
      BY <1>3, <1>4 DEF Steps
    <3>2. QED
      BY <1>5, <1>7, <3>1, ReadsAppend
  <2>2. QED
    BY <1>5, <1>6, <2>1, AddsLast DEF Reads
<1>9. Reads(Append(v, y), from, 0, Append(f, Packet("make", ZeroKey)), known)
  <2>1. Steps(0, y, 0, Packet("make", ZeroKey), known)
    BY <1>3, <1>4 DEF Steps
  <2>2. QED
    BY <1>5, <1>8, <2>1, ReadsAppend
<1>10. Adds(f, Append(f, Packet("make", ZeroKey)), Packet("make", ZeroKey))
  BY <1>6, AddsLast
<1>11. w \o <<SC_Reset, Zero>> = Append(v, y)
  BY <1>1, <1>7, AppendTwoThree
<1>12. \A S, j : DownAfter(S, Append(f, Packet("make", ZeroKey)), j) => j = ZeroKey \/ DownAfter(S, e, j)
  <2> TAKE S, j
  <2>1. Packet("make", ZeroKey) = Packet("make", j) => j = ZeroKey
    BY PacketEquals
  <2>2. Packet("break", <<0, "shift">>) # Packet("make", j)
    BY PacketEquals
  <2>3. QED
    BY <1>8, <1>10, <2>1, <2>2 DEF Adds
<1>13. QED
  BY <1>9, <1>11, <1>12

-----------------------------------------------------------------------------
(* What one byte does: the decoder goes to the next context, and the key   *)
(* bit vector is told of the event, which is buffered unless it changes    *)
(* nothing, or is the 00 of a reset.                                       *)
Tells(p) ==
    \A k \in AllKeys \ Breakless :
        k \in keyBits' <=> p = Packet("make", k) \/ (p # Packet("break", k) /\ k \in keyBits)

Quietly(p) == UNCHANGED <<keyBits, ring, dropped>> /\ Tells(p)
Buffered(p) == p \in Packets /\ Buffer(p) /\ Tells(p)
AsReset(p) == Buffer(ResetPacket) /\ UNCHANGED keyBits /\ p = Packet("make", ZeroKey)

LEMMA ByteEffect ==
    ASSUME TypeOK, lastReset => extendCount = 0, NEW b \in Bytes,
           extendCount = 2 => b.kind = "ack" \/ b.code = "ctrl",
           SpontaneousReset(b) \/ Ignored(b) \/ ExtendCode(b) \/ Useless(b) \/ KeyCode(b)
    PROVE  /\ extendCount' = NextContext(extendCount, b) /\ (lastReset' => extendCount' = 0)
           /\ LET p == Decoded(extendCount, b) IN Quietly(p) \/ Buffered(p) \/ AsReset(p)
<1>1. PICK p : p = Decoded(extendCount, b)
  OBVIOUS
<1> SUFFICES /\ extendCount' = NextContext(extendCount, b) /\ (lastReset' => extendCount' = 0)
             /\ Quietly(p) \/ Buffered(p) \/ AsReset(p)
  BY <1>1
<1>2. extendCount \in 0 .. 2 /\ keyBits \subseteq AllKeys \ Breakless
  BY DEF TypeOK
<1>3. /\ SC_Reset.kind = "break" /\ SC_Reset.code = "shift"
      /\ Zero.kind = "make" /\ Zero.code = "zero"
  BY DEF SC_Reset, Zero, Byte
<1>4. \A k : NoEvent # Packet("make", k) /\ NoEvent # Packet("break", k)
  BY PacketEquals DEF NoEvent
<1>5. CASE SpontaneousReset(b)
  <2>1. extendCount = 0 /\ b = Zero /\ Buffer(ResetPacket) /\ extendCount' = 0 /\ UNCHANGED keyBits
    BY <1>5 DEF SpontaneousReset
  <2>2. p = Packet("make", ZeroKey) /\ NextContext(extendCount, b) = 0
    BY <1>1, <1>3, <2>1 DEF Decoded, NextContext, ZeroKey
  <2>3. QED
    BY <2>1, <2>2 DEF AsReset
<1>6. CASE Ignored(b)
  <2>1. b.kind = "ack" /\ UNCHANGED <<extendCount, keyBits, ring, dropped>> /\ lastReset' = (b = SC_Reset)
    BY <1>6 DEF Ignored, Ordinary
  <2>2. ~lastReset' /\ p = NoEvent /\ NextContext(extendCount, b) = extendCount
    BY <1>1, <1>3, <2>1 DEF Decoded, NextContext
  <2>3. QED
    BY <1>4, <2>1, <2>2 DEF Quietly, Tells
<1>7. CASE ExtendCode(b)
  <2>1. /\ b.kind \in {"E0", "E1"} /\ UNCHANGED <<keyBits, ring, dropped>>
        /\ extendCount' = (IF b.kind = "E0" THEN 1 ELSE 2) /\ lastReset' = (b = SC_Reset)
    BY <1>7 DEF ExtendCode, Ordinary
  <2>2. ~lastReset' /\ p = NoEvent /\ NextContext(extendCount, b) = extendCount'
    BY <1>1, <1>3, <2>1 DEF Decoded, NextContext
  <2>3. QED
    BY <1>4, <2>1, <2>2 DEF Quietly, Tells
<1>8. CASE Useless(b)
  <2>1. /\ b.kind \in {"make", "break"} /\ UNCHANGED <<keyBits, ring, dropped>> /\ extendCount = 2
        /\ extendCount' = 1 /\ lastReset' = (b = SC_Reset)
    BY <1>8 DEF Useless, Ordinary
  <2>2. ~lastReset' /\ p = NoEvent /\ NextContext(extendCount, b) = extendCount'
    <3>1. b # SC_Reset
      BY <1>3, <2>1
    <3>2. ~lastReset'
      BY <2>1, <3>1, Zenon
    <3>3. ~(extendCount < 2)
      BY <2>1
    <3>4. p = NoEvent
      BY <1>1, <3>3 DEF Decoded
    <3>5. NextContext(extendCount, b) = extendCount'
      BY <2>1 DEF NextContext
    <3>6. QED
      BY <3>2, <3>4, <3>5
  <2>3. QED
    BY <1>4, <2>1, <2>2 DEF Quietly, Tells
<1>9. CASE KeyCode(b)
  <2>1. PICK key : key = <<extendCount, b.code>>
    OBVIOUS
  <2>2. b.kind \in {"make", "break"} /\ extendCount \in 0 .. 1 /\ extendCount' = 0
    BY <1>2, <1>9 DEF KeyCode
  <2>3. p = Packet(b.kind, key) /\ NextContext(extendCount, b) = extendCount'
    BY <1>1, <2>1, <2>2 DEF Decoded, NextContext
  <2>4. p \in KeyEvents
    BY <1>1, <1>2, DecodedType
  <2>5. p.kind = b.kind /\ p.key = key
    BY <2>3, PacketEquals
  <2>6. key \in AllKeys /\ p \in Packets
    BY <2>2, <2>4, <2>5 DEF KeyEvents, Packets
  <2>7. /\ \A k : p = Packet("make", k) <=> (b.kind = "make" /\ key = k)
        /\ \A k : p = Packet("break", k) <=> (b.kind = "break" /\ key = k)
    BY <2>3, PacketEquals
  <2>8. CASE key \in Breakless
    <3>1. Buffer(p) /\ UNCHANGED keyBits
      BY <1>9, <2>1, <2>3, <2>8 DEF KeyCode
    <3>2. Tells(p)
      BY <2>7, <2>8, <3>1 DEF Tells
    <3>3. QED
      BY <2>2, <2>3, <2>6, <3>1, <3>2 DEF Buffered
  <2>9. CASE key \notin Breakless /\ b.kind = "make" /\ key \in keyBits
    <3>1. UNCHANGED <<keyBits, ring, dropped>>
      BY <1>9, <2>1, <2>9 DEF KeyCode, FilteredMake
    <3>2. Tells(p)
      BY <2>7, <2>9, <3>1 DEF Tells
    <3>3. QED
      BY <2>2, <2>3, <3>1, <3>2 DEF Quietly
  <2>10. CASE key \notin Breakless /\ b.kind = "make" /\ key \notin keyBits
    <3>1. keyBits' = keyBits \cup {key} /\ Buffer(p)
      BY <1>9, <2>1, <2>3, <2>10 DEF KeyCode, FilteredMake
    <3>2. Tells(p)
      BY <2>7, <2>10, <3>1 DEF Tells
    <3>3. QED
      BY <2>2, <2>3, <2>6, <3>1, <3>2 DEF Buffered
  <2>11. CASE key \notin Breakless /\ b.kind = "break"
    <3>1. keyBits' = keyBits \ {key} /\ Buffer(p)
      BY <1>9, <2>1, <2>3, <2>11 DEF KeyCode
    <3>2. Tells(p)
      BY <2>7, <2>11, <3>1 DEF Tells
    <3>3. QED
      BY <2>2, <2>3, <2>6, <3>1, <3>2 DEF Buffered
  <2>12. QED
    BY <2>2, <2>8, <2>9, <2>10, <2>11
<1>10. QED
  BY <1>5, <1>6, <1>7, <1>8, <1>9

(* A packet buffered says to the HID system, later, what the key bit       *)
(* vector is told now.                                                     *)
LEMMA AgreeBuffered ==
    ASSUME TypeOK, TypeOK', BitsAgree, NEW p \in Packets, Buffer(p), Tells(p), UNCHANGED os
    PROVE  BitsAgree'
<1> SUFFICES ASSUME dropped' = 0
             PROVE  keyBits' = {k \in AllKeys \ Breakless : DownAfter(os', ring', k)}
  BY DEF BitsAgree
<1>1. dropped \in Nat /\ ring \in Seq(Packets)
  BY DEF TypeOK
<1>2. ring' = Append(ring, p) /\ dropped = 0
  <2>1. dropped + 1 # 0
    BY <1>1
  <2>2. QED
    BY <2>1 DEF Buffer
<1>3. Packets \subseteq KeyEvents
  BY DEF Packets, KeyEvents
<1>4. ring \in Seq(KeyEvents) /\ p \in KeyEvents
  BY <1>1, <1>3
<1>5. keyBits = {k \in AllKeys \ Breakless : DownAfter(os, ring, k)}
  BY <1>2 DEF BitsAgree
<1>6. \A k : DownAfter(os, ring', k) <=>
          p = Packet("make", k) \/ (p # Packet("break", k) /\ DownAfter(os, ring, k))
  BY <1>2, <1>4, DownAppend
<1>7. keyBits' \subseteq AllKeys \ Breakless
  BY DEF TypeOK
<1>8. QED
  BY <1>5, <1>6, <1>7 DEF Tells

LEMMA ResetTells == Packet("reset", ZeroKey) = ResetPacket /\ ResetPacket \in Packets
BY DEF ResetPacket, Packets, Packet, ZeroKey, AllKeys

LEMMA AgreeByte ==
    ASSUME TypeOK, TypeOK', BitsAgree, NEW p, Quietly(p) \/ Buffered(p) \/ AsReset(p), UNCHANGED os
    PROVE  BitsAgree'
<1>1. CASE Quietly(p)
  BY <1>1 DEF Quietly, BitsAgree
<1>2. CASE Buffered(p)
  BY <1>2, AgreeBuffered DEF Buffered
<1>3. CASE AsReset(p)
  <2>1. \A k : ResetPacket # Packet("make", k) /\ ResetPacket # Packet("break", k)
    BY ResetTells, PacketEquals
  <2>2. Tells(ResetPacket)
    BY <1>3, <2>1 DEF Tells, AsReset
  <2>3. QED
    BY <1>3, <2>2, ResetTells, AgreeBuffered DEF AsReset
<1>4. QED
  BY <1>1, <1>2, <1>3

LEMMA AgreePacketReady ==
    ASSUME TypeOK, BitsAgree, PacketReady
    PROVE  BitsAgree'
<1>1. /\ ring # <<>> /\ os' = Dispatch(os, Head(ring)) /\ ring' = Tail(ring)
      /\ UNCHANGED <<keyBits, dropped>>
  BY DEF PacketReady, decoderVars
<1>2. ring \in Seq(Packets) /\ os \subseteq AllKeys \ Breakless
  BY DEF TypeOK
<1>3. PICK p \in Packets : p = Head(ring)
  BY <1>1, <1>2
<1>4. p = Packet(p.kind, p.key) /\ p.kind \in {"make", "break", "reset"}
  BY DEF Packets, Packet
<1>5. /\ \A k : p = Packet("make", k) <=> (p.kind = "make" /\ p.key = k)
      /\ \A k : p = Packet("break", k) <=> (p.kind = "break" /\ p.key = k)
  BY <1>4, PacketEquals
<1>6. \A k \in AllKeys \ Breakless :
          k \in os' <=> (p = Packet("make", k) \/ (p # Packet("break", k) /\ k \in os))
  BY <1>1, <1>3, <1>4, <1>5 DEF Dispatch
<1>7. Packets \subseteq KeyEvents
  BY DEF Packets, KeyEvents
<1>8. ring \in Seq(KeyEvents)
  BY <1>2, <1>7
<1>9. \A k \in AllKeys \ Breakless : DownAfter(os, ring, k) <=> DownAfter(os', ring', k)
  BY <1>1, <1>3, <1>6, <1>8, DownTail
<1>10. QED
  BY <1>1, <1>9 DEF BitsAgree

-----------------------------------------------------------------------------
(* The invariant, if wakes are prompt.  Nothing comes while the keyboard   *)
(* is disabled, nothing is buffered on waking, and behind AA the decoder   *)
(* waits for no more of a sequence.                                        *)
Calm ==
    /\ power # "awake" => wire = <<>>
    /\ power = "waking" => ring = <<>>
    /\ lastReset => extendCount = 0

(* What is down, or will be, is known. *)
Seen == pressed \cup {ZeroKey}
Known == os \cup keyBits \subseteq Seen /\ OnlyMakes(ring, Seen)

(* The bytes under way end with a complete sequence, are of keys that were *)
(* pressed, and release every key that is not held.                        *)
Settles(bits, e, down) ==
    \A j \in (AllKeys \ Breakless) \ (down \cup {ZeroKey}) : ~DownAfter(bits, e, j)
WireRead ==
    \E e : Reads(wire, extendCount, 0, e, Seen) /\ (power = "awake" => Settles(keyBits, e, held))

KInv == TypeOK /\ Calm /\ BitsAgree /\ Known /\ WireRead

LEMMA InitKInv == Init => KInv
<1> SUFFICES ASSUME Init PROVE KInv
  OBVIOUS
<1>1. /\ wire = <<>> /\ ring = <<>> /\ keyBits = {} /\ os = {} /\ extendCount = 0
      /\ lastReset = FALSE /\ power = "awake"
  BY DEF Init
<1>2. TypeOK
  <2>1. lastReset \in BOOLEAN /\ loop \in BOOLEAN
    BY Zenon DEF Init
  <2>2. wire \in Seq(Bytes) /\ ring \in Seq(Packets) /\ Len(ring) <= Capacity
    BY <1>1, BoundsAssumption
  <2>3. QED
    BY <2>1, <2>2, BoundsAssumption DEF Init, TypeOK
<1>3. \A k : ~DownAfter({}, <<>>, k)
  BY DownNone
<1>4. BitsAgree
  BY <1>1, <1>3 DEF BitsAgree
<1>5. Calm /\ Known
  BY <1>1 DEF Calm, Known, OnlyMakes
<1>6. WireRead
  BY <1>1, <1>3, NoneReads DEF WireRead, Settles
<1>7. QED
  BY <1>2, <1>4, <1>5, <1>6 DEF KInv

(* Events of the keyboard leave the driver alone. *)
LEMMA EventKInv ==
    ASSUME KInv, TypeOK', Event, pressed \subseteq pressed', power # "awake" => wire' = wire, WireRead'
    PROVE  KInv'
<1>1. UNCHANGED <<power, extendCount, lastReset, keyBits, ring, loop, os, dropped>>
  BY DEF Event, decoderVars
<1>2. Calm' /\ BitsAgree'
  BY <1>1 DEF KInv, Calm, BitsAgree
<1>3. Known'
  BY <1>1 DEF KInv, Known, Seen, OnlyMakes
<1>4. QED
  BY <1>2, <1>3 DEF KInv

LEMMA PressKInv ==
    ASSUME KInv, TypeOK', Prompt, NEW k \in Keys, Press(k)
    PROVE  KInv'
<1>1. /\ Event /\ Send(Codes(k, "make")) /\ held' = held \cup {k}
      /\ pressed' = IF wire' = wire THEN pressed ELSE pressed \cup {k}
      /\ UNCHANGED <<power, extendCount, keyBits>>
  BY DEF Press, Event, decoderVars
<1>2. wire \in Seq(Bytes) /\ extendCount \in 0 .. 2
  BY DEF KInv, TypeOK
<1>3. PICK e : Reads(wire, extendCount, 0, e, Seen) /\ (power = "awake" => Settles(keyBits, e, held))
  BY DEF KInv, WireRead
<1>4. Seen \subseteq Seen'
  BY <1>1 DEF Seen
<1>5. Reads(wire, extendCount, 0, e, Seen')
  BY <1>3, <1>4, ReadsKnown
<1>6. CASE power = "awake"
  <2>1. wire' = wire \o Codes(k, "make")
    BY <1>1, <1>6 DEF Send
  <2>2. k \in Seen \cup {k} /\ Reads(wire, extendCount, 0, e, Seen \cup {k})
    BY <1>3, ReadsKnown
  <2>3. PICK f : /\ Reads(wire \o Codes(k, "make"), extendCount, 0, f, Seen \cup {k})
                 /\ Adds(e, f, Packet("make", k)) /\ wire \o Codes(k, "make") # wire
    BY <1>2, <2>2, CodesRead
  <2>4. Seen' = Seen \cup {k}
    BY <1>1, <2>1, <2>3 DEF Seen
  <2>5. Settles(keyBits', f, held')
    <3> SUFFICES ASSUME NEW j \in (AllKeys \ Breakless) \ (held' \cup {ZeroKey})
                 PROVE  ~DownAfter(keyBits, f, j)
      BY <1>1 DEF Settles
    <3>1. j # k /\ ~DownAfter(keyBits, e, j)
      BY <1>1, <1>3, <1>6 DEF Settles
    <3>2. Packet("make", k) # Packet("make", j)
      BY <3>1, PacketEquals
    <3>3. QED
      BY <2>3, <3>1, <3>2 DEF Adds
  <2>6. WireRead'
    BY <1>1, <2>1, <2>3, <2>4, <2>5 DEF WireRead
  <2>7. QED
    BY <1>1, <1>6, <2>6, EventKInv
<1>7. CASE power # "awake"
  <2>1. wire' = wire
    BY <1>1, <1>7 DEF Send
  <2>2. WireRead'
    BY <1>1, <1>5, <1>7, <2>1 DEF WireRead
  <2>3. QED
    BY <1>1, <2>1, <2>2, EventKInv
<1>8. QED
  BY <1>6, <1>7

LEMMA ReleaseKInv ==
    ASSUME KInv, TypeOK', Prompt, NEW k \in Keys, Release(k)
    PROVE  KInv'
<1>1. /\ Event /\ held' = held \ {k}
      /\ UNCHANGED <<pressed, power, extendCount, keyBits>>
  BY DEF Release, Event, decoderVars
<1>2. wire \in Seq(Bytes) /\ extendCount \in 0 .. 2
  BY DEF KInv, TypeOK
<1>3. PICK e : Reads(wire, extendCount, 0, e, Seen) /\ (power = "awake" => Settles(keyBits, e, held))
  BY DEF KInv, WireRead
<1>4. Seen' = Seen
  BY <1>1 DEF Seen
<1>5. CASE k \in Breakless
  <2>1. wire' = wire
    BY <1>5 DEF Release
  <2>2. power = "awake" => Settles(keyBits, e, held')
    BY <1>1, <1>3, <1>5 DEF Settles
  <2>3. WireRead'
    BY <1>1, <1>3, <1>4, <2>1, <2>2 DEF WireRead
  <2>4. QED
    BY <1>1, <2>1, <2>3, EventKInv
<1>6. CASE k \notin Breakless /\ power = "awake"
  <2>1. wire' = wire \o Codes(k, "break")
    BY <1>6 DEF Release, Send
  <2>2. PICK f : /\ Reads(wire \o Codes(k, "break"), extendCount, 0, f, Seen)
                 /\ Adds(e, f, Packet("break", k))
    BY <1>2, <1>3, CodesRead
  <2>3. Settles(keyBits', f, held')
    <3> SUFFICES ASSUME NEW j \in (AllKeys \ Breakless) \ (held' \cup {ZeroKey})
                 PROVE  ~DownAfter(keyBits, f, j)
      BY <1>1 DEF Settles
    <3>1. Packet("break", k) # Packet("make", j) /\ (j = k \/ j \notin held)
      BY <1>1, PacketEquals
    <3>2. j # k => ~DownAfter(keyBits, e, j)
      BY <1>3, <1>6, <3>1 DEF Settles
    <3>3. QED
      BY <2>2, <3>1, <3>2 DEF Adds
  <2>4. WireRead'
    BY <1>1, <1>4, <2>1, <2>2, <2>3 DEF WireRead
  <2>5. QED
    BY <1>1, <1>6, <2>4, EventKInv
<1>7. CASE k \notin Breakless /\ power # "awake"
  <2>1. wire' = wire
    BY <1>7 DEF Release, Send
  <2>2. WireRead'
    BY <1>1, <1>3, <1>4, <1>7, <2>1 DEF WireRead
  <2>3. QED
    BY <1>1, <2>1, <2>2, EventKInv
<1>8. QED
  BY <1>5, <1>6, <1>7

LEMMA NoiseKInv ==
    ASSUME KInv, TypeOK', Noise
    PROVE  KInv'
<1>1. /\ Event /\ wire # <<>> /\ wire' = <<Byte("ack", "")>> \o wire
      /\ UNCHANGED <<held, pressed, power, extendCount, keyBits>>
  BY DEF Noise, Event, decoderVars
<1>2. wire \in Seq(Bytes) /\ extendCount \in 0 .. 2
  BY DEF KInv, TypeOK
<1>3. PICK e : Reads(wire, extendCount, 0, e, Seen) /\ (power = "awake" => Settles(keyBits, e, held))
  BY DEF KInv, WireRead
<1>4. PICK x \in Bytes : x = Byte("ack", "") /\ x.kind = "ack"
  BY ResetType DEF Byte
<1>5. Reads(<<x>> \o wire, extendCount, 0, <<NoEvent>> \o e, Seen)
  BY <1>2, <1>3, <1>4, ReadsNoise
<1>6. e \in Seq(KeyEvents)
  BY <1>3 DEF Reads
<1>7. power = "awake" => Settles(keyBits, <<NoEvent>> \o e, held)
  BY <1>3, <1>6, DownNoise DEF Settles
<1>8. Seen' = Seen
  BY <1>1 DEF Seen
<1>9. WireRead'
  BY <1>1, <1>4, <1>5, <1>7, <1>8 DEF WireRead
<1>10. power = "awake"
  BY <1>1 DEF KInv, Calm
<1>11. QED
  BY <1>1, <1>9, <1>10, EventKInv

LEMMA SelfResetKInv ==
    ASSUME KInv, TypeOK', Prompt, SelfReset
    PROVE  KInv'
<1>1. /\ Event /\ Send(<<SC_Reset, Zero>>)
      /\ UNCHANGED <<held, pressed, power, extendCount, keyBits>>
  BY DEF SelfReset, Event, decoderVars
<1>2. wire \in Seq(Bytes) /\ extendCount \in 0 .. 2 /\ ZeroKey \in Seen
  BY DEF KInv, TypeOK, Seen
<1>3. PICK e : Reads(wire, extendCount, 0, e, Seen) /\ (power = "awake" => Settles(keyBits, e, held))
  BY DEF KInv, WireRead
<1>4. Seen' = Seen
  BY <1>1 DEF Seen
<1>5. CASE power = "awake"
  <2>1. wire' = wire \o <<SC_Reset, Zero>>
    BY <1>1, <1>5 DEF Send
  <2>2. PICK f : /\ Reads(wire \o <<SC_Reset, Zero>>, extendCount, 0, f, Seen)
                 /\ \A S, j : DownAfter(S, f, j) => j = ZeroKey \/ DownAfter(S, e, j)
    BY <1>2, <1>3, ResetRead
  <2>3. Settles(keyBits, f, held)
    BY <1>3, <1>5, <2>2 DEF Settles
  <2>4. WireRead'
    BY <1>1, <1>4, <2>1, <2>2, <2>3 DEF WireRead
  <2>5. QED
    BY <1>1, <1>5, <2>4, EventKInv
<1>6. CASE power # "awake"
  <2>1. wire' = wire
    BY <1>1, <1>6 DEF Send
  <2>2. WireRead'
    BY <1>1, <1>3, <1>4, <2>1 DEF WireRead
  <2>3. QED
    BY <1>1, <2>1, <2>2, EventKInv
<1>7. QED
  BY <1>5, <1>6

LEMMA InterruptKInv ==
    ASSUME KInv, TypeOK', InterruptOccurred
    PROVE  KInv'
<1>1. /\ wire # <<>> /\ wire' = Tail(wire)
      /\ SpontaneousReset(Head(wire)) \/ Ignored(Head(wire)) \/ ExtendCode(Head(wire))
           \/ Useless(Head(wire)) \/ KeyCode(Head(wire))
      /\ UNCHANGED <<held, pressed, power, os>>
  BY DEF InterruptOccurred
<1>2. TypeOK /\ wire \in Seq(Bytes) /\ extendCount \in 0 .. 2 /\ power = "awake" /\ BitsAgree
  BY <1>1 DEF KInv, TypeOK, Calm
<1>3. PICK b \in Bytes : b = Head(wire)
  BY <1>1, <1>2
<1>4. PICK e : Reads(wire, extendCount, 0, e, Seen) /\ Settles(keyBits, e, held)
  BY <1>2 DEF KInv, WireRead
<1>5. PICK p : p = Decoded(extendCount, b)
  OBVIOUS
<1>6. /\ Reads(wire', NextContext(extendCount, b), 0, Tail(e), Seen) /\ e # <<>> /\ Head(e) = p
      /\ extendCount = 2 => b.kind = "ack" \/ b.code = "ctrl"
  BY <1>1, <1>2, <1>3, <1>4, <1>5, ReadsTail
<1>7. /\ extendCount' = NextContext(extendCount, b) /\ (lastReset' => extendCount' = 0)
      /\ Quietly(p) \/ Buffered(p) \/ AsReset(p)
  <2>1. lastReset => extendCount = 0
    BY DEF KInv, Calm
  <2>2. QED
    BY <1>1, <1>2, <1>3, <1>5, <1>6, <2>1, ByteEffect
<1>8. BitsAgree'
  BY <1>1, <1>2, <1>7, AgreeByte
<1>9. Calm'
  BY <1>1, <1>2, <1>7 DEF Calm
<1>10. Seen' = Seen
  BY <1>1 DEF Seen
<1>11. e \in Seq(KeyEvents) /\ OnlyMakes(e, Seen)
  BY <1>4 DEF Reads
<1>12. p.kind = "make" => p.key \in Seen
  BY <1>6, <1>11, MakesTail
<1>13. \A k \in (AllKeys \ Breakless) \ {ZeroKey} :
           k \in keyBits' <=> p = Packet("make", k) \/ (p # Packet("break", k) /\ k \in keyBits)
  <2>1. CASE Quietly(p) \/ Buffered(p)
    BY <2>1 DEF Quietly, Buffered, Tells
  <2>2. CASE AsReset(p)
    <3>1. \A k : k # ZeroKey => p # Packet("make", k) /\ p # Packet("break", k)
      BY <2>2, PacketEquals DEF AsReset
    <3>2. QED
      BY <2>2, <3>1 DEF AsReset
  <2>3. QED
    BY <1>7, <2>1, <2>2
<1>14. Settles(keyBits', Tail(e), held')
  <2> SUFFICES ASSUME NEW k \in (AllKeys \ Breakless) \ (held \cup {ZeroKey})
               PROVE  ~DownAfter(keyBits', Tail(e), k)
    BY <1>1 DEF Settles
  <2>1. ~DownAfter(keyBits, e, k)
    BY <1>4 DEF Settles
  <2>2. k \in keyBits' <=> Head(e) = Packet("make", k) \/ (Head(e) # Packet("break", k) /\ k \in keyBits)
    BY <1>6, <1>13
  <2>3. QED
    BY <1>6, <1>11, <2>1, <2>2, DownTail
<1>15. WireRead'
  BY <1>6, <1>7, <1>10, <1>14 DEF WireRead
<1>16. Known'
  <2>1. \A k : p = Packet("make", k) => k \in Seen
    BY <1>12, PacketEquals
  <2>2. keyBits' \subseteq Seen
    <3>1. keyBits' \subseteq AllKeys \ Breakless
      BY DEF TypeOK
    <3>2. keyBits \subseteq Seen /\ ZeroKey \in Seen
      BY DEF KInv, Known, Seen
    <3>3. QED
      BY <1>13, <2>1, <3>1, <3>2
  <2>3. OnlyMakes(ring', Seen)
    <3>1. OnlyMakes(ring, Seen)
      BY DEF KInv, Known
    <3>2. Packets \subseteq KeyEvents
      BY DEF Packets, KeyEvents
    <3>3. ring \in Seq(Packets)
      BY <1>2 DEF TypeOK
    <3>4. ring \in Seq(KeyEvents)
      BY <3>2, <3>3
    <3>5. CASE Quietly(p)
      BY <3>1, <3>5 DEF Quietly
    <3>6. CASE Buffered(p)
      BY <1>12, <3>1, <3>2, <3>4, <3>6, MakesAppend DEF Buffered, Buffer
    <3>7. CASE AsReset(p)
      <4>1. ResetPacket \in KeyEvents /\ ResetPacket.kind = "reset"
        BY <3>2, ResetTells, PacketEquals
      <4>2. QED
        BY <3>1, <3>4, <3>7, <4>1, MakesAppend DEF AsReset, Buffer
    <3>8. QED
      BY <1>7, <3>5, <3>6, <3>7
  <2>4. os' \subseteq Seen
    BY <1>1 DEF KInv, Known
  <2>5. QED
    BY <1>10, <2>2, <2>3, <2>4 DEF Known
<1>17. QED
  BY <1>8, <1>9, <1>15, <1>16 DEF KInv

LEMMA PacketReadyKInv ==
    ASSUME KInv, TypeOK', PacketReady
    PROVE  KInv'
<1>1. /\ power # "waking" /\ ring # <<>> /\ os' = Dispatch(os, Head(ring)) /\ ring' = Tail(ring)
      /\ UNCHANGED <<held, wire, pressed, power, extendCount, lastReset, keyBits, dropped>>
  BY DEF PacketReady, keyboardVars, decoderVars
<1>2. BitsAgree'
  BY AgreePacketReady DEF KInv
<1>3. Calm' /\ WireRead' /\ Seen' = Seen
  BY <1>1 DEF KInv, Calm, WireRead, Seen
<1>4. Packets \subseteq KeyEvents
  BY DEF Packets, KeyEvents
<1>5. ring \in Seq(Packets)
  BY DEF KInv, TypeOK
<1>6. ring \in Seq(KeyEvents)
  BY <1>4, <1>5
<1>7. OnlyMakes(ring', Seen) /\ (Head(ring).kind = "make" => Head(ring).key \in Seen)
  BY <1>1, <1>6, MakesTail DEF KInv, Known
<1>8. os' \subseteq Seen
  BY <1>1, <1>7 DEF KInv, Known, Dispatch
<1>9. QED
  BY <1>1, <1>2, <1>3, <1>7, <1>8 DEF KInv, Known

LEMMA InitKeyboardKInv ==
    ASSUME KInv, TypeOK', InitKeyboard
    PROVE  KInv'
<1>1. /\ power = "waking" /\ os' = os \ keyBits /\ keyBits' = {} /\ ring' = <<>> /\ extendCount' = 0
      /\ power' = "awake" /\ UNCHANGED <<held, wire, pressed, lastReset, dropped>>
  BY DEF InitKeyboard, keyboardVars
<1>2. wire = <<>> /\ ring = <<>>
  BY <1>1 DEF KInv, Calm
<1>3. dropped = 0 => os' = {}
  <2>1. os \subseteq AllKeys \ Breakless
    BY DEF KInv, TypeOK
  <2>2. dropped = 0 => keyBits = {k \in AllKeys \ Breakless : k \in os}
    BY <1>2, DownNone DEF KInv, BitsAgree
  <2>3. QED
    BY <1>1, <2>1, <2>2
<1>4. \A k : ~DownAfter({}, <<>>, k)
  BY DownNone
<1>5. BitsAgree'
  BY <1>1, <1>3, <1>4 DEF BitsAgree
<1>6. Calm'
  BY <1>1 DEF Calm
<1>7. WireRead'
  BY <1>1, <1>2, <1>4, NoneReads DEF WireRead, Settles
<1>8. Known'
  BY <1>1 DEF KInv, Known, Seen, OnlyMakes
<1>9. QED
  BY <1>5, <1>6, <1>7, <1>8 DEF KInv

LEMMA NextKInv ==
    ASSUME Prompt
    PROVE  KInv /\ [Next]_vars => KInv'
<1> SUFFICES ASSUME KInv, [Next]_vars PROVE KInv'
  OBVIOUS
<1>1. TypeOK'
  BY NextTypeOK DEF KInv
<1>2. CASE DisableDevice \/ WakeBegins
  <2>1. /\ wire = <<>> /\ power' # "awake"
        /\ UNCHANGED <<held, wire, pressed, extendCount, lastReset, keyBits, ring, os, dropped>>
    BY <1>2 DEF DisableDevice, WakeBegins, KInv, Calm, keyboardVars, decoderVars
  <2>2. Calm'
    BY <1>2, <2>1 DEF DisableDevice, WakeBegins, KInv, Calm
  <2>3. BitsAgree' /\ Known'
    BY <2>1 DEF KInv, BitsAgree, Known, Seen
  <2>4. WireRead'
    BY <2>1 DEF KInv, WireRead, Seen
  <2>5. QED
    BY <1>1, <2>2, <2>3, <2>4 DEF KInv
<1>3. CASE UNCHANGED vars
  <2>1. UNCHANGED <<held, wire, pressed, power, extendCount, lastReset, keyBits, ring, os, dropped>>
    BY <1>3 DEF vars, keyboardVars, decoderVars
  <2>2. QED
    BY <1>1, <2>1 DEF KInv, Calm, BitsAgree, Known, WireRead, Seen
<1>4. QED
  BY <1>1, <1>2, <1>3, PressKInv, ReleaseKInv, NoiseKInv, SelfResetKInv, InterruptKInv,
     PacketReadyKInv, InitKeyboardKInv DEF Next

LEMMA KeyboardInvariance ==
    ASSUME Prompt
    PROVE  Spec => []KInv
<1>1. KInv /\ [Next]_vars => KInv'
  BY NextKInv
<1>2. QED
  BY <1>1, InitKInv, PTL DEF Spec

(* The key bit vector that filters repeats (interruptOccurred) never       *)
(* disagrees with what the HID system will believe of a key once           *)
(* packetReady has told it all that is buffered, through sleep, wake and   *)
(* initKeyboard, as long as no packet is lost and wakes are prompt.        *)
THEOREM BitsAgreeHolds == Prompt => (Spec => []BitsAgree)
<1> SUFFICES ASSUME Prompt PROVE Spec => []BitsAgree
  OBVIOUS
<1>1. KInv => BitsAgree
  BY DEF KInv
<1>2. QED
  BY <1>1, KeyboardInvariance, PTL

(* Under the same condition no key is down that was not pressed, whatever  *)
(* acknowledges came between the bytes of a sequence, and a key that is    *)
(* not held is up once all is dealt with.                                  *)
THEOREM DownMeansHeldHolds == Prompt => (Spec => []DownMeansHeld)
<1> SUFFICES ASSUME Prompt PROVE Spec => []DownMeansHeld
  OBVIOUS
<1>1. KInv => OnlyPressed
  BY DEF KInv, Known, Seen, ZeroKey, OnlyPressed
<1>2. KInv => NothingStuck
  <2> SUFFICES ASSUME KInv, wire = <<>>, ring = <<>>, power = "awake", dropped = 0
               PROVE  os \subseteq held \cup {ZeroKey}
    BY DEF NothingStuck, ZeroKey
  <2>1. os \subseteq AllKeys \ Breakless /\ extendCount \in 0 .. 2
    BY DEF KInv, TypeOK
  <2>2. keyBits = {k \in AllKeys \ Breakless : k \in os}
    BY DownNone DEF KInv, BitsAgree
  <2>3. PICK e : Reads(<<>>, extendCount, 0, e, Seen) /\ Settles(keyBits, e, held)
    BY DEF KInv, WireRead
  <2>4. e = <<>>
    BY <2>1, <2>3, ReadsNone
  <2>5. \A j \in (AllKeys \ Breakless) \ (held \cup {ZeroKey}) : j \notin keyBits
    BY <2>3, <2>4, DownNone DEF Settles
  <2>6. QED
    BY <2>1, <2>2, <2>5
<1>3. KInv => DownMeansHeld
  BY <1>1, <1>2 DEF DownMeansHeld
<1>4. QED
  BY <1>3, KeyboardInvariance, PTL

=============================================================================

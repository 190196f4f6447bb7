-------------------------- MODULE AlpsPacketProofs --------------------------
(***************************************************************************)
(* Proofs about AlpsPacket, for any pad, any size of the packets and of    *)
(* the ring buffer and any number of packets and of late bytes.            *)
(***************************************************************************)
EXTENDS AlpsPacket, SequenceTheorems, TLAPS

Byte == [no : Nat, kind : Kinds]
Parts == {"single", "first", "second", "stick"}
Sent == [from : Nat, size : {3, P}, good : BOOLEAN, late : BOOLEAN, misled : BOOLEAN]
Entry == [bytes : [0 .. P - 1 -> Byte], as : Parts, late : BOOLEAN]
Addresses == 0 .. (N + 1) * P - 1

Pad ==
    [kinds : SUBSET Kinds, first : SUBSET Kinds, bare : SUBSET Kinds,
     wrong : [1 .. P - 1 -> SUBSET Kinds], stuffed : SUBSET Kinds,
     normal : [0 .. P - 1 -> Kinds], parts : SUBSET Parts, keeps : BOOLEAN]

-----------------------------------------------------------------------------
(* The inductive invariant.  The slot before the head holds the packet that*)
(* came last.                                                              *)
At(slot, i) == Packet(buffer, slot, i)
Prev(h) == IF h = 0 THEN N - 1 ELSE h - 1
Current == Len(sent)

Types ==
    /\ pad \in Pads /\ pad \in Pad
    /\ sent \in Seq(Sent) /\ Len(sent) <= MaxPackets
    /\ came \in Nat /\ odd \in 0 .. MaxOdd /\ late \in BOOLEAN
    /\ buffer \in [Addresses -> Byte]
    /\ head \in 0 .. N - 1 /\ tail \in 0 .. N - 1
    /\ byteCount \in 0 .. (N + 1) * P
    /\ badData \in BOOLEAN /\ signalled \in BOOLEAN
    /\ loop \in {"wait", "test", "handle", "reset", "advance"}
    /\ handled \in Seq(Entry)
    /\ multi \in 0 .. Len(handled)

Phases ==
    /\ loop \in {"handle", "reset", "advance"} => Count >= 1
    /\ loop = "wait" /\ Count >= 1 => signalled
    /\ ~late => Unhandled <= 1 /\ byteCount <= P

(* With nothing to be handled, the bytes at the head are the last ones that*)
(* came, and the tests have let them pass, all but the last.               *)
Assembly ==
    Unhandled = 0 =>
        /\ byteCount < P /\ byteCount <= came
        /\ \A i \in 0 .. byteCount - 1 : At(head, i).no = came - byteCount + 1 + i
        /\ byteCount > 0 /\ Bare(buffer) => byteCount <= 3
        /\ byteCount > 0 /\ ~Bare(buffer) =>
              /\ Passes(0, At(head, 0).kind)
              /\ \A i \in 1 .. byteCount - 2 : Passes(i, At(head, i).kind)

(* A packet that waits is a whole one, unless a byte came late. *)
Waiting ==
    Unhandled = 1 /\ ~late /\ ~badData =>
        \A i \in 0 .. P - 1 :
            At(Prev(head), i).no + P = came + 1 + i /\ Passes(i, At(Prev(head), i).kind)

AInv == Types /\ Phases /\ Assembly /\ Waiting /\ WholeAndValid

-----------------------------------------------------------------------------
(* The ring buffer. *)
LEMMA Sizes == N \in Nat /\ N >= 3 /\ P \in Nat /\ P >= 5
BY SizesAssumption

LEMMA Product ==
    ASSUME NEW h \in 0 .. N - 1
    PROVE  h * P \in Nat /\ (N + 1) * P \in Nat /\ h * P + P <= (N + 1) * P
<1>1. h + 1 <= N + 1 /\ h \in Nat
  BY Sizes
<1>2. (h + 1) * P <= (N + 1) * P
  BY <1>1, Sizes, Z3
<1>3. (h + 1) * P = h * P + P
  BY <1>1, Sizes
<1>4. h * P \in Nat /\ (N + 1) * P \in Nat
  BY <1>1, Sizes
<1>5. QED
  BY <1>2, <1>3, <1>4

LEMMA CountFacts ==
    ASSUME Types
    PROVE  Count \in 0 .. N - 1 /\ (Count = 0 <=> head = tail)
BY Sizes DEF Types, Count

LEMMA UnhandledFacts ==
    ASSUME Types, Phases
    PROVE  /\ Unhandled \in Nat /\ Unhandled <= N - 1
           /\ loop # "advance" => Unhandled = Count
           /\ loop = "advance" => Unhandled = Count - 1 /\ Unhandled <= N - 2
BY CountFacts, Sizes DEF Phases, Unhandled

LEMMA Wraps ==
    ASSUME NEW t \in 0 .. N - 1
    PROVE  /\ (t + 1) % N \in 0 .. N - 1 /\ (t + 1) % N # t
           /\ t + 1 < N => (t + 1) % N = t + 1
           /\ t = N - 1 => (t + 1) % N = 0
BY Sizes

(* The head goes on, unless the buffer is full. *)
LEMMA HeadAdvances ==
    ASSUME Types, AdvanceHead, tail' = tail
    PROVE  /\ head' \in 0 .. N - 1
           /\ Count # N - 1 => Count' = Count + 1 /\ Prev(head') = head
           /\ Count = N - 1 => Count' = Count
<1>1. head \in 0 .. N - 1 /\ tail \in 0 .. N - 1
  BY DEF Types
<1>2. CASE Count = N - 1
  <2>1. head' = head
    BY <1>2 DEF AdvanceHead
  <2>2. QED
    BY <1>1, <1>2, <2>1 DEF Count
<1>3. CASE Count # N - 1
  <2>1. head' = (head + 1) % N
    BY <1>3 DEF AdvanceHead
  <2>2. CASE head = N - 1
    <3>1. head' = 0
      BY <1>1, <2>1, <2>2, Wraps
    <3>2. QED
      BY <1>1, <1>3, <2>2, <3>1, Sizes DEF Count, Prev
  <2>3. CASE head # N - 1
    <3>0. head + 1 < N
      BY <1>1, <2>3, Sizes
    <3>1. head' = head + 1
      BY <1>1, <2>1, <3>0, Wraps
    <3>2. QED
      BY <1>1, <1>3, <2>3, <3>1, Sizes DEF Count, Prev
  <2>4. QED
    BY <2>2, <2>3
<1>4. QED
  BY <1>2, <1>3

LEMMA TailAdvances ==
    ASSUME Types, Count >= 1, head' = head, tail' = (tail + 1) % N
    PROVE  tail' \in 0 .. N - 1 /\ Count' = Count - 1
<1>1. head \in 0 .. N - 1 /\ tail \in 0 .. N - 1 /\ head # tail
  BY CountFacts DEF Types
<1>2. CASE tail = N - 1
  <2>1. tail' = 0
    BY <1>1, <1>2, Wraps
  <2>2. QED
    BY <1>1, <1>2, <2>1, Sizes DEF Count
<1>3. CASE tail # N - 1
  <2>0. tail + 1 < N
    BY <1>1, <1>3, Sizes
  <2>1. tail' = tail + 1
    BY <1>1, <2>0, Wraps
  <2>2. QED
    BY <1>1, <1>3, <2>1, Sizes DEF Count
<1>4. QED
  BY <1>2, <1>3

(* A packet that is the only one is at the tail. *)
LEMMA OnlyPacket ==
    ASSUME Types, Count = 1
    PROVE  tail = Prev(head)
BY Sizes DEF Types, Count, Prev

-----------------------------------------------------------------------------
(* A test that looks at bytes stored before fails. *)
Failed ==
    \/ byteCount >= 4 /\ At(head, 3).kind \in pad.stuffed
    \/ /\ byteCount >= 2 /\ byteCount <= P
       /\ At(head, byteCount - 1).kind \in pad.wrong[byteCount - 1]

FirstStored(data) == IF byteCount = 0 THEN data ELSE At(head, 0)

Rejects ==
    badData' = TRUE /\ signalled' = TRUE /\ byteCount' = byteCount /\ AdvanceHead

Takes(data) ==
    /\ badData' = FALSE /\ byteCount' = byteCount + 1
    /\ \A i \in 0 .. byteCount :
          Packet(buffer', head, i) = IF i = byteCount THEN data ELSE At(head, i)

Stays == head' = head /\ signalled' = signalled

(* What interruptOccurred does with a byte. *)
LEMMA InterruptCases ==
    ASSUME Types, NEW data \in Byte, InterruptOccurred(data)
    PROVE  /\ UNCHANGED <<tail, loop, multi, handled, frames>>
           /\ buffer' \in [Addresses -> Byte]
           /\ badData' \in BOOLEAN /\ signalled' \in BOOLEAN
           /\ byteCount' \in 0 .. (N + 1) * P
           /\ \/ /\ Rejects
                 /\ \/ FirstStored(data).kind \in pad.bare /\ byteCount = 3
                    \/ /\ FirstStored(data).kind \notin pad.bare
                       /\ FirstStored(data).kind \notin pad.first \/ Failed
              \/ Takes(data) /\ Stays /\ FirstStored(data).kind \in pad.bare /\ byteCount # 3
              \/ /\ Takes(data)
                 /\ FirstStored(data).kind \in pad.first \ pad.bare /\ ~Failed
                 /\ IF byteCount + 1 = P THEN AdvanceHead /\ signalled' = TRUE ELSE Stays
<1> DEFINE b == Saved(data)
<1>1. /\ head \in 0 .. N - 1 /\ byteCount \in 0 .. (N + 1) * P
      /\ buffer \in [Addresses -> Byte] /\ signalled \in BOOLEAN
      /\ head * P + byteCount \in Addresses
  BY DEF Types, InterruptOccurred, Addresses
<1>2. head * P \in Nat /\ (N + 1) * P \in Nat /\ head * P + P <= (N + 1) * P
  BY <1>1, Product
<1>3. PICK base \in Nat : base = head * P
  BY <1>2
<1>4. PICK room \in Nat : room = (N + 1) * P
  BY <1>2
<1>5. /\ Addresses = 0 .. room - 1 /\ byteCount \in Nat /\ base + byteCount <= room - 1
      /\ base + P <= room
  BY <1>1, <1>2, <1>3, <1>4 DEF Addresses
<1>6. b \in [Addresses -> Byte]
  BY <1>1, <1>3, <1>5, Sizes DEF Saved
<1>7. \A i \in 1 .. byteCount : Packet(b, head, i) = At(head, i)
  BY <1>1, <1>3, <1>5 DEF Packet, Saved, At
<1>8. Packet(b, head, 0) = FirstStored(data)
  BY <1>1, <1>3, <1>5 DEF Packet, Saved, FirstStored, At
<1>9. Bare(b) <=> FirstStored(data).kind \in pad.bare
  BY <1>8 DEF Bare
<1>10. Invalid(b) <=> FirstStored(data).kind \notin pad.first \/ Failed
  <2>1. byteCount >= 4 => Packet(b, head, 3) = At(head, 3)
    BY <1>5, <1>7
  <2>2. byteCount >= 2 => Packet(b, head, byteCount - 1) = At(head, byteCount - 1)
    BY <1>5, <1>7
  <2>3. QED
    BY <1>8, <2>1, <2>2, Zenon DEF Invalid, Failed
<1>11. UNCHANGED <<tail, loop, multi, handled, frames>>
  BY DEF InterruptOccurred, decoderVars
<1>12. ASSUME Reject, buffer' = b
       PROVE  /\ Rejects /\ buffer' \in [Addresses -> Byte]
              /\ badData' \in BOOLEAN /\ signalled' \in BOOLEAN
              /\ byteCount' \in 0 .. (N + 1) * P
  BY <1>1, <1>6, <1>12 DEF Reject, Rejects
<1>13. ASSUME NEW last \in Nat, Accept(b, data, last)
       PROVE  /\ Takes(data) /\ buffer' \in [Addresses -> Byte]
              /\ badData' \in BOOLEAN /\ signalled' \in BOOLEAN
              /\ byteCount' \in 0 .. (N + 1) * P
              /\ IF byteCount + 1 = last THEN AdvanceHead /\ signalled' = TRUE ELSE Stays
  <2>1. buffer' = [b EXCEPT ![base + byteCount] = data]
    BY <1>3, <1>13 DEF Accept, Store
  <2>2. buffer' \in [Addresses -> Byte]
    BY <1>5, <1>6, <2>1
  <2>3. ASSUME NEW i \in 0 .. byteCount
        PROVE  Packet(buffer', head, i) = IF i = byteCount THEN data ELSE At(head, i)
    <3>1. base + i \in Addresses /\ base + byteCount \in Addresses
      BY <1>5
    <3>2. i # byteCount => base + i # base + byteCount
      BY <1>5
    <3>3. buffer'[base + i] = IF i = byteCount THEN data ELSE b[base + i]
      BY <1>6, <2>1, <3>1, <3>2
    <3>4. i # byteCount => b[base + i] = buffer[base + i]
      BY <1>1, <1>3, <1>5, <3>1 DEF Saved
    <3>5. QED
      BY <1>3, <3>3, <3>4 DEF Packet, At
  <2>4. badData' = FALSE /\ byteCount' = byteCount + 1
    BY <1>13 DEF Accept
  <2>5. Takes(data)
    BY <2>3, <2>4 DEF Takes
  <2>6. byteCount' \in 0 .. (N + 1) * P
    BY <1>4, <1>5, <2>4
  <2>7. QED
    BY <1>1, <1>13, <2>2, <2>4, <2>5, <2>6 DEF Accept, Stays
<1>14. IF Bare(b)
       THEN IF byteCount = 3 THEN Reject /\ buffer' = b ELSE Accept(b, data, 0)
       ELSE IF Invalid(b) THEN Reject /\ buffer' = b ELSE Accept(b, data, P)
  BY DEF InterruptOccurred
<1> HIDE DEF b
<1>15. CASE Bare(b) /\ byteCount = 3
  <2>1. Reject /\ buffer' = b
    BY <1>14, <1>15
  <2>2. QED
    BY <1>9, <1>11, <1>12, <1>15, <2>1
<1>16. CASE Bare(b) /\ byteCount # 3
  <2>1. Accept(b, data, 0) /\ 0 \in Nat /\ byteCount + 1 # 0
    BY <1>5, <1>14, <1>16
  <2>2. QED
    BY <1>9, <1>11, <1>13, <1>16, <2>1
<1>17. CASE ~Bare(b) /\ Invalid(b)
  <2>1. Reject /\ buffer' = b
    BY <1>14, <1>17
  <2>2. QED
    BY <1>9, <1>10, <1>11, <1>12, <1>17, <2>1
<1>18. CASE ~Bare(b) /\ ~Invalid(b)
  <2>1. Accept(b, data, P) /\ P \in Nat
    BY <1>14, <1>18, Sizes
  <2>2. QED
    BY <1>9, <1>10, <1>11, <1>13, <1>18, <2>1
<1>19. QED
  BY <1>15, <1>16, <1>17, <1>18

-----------------------------------------------------------------------------
(* A byte that comes begins a packet or belongs to the current one.        *)
Arrives(data) ==
    /\ InterruptOccurred(data)
    /\ data \in Byte /\ data.no = came + 1
    /\ came' = came + 1 /\ odd' \in 0 .. MaxOdd /\ late' = Late /\ pad' = pad

(* Packets that have come remain as they are, but that one can be late. *)
Same(s, t) ==
    /\ s.from = t.from /\ s.size = t.size /\ s.good = t.good /\ s.misled = t.misled

Begins(data) ==
    /\ Complete /\ Current < MaxPackets
    /\ sent' \in Seq(Sent) /\ Current' = Current + 1
    /\ \A n \in 1 .. Current :
          /\ Same(sent'[n], sent[n])
          /\ sent'[n].late = (sent[n].late \/ (n = Current /\ Late))
    /\ LET s == sent'[Current + 1]
       IN  /\ s.from = came + 1 /\ s.late = Late /\ s.misled = FALSE
           /\ s.good = (s.size = P /\ Passes(0, data.kind))

Goes(data) ==
    /\ ~Complete /\ Current >= 1
    /\ sent' \in Seq(Sent) /\ Current' = Current
    /\ \A n \in 1 .. Current : n # Current => sent'[n] = sent[n]
    /\ LET s == sent[Current]
           t == sent'[Current]
       IN  /\ t.from = s.from /\ t.size = s.size
           /\ t.good = (s.good /\ Passes(came + 1 - s.from, data.kind))
           /\ t.late = (s.late \/ Late)
           /\ t.misled = (s.misled \/ Misleads(data.kind))

LEMMA LateFacts ==
    ASSUME Types
    PROVE  Late \in BOOLEAN
BY DEF Types, Late

LEMMA MarkLateFacts ==
    ASSUME Types
    PROVE  /\ MarkLate(sent) \in Seq(Sent) /\ Len(MarkLate(sent)) = Len(sent)
           /\ \A n \in 1 .. Current :
                 /\ Same(MarkLate(sent)[n], sent[n])
                 /\ MarkLate(sent)[n].late = (sent[n].late \/ (n = Current /\ Late))
<1>1. sent \in Seq(Sent) /\ Len(sent) \in Nat
  BY DEF Types
<1>2. \A n \in 1 .. Len(sent) : sent[n] \in Sent
  BY <1>1
<1>3. CASE sent = <<>>
  BY <1>1, <1>3 DEF MarkLate, Current
<1>4. CASE sent # <<>> /\ ~Late
  <2>1. MarkLate(sent) = sent
    BY <1>4 DEF MarkLate
  <2>2. \A n \in 1 .. Len(sent) : sent[n].late \in BOOLEAN
    BY <1>2 DEF Sent
  <2>3. QED
    BY <1>1, <1>4, <2>1, <2>2 DEF Current, Same
<1>5. CASE sent # <<>> /\ Late
  <2> DEFINE t == [sent[Len(sent)] EXCEPT !.late = TRUE]
  <2>1. Len(sent) \in 1 .. Len(sent)
    BY <1>1, <1>5
  <2>2. MarkLate(sent) = [sent EXCEPT ![Len(sent)] = t]
    BY <1>5 DEF MarkLate
  <2>3. sent[Len(sent)] \in Sent
    BY <1>2, <2>1
  <2>4. t \in Sent /\ t.late = TRUE /\ Same(t, sent[Len(sent)])
    BY <2>3 DEF Sent, Same
  <2> HIDE DEF t
  <2>5. MarkLate(sent) \in Seq(Sent) /\ Len(MarkLate(sent)) = Len(sent)
    BY <1>1, <2>1, <2>2, <2>4
  <2>6. MarkLate(sent)[Len(sent)] = t
    BY <1>1, <2>1, <2>2
  <2>7. ASSUME NEW n \in 1 .. Len(sent), n # Len(sent) PROVE MarkLate(sent)[n] = sent[n]
    BY <1>1, <2>2, <2>7
  <2>8. \A n \in 1 .. Len(sent) : sent[n].late \in BOOLEAN
    BY <1>2 DEF Sent
  <2>9. QED
    BY <1>1, <1>5, <2>4, <2>5, <2>6, <2>7, <2>8 DEF Current, Same
<1>6. QED
  BY <1>3, <1>4, <1>5

LEMMA BeginCase ==
    ASSUME Types, NEW size \in {3, P}, NEW kind \in Kinds, NEW usual,
           BeginPacket(size, kind, usual)
    PROVE  \E data \in Byte : Arrives(data) /\ Begins(data)
<1> DEFINE data == [no |-> came + 1, kind |-> kind]
           s == [from |-> came + 1, size |-> size, good |-> size = P /\ Passes(0, kind),
                 late |-> Late, misled |-> FALSE]
<1>1. data \in Byte /\ data.no = came + 1 /\ data.kind = kind
  BY DEF Types, Byte
<1>2. odd \in Nat /\ odd' <= MaxOdd /\ MaxOdd \in Nat
  BY BoundsAssumption DEF Types, BeginPacket, Comes
<1>3. odd' \in 0 .. MaxOdd
  <2>1. odd' = odd \/ odd' = odd + 1
    BY DEF BeginPacket, Comes
  <2>2. QED
    BY <1>2, <2>1
<1>4. Arrives(data)
  BY <1>1, <1>3 DEF BeginPacket, Comes, Arrives
<1>5. s \in Sent
  <2>1. (size = P /\ Passes(0, kind)) \in BOOLEAN
    OBVIOUS
  <2>2. came + 1 \in Nat /\ Late \in BOOLEAN
    BY LateFacts DEF Types
  <2>3. QED
    BY <2>1, <2>2 DEF Sent
<1>6. sent' = Append(MarkLate(sent), s) /\ Complete /\ Current < MaxPackets
  BY DEF BeginPacket, Current
<1>7. /\ s.from = came + 1 /\ s.late = Late /\ s.misled = FALSE
      /\ s.good = (s.size = P /\ Passes(0, data.kind))
  BY <1>1
<1> HIDE DEF data, s
<1>8. /\ sent' \in Seq(Sent) /\ Len(sent') = Len(sent) + 1
      /\ sent'[Len(sent) + 1] = s /\ \A n \in 1 .. Len(sent) : sent'[n] = MarkLate(sent)[n]
  BY <1>5, <1>6, MarkLateFacts, AppendProperties
<1>9. Begins(data)
  BY <1>6, <1>7, <1>8, MarkLateFacts DEF Begins, Current
<1>10. QED
  BY <1>1, <1>4, <1>9

LEMMA LaterCase ==
    ASSUME Types, LaterByte
    PROVE  \E data \in Byte : Arrives(data) /\ Goes(data)
<1> DEFINE n == Len(sent)
           i == came + 1 - sent[n].from
<1>1. PICK kind \in pad.kinds :
         /\ Comes(kind, IF Size(n) = P THEN pad.normal[i] ELSE "plain")
         /\ sent' = [sent EXCEPT
               ![n].good = @ /\ Passes(i, kind),
               ![n].late = @ \/ Late,
               ![n].misled = @ \/ Misleads(kind)]
  BY DEF LaterByte
<1>2. kind \in Kinds
  BY DEF Types, Pad
<1> DEFINE data == [no |-> came + 1, kind |-> kind]
           s == sent[n]
           t == [s EXCEPT !.good = @ /\ Passes(i, kind), !.late = @ \/ Late,
                          !.misled = @ \/ Misleads(kind)]
<1>3. data \in Byte /\ data.no = came + 1 /\ data.kind = kind
  BY <1>2 DEF Types, Byte
<1>4. odd' \in 0 .. MaxOdd
  <2>1. odd' = odd \/ odd' = odd + 1
    BY <1>1 DEF Comes
  <2>2. QED
    BY <1>1, <2>1, BoundsAssumption DEF Types, Comes
<1>5. pad' = pad /\ ~Complete
  BY DEF LaterByte
<1>6. Arrives(data)
  BY <1>1, <1>3, <1>4, <1>5 DEF Comes, Arrives
<1>7. sent \in Seq(Sent) /\ n \in 1 .. Len(sent) /\ Len(sent) \in Nat
  BY <1>5 DEF Types, Complete
<1>8. s \in Sent
  BY <1>7
<1>9. sent' = [sent EXCEPT ![n] = t]
  BY <1>1, <1>7
<1>10. /\ t.from = s.from /\ t.size = s.size /\ t.good = (s.good /\ Passes(i, kind))
       /\ t.late = (s.late \/ Late) /\ t.misled = (s.misled \/ Misleads(kind))
  BY <1>8 DEF Sent
<1>11. t \in Sent
  <2>1. s.good \in BOOLEAN /\ s.late \in BOOLEAN /\ s.misled \in BOOLEAN
    BY <1>8 DEF Sent
  <2>2. /\ (s.good /\ Passes(i, kind)) \in BOOLEAN /\ (s.late \/ Late) \in BOOLEAN
        /\ (s.misled \/ Misleads(kind)) \in BOOLEAN
    BY <2>1
  <2>3. QED
    BY <1>8, <2>2 DEF Sent
<1> HIDE DEF t, data
<1>12. /\ sent' \in Seq(Sent) /\ Len(sent') = Len(sent)
       /\ sent'[n] = t /\ \A k \in 1 .. Len(sent) : k # n => sent'[k] = sent[k]
  BY <1>7, <1>9, <1>11
<1>13. Goes(data)
  BY <1>3, <1>5, <1>7, <1>10, <1>12 DEF Goes, Current
<1>14. QED
  BY <1>3, <1>6, <1>13

LEMMA ByteCases ==
    ASSUME Types, ByteComes
    PROVE  \E data \in Byte : Arrives(data) /\ (Begins(data) \/ Goes(data))
<1>1. pad \in Pad /\ pad.kinds \subseteq Kinds /\ BareFirst \subseteq Kinds
  BY DEF Types, Pad, BareFirst
<1>2. CASE OwnPacket
  <2>1. PICK kind \in pad.kinds : BeginPacket(P, kind, pad.normal[0])
    BY <1>2 DEF OwnPacket
  <2>2. kind \in Kinds /\ P \in {3, P}
    BY <1>1
  <2>3. QED
    BY <2>1, <2>2, BeginCase
<1>3. CASE BarePacket
  <2>1. PICK kind \in BareFirst : BeginPacket(3, kind, kind)
    BY <1>3 DEF BarePacket
  <2>2. kind \in Kinds /\ 3 \in {3, P}
    BY <1>1
  <2>3. QED
    BY <2>1, <2>2, BeginCase
<1>4. CASE LaterByte
  BY <1>4, LaterCase
<1>5. QED
  BY <1>2, <1>3, <1>4 DEF ByteComes

-----------------------------------------------------------------------------
(* A byte that comes. *)
LEMMA ArrivesTypes ==
    ASSUME Types, NEW data \in Byte, Arrives(data), Begins(data) \/ Goes(data)
    PROVE  Types'
<1>1. /\ came' = came + 1 /\ odd' \in 0 .. MaxOdd /\ late' = Late /\ pad' = pad
      /\ InterruptOccurred(data)
  BY DEF Arrives
<1>2. /\ UNCHANGED <<tail, loop, multi, handled, frames>>
      /\ buffer' \in [Addresses -> Byte]
      /\ badData' \in BOOLEAN /\ signalled' \in BOOLEAN
      /\ byteCount' \in 0 .. (N + 1) * P
  BY <1>1, InterruptCases
<1>3. head' \in 0 .. N - 1
  <2>1. head' = head \/ AdvanceHead
    BY <1>1, InterruptCases DEF Rejects, Stays
  <2>2. QED
    BY <1>2, <2>1, HeadAdvances DEF Types
<1>4. sent' \in Seq(Sent) /\ Len(sent') <= MaxPackets
  BY BoundsAssumption DEF Types, Begins, Goes, Current
<1>5. late' \in BOOLEAN /\ came' \in Nat
  BY <1>1, LateFacts DEF Types
<1>6. QED
  BY <1>1, <1>2, <1>3, <1>4, <1>5 DEF Types

(* What it does to the packets that wait. *)
LEMMA ArrivesUnhandled ==
    ASSUME Types, Phases, NEW data \in Byte, Arrives(data), Types'
    PROVE  /\ tail' = tail /\ loop' = loop
           /\ ~late' => ~late /\ Unhandled = 0
           /\ Count \in Nat /\ Count' \in Nat /\ Count' >= Count /\ Unhandled \in Nat
           /\ Unhandled > 0 => Unhandled' > 0
           /\ AdvanceHead /\ Unhandled = 0 => Unhandled' = 1 /\ Prev(head') = head
           /\ Stays => Unhandled' = Unhandled /\ Count' = Count
<1>1. tail' = tail /\ loop' = loop /\ (AdvanceHead \/ Stays)
  BY InterruptCases DEF Arrives, Rejects
<1>2. Unhandled \in Nat /\ (~late' => ~late /\ Unhandled = 0)
  <2>1. late' = Late /\ Unhandled \in Nat
    BY UnhandledFacts DEF Arrives
  <2>2. ~Late => ~late /\ Unhandled = 0
    BY <2>1 DEF Late
  <2>3. QED
    BY <2>1, <2>2
<1>3. /\ Count \in 0 .. N - 1
      /\ Unhandled = IF loop = "advance" THEN Count - 1 ELSE Count
      /\ Unhandled' = IF loop = "advance" THEN Count' - 1 ELSE Count'
      /\ loop = "advance" => Count >= 1
  BY <1>1, CountFacts DEF Unhandled, Phases
<1>4. CASE Stays
  <2>1. Count' = Count
    BY <1>1, <1>4 DEF Count, Stays
  <2>2. Count \in Int /\ N \in Int
    BY <1>3, Sizes
  <2>3. ASSUME AdvanceHead PROVE Unhandled # 0
    <3>1. head' = head
      BY <1>4 DEF Stays
    <3>2. Count = N - 1
      <4>1. SUFFICES ASSUME Count # N - 1 PROVE FALSE
        OBVIOUS
      <4>2. Count' = Count + 1
        BY <1>1, <2>3, <4>1, HeadAdvances
      <4>3. QED
        BY <2>1, <2>2, <4>2
    <3>3. QED
      BY <1>3, <3>2, Sizes
  <2>4. QED
    BY <1>1, <1>2, <1>3, <2>1, <2>3
<1>5. CASE AdvanceHead /\ ~Stays
  <2>1. /\ Count # N - 1 => Count' = Count + 1 /\ Prev(head') = head
        /\ Count = N - 1 => Count' = Count
    BY <1>1, <1>5, HeadAdvances
  <2>2. CASE Count = N - 1
    BY <1>1, <1>2, <1>3, <1>5, <2>1, <2>2, Sizes
  <2>3. CASE Count # N - 1
    BY <1>1, <1>2, <1>3, <1>5, <2>1, <2>3, Sizes
  <2>4. QED
    BY <2>2, <2>3
<1>6. QED
  BY <1>1, <1>4, <1>5

LEMMA PassesSame ==
    ASSUME pad' = pad, NEW i, NEW kind
    PROVE  Passes(i, kind)' = Passes(i, kind)
BY DEF Passes

(* The byte whose test the next one brings. *)
LEMMA NotFailed ==
    ASSUME byteCount \in Nat, byteCount >= 2, byteCount <= P, ~Failed
    PROVE  Passes(byteCount - 1, At(head, byteCount - 1).kind)
<1>1. At(head, byteCount - 1).kind \notin pad.wrong[byteCount - 1]
  BY DEF Failed
<1>2. ASSUME byteCount - 1 = 3 PROVE At(head, byteCount - 1).kind \notin pad.stuffed
  <2>1. byteCount >= 4 /\ byteCount - 1 = 3
    BY <1>2
  <2>2. QED
    BY <2>1 DEF Failed
<1>3. byteCount - 1 # 0
  OBVIOUS
<1>4. QED
  BY <1>1, <1>2, <1>3 DEF Passes

(* The bytes at the head, with one more. *)
LEMMA OneMore ==
    ASSUME Types, Assembly, Unhandled = 0, NEW data \in Byte, data.no = came + 1, Takes(data)
    PROVE  /\ byteCount \in Nat /\ byteCount < P
           /\ \A i \in 0 .. byteCount :
                 Packet(buffer', head, i).no = came - byteCount + 1 + i
           /\ Packet(buffer', head, 0) = FirstStored(data)
           /\ FirstStored(data).kind \in pad.first \ pad.bare /\ ~Failed =>
                 /\ Passes(0, Packet(buffer', head, 0).kind)
                 /\ \A i \in 1 .. byteCount - 1 : Passes(i, Packet(buffer', head, i).kind)
<1>1. /\ byteCount \in Nat /\ byteCount < P /\ byteCount <= came /\ came \in Nat
      /\ \A i \in 0 .. byteCount - 1 : At(head, i).no = came - byteCount + 1 + i
      /\ byteCount > 0 /\ ~Bare(buffer) =>
            /\ Passes(0, At(head, 0).kind)
            /\ \A i \in 1 .. byteCount - 2 : Passes(i, At(head, i).kind)
  BY Product DEF Types, Assembly
<1>2. \A i \in 0 .. byteCount :
          Packet(buffer', head, i) = IF i = byteCount THEN data ELSE At(head, i)
  BY DEF Takes
<1>3. Packet(buffer', head, 0) = FirstStored(data)
  BY <1>1, <1>2 DEF FirstStored
<1>4. ASSUME NEW i \in 0 .. byteCount
      PROVE  Packet(buffer', head, i).no = came - byteCount + 1 + i
  <2>1. CASE i = byteCount
    BY <1>1, <1>2, <2>1
  <2>2. CASE i # byteCount
    <3>1. i \in 0 .. byteCount - 1
      BY <1>1, <2>2
    <3>2. QED
      BY <1>1, <1>2, <2>2, <3>1
  <2>3. QED
    BY <2>1, <2>2
<1>5. ASSUME FirstStored(data).kind \in pad.first \ pad.bare, ~Failed
      PROVE  /\ Passes(0, Packet(buffer', head, 0).kind)
             /\ \A i \in 1 .. byteCount - 1 : Passes(i, Packet(buffer', head, i).kind)
  <2>1. Passes(0, Packet(buffer', head, 0).kind)
    BY <1>3, <1>5 DEF Passes
  <2>2. ASSUME NEW i \in 1 .. byteCount - 1
        PROVE  Passes(i, Packet(buffer', head, i).kind)
    <3>1. byteCount >= 2 /\ i \in 0 .. byteCount /\ i # byteCount
      BY <1>1
    <3>2. Packet(buffer', head, i) = At(head, i)
      BY <1>2, <3>1
    <3>3. ~Bare(buffer)
      BY <1>5, <3>1 DEF Bare, FirstStored, At
    <3>4. CASE i = byteCount - 1
      <4>1. Passes(byteCount - 1, At(head, byteCount - 1).kind)
        <5>1. byteCount <= P
          BY <1>1, Sizes
        <5>2. QED
          BY <1>1, <1>5, <3>1, <5>1, NotFailed
      <4>2. QED
        BY <3>2, <3>4, <4>1
    <3>5. CASE i # byteCount - 1
      <4>1. i \in 1 .. byteCount - 2 /\ byteCount > 0
        BY <1>1, <3>5
      <4>2. QED
        BY <1>1, <3>2, <3>3, <4>1
    <3>6. QED
      BY <3>4, <3>5
  <2>3. QED
    BY <2>1, <2>2
<1>6. QED
  BY <1>1, <1>3, <1>4, <1>5

LEMMA ArrivesAInv ==
    ASSUME AInv, NEW data \in Byte, Arrives(data), Begins(data) \/ Goes(data)
    PROVE  AInv'
<1>1. Types /\ Phases /\ Assembly /\ Waiting /\ WholeAndValid
  BY DEF AInv
<1>2. Types'
  BY <1>1, ArrivesTypes
<1>3. /\ tail' = tail /\ loop' = loop /\ (~late' => ~late /\ Unhandled = 0)
      /\ Count \in Nat /\ Count' \in Nat /\ Count' >= Count /\ Unhandled \in Nat
      /\ Unhandled > 0 => Unhandled' > 0
      /\ AdvanceHead /\ Unhandled = 0 => Unhandled' = 1 /\ Prev(head') = head
      /\ Stays => Unhandled' = Unhandled /\ Count' = Count
  BY <1>1, <1>2, ArrivesUnhandled
<1>4. data.no = came + 1 /\ came' = came + 1 /\ pad' = pad /\ InterruptOccurred(data)
  BY DEF Arrives
<1>5. handled' = handled
  BY <1>1, <1>4, InterruptCases
<1>6. came \in Nat /\ byteCount \in Nat
  BY <1>1, Product DEF Types
<1>7. WholeAndValid'
  BY <1>1, <1>4, <1>5, PassesSame DEF WholeAndValid
<1>8. CASE Rejects
  <2>1. badData' /\ signalled' /\ byteCount' = byteCount /\ AdvanceHead
    BY <1>8 DEF Rejects
  <2>2. Unhandled' # 0 /\ (Unhandled = 0 => Unhandled' = 1)
    BY <1>3, <1>6, <2>1
  <2>3. Phases'
    <3>1. Unhandled = 0 => byteCount <= P
      BY <1>1, <1>6, Sizes DEF Assembly
    <3>2. QED
      BY <1>1, <1>3, <1>6, <2>1, <2>2, <3>1 DEF Phases
  <2>4. Assembly' /\ Waiting'
    BY <2>1, <2>2 DEF Assembly, Waiting
  <2>5. QED
    BY <1>2, <1>7, <2>3, <2>4 DEF AInv
<1>9. CASE Takes(data) /\ Stays /\ FirstStored(data).kind \in pad.bare /\ byteCount # 3
  <2>1. /\ head' = head /\ signalled' = signalled /\ byteCount' = byteCount + 1
        /\ Unhandled' = Unhandled /\ Count' = Count
    BY <1>3, <1>9 DEF Stays, Takes
  <2>2. ASSUME Unhandled = 0
        PROVE  /\ byteCount + 1 <= 3 /\ byteCount <= came
               /\ Packet(buffer', head, 0) = FirstStored(data)
               /\ \A i \in 0 .. byteCount :
                     Packet(buffer', head, i).no = came - byteCount + 1 + i
    <3>1. byteCount > 0 => byteCount <= 3
      <4>1. byteCount > 0 => Bare(buffer)
        BY <1>6, <1>9 DEF FirstStored, Bare, At
      <4>2. QED
        BY <1>1, <2>2, <4>1 DEF Assembly
    <3>2. byteCount <= came
      BY <1>1, <2>2 DEF Assembly
    <3>3. QED
      BY <1>1, <1>4, <1>6, <1>9, <2>2, <3>1, <3>2, OneMore
  <2>3. Phases'
    <3>1. ~late' => byteCount' <= P
      BY <1>3, <1>6, <2>1, <2>2, Sizes
    <3>2. QED
      BY <1>1, <1>3, <1>6, <2>1, <3>1 DEF Phases
  <2>4. Assembly'
    <3> SUFFICES ASSUME Unhandled = 0 PROVE Assembly'
      BY <2>1 DEF Assembly
    <3>1. byteCount' < P /\ byteCount' <= came'
      BY <1>4, <1>6, <2>1, <2>2, Sizes
    <3>2. \A i \in 0 .. byteCount' - 1 : At(head, i)'.no = came' - byteCount' + 1 + i
      BY <1>4, <1>6, <2>1, <2>2 DEF At
    <3>3. Bare(buffer)' /\ byteCount' <= 3
      BY <1>4, <1>9, <2>1, <2>2 DEF Bare
    <3>4. QED
      BY <3>1, <3>2, <3>3 DEF Assembly
  <2>5. Waiting'
    BY <1>3, <1>6, <2>1 DEF Waiting
  <2>6. QED
    BY <1>2, <1>7, <2>3, <2>4, <2>5 DEF AInv
<1>10. CASE /\ Takes(data) /\ FirstStored(data).kind \in pad.first \ pad.bare /\ ~Failed
            /\ byteCount + 1 # P /\ Stays
  <2>1. /\ head' = head /\ signalled' = signalled /\ byteCount' = byteCount + 1
        /\ Unhandled' = Unhandled /\ Count' = Count
    BY <1>3, <1>10 DEF Stays, Takes
  <2>2. ASSUME Unhandled = 0
        PROVE  /\ byteCount + 1 < P /\ byteCount <= came
               /\ Packet(buffer', head, 0) = FirstStored(data)
               /\ \A i \in 0 .. byteCount :
                     Packet(buffer', head, i).no = came - byteCount + 1 + i
               /\ Passes(0, Packet(buffer', head, 0).kind)
               /\ \A i \in 1 .. byteCount - 1 : Passes(i, Packet(buffer', head, i).kind)
    <3>1. byteCount <= came /\ byteCount < P
      BY <1>1, <2>2 DEF Assembly
    <3>2. byteCount + 1 < P
      BY <1>6, <1>10, <3>1, Sizes
    <3>3. QED
      BY <1>1, <1>4, <1>6, <1>10, <2>2, <3>1, <3>2, OneMore
  <2>3. Phases'
    <3>1. ~late' => byteCount' <= P
      BY <1>3, <1>6, <2>1, <2>2, Sizes
    <3>2. QED
      BY <1>1, <1>3, <1>6, <2>1, <3>1 DEF Phases
  <2>4. Assembly'
    <3> SUFFICES ASSUME Unhandled = 0 PROVE Assembly'
      BY <2>1 DEF Assembly
    <3>1. byteCount' < P /\ byteCount' <= came'
      BY <1>4, <1>6, <2>1, <2>2, Sizes
    <3>2. \A i \in 0 .. byteCount' - 1 : At(head, i)'.no = came' - byteCount' + 1 + i
      BY <1>4, <1>6, <2>1, <2>2 DEF At
    <3>3. ~Bare(buffer)'
      BY <1>4, <1>10, <2>1, <2>2 DEF Bare
    <3>4. Passes(0, At(head, 0).kind)'
      BY <1>4, <2>1, <2>2 DEF At, Passes
    <3>5. ASSUME NEW i \in 1 .. byteCount' - 2 PROVE Passes(i, At(head, i).kind)'
      <4>1. i \in 1 .. byteCount - 1
        BY <1>6, <2>1
      <4>2. Passes(i, Packet(buffer', head, i).kind)
        BY <2>2, <4>1
      <4>3. QED
        BY <1>4, <2>1, <4>2 DEF At, Passes
    <3>6. QED
      BY <3>1, <3>2, <3>3, <3>4, <3>5 DEF Assembly
  <2>5. Waiting'
    BY <1>3, <1>6, <2>1 DEF Waiting
  <2>6. QED
    BY <1>2, <1>7, <2>3, <2>4, <2>5 DEF AInv
<1>11. CASE /\ Takes(data) /\ FirstStored(data).kind \in pad.first \ pad.bare /\ ~Failed
            /\ byteCount + 1 = P /\ AdvanceHead /\ signalled' = TRUE
  <2>1. byteCount' = P /\ byteCount = P - 1 /\ P \in Nat /\ P >= 5
    BY <1>6, <1>11, Sizes DEF Takes
  <2>2. Unhandled' # 0 /\ (Unhandled = 0 => Unhandled' = 1 /\ Prev(head') = head)
    BY <1>3, <1>6, <1>11
  <2>3. Phases'
    BY <1>1, <1>3, <1>6, <1>11, <2>1, <2>2 DEF Phases
  <2>4. Assembly'
    BY <2>2 DEF Assembly
  <2>5. Waiting'
    <3> SUFFICES ASSUME ~late', NEW i \in 0 .. P - 1
                 PROVE  /\ At(Prev(head), i)'.no + P = came' + 1 + i
                        /\ Passes(i, At(Prev(head), i).kind)'
      BY DEF Waiting
    <3>1. Unhandled = 0
      BY <1>3, <1>6
    <3>2. /\ \A j \in 0 .. byteCount : Packet(buffer', head, j).no = came - byteCount + 1 + j
          /\ Passes(0, Packet(buffer', head, 0).kind)
          /\ \A j \in 1 .. byteCount - 1 : Passes(j, Packet(buffer', head, j).kind)
      BY <1>1, <1>4, <1>11, <3>1, OneMore
    <3>3. At(Prev(head), i)' = Packet(buffer', head, i)
      BY <2>2, <3>1 DEF At
    <3>4. Packet(buffer', head, i).no + P = came' + 1 + i
      BY <1>4, <1>6, <2>1, <3>2
    <3>5. Passes(i, Packet(buffer', head, i).kind)
      <4>1. CASE i = P - 1
        BY <2>1, <4>1 DEF Passes
      <4>2. CASE i = 0
        BY <3>2, <4>2
      <4>3. CASE i # 0 /\ i # P - 1
        <5>1. i \in 1 .. byteCount - 1
          BY <2>1, <4>3
        <5>2. QED
          BY <3>2, <5>1
      <4>4. QED
        BY <4>1, <4>2, <4>3
    <3>6. QED
      BY <1>4, <3>3, <3>4, <3>5 DEF Passes
  <2>6. QED
    BY <1>2, <1>7, <2>3, <2>4, <2>5 DEF AInv
<1>12. QED
  BY <1>1, <1>4, <1>8, <1>9, <1>10, <1>11, InterruptCases

-----------------------------------------------------------------------------
(* packetReady. *)
LEMMA HandleCases ==
    ASSUME Types, Handle
    PROVE  /\ loop = "handle" /\ loop' = "reset"
           /\ UNCHANGED <<pad, sent, came, odd, late, buffer, head, tail, byteCount, badData,
                          signalled>>
           /\ handled' \in Seq(Entry) /\ multi' \in 0 .. Len(handled')
           /\ \/ badData /\ UNCHANGED decoderVars
              \/ /\ ~badData
                 /\ \E part \in Parts :
                       /\ Len(handled') = Len(handled) + 1
                       /\ \A k \in 1 .. Len(handled) : handled'[k] = handled[k]
                       /\ handled'[Len(handled) + 1].as = part
                       /\ handled'[Len(handled) + 1].late = late
                       /\ \A i \in 0 .. P - 1 :
                             handled'[Len(handled) + 1].bytes[i] = At(tail, i)
                       /\ ProcessPacket(Len(handled) + 1, part)
<1>1. /\ loop = "handle" /\ loop' = "reset"
      /\ UNCHANGED <<pad, sent, came, odd, late, buffer, head, tail, byteCount, badData, signalled>>
  BY DEF Handle, deviceVars, ringVars
<1>2. handled \in Seq(Entry) /\ Len(handled) \in Nat /\ multi \in 0 .. Len(handled)
  BY DEF Types
<1>3. CASE badData
  <2>1. UNCHANGED decoderVars
    BY <1>3 DEF Handle
  <2>2. QED
    BY <1>1, <1>2, <1>3, <2>1 DEF decoderVars
<1>4. CASE ~badData
  <2> DEFINE p == [i \in 0 .. P - 1 |-> Packet(buffer, tail, i)]
  <2>1. PICK part \in pad.parts :
           /\ handled' = Append(handled, [bytes |-> p, as |-> part, late |-> late])
           /\ ProcessPacket(Len(handled) + 1, part)
    BY <1>4 DEF Handle
  <2>2. part \in Parts
    BY DEF Types, Pad
  <2>3. ASSUME NEW i \in 0 .. P - 1 PROVE Packet(buffer, tail, i) \in Byte
    <3>1. tail \in 0 .. N - 1 /\ buffer \in [Addresses -> Byte]
      BY DEF Types
    <3>2. PICK base \in Nat : base = tail * P
      BY <3>1, Product
    <3>3. PICK room \in Nat : room = (N + 1) * P
      BY <3>1, Product
    <3>4. base + P <= room
      BY <3>1, <3>2, <3>3, Product
    <3>5. base + i \in 0 .. room - 1
      BY <3>4, Sizes
    <3>6. QED
      BY <3>1, <3>2, <3>3, <3>5 DEF Packet, Addresses
  <2>4. p \in [0 .. P - 1 -> Byte] /\ \A i \in 0 .. P - 1 : p[i] = At(tail, i)
    BY <2>3 DEF At
  <2> HIDE DEF p
  <2> DEFINE e == [bytes |-> p, as |-> part, late |-> late]
  <2>5. e \in Entry /\ e.bytes = p /\ e.as = part /\ e.late = late
    BY <2>2, <2>4 DEF Entry, Types
  <2>6. handled' = Append(handled, e)
    BY <2>1
  <2> HIDE DEF e
  <2>7. /\ handled' \in Seq(Entry) /\ Len(handled') = Len(handled) + 1
        /\ \A k \in 1 .. Len(handled) : handled'[k] = handled[k]
        /\ handled'[Len(handled) + 1] = e
    BY <1>2, <2>5, <2>6, AppendProperties
  <2>8. multi' \in 0 .. Len(handled')
    <3>1. multi' = multi \/ multi' = 0 \/ multi' = Len(handled) + 1
      BY <2>1, <2>2 DEF ProcessPacket, Parts
    <3>2. QED
      BY <1>2, <2>7, <3>1
  <2>9. QED
    BY <1>1, <1>4, <2>1, <2>2, <2>4, <2>5, <2>7, <2>8
<1>5. QED
  BY <1>3, <1>4

LEMMA HandleAInv ==
    ASSUME AInv, Handle
    PROVE  AInv'
<1>1. Types /\ Phases /\ Assembly /\ Waiting /\ WholeAndValid
  BY DEF AInv
<1>2. /\ loop = "handle" /\ loop' = "reset"
      /\ UNCHANGED <<pad, sent, came, odd, late, buffer, head, tail, byteCount, badData, signalled>>
      /\ handled' \in Seq(Entry) /\ multi' \in 0 .. Len(handled')
  BY <1>1, HandleCases
<1>3. Types'
  BY <1>1, <1>2 DEF Types
<1>4. Count' = Count /\ Unhandled' = Unhandled /\ Unhandled = Count /\ Count >= 1 /\ Count \in Nat
  BY <1>1, <1>2, CountFacts DEF Count, Unhandled, Phases
<1>5. Phases'
  BY <1>1, <1>2, <1>4 DEF Phases
<1>6. Assembly'
  BY <1>4 DEF Assembly
<1>7. Waiting'
  BY <1>1, <1>2, <1>4 DEF Waiting, At, Passes, Packet
<1>8. WholeAndValid'
  <2>1. CASE UNCHANGED decoderVars
    BY <1>1, <1>2, <2>1, PassesSame DEF WholeAndValid, decoderVars
  <2>2. CASE /\ ~badData
             /\ Len(handled') = Len(handled) + 1
             /\ \A k \in 1 .. Len(handled) : handled'[k] = handled[k]
             /\ handled'[Len(handled) + 1].late = late
             /\ \A i \in 0 .. P - 1 : handled'[Len(handled) + 1].bytes[i] = At(tail, i)
    <3> DEFINE e == handled'[Len(handled) + 1]
    <3>1. Len(handled) \in Nat
      BY <1>1 DEF Types
    <3>2. ASSUME ~e.late, NEW i \in 0 .. P - 1
          PROVE  e.bytes[i].no = e.bytes[0].no + i /\ Passes(i, e.bytes[i].kind)
      <4>1. Unhandled = 1 /\ Count = 1
        BY <1>1, <1>4, <2>2, <3>2 DEF Phases
      <4>2. \A j \in 0 .. P - 1 : At(tail, j).no + P = came + 1 + j /\ Passes(j, At(tail, j).kind)
        BY <1>1, <2>2, <3>2, <4>1, OnlyPacket DEF Waiting
      <4>3. 0 \in 0 .. P - 1 /\ came \in Nat
        BY <1>1, Sizes DEF Types
      <4>4. \A j \in 0 .. P - 1 : At(tail, j).no \in Nat
        <5>1. \A j \in 0 .. P - 1 : e.bytes[j] \in Byte
          <6>1. e \in Entry
            BY <1>2, <2>2, <3>1
          <6>2. QED
            BY <6>1 DEF Entry
        <5>2. QED
          BY <2>2, <5>1 DEF Byte
      <4>5. At(tail, i).no + P = came + 1 + i /\ At(tail, 0).no + P = came + 1 + 0
        BY <4>2, <4>3
      <4>6. At(tail, i).no = At(tail, 0).no + i
        BY <4>3, <4>4, <4>5, Sizes
      <4>7. QED
        BY <2>2, <4>2, <4>3, <4>6
    <3>3. \A k \in 1 .. Len(handled') : k \in 1 .. Len(handled) \/ k = Len(handled) + 1
      BY <2>2, <3>1
    <3>4. QED
      BY <1>1, <1>2, <2>2, <3>2, <3>3, PassesSame DEF WholeAndValid
  <2>3. QED
    BY <1>1, <2>1, <2>2, HandleCases
<1>9. QED
  BY <1>3, <1>5, <1>6, <1>7, <1>8 DEF AInv

LEMMA LoopAInv ==
    ASSUME AInv, Wake \/ TestCount \/ ResetCount \/ AdvanceTail
    PROVE  AInv'
<1>1. Types /\ Phases /\ Assembly /\ Waiting /\ WholeAndValid
  BY DEF AInv
<1>2. UNCHANGED <<pad, sent, came, odd, buffer, head, badData, multi, handled, frames>>
  BY DEF Wake, TestCount, ResetCount, AdvanceTail, deviceVars, ringVars, decoderVars
<1>3. WholeAndValid'
  BY <1>1, <1>2, PassesSame DEF WholeAndValid
<1>4. Count \in Nat /\ Count <= N - 1 /\ came \in Nat /\ byteCount \in Nat
  BY <1>1, CountFacts, Product, Sizes DEF Types
<1>5. CASE Wake
  <2>1. /\ loop = "wait" /\ loop' = "test" /\ signalled' = FALSE
        /\ UNCHANGED <<tail, byteCount, late>>
    BY <1>5 DEF Wake, deviceVars, ringVars
  <2>2. Count' = Count /\ Unhandled' = Unhandled
    BY <1>2, <2>1 DEF Count, Unhandled
  <2>3. Types'
    BY <1>1, <1>2, <2>1 DEF Types
  <2>4. Phases' /\ Assembly'
    BY <1>1, <1>2, <2>1, <2>2 DEF Phases, Assembly, At, Passes, Packet, Bare
  <2>5. Waiting'
    BY <1>1, <1>2, <2>1, <2>2 DEF Waiting, At, Passes, Packet
  <2>6. QED
    BY <1>3, <2>3, <2>4, <2>5 DEF AInv
<1>6. CASE TestCount
  <2>1. /\ loop = "test" /\ loop' = IF Count >= 1 THEN "handle" ELSE "wait"
        /\ UNCHANGED <<tail, byteCount, signalled>>
        /\ late' = (late /\ Count >= 1)
    BY <1>6 DEF TestCount, ringVars
  <2>2. Count' = Count /\ Unhandled' = Count /\ Unhandled = Count
    BY <1>2, <2>1 DEF Count, Unhandled
  <2>3. Types'
    <3>1. late' \in BOOLEAN /\ loop' \in {"handle", "wait"}
      BY <2>1
    <3>2. QED
      BY <1>1, <1>2, <2>1, <3>1 DEF Types
  <2>4. ~late' => ~late \/ Count = 0
    <3>1. CASE Count >= 1
      BY <2>1, <3>1
    <3>2. CASE ~(Count >= 1)
      BY <1>4, <3>2
    <3>3. QED
      BY <3>1, <3>2
  <2>5. Phases'
    <3>1. Count = 0 => byteCount <= P
      BY <1>1, <1>4, <2>2, Sizes DEF Assembly
    <3>2. QED
      BY <1>1, <1>4, <2>1, <2>2, <2>4, <3>1 DEF Phases
  <2>6. Assembly'
    BY <1>1, <1>2, <2>1, <2>2 DEF Assembly, At, Passes, Packet, Bare
  <2>7. Waiting'
    BY <1>1, <1>2, <2>1, <2>2, <2>4 DEF Waiting, At, Passes, Packet
  <2>8. QED
    BY <1>3, <2>3, <2>5, <2>6, <2>7 DEF AInv
<1>7. CASE ResetCount
  <2>1. /\ loop = "reset" /\ loop' = "advance" /\ byteCount' = 0
        /\ UNCHANGED <<tail, signalled, late>>
    BY <1>7 DEF ResetCount, deviceVars, ringVars
  <2>2. Count' = Count /\ Unhandled' = Count - 1 /\ Unhandled = Count /\ Count >= 1
    BY <1>1, <1>2, <2>1 DEF Count, Unhandled, Phases
  <2>3. Types'
    <3>1. 0 \in 0 .. (N + 1) * P
      <4>1. head \in 0 .. N - 1
        BY <1>1 DEF Types
      <4>2. (N + 1) * P \in Nat
        BY <4>1, Product
      <4>3. QED
        BY <4>2
    <3>2. QED
      BY <1>1, <1>2, <2>1, <3>1 DEF Types
  <2>4. Phases'
    BY <1>1, <1>4, <2>1, <2>2, Sizes DEF Phases
  <2>5. Assembly'
    BY <1>2, <1>4, <2>1, Sizes DEF Assembly
  <2>6. Waiting'
    BY <1>1, <1>4, <2>1, <2>2 DEF Waiting, Phases
  <2>7. QED
    BY <1>3, <2>3, <2>4, <2>5, <2>6 DEF AInv
<1>8. CASE AdvanceTail
  <2>1. /\ loop = "advance" /\ loop' = "test" /\ tail' = (tail + 1) % N
        /\ UNCHANGED <<byteCount, signalled, late>>
    BY <1>8 DEF AdvanceTail, deviceVars
  <2>2. tail' \in 0 .. N - 1 /\ Count' = Count - 1 /\ Count >= 1
    BY <1>1, <1>2, <2>1, TailAdvances DEF Phases
  <2>3. Unhandled' = Count - 1 /\ Unhandled = Count - 1
    BY <2>1, <2>2 DEF Unhandled
  <2>4. Types'
    BY <1>1, <1>2, <2>1, <2>2 DEF Types
  <2>5. Phases' /\ Assembly'
    BY <1>1, <1>2, <1>4, <2>1, <2>2, <2>3 DEF Phases, Assembly, At, Passes, Packet, Bare
  <2>6. Waiting'
    BY <1>1, <1>2, <2>1, <2>3 DEF Waiting, At, Passes, Packet
  <2>7. QED
    BY <1>3, <2>4, <2>5, <2>6 DEF AInv
<1>9. QED
  BY <1>5, <1>6, <1>7, <1>8

LEMMA InitAInv == Init => AInv
<1> SUFFICES ASSUME Init PROVE AInv
  OBVIOUS
<1>1. Count = 0 /\ Unhandled = 0 /\ byteCount = 0 /\ handled = <<>> /\ sent = <<>>
  BY DEF Init, Count, Unhandled
<1>2. Types
  <2>1. Nothing \in Byte
    BY KindsAssumption DEF Nothing, Byte
  <2>2. buffer \in [Addresses -> Byte]
    BY <2>1 DEF Init, Addresses
  <2>3. pad \in Pads /\ pad \in Pad
    BY PadsAssumption DEF Init, Pad, Parts
  <2>4. 0 \in 0 .. N - 1 /\ 0 \in 0 .. (N + 1) * P
    BY Sizes, Product
  <2>5. sent \in Seq(Sent) /\ Len(sent) = 0 /\ handled \in Seq(Entry) /\ Len(handled) = 0
    BY <1>1
  <2>6. odd \in 0 .. MaxOdd /\ came \in Nat /\ Len(sent) <= MaxPackets /\ multi \in 0 .. Len(handled)
    BY <2>5, BoundsAssumption DEF Init
  <2>7. /\ head \in 0 .. N - 1 /\ tail \in 0 .. N - 1 /\ byteCount \in 0 .. (N + 1) * P
        /\ late \in BOOLEAN /\ badData \in BOOLEAN /\ signalled \in BOOLEAN
        /\ loop \in {"wait", "test", "handle", "reset", "advance"}
    BY <2>4 DEF Init
  <2>8. QED
    BY <2>2, <2>3, <2>5, <2>6, <2>7 DEF Types
<1>3. Phases /\ Assembly /\ Waiting
  BY <1>1, Sizes DEF Init, Phases, Assembly, Waiting
<1>4. WholeAndValid
  BY <1>1 DEF WholeAndValid
<1>5. QED
  BY <1>2, <1>3, <1>4 DEF AInv

LEMMA StutterAInv ==
    ASSUME AInv, UNCHANGED vars
    PROVE  AInv'
BY DEF AInv, Types, Phases, Assembly, Waiting, WholeAndValid, vars, deviceVars, ringVars,
       decoderVars, Count, Unhandled, At, Packet, Passes, Bare

LEMMA NextAInv == AInv /\ [Next]_vars => AInv'
<1> SUFFICES ASSUME AInv, [Next]_vars PROVE AInv'
  OBVIOUS
<1>1. CASE ByteComes
  <2>1. PICK data \in Byte : Arrives(data) /\ (Begins(data) \/ Goes(data))
    BY <1>1, ByteCases DEF AInv
  <2>2. QED
    BY <2>1, ArrivesAInv
<1>2. CASE Handle
  BY <1>2, HandleAInv
<1>3. CASE Wake \/ TestCount \/ ResetCount \/ AdvanceTail
  BY <1>3, LoopAInv
<1>4. CASE UNCHANGED vars
  BY <1>4, StutterAInv
<1>5. QED
  BY <1>1, <1>2, <1>3, <1>4 DEF Next, PacketReady

LEMMA AssemblyInvariance == Spec => []AInv
BY InitAInv, NextAInv, PTL DEF Spec

(* _packetByteCount stays within the packet as long as no byte comes late, *)
(* and within the buffer while there is room behind it; the indices of the *)
(* ring stay in it.                                                        *)
THEOREM PacketTypeCorrect == Spec => []TypeOK
<1>1. ASSUME AInv PROVE TypeOK
  BY <1>1 DEF AInv, Types, Phases, TypeOK, Sent, Byte, Addresses
<1>2. AInv => TypeOK
  BY <1>1
<1>3. QED
  BY <1>2, AssemblyInvariance, PTL

(* Whatever packetReady processes before another byte comes is a run of P  *)
(* bytes that passes the tests of the pad's version.                       *)
THEOREM WholeAndValidHolds == Spec => []WholeAndValid
<1>1. AInv => WholeAndValid
  BY DEF AInv
<1>2. QED
  BY <1>1, AssemblyInvariance, PTL

-----------------------------------------------------------------------------
(* Where the pad is, and what it may expect of the driver.                 *)
Numbers ==
    /\ Current = 0 => came = 0
    /\ Current >= 1 => sent[1].from = 1 /\ came < sent[Current].from + Size(Current)
    /\ \A n \in 1 .. Current : sent[n].from <= came
    /\ \A n \in 1 .. Current : n < Current => sent[n + 1].from = sent[n].from + Size(n)
    /\ \A n \in 1 .. Current : sent[n].good => Size(n) = P
    /\ late => Current >= 1 /\ sent[Current].late

(* What was handled does not come again. *)
Handled(k) == ~handled[k].late
BehindHandled ==
    \A k \in 1 .. Len(handled) : Handled(k) =>
        /\ handled[k].bytes[0].no + P <= came + 1
        /\ Unhandled = 0 => handled[k].bytes[0].no + P <= came + 1 - byteCount

(* Only a byte that misled the driver is at the head from inside a packet. *)
Led ==
    /\ Current >= 1 /\ Unhandled = 0 /\ byteCount > 0
    /\ Size(Current) = P /\ ~sent[Current].misled
    => came - byteCount + 1 <= sent[Current].from

Clear(n) == Processed(n) \/ (Size(n) = P /\ ~sent[n].misled)
Expected(n) == sent[n].good /\ ~sent[n].late /\ (n = 1 \/ Clear(n - 1))

(* A packet that should be processed is the one at the head, *)
InStep ==
    Current >= 1 /\ ~Complete /\ Expected(Current) =>
        /\ Unhandled = 0 /\ byteCount = came + 1 - sent[Current].from
        /\ \A i \in 0 .. byteCount - 1 : Passes(i, At(head, i).kind)

(* and is about to be once it has come. *)
Pending == Unhandled = 1 /\ ~badData /\ loop # "reset"
Arrived ==
    \A n \in 1 .. Current : Expected(n) /\ (n < Current \/ Complete) =>
        Processed(n) \/ (n = Current /\ Pending)

SInv == Numbers /\ BehindHandled /\ Led /\ InStep /\ Arrived

LEMMA SentFacts ==
    ASSUME Types
    PROVE  /\ Current \in Nat /\ came \in Nat
           /\ \A n \in 1 .. Current :
                 /\ sent[n] \in Sent /\ sent[n].from \in Nat /\ Size(n) \in {3, P}
                 /\ sent[n].good \in BOOLEAN /\ sent[n].late \in BOOLEAN
                 /\ sent[n].misled \in BOOLEAN
           /\ Complete <=> Current = 0 \/ came + 1 = sent[Current].from + Size(Current)
<1>1. sent \in Seq(Sent) /\ came \in Nat
  BY DEF Types
<1>2. Current \in Nat /\ (sent = <<>> <=> Current = 0)
  BY <1>1 DEF Current
<1>3. \A n \in 1 .. Current : sent[n] \in Sent
  BY <1>1 DEF Current
<1>4. QED
  BY <1>1, <1>2, <1>3 DEF Sent, Size, Complete, Current

LEMMA HandledFacts ==
    ASSUME Types
    PROVE  /\ Len(handled) \in Nat
           /\ \A k \in 1 .. Len(handled) : handled[k].bytes[0].no \in Nat
<1>1. \A k \in 1 .. Len(handled) : handled[k] \in Entry
  BY DEF Types
<1>2. \A k \in 1 .. Len(handled) : handled[k].bytes[0] \in Byte
  BY <1>1, Sizes DEF Entry
<1>3. QED
  BY <1>2 DEF Types, Byte

(* The next packet finds the head free if the one before it is clear. *)
LEMMA StartsClean ==
    ASSUME AInv, SInv, Complete, ~Late, Current = 0 \/ Clear(Current)
    PROVE  Unhandled = 0 /\ byteCount = 0
<1>1. Types /\ Assembly /\ Unhandled \in Nat
  BY UnhandledFacts DEF AInv
<1>2. Unhandled = 0
  BY <1>1 DEF Late
<1>3. byteCount \in Nat /\ byteCount <= came /\ byteCount < P /\ came \in Nat
  <2>1. byteCount \in Nat
    BY <1>1, Product DEF Types
  <2>2. QED
    BY <1>1, <1>2, <2>1 DEF Assembly, Types
<1>4. CASE Current = 0
  BY <1>2, <1>3, <1>4 DEF SInv, Numbers
<1>5. CASE Current # 0
  <2>1. Current \in 1 .. Current /\ sent[Current].from \in Nat
    BY <1>1, <1>5, SentFacts
  <2>2. came + 1 = sent[Current].from + Size(Current)
    BY <1>1, <1>5, SentFacts
  <2>3. CASE Processed(Current)
    <3>1. PICK k \in 1 .. Len(handled) :
             Size(Current) = P /\ Handled(k) /\ handled[k].bytes[0].no = sent[Current].from
      BY <2>3 DEF Processed, Handled
    <3>2. sent[Current].from + P <= came + 1 - byteCount
      BY <1>2, <3>1 DEF SInv, BehindHandled
    <3>3. QED
      BY <1>2, <1>3, <2>1, <2>2, <3>1, <3>2, Sizes
  <2>4. CASE Size(Current) = P /\ ~sent[Current].misled
    <3>1. byteCount > 0 => came - byteCount + 1 <= sent[Current].from
      BY <1>2, <2>1, <2>4 DEF SInv, Led
    <3>2. QED
      BY <1>2, <1>3, <2>1, <2>2, <2>4, <3>1, Sizes
  <2>5. QED
    BY <1>5, <2>3, <2>4 DEF Clear
<1>6. QED
  BY <1>4, <1>5

(* The bytes at the head pass every test. *)
LEMMA GoodHead ==
    ASSUME byteCount \in Nat, byteCount >= 1, byteCount < P,
           \A i \in 0 .. byteCount - 1 : Passes(i, At(head, i).kind)
    PROVE  At(head, 0).kind \in pad.first \ pad.bare /\ ~Failed
<1>1. At(head, 0).kind \in pad.first \ pad.bare
  <2>1. 0 \in 0 .. byteCount - 1
    OBVIOUS
  <2>2. Passes(0, At(head, 0).kind)
    BY <2>1
  <2>3. QED
    BY <2>2 DEF Passes
<1>2. ASSUME byteCount >= 4 PROVE At(head, 3).kind \notin pad.stuffed
  <2>1. 3 \in 0 .. byteCount - 1 /\ 3 # P - 1 /\ 3 # 0
    BY <1>2, Sizes
  <2>2. Passes(3, At(head, 3).kind)
    BY <2>1
  <2>3. QED
    BY <2>1, <2>2 DEF Passes
<1>3. ASSUME byteCount >= 2
      PROVE  At(head, byteCount - 1).kind \notin pad.wrong[byteCount - 1]
  <2>1. byteCount - 1 \in 0 .. byteCount - 1 /\ byteCount - 1 # P - 1 /\ byteCount - 1 # 0
    BY <1>3, Sizes
  <2>2. Passes(byteCount - 1, At(head, byteCount - 1).kind)
    BY <2>1
  <2>3. QED
    BY <2>1, <2>2 DEF Passes
<1>4. QED
  BY <1>1, <1>2, <1>3 DEF Failed

LEMMA InitSInv == Init => SInv
<1> SUFFICES ASSUME Init PROVE SInv
  OBVIOUS
<1>1. Current = 0 /\ Len(handled) = 0 /\ came = 0 /\ late = FALSE
  BY DEF Init, Current
<1>2. QED
  BY <1>1 DEF SInv, Numbers, BehindHandled, Led, InStep, Arrived

-----------------------------------------------------------------------------
(* A byte that comes. *)
LEMMA ArrivesNumbers ==
    ASSUME Types, Types', Numbers, NEW data \in Byte, Arrives(data), Begins(data) \/ Goes(data)
    PROVE  Numbers'
<1>1. came' = came + 1 /\ late' = Late
  BY DEF Arrives
<1>2. /\ Current \in Nat /\ came \in Nat
      /\ \A n \in 1 .. Current : sent[n].from \in Nat /\ Size(n) \in {3, P}
      /\ Complete <=> Current = 0 \/ came + 1 = sent[Current].from + Size(Current)
  BY SentFacts
<1>3. CASE Begins(data)
  <2> DEFINE m == Current + 1
  <2>1. /\ Complete /\ Current' = m
        /\ \A n \in 1 .. Current : sent'[n].from = sent[n].from /\ sent'[n].size = sent[n].size
        /\ \A n \in 1 .. Current : sent'[n].good = sent[n].good
        /\ sent'[m].from = came + 1 /\ sent'[m].late = Late
        /\ sent'[m].good => sent'[m].size = P
    BY <1>3 DEF Begins, Same
  <2>2. sent'[m].size \in {3, P}
    <3>1. m \in 1 .. Len(sent') /\ sent' \in Seq(Sent)
      BY <1>2, <1>3, <2>1 DEF Current, Begins
    <3>2. sent'[m] \in Sent
      BY <3>1
    <3>3. QED
      BY <3>2 DEF Sent
  <2>3. \A n \in 1 .. m : n \in 1 .. Current \/ n = m
    BY <1>2
  <2>4. sent'[1].from = 1 /\ came' < sent'[m].from + sent'[m].size
    <3>1. Current = 0 => came = 0
      BY DEF Numbers
    <3>2. Current >= 1 => sent[1].from = 1 /\ 1 \in 1 .. Current
      BY <1>2 DEF Numbers
    <3>3. QED
      BY <1>1, <1>2, <2>1, <2>2, <3>1, <3>2, Sizes
  <2>5. \A n \in 1 .. m : sent'[n].from <= came'
    BY <1>1, <1>2, <2>1, <2>3 DEF Numbers
  <2>6. ASSUME NEW n \in 1 .. m, n < m PROVE sent'[n + 1].from = sent'[n].from + sent'[n].size
    <3>1. n \in 1 .. Current
      BY <1>2, <2>6
    <3>2. CASE n = Current
      BY <1>2, <2>1, <3>1, <3>2 DEF Size
    <3>3. CASE n < Current
      <4>1. n + 1 \in 1 .. Current /\ sent[n + 1].from = sent[n].from + Size(n)
        BY <1>2, <3>1, <3>3 DEF Numbers
      <4>2. QED
        BY <2>1, <3>1, <4>1 DEF Size
    <3>4. QED
      BY <1>2, <3>1, <3>2, <3>3
  <2>7. \A n \in 1 .. m : sent'[n].good => sent'[n].size = P
    BY <2>1, <2>3 DEF Numbers, Size
  <2>8. m >= 1 /\ m # 0
    BY <1>2
  <2>9. late' => sent'[m].late
    BY <1>1, <2>1
  <2> HIDE DEF m
  <2>10. QED
    BY <2>1, <2>4, <2>5, <2>6, <2>7, <2>8, <2>9 DEF Numbers, Size
<1>4. CASE Goes(data)
  <2>1. /\ ~Complete /\ Current >= 1 /\ Current' = Current
        /\ \A n \in 1 .. Current : sent'[n].from = sent[n].from /\ sent'[n].size = sent[n].size
        /\ \A n \in 1 .. Current : sent'[n].good => sent[n].good
        /\ sent'[Current].late = (sent[Current].late \/ Late)
    BY <1>4 DEF Goes
  <2>2. late' => sent'[Current].late
    BY <1>1, <2>1
  <2>3. came' < sent'[Current].from + sent'[Current].size
    <3>1. came < sent[Current].from + Size(Current) /\ Current \in 1 .. Current
      BY <1>2, <2>1 DEF Numbers
    <3>2. QED
      BY <1>1, <1>2, <2>1, <3>1, Sizes DEF Size
  <2>4. sent'[1].from = 1 /\ 1 \in 1 .. Current
    BY <1>2, <2>1 DEF Numbers
  <2>5. \A n \in 1 .. Current : sent'[n].from <= came'
    BY <1>1, <1>2, <2>1 DEF Numbers
  <2>6. ASSUME NEW n \in 1 .. Current, n < Current
        PROVE  sent'[n + 1].from = sent'[n].from + sent'[n].size
    <3>1. n + 1 \in 1 .. Current /\ sent[n + 1].from = sent[n].from + Size(n)
      BY <1>2, <2>6 DEF Numbers
    <3>2. QED
      BY <2>1, <3>1 DEF Size
  <2>7. \A n \in 1 .. Current : sent'[n].good => sent'[n].size = P
    BY <2>1 DEF Numbers, Size
  <2>8. Current # 0
    BY <1>2, <2>1
  <2>9. QED
    BY <2>1, <2>2, <2>3, <2>4, <2>5, <2>6, <2>7, <2>8 DEF Numbers, Size
<1>5. QED
  BY <1>3, <1>4

(* What the packets may expect does not grow. *)
LEMMA ArrivesExpected ==
    ASSUME Types, NEW data \in Byte, Arrives(data), Begins(data) \/ Goes(data),
           handled' = handled, NEW n \in 1 .. Current
    PROVE  /\ Processed(n)' <=> Processed(n)
           /\ Clear(n)' => Clear(n)
           /\ Expected(n)' => Expected(n)
           /\ Begins(data) /\ n = Current /\ Late => ~Expected(n)'
<1>1. ASSUME NEW k \in 1 .. Current
      PROVE  /\ sent'[k].from = sent[k].from /\ sent'[k].size = sent[k].size
             /\ sent'[k].good => sent[k].good
             /\ ~sent'[k].late => ~sent[k].late
             /\ ~sent'[k].misled => ~sent[k].misled
             /\ Begins(data) /\ k = Current /\ Late => sent'[k].late
  <2>1. CASE Begins(data)
    <3>1. Same(sent'[k], sent[k]) /\ sent'[k].late = (sent[k].late \/ (k = Current /\ Late))
      BY <2>1 DEF Begins
    <3>2. QED
      BY <3>1 DEF Same
  <2>2. CASE Goes(data) /\ ~Begins(data)
    <3>1. CASE k = Current
      BY <2>2, <3>1 DEF Goes
    <3>2. CASE k # Current
      BY <2>2, <3>2 DEF Goes
    <3>3. QED
      BY <3>1, <3>2
  <2>3. QED
    BY <2>1, <2>2
<1>2. \A k \in 1 .. Current : Processed(k)' <=> Processed(k)
  BY <1>1 DEF Processed, Size
<1>3. \A k \in 1 .. Current : Clear(k)' => Clear(k)
  BY <1>1, <1>2 DEF Clear, Size
<1>4. n # 1 => n - 1 \in 1 .. Current
  BY SentFacts
<1>5. Expected(n)' => Expected(n)
  BY <1>1, <1>3, <1>4 DEF Expected
<1>6. Begins(data) /\ n = Current /\ Late => ~Expected(n)'
  BY <1>1 DEF Expected
<1>7. QED
  BY <1>2, <1>3, <1>5, <1>6

(* While nothing waits, what a byte does if nothing will wait behind it. *)
LEMMA StillNone ==
    ASSUME AInv, AInv', NEW data \in Byte, Arrives(data), Unhandled' = 0
    PROVE  /\ Unhandled = 0 /\ Takes(data) /\ byteCount' = byteCount + 1
           /\ FirstStored(data).kind \in pad.first \cup pad.bare
<1>1. /\ Unhandled \in Nat /\ (Unhandled > 0 => Unhandled' > 0)
      /\ AdvanceHead /\ Unhandled = 0 => Unhandled' = 1
  BY ArrivesUnhandled DEF AInv
<1>2. Unhandled = 0 /\ ~AdvanceHead
  BY <1>1
<1>3. Takes(data) /\ FirstStored(data).kind \in pad.first \cup pad.bare
  BY <1>2, InterruptCases DEF Arrives, AInv, Rejects
<1>4. QED
  BY <1>2, <1>3 DEF Takes

LEMMA ArrivesBehind ==
    ASSUME AInv, AInv', BehindHandled, NEW data \in Byte, Arrives(data)
    PROVE  BehindHandled'
<1>1. handled' = handled /\ came' = came + 1
  BY InterruptCases DEF Arrives, AInv
<1>2. /\ came \in Nat /\ byteCount \in Nat
      /\ \A k \in 1 .. Len(handled) : handled[k].bytes[0].no \in Nat
  BY HandledFacts, Product DEF AInv, Types
<1> SUFFICES ASSUME NEW k \in 1 .. Len(handled), Handled(k)
             PROVE  /\ handled[k].bytes[0].no + P <= came' + 1
                    /\ Unhandled' = 0 => handled[k].bytes[0].no + P <= came' + 1 - byteCount'
  BY <1>1 DEF BehindHandled, Handled
<1>3. /\ handled[k].bytes[0].no + P <= came + 1
      /\ Unhandled = 0 => handled[k].bytes[0].no + P <= came + 1 - byteCount
  BY DEF BehindHandled
<1>4. handled[k].bytes[0].no + P <= came' + 1
  BY <1>1, <1>2, <1>3, Sizes
<1>5. ASSUME Unhandled' = 0 PROVE handled[k].bytes[0].no + P <= came' + 1 - byteCount'
  <2>1. Unhandled = 0 /\ byteCount' = byteCount + 1
    BY <1>5, StillNone
  <2>2. QED
    BY <1>1, <1>2, <1>3, <2>1, Sizes
<1>6. QED
  BY <1>4, <1>5

LEMMA ArrivesLed ==
    ASSUME AInv, AInv', Led, NEW data \in Byte, Arrives(data), Begins(data) \/ Goes(data)
    PROVE  Led'
<1>1. came' = came + 1 /\ came \in Nat /\ byteCount \in Nat /\ Current \in Nat
  <2>1. Types /\ came' = came + 1
    BY DEF Arrives, AInv
  <2>2. byteCount \in Nat
    BY <2>1, Product DEF Types
  <2>3. QED
    BY <2>1, <2>2, SentFacts
<1> SUFFICES ASSUME Unhandled' = 0, Size(Current)' = P, ~sent'[Current'].misled
             PROVE  came' - byteCount' + 1 <= sent'[Current'].from
  BY DEF Led
<1>2. /\ Unhandled = 0 /\ byteCount' = byteCount + 1
      /\ FirstStored(data).kind \in pad.first \cup pad.bare
  BY StillNone
<1>3. CASE Begins(data)
  <2>1. sent'[Current'].from = came + 1
    BY <1>3 DEF Begins
  <2>2. QED
    BY <1>1, <1>2, <2>1
<1>4. CASE Goes(data)
  <2>1. /\ Current' = Current /\ Current >= 1
        /\ sent'[Current].from = sent[Current].from /\ sent'[Current].size = sent[Current].size
        /\ ~sent[Current].misled /\ ~Misleads(data.kind)
    BY <1>4 DEF Goes
  <2>2. byteCount > 0
    BY <1>1, <1>2, <2>1 DEF Misleads, FirstStored
  <2>3. sent[Current].from \in Nat
    BY <1>1, <2>1, SentFacts DEF AInv
  <2>4. came - byteCount + 1 <= sent[Current].from
    BY <1>2, <2>1, <2>2 DEF Led, Size
  <2>5. QED
    BY <1>1, <1>2, <2>1, <2>3, <2>4
<1>5. QED
  BY <1>3, <1>4

(* A good byte of a packet that is at the head. *)
LEMMA GoodTaken ==
    ASSUME AInv, AInv', NEW data \in Byte, Arrives(data), Unhandled = 0,
           byteCount \in Nat, byteCount < P, Passes(byteCount, data.kind),
           \A i \in 0 .. byteCount - 1 : Passes(i, At(head, i).kind)
    PROVE  /\ byteCount' = byteCount + 1
           /\ byteCount + 1 = P => Pending'
           /\ byteCount + 1 # P =>
                 /\ Unhandled' = 0
                 /\ \A i \in 0 .. byteCount' - 1 : Passes(i, At(head, i).kind)'
<1>1. Types /\ Phases /\ Types'
  BY DEF AInv
<1>2. FirstStored(data).kind \in pad.first \ pad.bare /\ ~Failed
  <2>1. CASE byteCount = 0
    BY <2>1 DEF FirstStored, Failed, Passes
  <2>2. CASE byteCount >= 1
    BY <2>2, GoodHead DEF FirstStored
  <2>3. QED
    BY <2>1, <2>2
<1>3. /\ Takes(data)
      /\ IF byteCount + 1 = P THEN AdvanceHead /\ signalled' = TRUE ELSE Stays
  BY <1>1, <1>2, InterruptCases DEF Arrives
<1>4. /\ byteCount' = byteCount + 1 /\ badData' = FALSE
      /\ \A i \in 0 .. byteCount :
            Packet(buffer', head, i) = IF i = byteCount THEN data ELSE At(head, i)
  BY <1>3 DEF Takes
<1>5. /\ loop' = loop /\ pad' = pad
      /\ AdvanceHead => Unhandled' = 1
      /\ Stays => Unhandled' = Unhandled
  BY <1>1, ArrivesUnhandled DEF Arrives
<1>6. ASSUME byteCount + 1 = P PROVE Pending'
  <2>1. loop # "reset"
    BY <1>1, UnhandledFacts DEF Phases
  <2>2. QED
    BY <1>3, <1>4, <1>5, <1>6, <2>1 DEF Pending
<1>7. ASSUME byteCount + 1 # P
      PROVE  /\ Unhandled' = 0
             /\ \A i \in 0 .. byteCount' - 1 : Passes(i, At(head, i).kind)'
  <2>1. Unhandled' = 0 /\ head' = head
    BY <1>3, <1>5, <1>7 DEF Stays
  <2>2. ASSUME NEW i \in 0 .. byteCount' - 1 PROVE Passes(i, At(head, i).kind)'
    <3>1. i \in 0 .. byteCount /\ (i # byteCount => i \in 0 .. byteCount - 1)
      BY <1>4
    <3>2. Passes(i, Packet(buffer', head, i).kind)
      BY <1>4, <3>1
    <3>3. QED
      BY <1>5, <2>1, <3>2 DEF At, Passes
  <2>3. QED
    BY <2>1, <2>2
<1>8. QED
  BY <1>4, <1>6, <1>7

LEMMA BeginsInStep ==
    ASSUME AInv, AInv', SInv, NEW data \in Byte, Arrives(data), Begins(data), handled' = handled
    PROVE  InStep' /\ Arrived'
<1>1. Types /\ Types' /\ Numbers /\ Arrived
  BY DEF AInv, SInv
<1>2. /\ Complete /\ Current' = Current + 1 /\ came' = came + 1
      /\ sent'[Current + 1].from = came + 1 /\ sent'[Current + 1].late = Late
      /\ sent'[Current + 1].good => Passes(0, data.kind)
  BY DEF Begins, Arrives
<1>3. Current \in Nat /\ came \in Nat
  BY <1>1, SentFacts
<1> PICK c \in Nat : c = Current
  BY <1>3
<1>4. InStep'
  <2> SUFFICES ASSUME Expected(Current)'
               PROVE  /\ Unhandled' = 0 /\ byteCount' = came' + 1 - sent'[Current'].from
                      /\ \A i \in 0 .. byteCount' - 1 : Passes(i, At(head, i).kind)'
    BY DEF InStep
  <2>1. /\ sent'[Current + 1].good /\ ~sent'[Current + 1].late
        /\ c = 0 \/ Clear(c)'
    <3>1. Current' = c + 1 /\ (c + 1) - 1 = c /\ (c + 1 = 1 <=> c = 0)
      BY <1>2
    <3>2. Expected(c + 1)'
      BY <3>1
    <3>3. c + 1 = 1 \/ Clear((c + 1) - 1)'
      BY <3>2 DEF Expected
    <3>4. c = 0 \/ Clear(c)'
      BY <3>1, <3>3
    <3>5. sent'[c + 1].good /\ ~sent'[c + 1].late
      BY <3>2 DEF Expected
    <3>6. QED
      BY <3>4, <3>5
  <2>2. ~Late /\ Passes(0, data.kind)
    BY <1>2, <2>1
  <2>3. Current = 0 \/ Clear(Current)
    <3>1. CASE Current # 0
      <4>1. c \in 1 .. Current /\ Clear(c)'
        BY <1>3, <2>1, <3>1
      <4>2. QED
        BY <1>1, <4>1, ArrivesExpected
    <3>2. QED
      BY <3>1
  <2>4. Unhandled = 0 /\ byteCount = 0
    BY <1>2, <2>2, <2>3, StartsClean
  <2>5. byteCount + 1 # P /\ byteCount < P /\ byteCount \in Nat
    BY <2>4, Sizes
  <2>6. /\ byteCount' = 1 /\ Unhandled' = 0
        /\ \A i \in 0 .. byteCount' - 1 : Passes(i, At(head, i).kind)'
    BY <2>2, <2>4, <2>5, GoodTaken
  <2>7. QED
    BY <1>2, <1>3, <2>6
<1>5. Arrived'
  <2> SUFFICES ASSUME NEW n \in 1 .. Current', Expected(n)', n < Current' \/ Complete'
               PROVE  Processed(n)' \/ (n = Current' /\ Pending')
    BY DEF Arrived
  <2>1. n # Current'
    <3>1. SUFFICES ASSUME n = Current' PROVE FALSE
      OBVIOUS
    <3>2. /\ came' + 1 = sent'[Current'].from + sent'[Current'].size
          /\ Current' \in 1 .. Current'
      <4>1. sent' # <<>>
        BY <1>1, <1>2, <1>3 DEF Types, Current
      <4>2. QED
        BY <1>2, <1>3, <3>1, <4>1 DEF Complete, Size, Current
    <3>3. sent'[Current'].size \in {3, P}
      <4>1. sent' \in Seq(Sent) /\ Current' = Len(sent')
        BY <1>1 DEF Types, Current
      <4>2. \A m \in 1 .. Current' : sent'[m] \in Sent
        BY <4>1
      <4>3. QED
        BY <3>2, <4>2 DEF Sent
    <3>4. QED
      BY <1>2, <1>3, <3>2, <3>3, Sizes
  <2>2. n \in 1 .. Current
    BY <1>2, <1>3, <2>1
  <2>3. /\ Processed(n)' <=> Processed(n)
        /\ Expected(n) /\ (n = Current => ~Late)
    BY <1>1, <2>2, ArrivesExpected
  <2>4. Processed(n) \/ (n = Current /\ Unhandled = 1)
    BY <1>1, <1>2, <2>2, <2>3 DEF Arrived, Pending
  <2>5. QED
    BY <2>3, <2>4 DEF Late
<1>6. QED
  BY <1>4, <1>5

LEMMA GoesInStep ==
    ASSUME AInv, AInv', SInv, NEW data \in Byte, Arrives(data), Goes(data), handled' = handled
    PROVE  InStep' /\ Arrived'
<1>1. Types /\ Types' /\ Numbers /\ InStep /\ Arrived
  BY DEF AInv, SInv
<1>2. /\ ~Complete /\ Current >= 1 /\ Current' = Current /\ came' = came + 1
      /\ sent'[Current].from = sent[Current].from /\ sent'[Current].size = sent[Current].size
      /\ sent'[Current].good => Passes(came + 1 - sent[Current].from, data.kind)
  BY DEF Goes, Arrives
<1>3. Current \in 1 .. Current /\ Current \in Nat /\ came \in Nat /\ sent[Current].from \in Nat
  BY <1>1, <1>2, SentFacts
<1>4. /\ sent[Current].from <= came /\ came < sent[Current].from + Size(Current)
      /\ sent[Current].good => Size(Current) = P
  BY <1>1, <1>2, <1>3 DEF Numbers
<1>5. \A n \in 1 .. Current : (Processed(n)' <=> Processed(n)) /\ (Expected(n)' => Expected(n))
  BY <1>1, ArrivesExpected
<1>6. Complete' <=> came' + 1 = sent[Current].from + Size(Current)
  <2>1. sent' # <<>>
    BY <1>1, <1>2, <1>3 DEF Types, Current
  <2>2. QED
    BY <1>2, <2>1 DEF Complete, Size, Current
<1>7. ASSUME Expected(Current)'
      PROVE  /\ byteCount' = came' + 1 - sent'[Current].from
             /\ Complete' => Pending'
             /\ ~Complete' =>
                   /\ Unhandled' = 0
                   /\ \A i \in 0 .. byteCount' - 1 : Passes(i, At(head, i).kind)'
  <2>1. Expected(Current) /\ sent'[Current].good
    <3>1. PICK n \in 1 .. Current : n = Current
      BY <1>3
    <3>2. Expected(n)'
      BY <1>2, <1>7, <3>1
    <3>3. QED
      BY <1>5, <3>1, <3>2 DEF Expected
  <2>2. /\ Unhandled = 0 /\ byteCount = came + 1 - sent[Current].from
        /\ \A i \in 0 .. byteCount - 1 : Passes(i, At(head, i).kind)
    BY <1>1, <1>2, <2>1 DEF InStep
  <2>3. Size(Current) = P
    BY <1>4, <2>1 DEF Expected
  <2>4. Passes(byteCount, data.kind)
    BY <1>2, <2>1, <2>2
  <2>5. byteCount \in Nat /\ byteCount < P
    <3>1. came + 1 # sent[Current].from + Size(Current)
      BY <1>1, <1>2, SentFacts
    <3>2. QED
      BY <1>3, <1>4, <2>2, <2>3, <3>1, Sizes
  <2>6. Complete' <=> byteCount + 1 = P
    BY <1>2, <1>3, <1>6, <2>2, <2>3, Sizes
  <2>7. QED
    BY <1>2, <1>3, <2>2, <2>4, <2>5, <2>6, GoodTaken
<1>8. InStep'
  BY <1>2, <1>7 DEF InStep
<1>9. Arrived'
  <2> SUFFICES ASSUME NEW n \in 1 .. Current, Expected(n)', n < Current \/ Complete'
               PROVE  Processed(n)' \/ (n = Current /\ Pending')
    BY <1>2 DEF Arrived
  <2>1. CASE n = Current
    <3>1. Expected(Current)'
      BY <1>2, <2>1
    <3>2. QED
      BY <1>3, <1>7, <2>1, <3>1
  <2>2. CASE n # Current
    <3>1. n < Current
      BY <1>3, <2>2
    <3>2. QED
      BY <1>1, <1>5, <2>2, <3>1 DEF Arrived
  <2>3. QED
    BY <2>1, <2>2
<1>10. QED
  BY <1>8, <1>9

LEMMA ArrivesSInv ==
    ASSUME AInv, AInv', SInv, NEW data \in Byte, Arrives(data), Begins(data) \/ Goes(data)
    PROVE  SInv'
<1>1. handled' = handled
  BY InterruptCases DEF Arrives, AInv
<1>2. Numbers'
  BY ArrivesNumbers DEF AInv, SInv
<1>3. BehindHandled'
  BY ArrivesBehind DEF SInv
<1>4. Led'
  BY ArrivesLed DEF SInv
<1>5. InStep' /\ Arrived'
  BY <1>1, BeginsInStep, GoesInStep
<1>6. QED
  BY <1>2, <1>3, <1>4, <1>5 DEF SInv

-----------------------------------------------------------------------------
(* packetReady. *)
LEMMA HandleSInv ==
    ASSUME AInv, AInv', SInv, Handle
    PROVE  SInv'
<1>1. Types /\ Phases /\ Waiting /\ Types'
  BY DEF AInv
<1>2. Numbers /\ BehindHandled /\ Led /\ InStep /\ Arrived
  BY DEF SInv
<1>3. /\ loop = "handle" /\ loop' = "reset"
      /\ UNCHANGED <<pad, sent, came, late, buffer, head, tail, byteCount, badData>>
  BY <1>1, HandleCases
<1>4. Unhandled' = Unhandled /\ Unhandled = Count /\ Count >= 1 /\ Count \in Nat
  BY <1>1, <1>3, CountFacts DEF Unhandled, Count, Phases
<1>5. Numbers' /\ Led'
  BY <1>2, <1>3, <1>4 DEF Numbers, Led, Current, Size
<1>6. Current \in Nat /\ came \in Nat /\ Len(handled) \in Nat
  BY <1>1, SentFacts, HandledFacts
<1>7. /\ Len(handled') >= Len(handled) /\ Len(handled') \in Nat
      /\ \A k \in 1 .. Len(handled) : handled'[k] = handled[k]
  BY <1>1, <1>6, HandleCases DEF decoderVars
(* What is new is the last packet, and nothing was late. *)
<1>8. ASSUME NEW k \in 1 .. Len(handled'), k \notin 1 .. Len(handled), ~handled'[k].late
      PROVE  ~late /\ handled'[k].bytes[0].no + P = came + 1
  <2>1. ~badData /\ k = Len(handled) + 1
    BY <1>1, <1>6, <1>8, HandleCases DEF decoderVars
  <2>2. ~late /\ handled'[k].bytes[0] = At(tail, 0)
    BY <1>1, <1>8, <2>1, HandleCases, Sizes
  <2>3. Unhandled = 1 /\ Count = 1
    BY <1>1, <1>4, <2>2 DEF Phases
  <2>4. tail = Prev(head) /\ 0 \in 0 .. P - 1
    BY <1>1, <2>3, OnlyPacket, Sizes
  <2>5. At(Prev(head), 0).no + P = came + 1 + 0
    BY <1>1, <2>1, <2>2, <2>3, <2>4 DEF Waiting
  <2>6. QED
    BY <1>6, <2>2, <2>4, <2>5
<1>9. BehindHandled'
  <2> SUFFICES ASSUME NEW k \in 1 .. Len(handled'), ~handled'[k].late
               PROVE  handled'[k].bytes[0].no + P <= came + 1
    BY <1>3, <1>4 DEF BehindHandled, Handled
  <2>1. CASE k \in 1 .. Len(handled)
    BY <1>2, <1>7, <2>1 DEF BehindHandled, Handled
  <2>2. CASE k \notin 1 .. Len(handled)
    <3>1. handled'[k].bytes[0].no + P = came + 1
      BY <1>8, <2>2
    <3>2. QED
      BY <1>6, <3>1
  <2>3. QED
    BY <2>1, <2>2
(* So no packet but the last one has become processed. *)
<1>10. ASSUME NEW n \in 1 .. Current, n < Current
       PROVE  Processed(n)' => Processed(n)
  <2> SUFFICES ASSUME Processed(n)' PROVE Processed(n)
    OBVIOUS
  <2>1. PICK k \in 1 .. Len(handled') :
           ~handled'[k].late /\ handled'[k].bytes[0].no = sent[n].from /\ Size(n) = P
    BY <1>3 DEF Processed, Size
  <2>2. k \in 1 .. Len(handled)
    <3>1. SUFFICES ASSUME k \notin 1 .. Len(handled) PROVE FALSE
      OBVIOUS
    <3>2. sent[n].from + P = came + 1
      BY <1>8, <2>1, <3>1
    <3>3. n + 1 \in 1 .. Current /\ sent[n + 1].from = sent[n].from + P
      BY <1>2, <1>6, <1>10, <2>1 DEF Numbers
    <3>4. sent[n + 1].from <= came
      BY <1>2, <3>3 DEF Numbers
    <3>5. QED
      BY <1>6, <3>2, <3>3, <3>4
  <2>3. QED
    BY <1>7, <2>1, <2>2 DEF Processed
<1>11. ASSUME NEW n \in 1 .. Current PROVE Processed(n) => Processed(n)'
  <2> SUFFICES ASSUME Processed(n) PROVE Processed(n)'
    OBVIOUS
  <2>1. PICK k \in 1 .. Len(handled) :
           ~handled[k].late /\ handled[k].bytes[0].no = sent[n].from /\ Size(n) = P
    BY DEF Processed
  <2>2. k \in 1 .. Len(handled')
    BY <1>6, <1>7
  <2>3. QED
    BY <1>3, <1>7, <2>1, <2>2 DEF Processed, Size
<1>12. ASSUME NEW n \in 1 .. Current PROVE Expected(n)' => Expected(n)
  <2>1. n # 1 => n - 1 \in 1 .. Current /\ n - 1 < Current
    BY <1>6
  <2>2. n # 1 => (Clear(n - 1)' => Clear(n - 1))
    BY <1>3, <1>10, <2>1 DEF Clear, Size
  <2>3. QED
    BY <1>3, <2>2 DEF Expected
<1>13. Current' = Current /\ (Complete' <=> Complete)
  BY <1>3 DEF Current, Complete, Size
<1>14. InStep'
  <2> SUFFICES ASSUME Current >= 1, ~Complete, Expected(Current)'
               PROVE  FALSE
    BY <1>13 DEF InStep
  <2>1. Expected(Current)
    <3>1. PICK n \in 1 .. Current : n = Current
      BY <1>6
    <3>2. Expected(n)'
      BY <1>13, <3>1
    <3>3. QED
      BY <1>12, <3>1, <3>2
  <2>2. QED
    BY <1>2, <1>4, <2>1 DEF InStep
<1>15. Arrived'
  <2> SUFFICES ASSUME NEW n \in 1 .. Current, Expected(n)', n < Current \/ Complete
               PROVE  Processed(n)'
    BY <1>13 DEF Arrived
  <2>1. Expected(n)
    BY <1>12
  <2>2. CASE Processed(n)
    BY <1>11, <2>2
  <2>3. CASE n = Current /\ Unhandled = 1 /\ ~badData
    <3>1. ~sent[Current].late /\ Size(Current) = P
      BY <1>2, <2>1, <2>3 DEF Expected, Numbers
    <3>2. ~late
      BY <1>2, <3>1 DEF Numbers
    <3>3. sent[Current].from + P = came + 1 /\ sent[Current].from \in Nat
      BY <1>1, <2>3, <3>1, SentFacts
    <3>4. PICK k : k = Len(handled) + 1
      OBVIOUS
    <3>5. k \in 1 .. Len(handled') /\ k \notin 1 .. Len(handled) /\ handled'[k].late = late
      BY <1>1, <1>6, <2>3, <3>4, HandleCases
    <3>6. handled'[k].bytes[0].no + P = came + 1
      BY <1>8, <3>2, <3>5
    <3>7. handled'[k].bytes[0].no \in Nat
      <4>0. handled' \in Seq(Entry)
        BY <1>1 DEF Types
      <4>1. \A j \in 1 .. Len(handled') : handled'[j] \in Entry
        BY <4>0
      <4>2. handled'[k].bytes[0] \in Byte
        BY <3>5, <4>1, Sizes DEF Entry
      <4>3. QED
        BY <4>2 DEF Byte
    <3>8. handled'[k].bytes[0].no = sent[n].from
      BY <2>3, <3>3, <3>6, <3>7, Sizes
    <3>9. QED
      BY <1>3, <2>3, <3>1, <3>2, <3>5, <3>8 DEF Processed, Size
  <2>4. QED
    BY <1>2, <2>1, <2>2, <2>3 DEF Arrived, Pending
<1>16. QED
  BY <1>5, <1>9, <1>14, <1>15 DEF SInv

(* The other steps leave what was sent and handled as it is. *)
LEMMA SameSent ==
    ASSUME UNCHANGED <<pad, sent, came, handled, frames>>
    PROVE  /\ Current' = Current /\ (Complete' <=> Complete)
           /\ \A n : (Processed(n)' <=> Processed(n)) /\ (Expected(n)' <=> Expected(n))
           /\ \A k : Handled(k)' <=> Handled(k)
           /\ \A n : Size(n)' = Size(n)
BY DEF Current, Complete, Size, Processed, Clear, Expected, Handled

LEMMA LoopSInv ==
    ASSUME AInv, AInv', SInv, Wake \/ TestCount \/ ResetCount \/ AdvanceTail
    PROVE  SInv'
<1>1. Types /\ Phases /\ Types'
  BY DEF AInv
<1>2. Numbers /\ BehindHandled /\ Led /\ InStep /\ Arrived
  BY DEF SInv
<1>3. UNCHANGED <<pad, sent, came, buffer, head, badData, multi, handled, frames>>
  BY DEF Wake, TestCount, ResetCount, AdvanceTail, deviceVars, ringVars, decoderVars
<1>4. /\ Current' = Current /\ (Complete' <=> Complete)
      /\ \A n : (Processed(n)' <=> Processed(n)) /\ (Expected(n)' <=> Expected(n))
      /\ \A k : Handled(k)' <=> Handled(k)
      /\ \A n : Size(n)' = Size(n)
  BY <1>3, SameSent
<1>5. Numbers'
  <2>1. late' => late
    BY DEF Wake, TestCount, ResetCount, AdvanceTail, deviceVars
  <2>2. QED
    BY <1>2, <1>3, <1>4, <2>1 DEF Numbers
<1>6. CASE ResetCount
  <2>1. loop = "reset" /\ byteCount' = 0 /\ Unhandled = Count /\ Count >= 1
    BY <1>1, <1>6 DEF ResetCount, Unhandled, Phases
  <2>2. BehindHandled'
    <3>1. came \in Nat
      BY <1>1 DEF Types
    <3>2. QED
      BY <1>2, <1>3, <1>4, <2>1, <3>1 DEF BehindHandled
  <2>3. Led'
    BY <2>1 DEF Led
  <2>4. InStep'
    BY <1>2, <1>4, <2>1 DEF InStep
  <2>5. Arrived'
    BY <1>2, <1>4, <2>1 DEF Arrived, Pending
  <2>6. QED
    BY <1>5, <2>2, <2>3, <2>4, <2>5 DEF SInv
<1>7. CASE Wake \/ TestCount \/ AdvanceTail
  <2>1. byteCount' = byteCount /\ loop' # "reset"
    BY <1>7 DEF Wake, TestCount, AdvanceTail
  <2>2. Unhandled' = Unhandled
    <3>1. CASE Wake \/ TestCount
      BY <1>3, <3>1 DEF Wake, TestCount, ringVars, Unhandled, Count
    <3>2. CASE AdvanceTail
      <4>1. loop = "advance" /\ loop' = "test" /\ tail' = (tail + 1) % N
        BY <3>2 DEF AdvanceTail
      <4>2. Count' = Count - 1
        BY <1>1, <1>3, <4>1, TailAdvances DEF Phases
      <4>3. QED
        BY <4>1, <4>2 DEF Unhandled
    <3>3. QED
      BY <1>7, <3>1, <3>2
  <2>3. BehindHandled' /\ Led'
    BY <1>2, <1>3, <1>4, <2>1, <2>2 DEF BehindHandled, Led
  <2>4. InStep'
    BY <1>2, <1>3, <1>4, <2>1, <2>2 DEF InStep, At, Packet, Passes
  <2>5. Arrived'
    BY <1>2, <1>3, <1>4, <2>1, <2>2 DEF Arrived, Pending
  <2>6. QED
    BY <1>5, <2>3, <2>4, <2>5 DEF SInv
<1>8. QED
  BY <1>6, <1>7

LEMMA StutterSInv ==
    ASSUME SInv, UNCHANGED vars
    PROVE  SInv'
<1>1. UNCHANGED <<pad, sent, came, late, buffer, head, tail, byteCount, badData, loop, handled,
                  frames>>
  BY DEF vars, deviceVars, ringVars, decoderVars
<1>2. /\ Current' = Current /\ (Complete' <=> Complete)
      /\ \A n : (Processed(n)' <=> Processed(n)) /\ (Expected(n)' <=> Expected(n))
      /\ \A k : Handled(k)' <=> Handled(k)
      /\ \A n : Size(n)' = Size(n)
  BY <1>1, SameSent
<1>3. Unhandled' = Unhandled
  BY <1>1 DEF Unhandled, Count
<1>4. Numbers' /\ BehindHandled' /\ Led'
  BY <1>1, <1>2, <1>3 DEF SInv, Numbers, BehindHandled, Led
<1>5. InStep' /\ Arrived'
  BY <1>1, <1>2, <1>3 DEF SInv, InStep, Arrived, Pending, At, Packet, Passes
<1>6. QED
  BY <1>4, <1>5 DEF SInv

LEMMA NextSInv == AInv /\ AInv' /\ SInv /\ [Next]_vars => SInv'
<1> SUFFICES ASSUME AInv, AInv', SInv, [Next]_vars PROVE SInv'
  OBVIOUS
<1>1. CASE ByteComes
  <2>1. PICK data \in Byte : Arrives(data) /\ (Begins(data) \/ Goes(data))
    BY <1>1, ByteCases DEF AInv
  <2>2. QED
    BY <2>1, ArrivesSInv
<1>2. CASE Handle
  BY <1>2, HandleSInv
<1>3. CASE Wake \/ TestCount \/ ResetCount \/ AdvanceTail
  BY <1>3, LoopSInv
<1>4. CASE UNCHANGED vars
  BY <1>4, StutterSInv
<1>5. QED
  BY <1>1, <1>2, <1>3, <1>4 DEF Next, PacketReady

LEMMA StepInvariance == Spec => []SInv
BY InitSInv, NextSInv, AssemblyInvariance, PTL DEF Spec

(* A good packet without a late byte is processed if the one before it was *)
(* or, whatever else was wrong with it, misled nobody.                     *)
THEOREM KeepsStepHolds == Spec => []KeepsStep
<1>1. ASSUME AInv, SInv PROVE KeepsStep
  <2>1. ASSUME Quiet, NEW n \in 1 .. Len(sent), Expected(n) PROVE Processed(n)
    <3>1. Complete /\ ~signalled /\ loop = "wait"
      BY <2>1 DEF Quiet
    <3>2. Unhandled # 1
      BY <1>1, <3>1, CountFacts DEF AInv, Phases, Unhandled
    <3>3. QED
      BY <1>1, <2>1, <3>1, <3>2 DEF SInv, Arrived, Pending, Current
  <2>2. StaysInStep
    BY <2>1 DEF StaysInStep, Expected, Clear
  <2>3. ResyncAtOnce
    <3> SUFFICES ASSUME Quiet, NEW n \in 2 .. Len(sent), sent[n].good, ~sent[n].late,
                        Size(n - 1) = P, ~sent[n - 1].misled
                 PROVE  Processed(n)
      BY DEF ResyncAtOnce
    <3>1. n \in 1 .. Len(sent)
      BY <1>1 DEF AInv, Types
    <3>2. QED
      BY <2>1, <3>1 DEF Expected, Clear
  <2>4. QED
    BY <2>2, <2>3 DEF KeepsStep
<1>2. AInv /\ SInv => KeepsStep
  BY <1>1
<1>3. QED
  BY <1>2, AssemblyInvariance, StepInvariance, PTL

-----------------------------------------------------------------------------
(* The decoder: what it waits for is what the packets since allow.         *)
Between(j, k) == \A i \in j + 1 .. k - 1 : handled[i].as = "stick" /\ pad.keeps
Begun(j) == handled[j].as = "first" /\ Between(j, Len(handled) + 1)
Single(f) == \E j \in 1 .. Len(handled) : f = <<j>> /\ handled[j].as = "single"
Pair(j, k) ==
    /\ j < k /\ handled[j].as = "first" /\ handled[k].as = "second"
    /\ Between(j, k)

Decoder ==
    /\ multi # 0 => Begun(multi)
    /\ \A j \in 1 .. Len(handled) : Begun(j) => multi = j
    /\ \A f \in frames : Single(f) \/ \E j, k \in 1 .. Len(handled) : f = <<j, k>> /\ Pair(j, k)
    /\ \A j \in 1 .. Len(handled) : handled[j].as = "single" => <<j>> \in frames
    /\ \A j, k \in 1 .. Len(handled) : Pair(j, k) => <<j, k>> \in frames

(* One packet more. *)
LEMMA OneHandled ==
    ASSUME NEW h \in Nat, h = Len(handled), Len(handled') = h + 1, pad' = pad,
           \A k \in 1 .. h : handled'[k] = handled[k]
    PROVE  /\ \A j, k \in 1 .. h : Pair(j, k)' <=> Pair(j, k)
           /\ \A j \in 1 .. h : Pair(j, h + 1)' <=> Begun(j) /\ handled'[h + 1].as = "second"
           /\ \A j \in 1 .. h :
                 Begun(j)' <=> Begun(j) /\ handled'[h + 1].as = "stick" /\ pad.keeps
           /\ Begun(h + 1)' <=> handled'[h + 1].as = "first"
           /\ \A j \in 1 .. h + 1 : ~Pair(h + 1, j)'
<1>1. ASSUME NEW j \in 1 .. h, NEW k \in 1 .. h + 1 PROVE Between(j, k)' <=> Between(j, k)
  <2>1. \A i \in j + 1 .. k - 1 : i \in 1 .. h
    OBVIOUS
  <2>2. QED
    BY <2>1 DEF Between
<1>2. ASSUME NEW j \in 1 .. h
      PROVE  Between(j, h + 2)' <=>
                Between(j, h + 1) /\ handled'[h + 1].as = "stick" /\ pad.keeps
  <2>1. \A i : i \in j + 1 .. h + 2 - 1 <=> i \in j + 1 .. h + 1 - 1 \/ i = h + 1
    OBVIOUS
  <2>2. \A i \in j + 1 .. h + 1 - 1 : handled'[i] = handled[i]
    OBVIOUS
  <2>3. QED
    BY <2>1, <2>2 DEF Between
<1>3. h + 1 + 1 = h + 2 /\ h + 1 \in 1 .. h + 1
  OBVIOUS
<1>4. ASSUME NEW j \in 1 .. h
      PROVE  Begun(j)' <=> Begun(j) /\ handled'[h + 1].as = "stick" /\ pad.keeps
  BY <1>2, <1>3 DEF Begun
<1>5. Begun(h + 1)' <=> handled'[h + 1].as = "first"
  <2>1. Between(h + 1, h + 2)'
    <3>1. \A i : i \notin (h + 1) + 1 .. h + 2 - 1
      OBVIOUS
    <3>2. QED
      BY <3>1 DEF Between
  <2>2. QED
    BY <1>3, <2>1 DEF Begun
<1>6. \A j, k \in 1 .. h : Pair(j, k)' <=> Pair(j, k)
  BY <1>1 DEF Pair
<1>7. \A j \in 1 .. h : Pair(j, h + 1)' <=> Begun(j) /\ handled'[h + 1].as = "second"
  BY <1>1 DEF Pair, Begun
<1>8. \A j \in 1 .. h + 1 : ~Pair(h + 1, j)'
  BY DEF Pair
<1>9. QED
  BY <1>4, <1>5, <1>6, <1>7, <1>8

LEMMA HandleDecoder ==
    ASSUME Types, Decoder, Handle
    PROVE  Decoder'
<1>1. pad' = pad
  BY HandleCases
<1>2. CASE UNCHANGED decoderVars
  BY <1>1, <1>2 DEF Decoder, decoderVars, Begun, Single, Pair, Between
<1>3. CASE \E part \in Parts :
              /\ Len(handled') = Len(handled) + 1
              /\ \A k \in 1 .. Len(handled) : handled'[k] = handled[k]
              /\ handled'[Len(handled) + 1].as = part
              /\ ProcessPacket(Len(handled) + 1, part)
  <2>1. PICK h \in Nat : h = Len(handled)
    BY HandledFacts
  <2>2. PICK part \in Parts :
           /\ Len(handled') = h + 1 /\ \A k \in 1 .. h : handled'[k] = handled[k]
           /\ handled'[h + 1].as = part /\ ProcessPacket(h + 1, part)
    BY <1>3, <2>1
  <2>3. multi \in 0 .. h
    BY <2>1 DEF Types
  <2>4. /\ \A j, k \in 1 .. h : Pair(j, k)' <=> Pair(j, k)
        /\ \A j \in 1 .. h : Pair(j, h + 1)' <=> Begun(j) /\ part = "second"
        /\ \A j \in 1 .. h : Begun(j)' <=> Begun(j) /\ part = "stick" /\ pad.keeps
        /\ Begun(h + 1)' <=> part = "first"
        /\ \A j \in 1 .. h + 1 : ~Pair(h + 1, j)'
    BY <1>1, <2>1, <2>2, OneHandled
  <2>5. \A k : k \in 1 .. h + 1 <=> k \in 1 .. h \/ k = h + 1
    OBVIOUS
  <2>6. /\ multi # 0 => Begun(multi)
        /\ \A j \in 1 .. h : Begun(j) => multi = j
        /\ \A f \in frames :
              \/ \E j \in 1 .. h : f = <<j>> /\ handled[j].as = "single"
              \/ \E j, k \in 1 .. h : f = <<j, k>> /\ Pair(j, k)
        /\ \A j \in 1 .. h : handled[j].as = "single" => <<j>> \in frames
        /\ \A j, k \in 1 .. h : Pair(j, k) => <<j, k>> \in frames
    BY <2>1 DEF Decoder, Single
  (* What process_packet makes of it. *)
  <2>7. /\ part = "second" /\ multi # 0 => frames' = frames \cup {<<multi, h + 1>>} /\ multi' = 0
        /\ part = "second" /\ multi = 0 => frames' = frames /\ multi' = 0
        /\ part = "first" => frames' = frames /\ multi' = h + 1
        /\ part = "single" => frames' = frames \cup {<<h + 1>>} /\ multi' = 0
        /\ part = "stick" => frames' = frames /\ multi' = IF pad.keeps THEN multi ELSE 0
    BY <2>2 DEF ProcessPacket
  <2>8. frames \subseteq frames'
    BY <2>2, <2>7 DEF Parts
  <2>9. multi' # 0 => Begun(multi)'
    <3>1. PICK m \in 0 .. h + 1 : m = multi'
      BY <2>2, <2>3, <2>7 DEF Parts
    <3>2. m # 0 => Begun(m)'
      BY <2>2, <2>3, <2>4, <2>6, <2>7, <3>1 DEF Parts
    <3>3. QED
      BY <3>1, <3>2
  <2>10. \A j \in 1 .. h + 1 : Begun(j)' => multi' = j
    BY <2>2, <2>3, <2>4, <2>5, <2>6, <2>7 DEF Parts
  <2>11. ASSUME NEW f \in frames'
         PROVE  \/ \E j \in 1 .. h + 1 : f = <<j>> /\ handled'[j].as = "single"
                \/ \E j, k \in 1 .. h + 1 : f = <<j, k>> /\ Pair(j, k)'
    <3>1. CASE f \in frames
      <4>1. CASE \E j \in 1 .. h : f = <<j>> /\ handled[j].as = "single"
        BY <2>2, <2>5, <4>1
      <4>2. CASE \E j, k \in 1 .. h : f = <<j, k>> /\ Pair(j, k)
        BY <2>4, <2>5, <4>2
      <4>3. QED
        BY <2>6, <3>1, <4>1, <4>2
    <3>2. CASE f = <<multi, h + 1>> /\ part = "second" /\ multi # 0
      <4>1. multi \in 1 .. h /\ Begun(multi)
        BY <2>3, <2>6, <3>2
      <4>2. PICK j \in 1 .. h : j = multi
        BY <4>1
      <4>3. Pair(j, h + 1)' /\ f = <<j, h + 1>>
        BY <2>4, <3>2, <4>1, <4>2
      <4>4. QED
        BY <2>5, <4>3
    <3>3. CASE f = <<h + 1>> /\ part = "single"
      BY <2>2, <2>5, <3>3
    <3>4. QED
      BY <2>2, <2>7, <3>1, <3>2, <3>3 DEF Parts
  <2>12. \A j \in 1 .. h + 1 : handled'[j].as = "single" => <<j>> \in frames'
    BY <2>2, <2>5, <2>6, <2>7, <2>8
  <2>13. ASSUME NEW j \in 1 .. h + 1, NEW k \in 1 .. h + 1, Pair(j, k)'
         PROVE  <<j, k>> \in frames'
    <3>1. j \in 1 .. h
      BY <2>4, <2>5, <2>13
    <3>2. CASE k \in 1 .. h
      BY <2>4, <2>6, <2>8, <2>13, <3>1, <3>2
    <3>3. CASE k = h + 1
      <4>1. Begun(j) /\ part = "second"
        BY <2>4, <2>13, <3>1, <3>3
      <4>2. multi = j /\ multi # 0
        BY <2>6, <3>1, <4>1
      <4>3. QED
        BY <2>7, <3>3, <4>1, <4>2
    <3>4. QED
      BY <2>5, <3>2, <3>3
  <2>14. QED
    BY <2>2, <2>9, <2>10, <2>11, <2>12, <2>13 DEF Decoder, Single
<1>4. QED
  BY <1>2, <1>3, HandleCases

LEMMA OtherDecoder ==
    ASSUME Types, Decoder, UNCHANGED <<pad, decoderVars>>
    PROVE  Decoder'
BY DEF Decoder, decoderVars, Begun, Single, Pair, Between

LEMMA NextDecoder == Types /\ Decoder /\ [Next]_vars => Decoder'
<1> SUFFICES ASSUME Types, Decoder, [Next]_vars PROVE Decoder'
  OBVIOUS
<1>1. CASE ByteComes
  <2>1. PICK data \in Byte : Arrives(data)
    BY <1>1, ByteCases
  <2>2. UNCHANGED <<pad, decoderVars>>
    BY <2>1, InterruptCases DEF Arrives, decoderVars
  <2>3. QED
    BY <2>2, OtherDecoder
<1>2. CASE Handle
  BY <1>2, HandleDecoder
<1>3. CASE Wake \/ TestCount \/ ResetCount \/ AdvanceTail \/ UNCHANGED vars
  <2>1. UNCHANGED <<pad, decoderVars>>
    BY <1>3 DEF Wake, TestCount, ResetCount, AdvanceTail, vars, deviceVars
  <2>2. QED
    BY <2>1, OtherDecoder
<1>4. QED
  BY <1>1, <1>2, <1>3 DEF Next, PacketReady

LEMMA FramesInvariance == Spec => []Decoder
<1>1. Init => Decoder
  BY DEF Init, Decoder
<1>2. AInv => Types
  BY DEF AInv
<1>3. QED
  BY <1>1, <1>2, NextDecoder, AssemblyInvariance, PTL DEF Spec

(* Whatever packets the decoder is given, and in whatever order: a second  *)
(* one is decoded with the first one before it, with nothing but sticks    *)
(* between them that the version lets pass; no packet is in two frames; and*)
(* what belongs together is dispatched.                                    *)
THEOREM FramesArePairedHolds == Spec => []FramesArePaired
<1>1. ASSUME Types, Decoder PROVE FramesArePaired
  <2>0. \A j, k : SticksBetween(j, k) <=> Between(j, k)
    BY DEF SticksBetween, Between
  <2>1. ASSUME NEW f \in frames
        PROVE  \/ \E j \in 1 .. Len(handled) : f = <<j>> /\ handled[j].as = "single"
               \/ \E j, k \in 1 .. Len(handled) : f = <<j, k>> /\ Pair(j, k)
    BY <1>1 DEF Decoder, Single
  <2>2. \A f \in frames : Len(f) = 2 =>
           /\ f[1] < f[2] /\ handled[f[1]].as = "first" /\ handled[f[2]].as = "second"
           /\ SticksBetween(f[1], f[2])
    BY <2>0, <2>1 DEF Pair
  <2>3. ASSUME NEW i \in 1 .. Len(handled), NEW j \in 1 .. Len(handled),
               NEW k \in 1 .. Len(handled), NEW l \in 1 .. Len(handled),
               Pair(i, k), Pair(j, l)
        PROVE  i # l /\ (i = j <=> k = l)
    <3>1. ASSUME NEW a \in 1 .. Len(handled), NEW b \in 1 .. Len(handled),
                 NEW c \in 1 .. Len(handled), Pair(a, b), Pair(a, c)
          PROVE  ~(b < c)
      <4>1. SUFFICES ASSUME b < c PROVE FALSE
        OBVIOUS
      <4>2. b \in a + 1 .. c - 1
        BY <3>1, <4>1, HandledFacts, <1>1 DEF Pair
      <4>3. QED
        BY <3>1, <4>2 DEF Pair, Between
    <3>2. ASSUME NEW a \in 1 .. Len(handled), NEW b \in 1 .. Len(handled),
                 NEW c \in 1 .. Len(handled), Pair(a, c), Pair(b, c)
          PROVE  ~(a < b)
      <4>1. SUFFICES ASSUME a < b PROVE FALSE
        OBVIOUS
      <4>2. b \in a + 1 .. c - 1
        BY <3>2, <4>1, HandledFacts, <1>1 DEF Pair
      <4>3. QED
        BY <3>2, <4>2 DEF Pair, Between
    <3>3. i # l
      BY <2>3 DEF Pair
    <3>4. i = j => k = l
      BY <2>3, <3>1
    <3>5. k = l => i = j
      BY <2>3, <3>2
    <3>6. QED
      BY <3>3, <3>4, <3>5
  <2>4. ASSUME NEW f \in frames, NEW g \in frames, f # g
        PROVE  {f[1], f[Len(f)]} \cap {g[1], g[Len(g)]} = {}
    <3>1. CASE /\ \E j \in 1 .. Len(handled) : f = <<j>> /\ handled[j].as = "single"
               /\ \E j \in 1 .. Len(handled) : g = <<j>> /\ handled[j].as = "single"
      BY <2>4, <3>1
    <3>2. CASE /\ \E j \in 1 .. Len(handled) : f = <<j>> /\ handled[j].as = "single"
               /\ \E j, k \in 1 .. Len(handled) : g = <<j, k>> /\ Pair(j, k)
      BY <3>2 DEF Pair
    <3>3. CASE /\ \E j, k \in 1 .. Len(handled) : f = <<j, k>> /\ Pair(j, k)
               /\ \E j \in 1 .. Len(handled) : g = <<j>> /\ handled[j].as = "single"
      BY <3>3 DEF Pair
    <3>4. CASE /\ \E j, k \in 1 .. Len(handled) : f = <<j, k>> /\ Pair(j, k)
               /\ \E j, k \in 1 .. Len(handled) : g = <<j, k>> /\ Pair(j, k)
      <4>1. PICK i \in 1 .. Len(handled), k \in 1 .. Len(handled) : f = <<i, k>> /\ Pair(i, k)
        BY <3>4
      <4>2. PICK j \in 1 .. Len(handled), l \in 1 .. Len(handled) : g = <<j, l>> /\ Pair(j, l)
        BY <3>4
      <4>3. i # l /\ j # k /\ (i = j <=> k = l)
        BY <2>3, <4>1, <4>2
      <4>4. i # j /\ k # l
        BY <2>4, <4>1, <4>2, <4>3
      <4>5. QED
        BY <4>1, <4>2, <4>3, <4>4
    <3>5. QED
      BY <2>1, <3>1, <3>2, <3>3, <3>4
  <2>5. /\ \A k \in 1 .. Len(handled) : handled[k].as = "single" => <<k>> \in frames
        /\ \A j, k \in 1 .. Len(handled) :
              /\ j < k /\ handled[j].as = "first" /\ handled[k].as = "second"
              /\ SticksBetween(j, k)
              => <<j, k>> \in frames
    BY <1>1, <2>0 DEF Decoder, Pair
  <2>6. QED
    BY <2>2, <2>4, <2>5 DEF FramesArePaired
<1>2. Types /\ Decoder => FramesArePaired
  BY <1>1
<1>3. AInv => Types
  BY DEF AInv
<1>4. QED
  BY <1>2, <1>3, AssemblyInvariance, FramesInvariance, PTL

=============================================================================

-------------------------- MODULE RingBufferProofs --------------------------
(***************************************************************************)
(* Proofs about RingBuffer for every size of the buffer and of a packet.   *)
(***************************************************************************)
EXTENDS RingBuffer, TLAPS

-----------------------------------------------------------------------------
(* Facts about count() and the two advances, used by every step below.     *)

(* count() is below the size of the buffer, and zero only when the two     *)
(* indices name the same slot.                                             *)
LEMMA CountRange ==
    ASSUME NEW h \in Slot, NEW t \in 0 .. N
    PROVE  /\ Count(h, t) \in Slot
           /\ Count(h, t) = 0 => h = t \/ (t = N /\ h = 0)
           /\ t \in Slot => Count(t, t) = 0
BY NAssumption DEF Count, Slot

LEMMA CountNat == \A h \in Slot, t \in 0 .. N : Count(h, t) \in Nat
BY CountRange, NAssumption DEF Slot

(* Different slots are at different distances from the tail. *)
LEMMA CountInjective ==
    ASSUME NEW r \in Slot, NEW s \in Slot, NEW t \in 0 .. N,
           Count(r, t) = Count(s, t)
    PROVE  r = s
BY NAssumption DEF Count, Slot

(* The next head is one further from the tail, or on it if there was no    *)
(* room.                                                                   *)
LEMMA CountAdvanceHead ==
    ASSUME NEW h \in Slot, NEW t \in 0 .. N
    PROVE  /\ Advanced(h) \in Slot
           /\ Count(h, t) < N - 1 => Count(Advanced(h), t) = Count(h, t) + 1
           /\ Count(h, t) >= N - 1 => Count(Advanced(h), t) = 0
BY NAssumption DEF Count, Slot, Advanced

(* When the tail moves, every slot but the old tail comes one nearer; the  *)
(* old tail becomes the farthest.                                          *)
LEMMA CountAdvanceTail ==
    ASSUME NEW s \in Slot, NEW t \in Slot
    PROVE  /\ t + 1 \in 0 .. N
           /\ s # t => Count(s, t) >= 1 /\ Count(s, t + 1) = Count(s, t) - 1
           /\ Count(t, t + 1) = N - 1
BY NAssumption DEF Count, Slot

(* A tail of N, which advanceTail stores for an instant, counts as 0. *)
LEMMA CountWrap ==
    ASSUME NEW s \in Slot
    PROVE  Count(s, N) = Count(s, 0)
BY NAssumption DEF Count, Slot

(* advanceHead takes a packet in only if there is room for it, in whichever  *)
(* order m_tail is read and however far it moves between the two reads.    *)
LEMMA AdvancesOnlyWithRoom ==
    ASSUME NEW h \in Slot, NEW t1 \in 0 .. N, NEW t2 \in 0 .. N,
           Count(h, t2) <= Count(h, t1),
           MayAdvance(h, t1, t2)
    PROVE  Count(h, t2) < N - 1
<1>1. SUFFICES ASSUME Count(h, t2) >= N - 1 PROVE FALSE
  BY CountRange, NAssumption DEF Slot
<1>2. Count(h, t1) = N - 1 /\ Count(h, t2) = N - 1
  BY <1>1, CountRange, NAssumption DEF Slot
<1>3. Count(Advanced(h), t1) = 0 /\ Count(Advanced(h), t2) = 0
  BY <1>2, CountAdvanceHead, NAssumption
<1>4. QED
  BY <1>2, <1>3, NAssumption DEF MayAdvance, HasRoom

-----------------------------------------------------------------------------
(* What the actions do to the invariant, one lemma for each party.         *)

USE NAssumption, PacketLengthAssumption, MaxPacketsAssumption

LEMMA InitIInv == Init => IInv
<1> SUFFICES ASSUME Init PROVE IInv
  OBVIOUS
<1>1. TypeOK
  <2>1. m_buffer \in [Slot -> [Byte -> Nat]]
    BY DEF Init
  <2>2. /\ m_head \in Slot /\ m_tail \in 0 .. N /\ seenTail \in 0 .. N
        /\ written \in Byte /\ fetched \in Byte
        /\ packet \in Nat \ {0} /\ last \in Nat
    BY DEF Init, Slot, Byte
  <2>3. signalled \in BOOLEAN /\ accepted \subseteq Nat \ {0}
    BY DEF Init
  <2>4. QED
    BY <2>1, <2>2, <2>3 DEF Init, TypeOK
<1>2. Indices /\ HeadSlot /\ Serials /\ NoLostWakeup
  BY DEF Init, Indices, HeadSlot, Serials, NoLostWakeup, Count, Slot, Byte
<1>3. Window
  BY DEF Init, Window, Whole, Complete, Ordered, Unreleased, Unread, Count, Slot, Byte
<1>4. QED
  BY <1>1, <1>2, <1>3 DEF IInv

(* What a step that moves neither index and handles nothing leaves alone.  *)
LEMMA UnchangedWindow ==
    ASSUME TypeOK, Window,
           UNCHANGED <<m_head, m_tail, accepted, last>>,
           loop' = "advance" <=> loop = "advance",
           \A s \in Slot : Unreleased(s) => m_buffer'[s] = m_buffer[s]
    PROVE  Window'
<1>1. \A s \in Slot : (Unreleased(s)' <=> Unreleased(s))
                     /\ Count(s, m_tail)' = Count(s, m_tail)
  BY DEF Unreleased
<1>2. Unread' = Unread
  BY DEF Unread
<1>3. Whole'
  BY <1>1 DEF Window, Whole
<1>4. Complete'
  BY <1>1, <1>2 DEF Window, Complete
<1>5. Ordered'
  BY <1>1 DEF Window, Ordered
<1>6. QED
  BY <1>3, <1>4, <1>5 DEF Window

LEMMA WriteByteIInv == IInv /\ WriteByte => IInv'
<1> SUFFICES ASSUME IInv, WriteByte PROVE IInv'
  OBVIOUS
<1>0. /\ m_head \in Slot /\ m_tail \in 0 .. N /\ written \in Byte
      /\ packet \in Nat \ {0} /\ 0 \in Byte
      /\ m_buffer \in [Slot -> [Byte -> Nat]]
  BY DEF IInv, TypeOK, Byte
<1>1. /\ m_buffer' \in [Slot -> [Byte -> Nat]]
      /\ \A s \in Slot : s # m_head => m_buffer'[s] = m_buffer[s]
      /\ \A b \in Byte : m_buffer'[m_head][b] =
            IF b = written THEN packet ELSE m_buffer[m_head][b]
  BY <1>0 DEF WriteByte
<1>2. TypeOK'
  BY <1>0, <1>1 DEF IInv, WriteByte, consumerVars, TypeOK, Byte
<1>3. Indices' /\ Serials' /\ NoLostWakeup'
  BY <1>0 DEF IInv, WriteByte, consumerVars, TypeOK, Indices, Serials, NoLostWakeup
<1>4. HeadSlot'
  BY <1>0, <1>1 DEF IInv, WriteByte, TypeOK, HeadSlot, Byte
<1>5. \A s \in Slot : Unreleased(s) => s # m_head
  BY <1>0, CountRange DEF Unreleased, Slot
<1>6. Window'
  BY <1>1, <1>5, UnchangedWindow DEF IInv, WriteByte, consumerVars
<1>7. QED
  BY <1>2, <1>3, <1>4, <1>6 DEF IInv

LEMMA ReadTailIInv == IInv /\ ReadTail => IInv'
<1> SUFFICES ASSUME IInv, ReadTail PROVE IInv'
  OBVIOUS
<1>1. TypeOK'
  BY DEF IInv, ReadTail, consumerVars, TypeOK
<1>2. Indices' /\ Serials' /\ NoLostWakeup' /\ HeadSlot'
  BY CountRange DEF IInv, ReadTail, consumerVars, TypeOK, Indices, Serials, NoLostWakeup,
      HeadSlot, Slot
<1>3. Window'
  BY UnchangedWindow DEF IInv, ReadTail, consumerVars
<1>4. QED
  BY <1>1, <1>2, <1>3 DEF IInv

LEMMA DropPacketIInv == IInv /\ DropPacket => IInv'
<1> SUFFICES ASSUME IInv, DropPacket PROVE IInv'
  OBVIOUS
<1>1. TypeOK'
  BY DEF IInv, DropPacket, consumerVars, TypeOK
<1>2. Indices' /\ Serials' /\ NoLostWakeup' /\ HeadSlot'
  BY DEF IInv, DropPacket, consumerVars, TypeOK, Indices, Serials, NoLostWakeup,
      HeadSlot
<1>3. Window'
  BY UnchangedWindow DEF IInv, DropPacket, consumerVars
<1>4. QED
  BY <1>1, <1>2, <1>3 DEF IInv

LEMMA SignalIInv == IInv /\ Signal => IInv'
<1> SUFFICES ASSUME IInv, Signal PROVE IInv'
  OBVIOUS
<1>1. TypeOK'
  BY DEF IInv, Signal, consumerVars, TypeOK
<1>2. Indices' /\ Serials' /\ HeadSlot'
  <2>1. intr = "signal" /\ intr' = "fill" /\ packet' = packet /\ last' = last
        /\ written' = written /\ m_head' = m_head /\ m_tail' = m_tail /\ loop' = loop
        /\ accepted' = accepted
    BY DEF Signal, consumerVars
  <2>2. Indices'
    BY <2>1 DEF IInv, Indices
  <2>3. Serials'
    BY <2>1 DEF IInv, Serials
  <2>4. HeadSlot'
    <3>1. \A b \in Byte : ~ (b < 0)
      BY DEF Byte
    <3>2. QED
      BY <2>1, <3>1 DEF IInv, HeadSlot
  <2>5. QED
    BY <2>2, <2>3, <2>4
<1>3. NoLostWakeup'
  BY DEF Signal, NoLostWakeup
<1>4. Window'
  BY UnchangedWindow DEF IInv, Signal, consumerVars
<1>5. QED
  BY <1>1, <1>2, <1>3, <1>4 DEF IInv

(* The packet that advanceHead lets in becomes the newest of the window;   *)
(* the slot after it, which may hold an old packet, is outside.            *)
LEMMA AdvanceHeadIInv == IInv /\ AdvanceHead => IInv'
<1> SUFFICES ASSUME IInv, AdvanceHead PROVE IInv'
  OBVIOUS
<1>0. /\ m_head \in Slot /\ m_tail \in 0 .. N /\ seenTail \in 0 .. N
      /\ packet \in Nat \ {0} /\ 0 \in Byte
      /\ m_buffer \in [Slot -> [Byte -> Nat]] /\ last \in Nat
      /\ accepted \subseteq Nat \ {0}
  BY DEF IInv, TypeOK, Byte
<1>1. Count(m_head, m_tail) < N - 1
  BY <1>0, AdvancesOnlyWithRoom DEF IInv, Indices, AdvanceHead
<1>2. /\ m_head' \in Slot /\ m_tail' = m_tail /\ m_buffer' = m_buffer
      /\ Count(m_head', m_tail) = Count(m_head, m_tail) + 1
      /\ accepted' = accepted \cup {packet} /\ loop' = loop /\ last' = last
      /\ intr' = "signal" /\ packet' = packet + 1 /\ packet <= MaxPackets
      /\ intr = "compare" /\ m_head' = Advanced(m_head)
  BY <1>0, <1>1, CountAdvanceHead DEF AdvanceHead, consumerVars, IInv, Serials
<1>3. TypeOK'
  BY <1>0, <1>2 DEF IInv, TypeOK, AdvanceHead, consumerVars
<1>4. Serials' /\ NoLostWakeup' /\ HeadSlot'
  <2>1. Serials'
    BY <1>0, <1>2 DEF IInv, Serials
  <2>2. NoLostWakeup'
    BY <1>2 DEF NoLostWakeup
  <2>3. HeadSlot'
    BY <1>2 DEF IInv, HeadSlot, AdvanceHead
  <2>4. QED
    BY <2>1, <2>2, <2>3
<1>5. Indices'
  <2>1. Count(m_head, m_tail) \in Nat
    BY <1>0, CountNat
  <2>2. Count(m_head', m_tail') >= 1
    BY <1>2, <2>1
  <2>3. QED
    BY <1>2, <2>2 DEF IInv, Indices
<1>6. \A s \in Slot : /\ Count(s, m_tail') = Count(s, m_tail)
                      /\ Unreleased(s)' <=> Unreleased(s) \/ s = m_head
  <2> TAKE s \in Slot
  <2>1. Count(s, m_tail) \in Nat /\ Count(m_head, m_tail) \in Nat
    BY <1>0, CountNat
  <2>2. Count(s, m_tail) = Count(m_head, m_tail) <=> s = m_head
    BY <1>0, CountInjective
  <2>3. Unreleased(s)' <=> Count(s, m_tail) < Count(m_head, m_tail) + 1
    BY <1>2 DEF Unreleased
  <2>4. QED
    BY <1>2, <2>1, <2>2, <2>3 DEF Unreleased
<1>7. /\ \A b \in Byte : m_buffer[m_head][b] = packet
      /\ ~ Unreleased(m_head)
      /\ \A s \in Slot : Unreleased(s) =>
            /\ Count(s, m_tail) < Count(m_head, m_tail)
            /\ m_buffer[s][0] < packet
  <2>1. \A b \in Byte : m_buffer[m_head][b] = packet
    BY <1>2 DEF IInv, HeadSlot
  <2>2. ~ Unreleased(m_head)
    BY <1>0, CountNat DEF Unreleased
  <2>3. \A s \in Slot : Unreleased(s) => m_buffer[s][0] < packet
    BY DEF IInv, Window, Whole, Serials
  <2>4. QED
    BY <2>1, <2>2, <2>3 DEF Unreleased
<1>8. last < packet
  BY DEF IInv, Serials
<1>9. Whole'
  <2> SUFFICES ASSUME NEW s \in Slot, Unreleased(s)'
               PROVE  /\ m_buffer[s][0] \in accepted'
                      /\ \A b \in Byte : m_buffer[s][b] = m_buffer[s][0]
                      /\ m_buffer[s][0] >= last
                      /\ m_buffer[s][0] = last <=> s = m_tail /\ loop = "advance"
    BY <1>2 DEF Whole
  <2>1. CASE Unreleased(s)
    BY <1>2, <2>1 DEF IInv, Window, Whole
  <2>2. CASE s = m_head
    <3>1. loop = "advance" => m_head # m_tail
      BY <1>0, CountRange DEF IInv, Indices, TypeOK
    <3>2. QED
      BY <1>0, <1>2, <1>7, <1>8, <2>2, <3>1
  <2>3. QED
    BY <1>6, <2>1, <2>2
<1>10. Complete'
  <2> SUFFICES ASSUME NEW p \in Unread'
               PROVE  \E s \in Slot : Unreleased(s)' /\ m_buffer[s][0] = p
    BY <1>2 DEF Complete
  <2>1. CASE p = packet
    BY <1>0, <1>6, <1>7, <2>1
  <2>2. CASE p \in Unread
    BY <1>6, <2>2 DEF IInv, Window, Complete
  <2>3. QED
    BY <1>2, <2>1, <2>2 DEF Unread
<1>11. Ordered'
  <2> SUFFICES ASSUME NEW r \in Slot, NEW s \in Slot, Unreleased(r)', Unreleased(s)',
                      Count(r, m_tail) < Count(s, m_tail)
               PROVE  m_buffer[r][0] < m_buffer[s][0]
    BY <1>2 DEF Ordered
  <2>1. Count(r, m_tail) \in Nat /\ Count(s, m_tail) \in Nat /\ Count(m_head, m_tail) \in Nat
    BY <1>0, CountNat
  <2>2. CASE Unreleased(r) /\ Unreleased(s)
    BY <2>2 DEF IInv, Window, Ordered
  <2>3. CASE Unreleased(r) /\ s = m_head
    BY <1>0, <1>7, <2>3
  <2>4. r # m_head
    BY <1>6, <1>7, <2>1
  <2>5. QED
    BY <1>6, <2>2, <2>3, <2>4
<1>12. QED
  BY <1>3, <1>4, <1>5, <1>9, <1>10, <1>11 DEF IInv, Window

-----------------------------------------------------------------------------
(* The work loop's steps. *)

LEMMA WakeIInv == IInv /\ Wake => IInv'
<1> SUFFICES ASSUME IInv, Wake PROVE IInv'
  OBVIOUS
<1>0. /\ loop = "wait" /\ loop' = "test" /\ signalled' = FALSE
      /\ UNCHANGED <<m_buffer, m_head, m_tail, intr, packet, written, seenTail,
                     fetched, accepted, last>>
  BY DEF Wake, producerVars
<1>1. TypeOK'
  BY <1>0 DEF IInv, TypeOK
<1>2. Indices'
  BY <1>0 DEF IInv, Indices
<1>3. Serials' /\ HeadSlot'
  BY <1>0 DEF IInv, Serials, HeadSlot
<1>4. NoLostWakeup'
  BY <1>0 DEF NoLostWakeup
<1>5. Window'
  BY <1>0, UnchangedWindow DEF IInv
<1>6. QED
  BY <1>1, <1>2, <1>3, <1>4, <1>5 DEF IInv

LEMMA TestCountIInv == IInv /\ TestCount => IInv'
<1> SUFFICES ASSUME IInv, TestCount PROVE IInv'
  OBVIOUS
<1>0. /\ loop = "test"
      /\ loop' = IF Count(m_head, m_tail) >= 1 THEN "handle" ELSE "wait"
      /\ UNCHANGED <<m_buffer, m_head, m_tail, intr, packet, written, seenTail,
                     fetched, signalled, accepted, last>>
  BY DEF TestCount, producerVars
<1>1. TypeOK'
  BY <1>0 DEF IInv, TypeOK
<1>2. Indices'
  BY <1>0 DEF IInv, Indices
<1>3. Serials' /\ HeadSlot'
  BY <1>0 DEF IInv, Serials, HeadSlot
<1>4. NoLostWakeup'
  <2> SUFFICES ASSUME loop' = "wait" PROVE m_head' = m_tail'
    BY DEF NoLostWakeup
  <2>1. m_head \in Slot /\ m_tail \in Slot
    BY <1>0 DEF IInv, Indices, TypeOK, Slot
  <2>2. Count(m_head, m_tail) \in Nat /\ m_tail \in 0 .. N
    BY <2>1, CountNat DEF Slot
  <2>3. Count(m_head, m_tail) = 0
    BY <1>0, <2>2
  <2>4. QED
    BY <1>0, <2>1, <2>2, <2>3, CountRange DEF Slot
<1>5. Window'
  BY <1>0, UnchangedWindow DEF IInv
<1>6. QED
  BY <1>1, <1>2, <1>3, <1>4, <1>5 DEF IInv

(* The packet at tail() is whole and the oldest of the unread ones. *)
LEMMA TailPacket ==
    ASSUME IInv, loop = "handle"
    PROVE  /\ m_tail \in Slot /\ Unreleased(m_tail)
           /\ m_buffer[m_tail][0] \in Unread
           /\ \A b \in Byte : m_buffer[m_tail][b] = m_buffer[m_tail][0]
           /\ \A s \in Slot : Unreleased(s) /\ s # m_tail =>
                  m_buffer[m_tail][0] < m_buffer[s][0]
           /\ \A q \in Unread : m_buffer[m_tail][0] <= q
<1>1. m_tail \in Slot /\ m_head \in Slot /\ m_tail \in 0 .. N /\ 0 \in Byte
      /\ m_buffer \in [Slot -> [Byte -> Nat]] /\ last \in Nat
  BY DEF IInv, TypeOK, Indices, Slot, Byte
<1>2. Count(m_tail, m_tail) = 0 /\ Count(m_head, m_tail) >= 1
  BY <1>1, CountRange DEF IInv, Indices
<1>3. Unreleased(m_tail)
  BY <1>1, <1>2, CountNat DEF Unreleased
<1>4. /\ m_buffer[m_tail][0] \in accepted /\ m_buffer[m_tail][0] > last
      /\ \A b \in Byte : m_buffer[m_tail][b] = m_buffer[m_tail][0]
  BY <1>1, <1>3 DEF IInv, Window, Whole
<1>5. ASSUME NEW s \in Slot, Unreleased(s), s # m_tail
      PROVE  m_buffer[m_tail][0] < m_buffer[s][0]
  <2>1. Count(m_tail, m_tail) < Count(s, m_tail)
    BY <1>1, <1>2, <1>5, CountNat, CountInjective
  <2>2. QED
    BY <1>1, <1>3, <1>5, <2>1 DEF IInv, Window, Ordered
<1>6. ASSUME NEW q \in Unread
      PROVE  m_buffer[m_tail][0] <= q
  <2>1. PICK s \in Slot : Unreleased(s) /\ m_buffer[s][0] = q
    BY DEF IInv, Window, Complete
  <2>2. QED
    BY <1>1, <1>5, <2>1
<1>7. QED
  BY <1>1, <1>3, <1>4, <1>5, <1>6 DEF Unread

LEMMA ReadByteIInv == IInv /\ ReadByte => IInv'
<1> SUFFICES ASSUME IInv, ReadByte PROVE IInv'
  OBVIOUS
<1>0. /\ loop = "handle"
      /\ UNCHANGED <<m_buffer, m_head, m_tail, intr, packet, written, seenTail,
                     signalled, accepted>>
  BY DEF ReadByte, producerVars
<1>1. CASE fetched # PacketLength - 1
  <2>0. fetched' = fetched + 1 /\ loop' = loop /\ last' = last
    BY <1>1 DEF ReadByte
  <2>1. TypeOK'
    BY <1>0, <1>1, <2>0 DEF IInv, TypeOK, Byte
  <2>2. Indices'
    BY <1>0, <2>0 DEF IInv, Indices
  <2>3. Serials' /\ HeadSlot'
    BY <1>0, <2>0 DEF IInv, Serials, HeadSlot
  <2>4. NoLostWakeup'
    BY <1>0, <2>0 DEF IInv, NoLostWakeup
  <2>5. Window'
    BY <1>0, <2>0, UnchangedWindow DEF IInv
  <2>6. QED
    BY <2>1, <2>2, <2>3, <2>4, <2>5 DEF IInv
<1>2. CASE fetched = PacketLength - 1
  <2>0. fetched' = 0 /\ loop' = "advance" /\ last' = m_buffer[m_tail][0]
    BY <1>0, <1>2, TailPacket DEF ReadByte, IInv, TypeOK, Byte
  <2>1. TypeOK'
    <3>1. fetched' \in Byte
      BY <2>0 DEF Byte
    <3>2. last' \in Nat
      BY <1>0, <2>0, TailPacket DEF IInv, TypeOK, Unread
    <3>3. QED
      BY <1>0, <2>0, <3>1, <3>2 DEF IInv, TypeOK
  <2>2. Indices'
    BY <1>0, <2>0 DEF IInv, Indices
  <2>3. Serials' /\ HeadSlot'
    <3>1. last' < packet
      BY <1>0, <2>0, TailPacket DEF IInv, Serials, Unread
    <3>2. QED
      BY <1>0, <2>0, <3>1 DEF IInv, Serials, HeadSlot
  <2>4. NoLostWakeup'
    BY <1>0, <2>0 DEF NoLostWakeup
  <2>5. \A s \in Slot : (Unreleased(s)' <=> Unreleased(s))
                       /\ Count(s, m_tail)' = Count(s, m_tail)
    BY <1>0 DEF Unreleased
  <2>6. Whole'
    <3> SUFFICES ASSUME NEW s \in Slot, Unreleased(s)
                 PROVE  /\ m_buffer[s][0] \in accepted
                        /\ \A b \in Byte : m_buffer[s][b] = m_buffer[s][0]
                        /\ m_buffer[s][0] >= last'
                        /\ m_buffer[s][0] = last' <=> s = m_tail
      BY <1>0, <2>0, <2>5 DEF Whole
    <3>1. m_buffer[s][0] \in accepted /\ \A b \in Byte : m_buffer[s][b] = m_buffer[s][0]
      BY DEF IInv, Window, Whole
    <3>2. m_buffer[s][0] \in Nat /\ last' \in Nat
      BY <2>1, <3>1 DEF IInv, TypeOK
    <3>3. QED
      BY <1>0, <2>0, <3>1, <3>2, TailPacket
  <2>7. Complete'
    <3>1. Unread' \subseteq Unread
      <4>1. last' > last /\ last \in Nat /\ last' \in Nat
        BY <1>0, <2>0, <2>1, TailPacket DEF Unread, TypeOK, IInv
      <4>2. accepted' = accepted /\ accepted \subseteq Nat
        BY <1>0 DEF IInv, TypeOK
      <4>3. ASSUME NEW p \in Unread' PROVE p \in Unread
        <5>1. p \in accepted /\ p > last'
          BY <4>2 DEF Unread
        <5>2. p > last
          BY <4>1, <4>2, <5>1
        <5>3. QED
          BY <5>1, <5>2 DEF Unread
      <4>4. QED
        BY <4>3
    <3>2. QED
      BY <1>0, <2>5, <3>1 DEF IInv, Window, Complete
  <2>8. Ordered'
    BY <1>0, <2>5 DEF IInv, Window, Ordered
  <2>9. QED
    BY <2>1, <2>2, <2>3, <2>4, <2>6, <2>7, <2>8 DEF IInv, Window
<1>3. QED
  BY <1>1, <1>2

(* advanceTail releases the packet just handled and no other. *)
LEMMA AdvanceTailIInv == IInv /\ AdvanceTail => IInv'
<1> SUFFICES ASSUME IInv, AdvanceTail PROVE IInv'
  OBVIOUS
<1>0. /\ loop = "advance" /\ m_tail' = m_tail + 1
      /\ loop' = IF m_tail + 1 >= N THEN "wrap" ELSE "test"
      /\ UNCHANGED <<m_buffer, m_head, intr, packet, written, seenTail, fetched,
                     signalled, accepted, last>>
  BY DEF AdvanceTail, producerVars
<1>1. /\ m_tail \in Slot /\ m_tail \in 0 .. N /\ m_tail + 1 \in 0 .. N
      /\ m_head \in Slot /\ seenTail \in 0 .. N /\ last \in Nat
      /\ accepted \subseteq Nat
  BY <1>0 DEF IInv, TypeOK, Indices, Slot
<1>2. Count(m_tail, m_tail) = 0 /\ Count(m_head, m_tail) >= 1 /\ m_head # m_tail
  BY <1>0, <1>1, CountRange DEF IInv, Indices
<1>3. \A s \in Slot : s # m_tail => /\ Count(s, m_tail) >= 1
                                    /\ Count(s, m_tail + 1) = Count(s, m_tail) - 1
  BY <1>1, CountAdvanceTail
<1>4. Count(m_tail, m_tail + 1) = N - 1
  BY <1>1, CountAdvanceTail
<1>5. \A s \in Slot : Count(s, m_tail) \in Nat /\ Count(s, m_tail + 1) \in 0 .. N - 1
  BY <1>1, CountRange, CountNat DEF Slot
<1>6. TypeOK'
  BY <1>0, <1>1 DEF IInv, TypeOK
<1>7. Indices'
  <2>1. Count(m_head, m_tail') <= Count(m_head, m_tail)
    BY <1>0, <1>1, <1>2, <1>3, <1>5
  <2>2. Count(m_head, m_tail) \in Nat /\ Count(m_head, m_tail') \in Nat
        /\ Count(m_head, seenTail) \in Nat
    BY <1>0, <1>1, CountNat
  <2>3. m_tail' = N <=> loop' = "wrap"
    BY <1>0, <1>1 DEF Slot
  <2>4. QED
    BY <1>0, <2>1, <2>2, <2>3 DEF IInv, Indices
<1>8. Serials' /\ HeadSlot'
  BY <1>0 DEF IInv, Serials, HeadSlot
<1>9. NoLostWakeup'
  BY <1>0 DEF NoLostWakeup
<1>10. \A s \in Slot : Unreleased(s)' <=> Unreleased(s) /\ s # m_tail
  <2> TAKE s \in Slot
  <2>1. Count(m_head, m_tail') = Count(m_head, m_tail) - 1
    BY <1>0, <1>1, <1>2, <1>3
  <2>2. CASE s = m_tail
    BY <1>0, <1>1, <1>4, <1>5, <2>1, <2>2 DEF Unreleased
  <2>3. CASE s # m_tail
    BY <1>0, <1>1, <1>3, <1>5, <2>1, <2>3 DEF Unreleased
  <2>4. QED
    BY <2>2, <2>3
<1>11. Whole'
  BY <1>0, <1>1, <1>10 DEF IInv, Window, Whole
<1>12. Complete'
  <2> SUFFICES ASSUME NEW p \in Unread
               PROVE  \E s \in Slot : Unreleased(s)' /\ m_buffer[s][0] = p
    BY <1>0 DEF Complete, Unread
  <2>1. PICK s \in Slot : Unreleased(s) /\ m_buffer[s][0] = p
    BY DEF IInv, Window, Complete
  <2>2. s # m_tail
    BY <1>0, <1>1, <2>1 DEF IInv, Window, Whole, Unread
  <2>3. QED
    BY <1>10, <2>1, <2>2
<1>13. Ordered'
  <2> SUFFICES ASSUME NEW r \in Slot, NEW s \in Slot, Unreleased(r)', Unreleased(s)',
                      Count(r, m_tail') < Count(s, m_tail')
               PROVE  m_buffer[r][0] < m_buffer[s][0]
    BY <1>0 DEF Ordered
  <2>1. r # m_tail /\ s # m_tail /\ Unreleased(r) /\ Unreleased(s)
    BY <1>10
  <2>2. Count(r, m_tail) < Count(s, m_tail)
    BY <1>0, <1>3, <1>5, <2>1
  <2>3. QED
    BY <2>1, <2>2 DEF IInv, Window, Ordered
<1>14. QED
  BY <1>6, <1>7, <1>8, <1>9, <1>11, <1>12, <1>13 DEF IInv, Window

(* The transient value N of m_tail means the same as 0. *)
LEMMA WrapTailIInv == IInv /\ WrapTail => IInv'
<1> SUFFICES ASSUME IInv, WrapTail PROVE IInv'
  OBVIOUS
<1>0. /\ loop = "wrap" /\ loop' = "test" /\ m_tail = N /\ m_tail' = 0
      /\ UNCHANGED <<m_buffer, m_head, intr, packet, written, seenTail, fetched,
                     signalled, accepted, last>>
  BY DEF WrapTail, producerVars, IInv, Indices
<1>1. m_head \in Slot
  BY DEF IInv, TypeOK
<1>2. \A s \in Slot : Count(s, m_tail') = Count(s, m_tail)
  BY <1>0, CountWrap
<1>3. TypeOK'
  BY <1>0 DEF IInv, TypeOK
<1>4. Indices'
  <2>1. Count(m_head, m_tail') = Count(m_head, m_tail)
    BY <1>1, <1>2
  <2>2. QED
    BY <1>0, <2>1 DEF IInv, Indices
<1>5. Serials' /\ HeadSlot'
  BY <1>0 DEF IInv, Serials, HeadSlot
<1>6. NoLostWakeup'
  BY <1>0 DEF NoLostWakeup
<1>7. \A s \in Slot : Unreleased(s)' <=> Unreleased(s)
  BY <1>0, <1>1, <1>2 DEF Unreleased
<1>8. Whole'
  BY <1>0, <1>7 DEF IInv, Window, Whole
<1>9. Complete'
  BY <1>0, <1>7 DEF IInv, Window, Complete, Unread
<1>10. Ordered'
  BY <1>0, <1>2, <1>7 DEF IInv, Window, Ordered
<1>11. QED
  BY <1>3, <1>4, <1>5, <1>6, <1>8, <1>9, <1>10 DEF IInv, Window

-----------------------------------------------------------------------------
LEMMA NextIInv == IInv /\ [Next]_vars => IInv'
<1> SUFFICES ASSUME IInv, [Next]_vars PROVE IInv'
  OBVIOUS
<1>1. CASE Produce
  BY <1>1, WriteByteIInv, ReadTailIInv, AdvanceHeadIInv, DropPacketIInv, SignalIInv
     DEF Produce
<1>2. CASE Consume
  BY <1>2, WakeIInv, TestCountIInv, ReadByteIInv, AdvanceTailIInv, WrapTailIInv
     DEF Consume
<1>3. CASE UNCHANGED vars
  <2>0. UNCHANGED <<m_buffer, m_head, m_tail, intr, packet, written, seenTail, loop,
                    fetched, signalled, accepted, last>>
    BY <1>3 DEF vars, producerVars, consumerVars
  <2>1. TypeOK' /\ HeadSlot'
    BY <2>0 DEF IInv, TypeOK, HeadSlot
  <2>2. Indices' /\ Serials' /\ NoLostWakeup'
    BY <2>0 DEF IInv, Indices, Serials, NoLostWakeup
  <2>3. Window'
    BY <2>0, UnchangedWindow DEF IInv
  <2>4. QED
    BY <2>1, <2>2, <2>3 DEF IInv
<1>4. QED
  BY <1>1, <1>2, <1>3 DEF Next

(* The invariant holds always; it contains the type invariant and the      *)
(* absence of lost wake-ups.                                               *)
THEOREM Invariance == Spec => []IInv
<1>1. QED
  BY InitIInv, NextIInv, PTL DEF Spec

(* TypeOK: the indices stay inside the buffer, m_tail = N excepted. *)
THEOREM TypeCorrect == Spec => []TypeOK
<1>1. IInv => TypeOK
  BY DEF IInv
<1>2. QED
  BY <1>1, Invariance, PTL

(* PacketIntact: advanceHead's overflow check, with its two unsynchronised *)
(* reads of m_tail, protects the packet that packetReady is reading from   *)
(* the interrupt routine, for any size of the buffer.                      *)
THEOREM Intact == Spec => []PacketIntact
<1>1. IInv => PacketIntact
  <2> SUFFICES ASSUME IInv, loop = "handle"
               PROVE  \E p \in Unread : /\ \A q \in Unread : p <= q
                                        /\ \A b \in Byte : m_buffer[m_tail][b] = p
    BY DEF PacketIntact
  <2>1. m_buffer[m_tail][0] \in Unread
    BY TailPacket
  <2>2. QED
    BY <2>1, TailPacket
<1>2. QED
  BY <1>1, Invariance, PTL

(* NoLostWakeup: packetReady never leaves a packet behind without a signal *)
(* that will call it again.                                                *)
THEOREM WakeupKept == Spec => []NoLostWakeup
<1>1. IInv => NoLostWakeup
  BY DEF IInv
<1>2. QED
  BY <1>1, Invariance, PTL

(* FifoSpec: the ring buffer implements a FIFO of whole packets; a dropped *)
(* packet disturbs neither the order nor the others.                       *)
THEOREM ImplementsFifo == Spec => FifoSpec
<1>1. Init => Fifo!Init
  BY DEF Init, Fifo!Init
<1>2. IInv /\ [Next]_vars => [Fifo!Next]_<<accepted, last>>
  <2> SUFFICES ASSUME IInv, [Next]_vars
               PROVE  \/ Fifo!Next
                      \/ UNCHANGED <<accepted, last>>
    OBVIOUS
  <2>accept. CASE AdvanceHead
    <3>1. packet \in 1 .. MaxPackets /\ \A q \in accepted : q < packet
      BY <2>accept DEF IInv, Serials, TypeOK, AdvanceHead
    <3>2. accepted' = accepted \cup {packet} /\ last' = last
      BY <2>accept DEF AdvanceHead
    <3>3. QED
      BY <3>1, <3>2 DEF Fifo!Next, Fifo!Put
  <2>handle. CASE ReadByte
    <3>1. CASE fetched = PacketLength - 1
      <4> DEFINE p == m_buffer[m_tail][0]
      <4>1. last' = p /\ accepted' = accepted
        BY <2>handle, <3>1, TailPacket DEF ReadByte, IInv, TypeOK
      <4>2. p \in Unread /\ \A q \in Unread : p <= q
        BY <2>handle, TailPacket DEF ReadByte
      <4>3. p \in 1 .. MaxPackets
        BY <4>2 DEF Unread, IInv, Serials
      <4>4. Fifo!Take(p)
        BY <4>1, <4>2 DEF Fifo!Take, Fifo!Unread, Unread
      <4>5. QED
        BY <4>3, <4>4 DEF Fifo!Next
    <3>2. CASE fetched # PacketLength - 1
      BY <2>handle, <3>2 DEF ReadByte
    <3>3. QED
      BY <3>1, <3>2
  <2>interrupt. CASE WriteByte \/ ReadTail \/ DropPacket \/ Signal
    BY <2>interrupt DEF WriteByte, ReadTail, DropPacket, Signal
  <2>loop. CASE Wake \/ TestCount \/ AdvanceTail \/ WrapTail
    BY <2>loop DEF Wake, TestCount, AdvanceTail, WrapTail
  <2>q. QED
    BY <2>accept, <2>handle, <2>interrupt, <2>loop DEF Next, Produce, Consume, vars
<1>3. QED
  BY <1>1, <1>2, Invariance, PTL DEF Spec, FifoSpec, Fifo!Spec

=============================================================================

----------------------------- MODULE RingBuffer -----------------------------
(***************************************************************************)
(* The RingBuffer template of ApplePS2Device.h and the two parties that    *)
(* share one: a driver's interruptOccurred, which fills the packet at      *)
(* head() at real interrupt time and then calls advanceHead, and its       *)
(* packetReady, which empties the buffer later on the work loop, on        *)
(* another processor if the machine has one.                               *)
(*                                                                         *)
(* The unit of m_head and m_tail is the packet: both drivers only move     *)
(* them by their packet length, and the buffer is a multiple of it         *)
(* (32 keyboard packets of 16 bytes; 32 or 24 trackpad packets of 6 or 8   *)
(* bytes), so each comparison of offsets is the same comparison of slots.  *)
(* A packet still is PacketLength separate bytes, written one by one.      *)
(* A packet's contents are its serial number.                              *)
(***************************************************************************)
EXTENDS Naturals

CONSTANTS
    N,              \* packets the buffer has room for
    PacketLength,   \* bytes of a packet
    MaxPackets      \* bound: packets the device sends

ASSUME NAssumption == N \in Nat /\ N >= 2
ASSUME PacketLengthAssumption == PacketLength \in Nat \ {0}
ASSUME MaxPacketsAssumption == MaxPackets \in Nat

VARIABLES
    m_buffer,   \* m_buffer[slot][byte]: serial number of the packet it is of
    m_head,     \* slot the interrupt routine writes
    m_tail,     \* slot the work loop reads; N for an instant in advanceTail
    intr,       \* where the interrupt routine is
    packet,     \* the packet it receives
    written,    \* the bytes of it already stored at head()
    seenTail,   \* m_tail as advanceHead read it first
    loop,       \* where packetReady on the work loop is
    fetched,    \* the bytes of the packet at tail() already read
    signalled,  \* the interrupt event source has been signalled
    accepted,   \* history: packets advanceHead has put in the buffer
    last        \* history: the packet handled last (0 before the first)

producerVars == <<intr, packet, written, seenTail>>
consumerVars == <<loop, fetched>>
vars == <<m_buffer, m_head, m_tail, producerVars, consumerVars, signalled,
          accepted, last>>

Slot == 0 .. N - 1
Byte == 0 .. PacketLength - 1

(***************************************************************************)
(* The private count(head, tail), and where advanceHead would move to.     *)
(***************************************************************************)
\* Mutant: an empty buffer counts as a full one.
CountEmptyIsFull(head, tail) == IF head > tail THEN head - tail ELSE N - tail + head

Count(head, tail) == IF head >= tail THEN head - tail ELSE N - tail + head

\* Mutant: the wrap comes one slot late.
AdvancedLate(index) == IF index >= N THEN index + 1 - N ELSE index + 1

Advanced(index) == IF index + 1 >= N THEN index + 1 - N ELSE index + 1

(***************************************************************************)
(* advanceHead compares count(new_head, m_tail) with count(), so it reads  *)
(* m_tail twice, and the work loop may move it in between.  C++ leaves     *)
(* open which operand is evaluated first: with t1 the value of the first   *)
(* read and t2 that of the second, either order of the two may decide.     *)
(***************************************************************************)
\* Mutant: the head moves whether or not there is room.
HasRoomUnchecked(head, tailNew, tailNow) == TRUE

HasRoom(head, tailNew, tailNow) == Count(Advanced(head), tailNew) >= Count(head, tailNow)

MayAdvance(head, t1, t2) == HasRoom(head, t1, t2) \/ HasRoom(head, t2, t1)

MayDrop(head, t1, t2) == ~ HasRoom(head, t1, t2) \/ ~ HasRoom(head, t2, t1)

Init ==
    /\ m_buffer = [s \in Slot |-> [b \in Byte |-> 0]]
    /\ m_head = 0
    /\ m_tail = 0
    /\ intr = "fill" /\ packet = 1 /\ written = 0 /\ seenTail = 0
    /\ loop = "wait" /\ fetched = 0
    /\ signalled = FALSE
    /\ accepted = {}
    /\ last = 0

-----------------------------------------------------------------------------
(* The interrupt routine stores the next byte of the packet at head().     *)
WriteByte ==
    /\ intr = "fill"
    /\ packet <= MaxPackets
    /\ m_buffer' = [m_buffer EXCEPT ![m_head] = [@ EXCEPT ![written] = packet]]
    /\ IF written = PacketLength - 1
       THEN intr' = "readTail" /\ written' = 0
       ELSE written' = written + 1 /\ UNCHANGED intr
    /\ UNCHANGED <<m_head, m_tail, packet, seenTail, consumerVars, signalled,
                   accepted, last>>

(* advanceHead's first read of m_tail. *)
ReadTail ==
    /\ intr = "readTail"
    /\ intr' = "compare"
    /\ seenTail' = m_tail
    /\ UNCHANGED <<m_buffer, m_head, m_tail, packet, written, consumerVars,
                   signalled, accepted, last>>

(* Its second read and the move of m_head. *)
AdvanceHead ==
    /\ intr = "compare"
    /\ MayAdvance(m_head, seenTail, m_tail)
    /\ m_head' = Advanced(m_head)
    /\ accepted' = accepted \cup {packet}
    /\ packet' = packet + 1
    /\ intr' = "signal"
    /\ UNCHANGED <<m_buffer, m_tail, written, seenTail, consumerVars, signalled,
                   last>>

(* The same on overflow: m_head stays, the next packet overwrites this one.*)
DropPacket ==
    /\ intr = "compare"
    /\ MayDrop(m_head, seenTail, m_tail)
    /\ packet' = packet + 1
    /\ intr' = "signal"
    /\ UNCHANGED <<m_buffer, m_head, m_tail, written, seenTail, consumerVars,
                   signalled, accepted, last>>

\* Mutant: the result of the interrupt routine is ignored.
SignalForgotten ==
    /\ intr = "signal"
    /\ intr' = "fill"
    /\ UNCHANGED <<m_buffer, m_head, m_tail, packet, written, seenTail,
                   consumerVars, signalled, accepted, last>>

(* kPS2IR_packetReady makes the controller signal the event source. *)
Signal ==
    /\ intr = "signal"
    /\ signalled' = TRUE
    /\ intr' = "fill"
    /\ UNCHANGED <<m_buffer, m_head, m_tail, packet, written, seenTail,
                   consumerVars, accepted, last>>

-----------------------------------------------------------------------------
(* The work loop consumes the signal, then calls packetReady. *)
Wake ==
    /\ loop = "wait"
    /\ signalled
    /\ signalled' = FALSE
    /\ loop' = "test"
    /\ UNCHANGED <<m_buffer, m_head, m_tail, producerVars, fetched, accepted, last>>

(* packetReady's loop condition, count() >= the packet length. *)
TestCount ==
    /\ loop = "test"
    /\ loop' = IF Count(m_head, m_tail) >= 1 THEN "handle" ELSE "wait"
    /\ UNCHANGED <<m_buffer, m_head, m_tail, producerVars, fetched, signalled,
                   accepted, last>>

(* The body of the loop reads the packet at tail(), byte after byte. *)
ReadByte ==
    /\ loop = "handle"
    /\ IF fetched = PacketLength - 1
       THEN /\ loop' = "advance"
            /\ fetched' = 0
            /\ last' = m_buffer[m_tail][fetched]
       ELSE fetched' = fetched + 1 /\ UNCHANGED <<loop, last>>
    /\ UNCHANGED <<m_buffer, m_head, m_tail, producerVars, signalled, accepted>>

\* Mutant: packetReady handles one packet a call (an if for the while).
AdvanceTailOnce ==
    /\ loop = "advance"
    /\ m_tail' = m_tail + 1
    /\ loop' = IF m_tail + 1 >= N THEN "wrap" ELSE "wait"
    /\ UNCHANGED <<m_buffer, m_head, producerVars, fetched, signalled, accepted, last>>

(* advanceTail adds first and wraps afterwards: m_tail can be seen as N. *)
AdvanceTail ==
    /\ loop = "advance"
    /\ m_tail' = m_tail + 1
    /\ loop' = IF m_tail + 1 >= N THEN "wrap" ELSE "test"
    /\ UNCHANGED <<m_buffer, m_head, producerVars, fetched, signalled, accepted, last>>

WrapTail ==
    /\ loop = "wrap"
    /\ m_tail' = m_tail - N
    /\ loop' = "test"
    /\ UNCHANGED <<m_buffer, m_head, producerVars, fetched, signalled, accepted, last>>

-----------------------------------------------------------------------------
Produce == WriteByte \/ ReadTail \/ AdvanceHead \/ DropPacket \/ Signal
Consume == Wake \/ TestCount \/ ReadByte \/ AdvanceTail \/ WrapTail
Next == Produce \/ Consume

Spec == Init /\ [][Next]_vars

(* An interrupt routine runs to its end; the work loop thread is scheduled *)
(* whenever its event source is signalled.  The device need not send.      *)
Fairness == WF_vars(ReadTail \/ AdvanceHead \/ DropPacket \/ Signal) /\ WF_vars(Consume)

FairSpec == Spec /\ Fairness

-----------------------------------------------------------------------------
TypeOK ==
    /\ m_buffer \in [Slot -> [Byte -> Nat]]
    /\ m_head \in Slot
    /\ m_tail \in 0 .. N
    /\ intr \in {"fill", "readTail", "compare", "signal"}
    /\ packet \in Nat \ {0}
    /\ written \in Byte
    /\ seenTail \in 0 .. N
    /\ loop \in {"wait", "test", "handle", "advance", "wrap"}
    /\ fetched \in Byte
    /\ signalled \in BOOLEAN
    /\ accepted \subseteq Nat \ {0}
    /\ last \in Nat

(* The packets in the buffer: those not handled yet, and during            *)
(* advanceTail also the one that has just been handled.                    *)
Unread == {p \in accepted : p > last}

Unreleased(s) == Count(s, m_tail) < Count(m_head, m_tail)

(***************************************************************************)
(* The inductive invariant behind the properties below.                    *)
(***************************************************************************)
(* The tail stays ahead of the head; a stale tail only shows more packets. *)
Indices ==
    /\ m_tail = N <=> loop = "wrap"
    /\ loop \in {"handle", "advance"} => Count(m_head, m_tail) >= 1
    /\ intr = "compare" =>
          Count(m_head, m_tail) <= Count(m_head, seenTail)

(* The slot at head() holds what has been written of the current packet.   *)
HeadSlot ==
    /\ intr # "fill" => written = 0
    /\ intr = "fill" =>
          \A b \in Byte : b < written => m_buffer[m_head][b] = packet
    /\ intr \in {"readTail", "compare"} =>
          \A b \in Byte : m_buffer[m_head][b] = packet

(* The slots between tail and head hold unread packets, each whole (and,   *)
(* until advanceTail, the one just handled).                               *)
Whole ==
    \A s \in Slot : Unreleased(s) =>
        /\ m_buffer[s][0] \in accepted
        /\ \A b \in Byte : m_buffer[s][b] = m_buffer[s][0]
        /\ m_buffer[s][0] >= last
        /\ m_buffer[s][0] = last <=> s = m_tail /\ loop = "advance"

(* Every unread packet is in one of them. *)
Complete ==
    \A p \in Unread : \E s \in Slot : Unreleased(s) /\ m_buffer[s][0] = p

(* Older packets are nearer to the tail. *)
Ordered ==
    \A r, s \in Slot :
        Unreleased(r) /\ Unreleased(s) /\ Count(r, m_tail) < Count(s, m_tail)
            => m_buffer[r][0] < m_buffer[s][0]

Window == Whole /\ Complete /\ Ordered

(* No accepted packet is newer than the one now being received. *)
Serials ==
    /\ \A p \in accepted : p < packet
    /\ intr \in {"readTail", "compare"} => packet <= MaxPackets
    /\ accepted \subseteq 1 .. MaxPackets
    /\ last < packet


(* While packetReady reads the packet at tail(), all its bytes are those   *)
(* of the oldest unread packet: the interrupt routine, which writes at     *)
(* head() even when the buffer is full, never touches it.                  *)
PacketIntact ==
    loop = "handle" =>
        \E p \in Unread :
            /\ \A q \in Unread : p <= q
            /\ \A b \in Byte : m_buffer[m_tail][b] = p

(* packetReady does not end with a packet in the buffer unless a signal    *)
(* for it is pending or about to be given.                                 *)
NoLostWakeup ==
    loop = "wait" => \/ m_head = m_tail
                            \/ signalled
                            \/ intr = "signal"

IInv == TypeOK /\ Indices /\ HeadSlot /\ Window /\ Serials /\ NoLostWakeup

(* The buffer is a FIFO of whole packets, see PacketFifo. *)
Fifo == INSTANCE PacketFifo WITH Packets <- 1 .. MaxPackets
FifoSpec == Fifo!Spec

(* Every packet that was accepted is handled at last. *)
EventuallyHandled ==
    \A p \in 1 .. MaxPackets : p \in accepted ~> last >= p

=============================================================================

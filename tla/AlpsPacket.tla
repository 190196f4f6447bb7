----------------------------- MODULE AlpsPacket -----------------------------
(***************************************************************************)
(* ALPS::interruptOccurred and ALPS::packetReady: the bytes of the pad are *)
(* assembled into packets of pktsize bytes in the ring buffer, checked as  *)
(* they come, and handled or dropped later on the work loop.  The two      *)
(* share _packetByteCount and PSMOUSE_BAD_DATA, and nothing makes the next *)
(* byte wait for the work loop.                                            *)
(*                                                                         *)
(* A byte is known by its number and its kind.  What the tests of a        *)
(* protocol version make of each kind, at each place in a packet, is in    *)
(* the pad's record:                                                       *)
(*   kinds   the kinds that this version tells apart;                      *)
(*   first   those that pass the test of a packet's first byte: they may   *)
(*           come at any other place too;                                  *)
(*   bare    those taken for the first byte of a bare PS/2 packet;         *)
(*   wrong   those that fail the test of the byte at an index;             *)
(*   stuffed those at index 3 that tell of a PS/2 packet stuffed in;       *)
(*   normal  the kind that a packet has at each index;                     *)
(*   parts   what the decoder can find a packet to be;                     *)
(*   keeps   does a stick packet leave priv.multi_packet alone?            *)
(*                                                                         *)
(* What is handled is decoded.  Versions 3, 5 and 8 report one finger in a *)
(* single packet and more in two, the first of which is kept until the     *)
(* second one comes (priv.multi_packet, priv.multi_data); what the decoders*)
(* find in a packet is abstracted to its part, any of the version's, and a *)
(* frame that is dispatched to the packets it is made of.                  *)
(***************************************************************************)
EXTENDS Naturals, Sequences

CONSTANTS
    N,          \* packets the ring buffer has room for
    P,          \* priv.pktsize
    Kinds,      \* kinds of bytes
    Pads,       \* the pads, by what their protocol versions test
    MaxPackets, \* bound: packets sent
    MaxOdd      \* bound: bytes that are late, or not of the kind usual at their place

ASSUME SizesAssumption == N \in Nat /\ N >= 3 /\ P \in Nat /\ P >= 5
ASSUME KindsAssumption == "plain" \in Kinds
ASSUME PadsAssumption ==
    Pads \subseteq
        [kinds : SUBSET Kinds, first : SUBSET Kinds, bare : SUBSET Kinds,
         wrong : [1 .. P - 1 -> SUBSET Kinds], stuffed : SUBSET Kinds,
         normal : [0 .. P - 1 -> Kinds],
         parts : SUBSET {"single", "first", "second", "stick"}, keeps : BOOLEAN]
ASSUME BoundsAssumption == MaxPackets \in Nat /\ MaxOdd \in Nat

VARIABLES
    pad,        \* the pad
    sent,       \* the packets sent, in order: the number of the first byte, how
                \* many there are; history: do its bytes pass the tests so far, is
                \* one of them late, was a later one taken for a first one?
    came,       \* the number of bytes that have come
    odd,        \* how many of them were late or not of the usual kind
    buffer,     \* the ring buffer's bytes, and those behind its end
    head, tail, \* m_head and m_tail, in packets
    byteCount,  \* _packetByteCount
    badData,    \* PSMOUSE_BAD_DATA
    signalled,  \* the event source has been signalled
    loop,       \* where packetReady is
    multi,      \* the packet in priv.multi_data, an index of handled; 0 if !priv.multi_packet
    handled,    \* history: the packets processed, in order
    frames,     \* history: the frames dispatched, by their indices in handled
    late        \* history: has a byte come before what was ready was handled?

deviceVars == <<pad, sent, came, odd, late>>
ringVars == <<buffer, head, tail>>
decoderVars == <<multi, handled, frames>>
vars == <<deviceVars, ringVars, byteCount, badData, signalled, loop, decoderVars>>

Nothing == [no |-> 0, kind |-> "plain"]

Init ==
    /\ pad \in Pads /\ sent = <<>> /\ came = 0 /\ odd = 0 /\ late = FALSE
    /\ buffer = [a \in 0 .. (N + 1) * P - 1 |-> Nothing] /\ head = 0 /\ tail = 0
    /\ byteCount = 0 /\ badData = FALSE
    /\ signalled = FALSE /\ loop = "wait"
    /\ multi = 0 /\ handled = <<>> /\ frames = {}

-----------------------------------------------------------------------------
(* The ring buffer. *)
Packet(b, slot, i) == b[slot * P + i]
Count == IF head >= tail THEN head - tail ELSE N - tail + head

(* advanceHead leaves a full buffer alone. *)
AdvanceHead == head' = IF Count = N - 1 THEN head ELSE (head + 1) % N

(* What has yet to be handled or dropped: _packetByteCount is reset before *)
(* the packet is taken out of the buffer.                                  *)
Unhandled == IF loop = "advance" THEN Count - 1 ELSE Count

(* A byte is late if it comes while a packet is waiting, and the next ones *)
(* are until packetReady has found the buffer empty.                       *)
Late == late \/ Unhandled > 0

-----------------------------------------------------------------------------
(* interruptOccurred, for the next byte. *)

(* "Save first packet": the first byte is stored before any test. *)
Saved(data) == IF byteCount = 0 THEN [buffer EXCEPT ![head * P] = data] ELSE buffer

(* packet[_packetByteCount++] = data *)
Store(b, data) == [b EXCEPT ![head * P + byteCount] = data]

Bare(b) == Packet(b, head, 0).kind \in pad.bare

\* Mutant: only the first byte is tested.
InvalidFirst(b) == Packet(b, head, 0).kind \notin pad.first

(* The tests look at bytes stored before. *)
Invalid(b) ==
    \/ byteCount >= 4 /\ Packet(b, head, 3).kind \in pad.stuffed
    \/ Packet(b, head, 0).kind \notin pad.first
    \/ /\ byteCount >= 2 /\ byteCount <= P
       /\ Packet(b, head, byteCount - 1).kind \in pad.wrong[byteCount - 1]

Reject ==
    /\ badData' = TRUE
    /\ AdvanceHead
    /\ signalled' = TRUE
    /\ UNCHANGED byteCount

(* The packet is complete with its last byte; a bare one never is. *)
Accept(b, data, last) ==
    /\ badData' = FALSE
    /\ buffer' = Store(b, data)
    /\ byteCount' = byteCount + 1
    /\ IF byteCount + 1 = last THEN AdvanceHead /\ signalled' = TRUE
                               ELSE UNCHANGED <<head, signalled>>

(* The guard keeps the write inside the modelled memory. *)
InterruptOccurred(data) ==
    /\ head * P + byteCount \in DOMAIN buffer
    /\ LET b == Saved(data)
       IN  IF Bare(b)
           THEN IF byteCount = 3 THEN Reject /\ buffer' = b ELSE Accept(b, data, 0)
           ELSE IF Invalid(b) THEN Reject /\ buffer' = b ELSE Accept(b, data, P)
    /\ UNCHANGED <<tail, loop, decoderVars>>

-----------------------------------------------------------------------------
(* The pad sends a packet of its own, or passes on a bare one of 3 bytes.  *)

(* Nothing that the tests can see is wrong with a byte at index i.  The    *)
(* last byte would be tested by the call for the byte behind it, but that  *)
(* call has begun the next packet.                                         *)
Passes(i, kind) ==
    IF i = 0 THEN kind \in pad.first \ pad.bare
    ELSE i = P - 1 \/ (kind \notin pad.wrong[i] /\ ~(i = 3 /\ kind \in pad.stuffed))

Size(n) == sent[n].size
Complete == IF sent = <<>> THEN TRUE ELSE came + 1 = sent[Len(sent)].from + Size(Len(sent))

(* The byte is taken as the first one of a packet that it does not begin.  *)
Misleads(kind) == byteCount = 0 /\ kind \in pad.bare \cup pad.first

Comes(kind, usual) ==
    /\ odd' = IF kind = usual /\ ~Late THEN odd ELSE odd + 1
    /\ odd' <= MaxOdd
    /\ came' = came + 1
    /\ late' = Late
    /\ InterruptOccurred([no |-> came + 1, kind |-> kind])

(* Whatever comes late has met a packet that had just come. *)
MarkLate(s) ==
    IF s # <<>> /\ Late THEN [s EXCEPT ![Len(s)].late = TRUE] ELSE s

BeginPacket(size, kind, usual) ==
    /\ Complete /\ Len(sent) < MaxPackets
    /\ Comes(kind, usual)
    /\ sent' = Append(MarkLate(sent),
          [from |-> came + 1, size |-> size, good |-> size = P /\ Passes(0, kind),
           late |-> Late, misled |-> FALSE])
    /\ UNCHANGED pad

BareFirst == IF pad.bare = {} THEN pad.first ELSE pad.bare

OwnPacket == \E kind \in pad.kinds : BeginPacket(P, kind, pad.normal[0])
BarePacket == \E kind \in BareFirst : BeginPacket(3, kind, kind)

LaterByte ==
    /\ ~Complete
    /\ LET n == Len(sent)
           i == came + 1 - sent[n].from
       IN  \E kind \in pad.kinds :
              /\ Comes(kind, IF Size(n) = P THEN pad.normal[i] ELSE "plain")
              /\ sent' = [sent EXCEPT
                    ![n].good = @ /\ Passes(i, kind),
                    ![n].late = @ \/ Late,
                    ![n].misled = @ \/ Misleads(kind)]
    /\ UNCHANGED pad

ByteComes == OwnPacket \/ BarePacket \/ LaterByte

-----------------------------------------------------------------------------
(* packetReady, on the work loop. *)
Wake ==
    /\ loop = "wait" /\ signalled
    /\ signalled' = FALSE /\ loop' = "test"
    /\ UNCHANGED <<deviceVars, ringVars, byteCount, badData, decoderVars>>

TestCount ==
    /\ loop = "test"
    /\ loop' = IF Count >= 1 THEN "handle" ELSE "wait"
    /\ late' = (late /\ Count >= 1)
    /\ UNCHANGED <<pad, sent, came, odd, ringVars, byteCount, badData, signalled, decoderVars>>

\* Mutant: a first packet that is still waiting is not given up.
ProcessPacketWaits(n, part) ==
    CASE part = "second" /\ multi # 0 -> frames' = frames \cup {<<multi, n>>} /\ multi' = 0
      [] part = "second" /\ multi = 0 -> UNCHANGED <<multi, frames>>
      [] part = "first" -> multi' = (IF multi = 0 THEN n ELSE multi) /\ UNCHANGED frames
      [] part = "single" -> frames' = frames \cup {<<n>>} /\ multi' = 0
      [] part = "stick" -> multi' = (IF pad.keeps THEN multi ELSE 0) /\ UNCHANGED frames

(* process_packet of a two part protocol: a second packet is decoded with  *)
(* the one kept, or rejected without; any other means that the second one  *)
(* has not come, except that version 3 looks for a stick packet before all *)
(* that.  Stick packets are no frames of the pad's.                        *)
ProcessPacket(n, part) ==
    CASE part = "second" /\ multi # 0 -> frames' = frames \cup {<<multi, n>>} /\ multi' = 0
      [] part = "second" /\ multi = 0 -> UNCHANGED <<multi, frames>>
      [] part = "first" -> multi' = n /\ UNCHANGED frames
      [] part = "single" -> frames' = frames \cup {<<n>>} /\ multi' = 0
      [] part = "stick" -> multi' = (IF pad.keeps THEN multi ELSE 0) /\ UNCHANGED frames

(* Unless the data are bad. *)
Handle ==
    /\ loop = "handle"
    /\ IF badData THEN UNCHANGED decoderVars
       ELSE \E part \in pad.parts :
              /\ handled' = Append(handled,
                    [bytes |-> [i \in 0 .. P - 1 |-> Packet(buffer, tail, i)],
                     as |-> part, late |-> late])
              /\ ProcessPacket(Len(handled) + 1, part)
    /\ loop' = "reset"
    /\ UNCHANGED <<deviceVars, ringVars, byteCount, badData, signalled>>

\* Mutant: the byte count is not reset.
ResetCountForgotten ==
    /\ loop = "reset"
    /\ loop' = "advance"
    /\ UNCHANGED <<deviceVars, ringVars, byteCount, badData, signalled, decoderVars>>

ResetCount ==
    /\ loop = "reset"
    /\ byteCount' = 0
    /\ loop' = "advance"
    /\ UNCHANGED <<deviceVars, ringVars, badData, signalled, decoderVars>>

AdvanceTail ==
    /\ loop = "advance"
    /\ tail' = (tail + 1) % N
    /\ loop' = "test"
    /\ UNCHANGED <<deviceVars, buffer, head, byteCount, badData, signalled, decoderVars>>

PacketReady == Wake \/ TestCount \/ Handle \/ ResetCount \/ AdvanceTail

Next == ByteComes \/ PacketReady

Spec == Init /\ [][Next]_vars

-----------------------------------------------------------------------------
(* A packet's bytes stay inside it unless one comes late: _packetByteCount *)
(* then goes on behind the packet, and the bytes into the next one's place *)
(* in the buffer or behind its end.                                        *)
TypeOK ==
    /\ pad \in Pads
    /\ sent \in Seq([from : Nat, size : {3, P}, good : BOOLEAN, late : BOOLEAN,
                     misled : BOOLEAN])
    /\ Len(sent) <= MaxPackets
    /\ came \in Nat /\ odd \in 0 .. MaxOdd /\ late \in BOOLEAN
    /\ buffer \in [0 .. (N + 1) * P - 1 -> [no : Nat, kind : Kinds]]
    /\ head \in 0 .. N - 1 /\ tail \in 0 .. N - 1
    /\ byteCount \in 0 .. (N + 1) * P /\ (late \/ byteCount <= P)
    /\ badData \in BOOLEAN /\ signalled \in BOOLEAN
    /\ loop \in {"wait", "test", "handle", "reset", "advance"}
    /\ multi \in 0 .. Len(handled)

(* Whatever is processed before another byte comes is a run of P bytes     *)
(* with nothing wrong that the tests can see, whatever was lost or dropped *)
(* before it: "an invalid or bare packet has been dropped" (alps.cpp:1492).*)
(* A late byte can clear PSMOUSE_BAD_DATA, and write into the packet.      *)
WholeAndValid ==
    \A k \in 1 .. Len(handled) : ~handled[k].late =>
        \A i \in 0 .. P - 1 :
            /\ handled[k].bytes[i].no = handled[k].bytes[0].no + i
            /\ Passes(i, handled[k].bytes[i].kind)

(* All quiet, a good packet none of whose bytes was late has been processed*)
(* if the one before it was: once in step, the driver only falls out of it *)
(* by a wrong packet, or a late byte.                                      *)
Quiet == Complete /\ ~signalled /\ loop = "wait"

Processed(n) ==
    Size(n) = P /\ \E k \in 1 .. Len(handled) :
        ~handled[k].late /\ handled[k].bytes[0].no = sent[n].from
StaysInStep ==
    Quiet => \A n \in 1 .. Len(sent) :
        sent[n].good /\ ~sent[n].late /\ (n = 1 \/ Processed(n - 1)) => Processed(n)

(* A packet that is wrong or was late does not cost the good one behind it,*)
(* unless one of its own later bytes was taken for the first one of a      *)
(* packet.  (A bare one does: its end is only noticed with the first byte  *)
(* of the packet behind it, alps.cpp:1423, and that byte is dropped.)      *)
ResyncAtOnce ==
    Quiet => \A n \in 2 .. Len(sent) :
        /\ sent[n].good /\ ~sent[n].late
        /\ Size(n - 1) = P /\ ~sent[n - 1].misled
        => Processed(n)

(* KeepsStep: losing step takes a wrong packet, and costs no more than it  *)
(* must.                                                                   *)
KeepsStep == StaysInStep /\ ResyncAtOnce

(* Packets are lost, but frames do not get mixed up: whatever the decoder  *)
(* sees, a second packet is decoded with a first one, and nothing was      *)
(* processed between them but stick packets of a version that keeps the    *)
(* first one meanwhile; no packet is in two frames; and two packets that   *)
(* go together are dispatched together, single ones on their own.          *)
SticksBetween(j, k) == \A i \in j + 1 .. k - 1 : handled[i].as = "stick" /\ pad.keeps
FramesArePaired ==
    /\ \A f \in frames : Len(f) = 2 =>
          /\ f[1] < f[2] /\ handled[f[1]].as = "first" /\ handled[f[2]].as = "second"
          /\ SticksBetween(f[1], f[2])
    /\ \A f, g \in frames : f # g => {f[1], f[Len(f)]} \cap {g[1], g[Len(g)]} = {}
    /\ \A k \in 1 .. Len(handled) : handled[k].as = "single" => <<k>> \in frames
    /\ \A j, k \in 1 .. Len(handled) :
          /\ j < k /\ handled[j].as = "first" /\ handled[k].as = "second"
          /\ SticksBetween(j, k)
          => <<j, k>> \in frames

=============================================================================

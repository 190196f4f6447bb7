----------------------------- MODULE PacketFifo -----------------------------
(***************************************************************************)
(* What a packet buffer between an interrupt routine and the work loop     *)
(* promises: a packet is accepted or dropped whole, and the accepted       *)
(* packets are handled each exactly once, in the order of their arrival.   *)
(* Packets are numbered in the order the device sends them.                *)
(***************************************************************************)
EXTENDS Naturals

CONSTANT Packets     \* serial numbers, positive integers

VARIABLES
    accepted,   \* every packet put into the buffer so far
    last        \* the packet taken out last (0 before the first)

Unread == {p \in accepted : p > last}

Init == accepted = {} /\ last = 0

(* A newer packet than all before it enters. *)
Put(p) ==
    /\ \A q \in accepted : q < p
    /\ accepted' = accepted \cup {p}
    /\ UNCHANGED last

(* The oldest of the unread packets leaves. *)
Take(p) ==
    /\ p \in Unread
    /\ \A q \in Unread : p <= q
    /\ last' = p
    /\ UNCHANGED accepted

Next == \E p \in Packets : Put(p) \/ Take(p)

Spec == Init /\ [][Next]_<<accepted, last>>

=============================================================================

---------------------------- MODULE MCRingBuffer ----------------------------
(* TLC instance of RingBuffer: three slots, so that the buffer fills,      *)
(* overflows and wraps several times while two-byte packets are written.   *)
EXTENDS RingBuffer
=============================================================================

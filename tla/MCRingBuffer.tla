---------------------------- MODULE MCRingBuffer ----------------------------
(* Small instances of RingBuffer: NUM_THREADS clients that are               *)
(* interchangeable, so their permutations are a symmetry of the safety runs. *)
EXTENDS RingBuffer, TLC

Symmetry == Permutations(Clients)
=============================================================================

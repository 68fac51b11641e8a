------------------------------- MODULE MCRvm -------------------------------
(* Small instances of Rvm: processes, segments and addresses are              *)
(* interchangeable, so their permutations are a symmetry of the safety runs. *)
EXTENDS Rvm

Symmetry == Permutations(Procs) \cup Permutations(Segs) \cup Permutations(Addrs)
=============================================================================

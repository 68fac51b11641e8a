--------------------------- MODULE RequestService ---------------------------
(***************************************************************************)
(* What the service of project2 promises its callers, without ring,        *)
(* counters, mutex or condition variables: requests (x, PRIME) are queued  *)
(* up to a capacity, answered one at a time in the order they were queued, *)
(* and every request is answered exactly once with 2^x mod PRIME.          *)
(***************************************************************************)
EXTENDS Integers, Sequences

CONSTANTS
  Requests,   (* the exponents x a caller may ask for   *)
  Capacity    (* how many requests may be queued        *)

VARIABLES
  pending,    (* the queue of unanswered requests            *)
  replied,    (* how many replies have been produced         *)
  reply       (* the latest of them (0 before the first one) *)

vars == <<pending, replied, reply>>

PRIME == 97

Answer(x) == (2^x) % PRIME

Init ==
  /\ pending = <<>>
  /\ replied = 0
  /\ reply = 0

Submit(x) ==
  /\ Len(pending) < Capacity
  /\ pending' = Append(pending, x)
  /\ UNCHANGED <<replied, reply>>

Serve ==
  /\ pending # <<>>
  /\ pending' = Tail(pending)
  /\ replied' = replied + 1
  /\ reply' = Answer(Head(pending))

Next == (\E x \in Requests : Submit(x)) \/ Serve

Spec == Init /\ [][Next]_vars
=============================================================================

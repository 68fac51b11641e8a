-------------------------- MODULE ResponseSemantics --------------------------
(***************************************************************************)
(* What the multi-RPC client of project3 promises its user, without        *)
(* threads, locks or condition variables: responses of N servers come in,  *)
(* and the callback is run at most once, with a number of responses that   *)
(* meets the option the user chose.                                        *)
(***************************************************************************)
EXTENDS Integers

CONSTANTS
  N,           (* how many servers are asked                         *)
  Unreported   (* the callback has not run                           *)

(* The values of the command line option. *)
MAJORITY == 0
ANY == 1
ALL == 2

VARIABLES
  option,      (* MAJORITY, ANY or ALL                               *)
  responses,   (* responses received                                 *)
  reported     (* the number of them that the callback told the user *)

vars == <<option, responses, reported>>

Satisfies(o, n) ==
  \/ o = MAJORITY /\ 2 * n > N
  \/ o = ANY /\ n > 0
  \/ o = ALL /\ n = N

Init ==
  /\ option \in {MAJORITY, ANY, ALL}
  /\ responses = 0
  /\ reported = Unreported

Respond ==
  /\ reported = Unreported
  /\ responses < N
  /\ responses' = responses + 1
  /\ UNCHANGED <<option, reported>>

Report ==
  /\ reported = Unreported
  /\ Satisfies(option, responses)
  /\ reported' = responses
  /\ UNCHANGED <<option, responses>>

Next == Respond \/ Report

Spec == Init /\ [][Next]_vars
=============================================================================

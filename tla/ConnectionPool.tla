--------------------------- MODULE ConnectionPool ---------------------------
(***************************************************************************)
(* What the Abyss server promises of its connections, without threads,     *)
(* children, signals or the list of them: connections are accepted in the  *)
(* order they came, at most Capacity are served at a time, each is served  *)
(* once and its socket destroyed once.  When the server is asked to stop   *)
(* it accepts no further connection, but for one it may be waiting for     *)
(* already, and it stops when the last one is closed.                      *)
(***************************************************************************)
EXTENDS Sequences, SequencesExt, FiniteSets, Integers

CONSTANTS
  Conns,
  Capacity   (* how many connections are served at a time              *)

VARIABLES
  queue,     (* connections that wait to be accepted                    *)
  next,      (* {} or the one that is accepted and not served yet       *)
  serving,   (* those being served: their sockets are open              *)
  stop       (* "no"; "once": asked to, one more may be accepted;       *)
             (* "closing": none may; "stopped"                          *)

vars == <<queue, next, serving, stop>>

Init ==
  /\ queue = <<>>
  /\ next = {}
  /\ serving = {}
  /\ stop = "no"

Connect(c) ==
  /\ c \notin ToSet(queue) \cup next \cup serving
  /\ queue' = Append(queue, c)
  /\ UNCHANGED <<next, serving, stop>>

(* The first in the queue is accepted, or dropped. *)
Accept ==
  /\ stop \in {"no", "once"}
  /\ queue # <<>>
  /\ next = {}
  /\ queue' = Tail(queue)
  /\ next' \in {{Head(queue)}, {}}
  /\ stop' = IF stop = "once" THEN "closing" ELSE "no"
  /\ UNCHANGED serving

Serve ==
  /\ next # {}
  /\ Cardinality(serving) < Capacity
  /\ serving' = serving \cup next
  /\ next' = {}
  /\ UNCHANGED <<queue, stop>>

(* There is no thread for it. *)
Refuse ==
  /\ next # {}
  /\ next' = {}
  /\ UNCHANGED <<queue, serving, stop>>

Close ==
  /\ \E over \in SUBSET serving : over # {} /\ serving' = serving \ over
  /\ UNCHANGED <<queue, next, stop>>

AskToStop ==
  /\ stop = "no"
  /\ stop' \in {"once", "closing"}
  /\ UNCHANGED <<queue, next, serving>>

Stop ==
  /\ stop = "closing"
  /\ next = {}
  /\ serving = {}
  /\ stop' = "stopped"
  /\ UNCHANGED <<queue, next, serving>>

Next ==
  \/ \E c \in Conns : Connect(c)
  \/ Accept
  \/ Serve
  \/ Refuse
  \/ Close
  \/ AskToStop
  \/ Stop

Spec == Init /\ [][Next]_vars
=============================================================================

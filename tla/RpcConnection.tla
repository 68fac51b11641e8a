--------------------------- MODULE RpcConnection ---------------------------
(***************************************************************************)
(* What one connection of an XML-RPC server promises, without the stream,  *)
(* buffers, headers or reads: its requests are served one at a time, in    *)
(* order; an RPC is executed at most once, when all of it has been sent;   *)
(* what was executed is answered, with its result or with a 500 when there *)
(* is none to send, so a 500 does not tell whether the call was executed;  *)
(* anything else is refused; the client is told after each whether the     *)
(* connection stays open: after a result, if that is what it asked for, up *)
(* to so many requests, and after nothing else.                            *)
(***************************************************************************)
EXTENDS Naturals, Sequences

CONSTANT keepalivemaxconn   (* requests per connection                       *)

VARIABLES
  requests,    (* the client's, by number                                    *)
  rpcs,        (* those that are RPCs                                        *)
  lasting,     (* those after which the client wants the connection to stay  *)
  arrived,     (* those sent in whole                                        *)
  executed,    (* those executed, in order                                   *)
  responses,   (* to each request in turn: its status, and "yes" or "no" to  *)
               (* the question whether the connection stays                  *)
  open         (* "yes" or "no"                                              *)

client == <<requests, rpcs, lasting>>
vars == <<client, arrived, executed, responses, open>>

Init ==
  /\ rpcs \cup lasting \subseteq requests
  /\ arrived = {}
  /\ executed = <<>>
  /\ responses = <<>>
  /\ open = "yes"

Present == Len(responses) + 1
Executed == executed # <<>> /\ executed[Len(executed)] = Present

(* The connection stays after what was answered, and the present request is *)
(* not executed yet.                                                        *)
MayServe ==
  /\ open = "yes"
  /\ Present \in requests
  /\ responses # <<>> => responses[Len(responses)].keepalive = "yes"
  /\ ~Executed

Arrive ==
  /\ arrived \subseteq arrived' /\ arrived' # arrived
  /\ UNCHANGED <<client, executed, responses, open>>

Execute ==
  /\ MayServe
  /\ Present \in rpcs \cap arrived
  /\ executed' = Append(executed, Present)
  /\ UNCHANGED <<client, arrived, responses, open>>

Answer(status, stays) ==
  responses' = Append(responses, [status |-> status, keepalive |-> stays])

Succeed ==
  /\ Executed
  /\ Answer(200, IF Present \in lasting /\ Present < keepalivemaxconn THEN "yes" ELSE "no")
  /\ UNCHANGED <<client, arrived, executed, open>>

(* The call was made, and its result cannot be sent. *)
FailAfterCall ==
  /\ Executed
  /\ Answer(500, "no")
  /\ UNCHANGED <<client, arrived, executed, open>>

(* With an RPC only time or memory can run out. *)
Refuse ==
  /\ MayServe
  /\ \E status \in {400, 404, 405, 408, 411, 500, 505} :
       /\ Present \in rpcs => status \in {408, 500}
       /\ Answer(status, "no")
  /\ UNCHANGED <<client, arrived, executed, open>>

(* Never between a call and its answer. *)
Close ==
  /\ open = "yes"
  /\ ~Executed
  /\ open' = "no"
  /\ UNCHANGED <<client, arrived, executed, responses>>

Next == Arrive \/ Execute \/ Succeed \/ FailAfterCall \/ Refuse \/ Close

Spec == Init /\ [][Next]_vars
=============================================================================

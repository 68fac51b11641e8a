----------------------------- MODULE AsyncCalls -----------------------------
(***************************************************************************)
(* What the xmlrpc-c client promises of asynchronous RPCs, without curl,   *)
(* sessions, messages or deadlines: the caller of an RPC that was accepted *)
(* is told once of its end, the caller of one that was refused is told of  *)
(* that at once or never; a call of the event loop that does not end early *)
(* leaves none of the RPCs that were outstanding when it came in; and the  *)
(* client is closed when none is outstanding and no thread is inside.      *)
(***************************************************************************)
EXTENDS Sequences

CONSTANTS Threads, Rpcs

VARIABLES
  client,    (* "none" or "up"                                              *)
  asked,     (* RPC -> "no", "refused" or "accepted"                        *)
  told,      (* RPC -> what its caller was told, in order                   *)
  place,     (* thread -> "out" of the client; "in" the event loop, or with *)
             (* what it did "done", or at its end "early"; or "calling"     *)
  owed,      (* thread -> RPCs outstanding when it entered the loop         *)
  hand       (* thread -> {} or the RPC whose caller it is about to tell    *)

vars == <<client, asked, told, place, owed, hand>>

Outstanding == {r \in Rpcs : asked[r] = "accepted" /\ told[r] = <<>>}
InHands == UNION {hand[t] : t \in Threads}

Move(t, there) == place' = [place EXCEPT ![t] = there]

Init ==
  /\ client = "none"
  /\ asked = [r \in Rpcs |-> "no"]
  /\ told = [r \in Rpcs |-> <<>>]
  /\ place = [t \in Threads |-> "out"]
  /\ owed = [t \in Threads |-> {}]
  /\ hand = [t \in Threads |-> {}]

Open ==
  /\ client = "none"
  /\ client' = "up"
  /\ UNCHANGED <<asked, told, place, owed, hand>>

Close ==
  /\ client = "up"
  /\ Outstanding = {}
  /\ \A t \in Threads : place[t] = "out"
  /\ client' = "none"
  /\ UNCHANGED <<asked, told, place, owed, hand>>

(* From outside, or from a callback that a thread in the loop runs. *)
Ask(r) ==
  /\ client = "up"
  /\ asked[r] = "no"
  /\ \/ asked' = [asked EXCEPT ![r] = "accepted"] /\ UNCHANGED told
     \/ /\ asked' = [asked EXCEPT ![r] = "refused"]
        /\ told' \in {told, [told EXCEPT ![r] = <<"refused">>]}
  /\ UNCHANGED <<client, place, owed, hand>>

Enter(t) ==
  /\ client = "up"
  /\ place[t] = "out"
  /\ Move(t, "in")
  /\ owed' = [owed EXCEPT ![t] = Outstanding]
  /\ UNCHANGED <<client, asked, told, hand>>

(* One thread takes on to tell a caller. *)
Take(t, r) ==
  /\ place[t] = "in"
  /\ hand[t] = {}
  /\ r \in Outstanding \ InHands
  /\ hand' = [hand EXCEPT ![t] = {r}]
  /\ UNCHANGED <<client, asked, told, place, owed>>

Tell(t) ==
  /\ place[t] = "in"
  /\ \E r \in hand[t], said \in {"ok", "fault"} :
       told' = [told EXCEPT ![r] = <<said>>]
  /\ hand' = [hand EXCEPT ![t] = {}]
  /\ UNCHANGED <<client, asked, place, owed>>

(* What the thread came for is told, but for what others are about to tell. *)
Finish(t) ==
  /\ place[t] = "in"
  /\ hand[t] = {}
  /\ owed[t] \cap Outstanding \subseteq InHands
  /\ Move(t, "done")
  /\ UNCHANGED <<client, asked, told, owed, hand>>

(* On a deadline or a failure. *)
GiveUp(t) ==
  /\ place[t] = "in"
  /\ hand[t] = {}
  /\ Move(t, "early")
  /\ UNCHANGED <<client, asked, told, owed, hand>>

Leave(t) ==
  /\ place[t] \in {"done", "early"}
  /\ Move(t, "out")
  /\ owed' = [owed EXCEPT ![t] = {}]
  /\ UNCHANGED <<client, asked, told, hand>>

(* A synchronous call, of one thread at a time. *)
Call(t) ==
  /\ client = "up"
  /\ place[t] = "out"
  /\ \A u \in Threads : place[u] # "calling"
  /\ Move(t, "calling")
  /\ UNCHANGED <<client, asked, told, owed, hand>>

Return(t) ==
  /\ place[t] = "calling"
  /\ Move(t, "out")
  /\ UNCHANGED <<client, asked, told, owed, hand>>

Next ==
  \/ Open
  \/ Close
  \/ \E r \in Rpcs : Ask(r)
  \/ \E t \in Threads :
       \/ Enter(t)
       \/ \E r \in Rpcs : Take(t, r)
       \/ Tell(t)
       \/ Finish(t)
       \/ GiveUp(t)
       \/ Leave(t)
       \/ Call(t)
       \/ Return(t)

Spec == Init /\ [][Next]_vars
=============================================================================

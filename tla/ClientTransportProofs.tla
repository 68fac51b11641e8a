------------------------ MODULE ClientTransportProofs ------------------------
(***************************************************************************)
(* Proofs about ClientTransport, for any threads and RPCs, whatever fails. *)
(* The inductive invariant has four parts: the constants are counted, the  *)
(* synchronous session belongs to the holder of its lock, each accepted    *)
(* RPC is in one place from its start to the end of its callback, and a    *)
(* thread whose last perform left nothing running knows its RPCs answered. *)
(***************************************************************************)
EXTENDS ClientTransport, SequenceLemmas

USE TransportAssumption

-----------------------------------------------------------------------------
(*                            The invariant                                 *)

(* Every setup counts; while any does, the constants are there or failed.   *)
ConstInv ==
  /\ constSetupCount = 0 <=> constants = "unset"
  /\ client = "up" => constSetupCount > 0
  /\ client = "none" => Outstanding = {} /\ \A t \in Threads : At(t, "idle")

(* The session is set up for the thread that holds its lock, if any does. *)
InCall == {t \in Threads : pc[t] \in {"exchange", "answered", "failed"}}

SyncInv ==
  /\ sessionLock = InCall
  /\ session = InCall
  /\ \A t, u \in InCall : t = u
  /\ \A t \in Threads : /\ At(t, "exchange") => replies[t] = 0
                        /\ At(t, "answered") => replies[t] = 1

(* A thread has a transaction in hand from its message to the callback's    *)
(* end, and no other thread has it too.                                     *)
HandInv ==
  /\ \A t \in Threads :
       IF pc[t] \in {"finish", "callback"} THEN \E r \in Rpcs : current[t] = {r}
                                           ELSE current[t] = {}
  /\ \A t, u \in Threads : \A r \in current[t] \cap current[u] : t = u

(* Where an RPC can be: not started, with its transfer in libcurl, in the   *)
(* queue of messages, about to be told by t, or told of its end (and not of *)
(* a refusal to start it).                                                  *)
Queued(r) == r \in ToSet(messages)
AboutToBeTold(r, t) == r \in current[t] /\ At(t, "finish")
Told(r) == asked[r] = "accepted" /\ told[r] # <<>>

PlaceInv ==
  /\ IsInjective(messages)
  /\ \A r \in Rpcs :
       /\ transfer[r] # "none" <=> asked[r] = "accepted"
       /\ Queued(r) => transfer[r] = "done" /\ ~Told(r)
       /\ Told(r) => transfer[r] = "done" /\ Len(told[r]) = 1
       /\ transfer[r] = "done" =>
            Queued(r) \/ Told(r) \/ \E t \in Threads : AboutToBeTold(r, t)
       /\ r \in handles <=> transfer[r] # "none" /\ ~Told(r)
  /\ \A t \in Threads : \A r \in current[t] :
       /\ transfer[r] = "done"
       /\ ~Queued(r)
       /\ At(t, "finish") <=> ~Told(r)

(* A thread has taken the message of r and still has its transaction. *)
InHand(r) == \E t \in Threads : r \in current[t]

(* What is allocated for an RPC is freed after its callback; one that was   *)
(* refused has at most two of its parts left, and was told of nothing else. *)
HeldInv ==
  \A r \in Rpcs :
    /\ asked[r] = "no" => held[r] = {} /\ told[r] = <<>>
    /\ asked[r] = "refused" => /\ held[r] \subseteq {"callInfo", "headerList"}
                               /\ told[r] \in {<<>>, <<"refused">>}
    /\ Told(r) /\ ~InHand(r) => held[r] = {}

(* The caller of r has been told, or is about to be. *)
Answered(r) == Told(r) \/ InHand(r)

(* What a thread in the loop knows of the RPCs outstanding when it came in: *)
(* once nothing was running any more, they are done, and once the queue of  *)
(* messages is empty too, they are answered.                                *)
LoopOf(t) ==
  /\ owed[t] \subseteq Accepted
  /\ pc[t] \in {"messages", "finish", "callback"} /\ running[t] = "none" =>
       \A r \in owed[t] : transfer[r] = "done"
  /\ At(t, "test") /\ running[t] = "none" /\ fault[t] = "none" =>
       \A r \in owed[t] : Answered(r)
  /\ At(t, "return") /\ late[t] = "no" /\ fault[t] = "none" =>
       \A r \in owed[t] : Answered(r)

LoopInv == \A t \in Threads : LoopOf(t)

TransportInv ==
  TypeOK /\ ConstInv /\ SyncInv /\ HandInv /\ PlaceInv /\ HeldInv /\ LoopInv

-----------------------------------------------------------------------------
(*                    What most steps leave alone                           *)

USE DEF At, Goto, global, multi, loop, sync, Accepted, Outstanding

(* The parts of a step that concern a thread's place. *)
Handling == {"finish", "callback"}
Calling == {"exchange", "answered", "failed"}

(* A step that moves no RPC and takes no thread into or out of the handling *)
(* of a transaction.                                                        *)
LEMMA PlacesKept ==
  ASSUME TransportInv, UNCHANGED <<asked, held, multi, told, current>>,
         \A t \in Threads : pc'[t] = pc[t] \/ {pc[t], pc'[t]} \cap Handling = {}
  PROVE  HandInv' /\ PlaceInv' /\ HeldInv'
<1> USE DEF Handling
<1>1. HandInv'
  BY DEF TransportInv, HandInv
<1>2. PlaceInv'
  <2>1. \A t \in Threads : current[t] # {} => pc'[t] = pc[t]
    BY DEF TransportInv, HandInv
  <2>2. \A r \in Rpcs : \A t \in Threads : AboutToBeTold(r, t) => AboutToBeTold(r, t)'
    BY <2>1 DEF AboutToBeTold
  <2>3. \A r \in Rpcs : (Queued(r)' <=> Queued(r)) /\ (Told(r)' <=> Told(r))
    BY DEF Queued, Told
  <2>4. \A r \in Rpcs : transfer[r] = "done" =>
          Queued(r)' \/ Told(r)' \/ \E t \in Threads : AboutToBeTold(r, t)'
    BY <2>2, <2>3 DEF TransportInv, PlaceInv
  <2>5. \A t \in Threads : \A r \in current[t] :
          transfer[r] = "done" /\ ~Queued(r)' /\ (pc'[t] = "finish" <=> ~Told(r)')
    BY <2>1 DEF TransportInv, PlaceInv, Queued, Told
  <2>. QED  BY <2>3, <2>4, <2>5 DEF TransportInv, PlaceInv
<1>3. HeldInv'
  BY DEF TransportInv, HeldInv, Told, InHand
<1>. QED  BY <1>1, <1>2, <1>3

(* A step that does not touch the synchronous session. *)
LEMMA CallsKept ==
  ASSUME TransportInv, UNCHANGED sync,
         \A t \in Threads : pc'[t] = pc[t] \/ {pc[t], pc'[t]} \cap Calling = {}
  PROVE  SyncInv'
  BY DEF TransportInv, SyncInv, InCall, Calling

(* A step of a thread inside the client leaves the constants alone. *)
LEMMA ConstKept ==
  ASSUME TransportInv, client = "up", UNCHANGED global
  PROVE  ConstInv'
  BY DEF TransportInv, ConstInv

(* A thread inside the client, or an RPC on its way: the client is up. *)
LEMMA ClientIsUp ==
  ASSUME TransportInv
  PROVE  /\ \A t \in Threads : pc[t] # "idle" => client = "up"
         /\ \A r \in Rpcs : transfer[r] # "none" /\ ~Told(r) => client = "up"
  BY DEF TransportInv, TypeOK, ConstInv, PlaceInv, Told

(* What is accepted stays accepted, what is done done, what is answered     *)
(* answered: a thread that does not move then knows what it knew.           *)
Onwards ==
  \A r \in Rpcs : /\ asked[r] = "accepted" => asked'[r] = "accepted"
                  /\ transfer[r] = "done" => transfer'[r] = "done"
                  /\ Answered(r) => Answered(r)'

(* Whatever the other threads do to it meanwhile.                           *)
LEMMA LoopKept ==
  ASSUME TransportInv, NEW t \in Threads, Onwards,
         owed'[t] = owed[t], pc'[t] = pc[t], running'[t] = running[t],
         fault'[t] = fault[t], late'[t] = late[t]
  PROVE  LoopOf(t)'
  BY DEF TransportInv, TypeOK, LoopInv, LoopOf, Onwards

-----------------------------------------------------------------------------
(*                              The steps                                   *)

(* The client and its constants come and go while no RPC is on its way. *)
LEMMA ClientSteps ==
  ASSUME TransportInv, ClientInit \/ ClientInitFails \/ ClientCleanup
  PROVE  TransportInv'
<1> USE DEF ClientInit, ClientInitFails, ClientCleanup, Teardown
<1>1. TypeOK' /\ ConstInv'
  BY DEF TransportInv, TypeOK, ConstInv
<1>2. UNCHANGED <<asked, held, multi, told, pc, loop, sync>>
  OBVIOUS
<1>3. SyncInv' /\ HandInv' /\ PlaceInv' /\ HeldInv'
  BY <1>2, CallsKept, PlacesKept
<1>4. LoopInv'
  BY <1>2 DEF TransportInv, LoopInv, LoopOf, Answered, Told, InHand
<1>. QED  BY <1>1, <1>3, <1>4 DEF TransportInv

(* A new RPC: its transfer is in libcurl, everything is allocated for it. *)
LEMMA StepStartRpc ==
  ASSUME TransportInv, NEW t \in Threads, NEW r \in Rpcs, StartRpc(t, r)
  PROVE  TransportInv'
<1> USE DEF StartRpc, CanStart
<1>1. TypeOK' /\ ConstInv'
  BY DEF TransportInv, TypeOK, ConstInv
<1>2. SyncInv' /\ HandInv'
  BY DEF TransportInv, SyncInv, InCall, HandInv
<1>3. /\ transfer[r] = "none" /\ ~Queued(r) /\ ~Told(r) /\ told[r] = <<>>
      /\ \A u \in Threads : r \notin current[u]
  BY DEF TransportInv, TypeOK, PlaceInv, HeldInv
<1>4. PlaceInv'
  <2>1. IsInjective(messages)'
    BY DEF TransportInv, PlaceInv
  <2>2. ASSUME NEW q \in Rpcs
        PROVE  /\ transfer'[q] # "none" <=> asked'[q] = "accepted"
               /\ Queued(q)' => transfer'[q] = "done" /\ ~Told(q)'
               /\ Told(q)' => transfer'[q] = "done" /\ Len(told'[q]) = 1
               /\ transfer'[q] = "done" =>
                    Queued(q)' \/ Told(q)' \/ \E u \in Threads : AboutToBeTold(q, u)'
               /\ q \in handles' <=> transfer'[q] # "none" /\ ~Told(q)'
    <3>1. CASE q = r
      BY <1>3, <3>1 DEF TransportInv, TypeOK, Queued, Told
    <3>2. CASE q # r
      BY <3>2 DEF TransportInv, TypeOK, PlaceInv, Queued, Told, AboutToBeTold
    <3>. QED  BY <3>1, <3>2
  <2>3. ASSUME NEW u \in Threads, NEW q \in current'[u]
        PROVE  transfer'[q] = "done" /\ ~Queued(q)' /\ (pc'[u] = "finish" <=> ~Told(q)')
    BY <1>3 DEF TransportInv, TypeOK, PlaceInv, Queued, Told
  <2>. QED  BY <2>1, <2>2, <2>3 DEF PlaceInv
<1>5. HeldInv'
  <2>1. /\ asked'[r] = "accepted" /\ told' = told /\ current' = current
        /\ \A q \in Rpcs \ {r} : asked'[q] = asked[q] /\ held'[q] = held[q]
    BY DEF TransportInv, TypeOK
  <2>2. ~Told(r)'
    BY <1>3, <2>1 DEF Told
  <2>3. HeldInv
    BY DEF TransportInv
  <2>. QED  BY <2>1, <2>2, <2>3 DEF HeldInv, Told, InHand
<1>6. LoopInv'
  BY <1>3 DEF TransportInv, TypeOK, LoopInv, LoopOf, Answered, Told, InHand
<1>. QED  BY <1>1, <1>2, <1>4, <1>5, <1>6 DEF TransportInv

(* What the error paths do not give back is the call info, if it has no XML, *)
(* or else the header list.                                                 *)
LEMMA LeakedByRefusal ==
  ASSUME NEW step \in ToSet(StartSteps)
  PROVE  Before(step) \ GivenBack(step) \subseteq {"callInfo", "headerList"}
<1>1. Before(step) \subseteq Resources
  BY DEF Before
<1>2. /\ DOMAIN StartSteps = 1 .. 11
      /\ \A n \in 1 .. 11 : n # 1 /\ StartSteps[n] \in Resources =>
           StartSteps[n] \in {"callXml", "asynchData", "response", "session", "rpc",
                              "transaction", "serverUrl", "headerList"}
  BY DEF StartSteps, Resources
<1>3. Resources \subseteq {"callInfo", "callXml", "asynchData", "response", "session",
                           "rpc", "transaction", "serverUrl", "headerList"}
  BY DEF Resources, ToSet, StartSteps
<1>4. CASE step # "callXml"
  BY <1>1, <1>3, <1>4 DEF GivenBack, CallInfoFree, CreateRpcGivesBack, DestroyRpc
<1>5. CASE step = "callXml"
  <2>1. StepNo(step) = 2
    BY <1>5 DEF StepNo, StartSteps
  <2>2. Before(step) \subseteq {StartSteps[1]}
    BY <2>1 DEF Before
  <2>. QED  BY <2>2 DEF StartSteps
<1>. QED  BY <1>4, <1>5

(* An RPC that is refused has no transfer and keeps only what leaks. *)
LEMMA StepRefuseRpc ==
  ASSUME TransportInv, NEW t \in Threads, NEW r \in Rpcs, RefuseRpc(t, r)
  PROVE  TransportInv'
<1>1. PICK step \in ToSet(StartSteps) :
        held' = [held EXCEPT ![r] = Before(step) \ GivenBack(step)]
  BY DEF RefuseRpc
<1>2. /\ client = "up" /\ asked[r] = "no"
      /\ asked' = [asked EXCEPT ![r] = "refused"]
      /\ told' \in {told, [told EXCEPT ![r] = <<"refused">>]}
      /\ UNCHANGED <<global, multi, pc, loop, sync>>
  BY DEF RefuseRpc, CanStart
<1>n. /\ \A q \in Rpcs \ {r} : asked'[q] = asked[q] /\ told'[q] = told[q]
      /\ asked'[r] = "refused" /\ told'[r] \in {<<>>, <<"refused">>}
      /\ told' \in [Rpcs -> Seq({"ok", "fault", "refused"})]
  <2>1. told[r] = <<>>
    BY <1>2 DEF TransportInv, HeldInv
  <2>2. /\ told \in [Rpcs -> Seq({"ok", "fault", "refused"})]
        /\ asked \in [Rpcs -> {"no", "refused", "accepted"}]
    BY DEF TransportInv, TypeOK
  <2>3. CASE told' = told
    BY <1>2, <2>1, <2>2, <2>3
  <2>4. CASE told' = [told EXCEPT ![r] = <<"refused">>]
    <3>1. <<"refused">> \in Seq({"ok", "fault", "refused"})
      OBVIOUS
    <3>. QED  BY <1>2, <2>2, <2>4, <3>1
  <2>. QED  BY <1>2, <2>3, <2>4
<1>t. \A q \in Rpcs : (Told(q)' <=> Told(q)) /\ (InHand(q)' <=> InHand(q))
  BY <1>2, <1>n DEF Told, InHand
<1>3. held'[r] \subseteq Resources
  BY <1>1 DEF Before, TransportInv, TypeOK
<1>4. held'[r] \subseteq {"callInfo", "headerList"}
  BY <1>1, LeakedByRefusal DEF TransportInv, TypeOK
<1>5. \A q \in Rpcs : q # r => held'[q] = held[q]
  BY <1>1 DEF TransportInv, TypeOK
<1>6. TypeOK' /\ ConstInv'
  <2>1. held' \in [Rpcs -> SUBSET Resources]
    BY <1>1, <1>3 DEF TransportInv, TypeOK
  <2>2. asked' \in [Rpcs -> {"no", "refused", "accepted"}]
    BY <1>2 DEF TransportInv, TypeOK
  <2>3. TypeOK'
    BY <1>2, <1>n, <2>1, <2>2 DEF TransportInv, TypeOK
  <2>. QED  BY <1>2, <2>3 DEF TransportInv, ConstInv
<1>7. SyncInv' /\ HandInv'
  BY <1>2 DEF TransportInv, SyncInv, InCall, HandInv
<1>8. PlaceInv'
  <2>1. ASSUME NEW q \in Rpcs
        PROVE  /\ asked'[q] = "accepted" <=> asked[q] = "accepted"
               /\ Told(q) => told'[q] = told[q]
               /\ Queued(q)' <=> Queued(q)
               /\ \A u \in Threads : AboutToBeTold(q, u)' <=> AboutToBeTold(q, u)
    BY <1>2, <1>n DEF Told, Queued, AboutToBeTold
  <2>2. \A q \in Rpcs : Told(q)' <=> Told(q)
    BY <1>t
  <2>3. /\ PlaceInv /\ \A u \in Threads : current[u] \subseteq Rpcs
        /\ UNCHANGED <<transfer, messages, handles, current, pc>>
    BY <1>2 DEF TransportInv, TypeOK
  <2>4. ASSUME NEW q \in Rpcs
        PROVE  /\ transfer'[q] # "none" <=> asked'[q] = "accepted"
               /\ Queued(q)' => transfer'[q] = "done" /\ ~Told(q)'
               /\ Told(q)' => transfer'[q] = "done" /\ Len(told'[q]) = 1
               /\ transfer'[q] = "done" =>
                    Queued(q)' \/ Told(q)' \/ \E u \in Threads : AboutToBeTold(q, u)'
               /\ q \in handles' <=> transfer'[q] # "none" /\ ~Told(q)'
    BY <2>1, <2>2, <2>3 DEF PlaceInv
  <2>. QED  BY <2>1, <2>2, <2>3, <2>4 DEF PlaceInv
<1>9. HeldInv'
  <2>1. ~Told(r)
    BY <1>2 DEF Told
  <2>2. ASSUME NEW q \in Rpcs
        PROVE  /\ asked'[q] = "no" => held'[q] = {} /\ told'[q] = <<>>
               /\ asked'[q] = "refused" =>
                    /\ held'[q] \subseteq {"callInfo", "headerList"}
                    /\ told'[q] \in {<<>>, <<"refused">>}
               /\ Told(q)' /\ ~InHand(q)' => held'[q] = {}
    <3>1. CASE q = r
      BY <1>4, <1>n, <1>t, <2>1, <3>1
    <3>2. CASE q # r
      BY <1>5, <1>n, <1>t, <3>2 DEF TransportInv, HeldInv
    <3>. QED  BY <3>1, <3>2
  <2>. QED  BY <2>2 DEF HeldInv
<1>10. LoopInv'
  <2>1. Onwards
    BY <1>2, <1>n, <1>t DEF Onwards, Answered
  <2>. QED  BY <1>2, <2>1, LoopKept DEF LoopInv
<1>. QED  BY <1>6, <1>7, <1>8, <1>9, <1>10 DEF TransportInv

(* External: an answer changes what the next perform will read. *)
LEMMA StepServerAnswers ==
  ASSUME TransportInv, NEW r \in Rpcs, ServerAnswers(r)
  PROVE  TransportInv'
<1> USE DEF ServerAnswers
<1>1. TypeOK' /\ ConstInv'
  BY DEF TransportInv, TypeOK, ConstInv
<1>2. SyncInv' /\ HandInv'
  BY DEF TransportInv, SyncInv, InCall, HandInv
<1>3. PlaceInv'
  BY DEF TransportInv, TypeOK, PlaceInv, Queued, Told, AboutToBeTold
<1>4. HeldInv'
  BY DEF TransportInv, TypeOK, HeldInv, Told, InHand
<1>5. LoopInv'
  BY DEF TransportInv, TypeOK, LoopInv, LoopOf, Answered, Told, InHand
<1>. QED  BY <1>1, <1>2, <1>3, <1>4, <1>5 DEF TransportInv

-----------------------------------------------------------------------------
(* A thread calls the loop, waits, meets a failure, or returns. *)
LEMMA LoopSteps ==
  ASSUME TransportInv, NEW t \in Threads,
         \/ \E type \in {"forever", "deadline"} : FinishAsynch(t, type)
         \/ WaitForWork(t) \/ LoopFails(t) \/ LoopTest(t) \/ Return(t)
  PROVE  TransportInv'
<1> USE DEF FinishAsynch, WaitForWork, LoopFails, LoopTest, Return
<1>1. /\ UNCHANGED <<global, asked, held, multi, told, current, sync>>
      /\ \E there : pc' = [pc EXCEPT ![t] = there]
      /\ {pc[t], pc'[t]} \cap (Handling \cup Calling) = {}
      /\ client = "up"
  BY ClientIsUp DEF TransportInv, TypeOK, Handling, Calling
<1>2. \A u \in Threads \ {t} : pc'[u] = pc[u]
  BY <1>1 DEF TransportInv, TypeOK
<1>3. SyncInv' /\ HandInv' /\ PlaceInv' /\ HeldInv' /\ ConstInv'
  BY <1>1, <1>2, CallsKept, PlacesKept, ConstKept
<1>4. TypeOK'
  <2>1. ASSUME NEW type \in {"forever", "deadline"}, FinishAsynch(t, type)
        PROVE  TypeOK'
    BY <2>1 DEF TransportInv, TypeOK
  <2>2. CASE WaitForWork(t)
    BY <2>2 DEF TransportInv, TypeOK
  <2>3. CASE LoopFails(t)
    <3>1. PICK what \in {"select", "perform"} : fault' = [fault EXCEPT ![t] = what]
      BY <2>3
    <3>. QED  BY <2>3, <3>1 DEF TransportInv, TypeOK
  <2>4. CASE LoopTest(t)
    <3>1. PICK passed \in {"no", "yes"} : late' = [late EXCEPT ![t] = passed]
      BY <2>4
    <3>2. PICK there \in {"wait", "return"} : pc' = [pc EXCEPT ![t] = there]
      BY <2>4
    <3>. QED  BY <2>4, <3>1, <3>2 DEF TransportInv, TypeOK
  <2>5. CASE Return(t)
    BY <2>5 DEF TransportInv, TypeOK
  <2>. QED  BY <2>1, <2>2, <2>3, <2>4, <2>5
<1>5. LoopInv'
  BY DEF TransportInv, TypeOK, LoopInv, LoopOf, Answered, Told, InHand
<1>. QED  BY <1>3, <1>4, <1>5 DEF TransportInv

(* No message is left: what was done is told or in some thread's hands. *)
LEMMA StepEndOfMessages ==
  ASSUME TransportInv, NEW t \in Threads, EndOfMessages(t)
  PROVE  TransportInv'
<1> USE DEF EndOfMessages
<1>1. /\ UNCHANGED <<global, asked, held, multi, told, current, sync>>
      /\ {pc[t], pc'[t]} \cap (Handling \cup Calling) = {}
      /\ client = "up"
      /\ \A u \in Threads \ {t} : pc'[u] = pc[u]
  BY ClientIsUp DEF TransportInv, TypeOK, Handling, Calling
<1>2. SyncInv' /\ HandInv' /\ PlaceInv' /\ HeldInv' /\ ConstInv'
  BY <1>1, CallsKept, PlacesKept, ConstKept
<1>3. TypeOK'
  BY DEF TransportInv, TypeOK
<1>4. \A r \in Rpcs : transfer[r] = "done" => Answered(r)
  <2>1. \A r \in Rpcs : ~Queued(r)
    BY DEF Queued, ToSet
  <2>. QED  BY <2>1 DEF TransportInv, PlaceInv, AboutToBeTold, Answered, InHand
<1>5. LoopInv'
  <2>1. \A r \in Rpcs : Answered(r)' <=> Answered(r)
    BY <1>1 DEF Answered, Told, InHand
  <2>2. Onwards
    BY <1>1, <2>1 DEF Onwards
  <2>3. ASSUME NEW u \in Threads, u # t PROVE LoopOf(u)'
    BY <1>1, <2>2, <2>3, LoopKept DEF TransportInv, TypeOK
  <2>4. owed[t] \subseteq Rpcs /\ LoopOf(t) /\ pc[t] = "messages" /\ pc'[t] = "test"
    BY DEF TransportInv, TypeOK, LoopInv
  <2>5. LoopOf(t)'
    BY <1>1, <1>4, <2>1, <2>4 DEF LoopOf
  <2>. QED  BY <2>3, <2>5 DEF LoopInv
<1>. QED  BY <1>2, <1>3, <1>5 DEF TransportInv

(* A synchronous call gets the session with its lock and gives it back. *)
LEMMA CallSteps ==
  ASSUME TransportInv, NEW t \in Threads,
         Call(t) \/ Exchange(t) \/ CallReturns(t)
  PROVE  TransportInv'
<1> USE DEF Call, Exchange, CallReturns
<1>0. \E there \in Calling \cup {"idle"} : pc' = [pc EXCEPT ![t] = there]
  BY DEF Calling
<1>1. /\ UNCHANGED <<global, asked, held, multi, told, loop>>
      /\ {pc[t], pc'[t]} \cap Handling = {}
      /\ client = "up"
      /\ \A u \in Threads \ {t} : pc'[u] = pc[u]
      /\ pc[t] \in Calling \cup {"idle"} /\ pc'[t] \in Calling \cup {"idle"}
  BY ClientIsUp DEF TransportInv, TypeOK, Handling, Calling
<1>2. HandInv' /\ PlaceInv' /\ HeldInv' /\ ConstInv'
  BY <1>1, PlacesKept, ConstKept
<1>3. \/ Call(t) /\ replies' = [replies EXCEPT ![t] = 0]
      \/ Exchange(t) /\ pc'[t] = "answered" /\ replies' = [replies EXCEPT ![t] = @ + 1]
      \/ Exchange(t) /\ pc'[t] = "failed" /\ replies' = replies
      \/ CallReturns(t) /\ replies' = [replies EXCEPT ![t] = 0]
  <2>1. CASE Exchange(t)
    <3>1. session = {t}
      BY <2>1 DEF TransportInv, TypeOK, SyncInv, InCall
    <3>. QED  BY <2>1, <3>1 DEF TransportInv, TypeOK
  <2>. QED  BY <2>1
<1>4. SyncInv'
  <2>1. CASE Call(t)
    BY <2>1 DEF TransportInv, TypeOK, SyncInv, InCall
  <2>2. CASE Exchange(t)
    <3>1. InCall' = InCall /\ UNCHANGED <<sessionLock, session>> /\ pc[t] = "exchange"
      <4>1. pc[t] = "exchange" /\ pc'[t] \in Calling
        BY <2>2 DEF TransportInv, TypeOK, Calling
      <4>2. \A u \in Threads : pc'[u] \in Calling <=> pc[u] \in Calling
        BY <1>1, <4>1 DEF Calling
      <4>. QED  BY <2>2, <4>1, <4>2 DEF InCall, Calling
    <3>2. /\ replies[t] = 0
          /\ \A u \in Threads \ {t} : replies'[u] = replies[u] /\ pc'[u] = pc[u]
          /\ pc'[t] = "answered" => replies'[t] = 1
          /\ pc'[t] # "exchange"
      BY <1>1, <1>3, <2>2, <3>1 DEF TransportInv, TypeOK, SyncInv
    <3>. QED  BY <3>1, <3>2 DEF TransportInv, SyncInv
  <2>3. CASE CallReturns(t)
    BY <2>3 DEF TransportInv, TypeOK, SyncInv, InCall
  <2>. QED  BY <2>1, <2>2, <2>3
<1>5. LoopInv'
  <2>1. Onwards
    BY <1>1 DEF Onwards, Answered, Told, InHand
  <2>2. LoopOf(t)'
    BY <1>1 DEF TransportInv, LoopInv, LoopOf, Calling
  <2>3. ASSUME NEW u \in Threads \ {t} PROVE LoopOf(u)'
    BY <1>1, <2>1, LoopKept
  <2>. QED  BY <2>2, <2>3 DEF LoopInv
<1>6. TypeOK'
  <2>1. replies' \in [Threads -> Nat]
    BY <1>3 DEF TransportInv, TypeOK
  <2>2. sessionLock' \subseteq Threads /\ session' \subseteq Threads
    BY DEF TransportInv, TypeOK
  <2>3. TypeOK
    BY DEF TransportInv
  <2>4. pc' \in [Threads -> {"idle", "wait", "perform", "messages", "finish", "callback",
                            "test", "return", "exchange", "answered", "failed"}]
    BY <1>0, <1>1, <2>3 DEF TypeOK, Calling
  <2>. QED  BY <1>1, <2>1, <2>2, <2>3, <2>4 DEF TypeOK
<1>. QED  BY <1>2, <1>4, <1>5, <1>6 DEF TransportInv

-----------------------------------------------------------------------------
(* A perform that ends a transfer queues its message ... *)
LEMMA PerformEnds ==
  ASSUME TransportInv, NEW t \in Threads, At(t, "perform"),
         NEW r \in Rpcs, transfer[r] = "ready",
         transfer' = Performed({r}), messages' = Append(messages, r),
         UNCHANGED <<pc, running, global, asked, held, outcome, handles, told,
                     current, fault, until, late, owed, sync>>
  PROVE  TransportInv'
<1>1. /\ transfer' = [q \in Rpcs |-> IF q = r THEN "done"
                                     ELSE IF transfer[q] = "added" THEN "running"
                                     ELSE transfer[q]]
      /\ messages \in Seq(Rpcs) /\ IsInjective(messages) /\ r \notin ToSet(messages)
  BY DEF Performed, TransportInv, TypeOK, PlaceInv, Queued
<1>2. /\ messages' \in Seq(Rpcs)
      /\ IsInjective(messages')
      /\ ToSet(messages') = ToSet(messages) \cup {r}
  BY <1>1, AppendNew
<1>3. TypeOK' /\ ConstInv'
  <2>1. ConstInv'
    BY ClientIsUp, ConstKept
  <2>2. transfer' \in [Rpcs -> {"none", "added", "running", "ready", "done"}]
    <3>1. \A q \in Rpcs : transfer[q] \in {"none", "added", "running", "ready", "done"}
      BY DEF TransportInv, TypeOK
    <3>2. \A q \in Rpcs : (IF q = r THEN "done"
                           ELSE IF transfer[q] = "added" THEN "running" ELSE transfer[q])
                          \in {"none", "added", "running", "ready", "done"}
      BY <3>1
    <3>. QED  BY <1>1, <3>2
  <2>. QED  BY <1>2, <2>1, <2>2 DEF TransportInv, TypeOK
<1>4. SyncInv' /\ HandInv' /\ HeldInv'
  BY <1>2, CallsKept DEF TransportInv, HandInv, HeldInv, Told, InHand
<1>5. ~Told(r) /\ \A u \in Threads : r \notin current[u]
  BY DEF TransportInv, PlaceInv
<1>6. PlaceInv'
  <2>1. ASSUME NEW q \in Rpcs
        PROVE  /\ transfer'[q] # "none" <=> transfer[q] # "none"
               /\ transfer'[q] = "done" <=> transfer[q] = "done" \/ q = r
               /\ Queued(q)' <=> Queued(q) \/ q = r
               /\ Told(q)' <=> Told(q)
               /\ \A u \in Threads : AboutToBeTold(q, u)' <=> AboutToBeTold(q, u)
    BY <1>1, <1>2 DEF Queued, Told, AboutToBeTold
  <2>2. \A u \in Threads : current[u] \subseteq Rpcs
    BY DEF TransportInv, TypeOK
  <2>3. ASSUME NEW q \in Rpcs
        PROVE  /\ transfer'[q] # "none" <=> asked'[q] = "accepted"
               /\ Queued(q)' => transfer'[q] = "done" /\ ~Told(q)'
               /\ Told(q)' => transfer'[q] = "done" /\ Len(told'[q]) = 1
               /\ transfer'[q] = "done" =>
                    Queued(q)' \/ Told(q)' \/ \E u \in Threads : AboutToBeTold(q, u)'
               /\ q \in handles' <=> transfer'[q] # "none" /\ ~Told(q)'
    BY <1>5, <2>1 DEF TransportInv, PlaceInv
  <2>4. ASSUME NEW u \in Threads, NEW q \in current[u]
        PROVE  transfer'[q] = "done" /\ ~Queued(q)' /\ (pc'[u] = "finish" <=> ~Told(q)')
    BY <1>5, <2>1, <2>2 DEF TransportInv, PlaceInv
  <2>. QED  BY <1>2, <2>3, <2>4 DEF PlaceInv
<1>7. LoopInv'
  <2>1. Onwards
    BY <1>1 DEF Onwards, Answered, Told, InHand
  <2>. QED  BY <2>1, LoopKept DEF LoopInv
<1>. QED  BY <1>3, <1>4, <1>6, <1>7 DEF TransportInv

(* ... and the last one of a turn sends what is new, and finds out whether   *)
(* any transfer still runs.  If none does, every RPC accepted so far is done. *)
LEMMA PerformLast ==
  ASSUME TransportInv, NEW t \in Threads, At(t, "perform"),
         \A r \in Rpcs : transfer[r] # "ready",
         transfer' = Performed({}), Goto(t, "messages"),
         running' = [running EXCEPT ![t] =
                       IF \E r \in Rpcs : transfer'[r] = "running"
                       THEN "still" ELSE "none"],
         UNCHANGED <<messages, global, asked, held, outcome, handles, told,
                     current, fault, until, late, owed, sync>>
  PROVE  TransportInv'
<1>1. transfer' = [q \in Rpcs |-> IF transfer[q] = "added" THEN "running"
                                  ELSE transfer[q]]
  BY DEF Performed
<1>2. TypeOK' /\ ConstInv'
  BY <1>1, ClientIsUp DEF TransportInv, TypeOK, ConstInv
<1>3. SyncInv' /\ HandInv' /\ HeldInv'
  <2>1. \A u \in Threads : pc'[u] = pc[u] \/ {pc[u], pc'[u]} \cap (Calling \cup Handling) = {}
    BY DEF TransportInv, TypeOK, Calling, Handling
  <2>. QED  BY <2>1, CallsKept
            DEF TransportInv, HandInv, HeldInv, Told, InHand, Handling
<1>4. PlaceInv'
  <2>1. ASSUME NEW q \in Rpcs
        PROVE  /\ transfer'[q] # "none" <=> transfer[q] # "none"
               /\ transfer'[q] = "done" <=> transfer[q] = "done"
               /\ Queued(q)' <=> Queued(q)
               /\ Told(q)' <=> Told(q)
    BY <1>1 DEF Queued, Told
  <2>2. \A u \in Threads : /\ current[u] \subseteq Rpcs
                           /\ current[u] # {} => pc'[u] = pc[u]
    BY DEF TransportInv, TypeOK, HandInv
  <2>3. \A q \in Rpcs : \A u \in Threads : AboutToBeTold(q, u) => AboutToBeTold(q, u)'
    BY <2>2 DEF AboutToBeTold
  <2>4. ASSUME NEW q \in Rpcs
        PROVE  /\ transfer'[q] # "none" <=> asked'[q] = "accepted"
               /\ Queued(q)' => transfer'[q] = "done" /\ ~Told(q)'
               /\ Told(q)' => transfer'[q] = "done" /\ Len(told'[q]) = 1
               /\ transfer'[q] = "done" =>
                    Queued(q)' \/ Told(q)' \/ \E u \in Threads : AboutToBeTold(q, u)'
               /\ q \in handles' <=> transfer'[q] # "none" /\ ~Told(q)'
    BY <2>1, <2>3 DEF TransportInv, PlaceInv
  <2>5. ASSUME NEW u \in Threads, NEW q \in current[u]
        PROVE  transfer'[q] = "done" /\ ~Queued(q)' /\ (pc'[u] = "finish" <=> ~Told(q)')
    BY <2>1, <2>2 DEF TransportInv, PlaceInv
  <2>. QED  BY <2>4, <2>5 DEF TransportInv, PlaceInv
<1>5. LoopInv'
  <2>1. Onwards
    BY <1>1 DEF Onwards, Answered, Told, InHand
  <2>2. ASSUME NEW u \in Threads, u # t PROVE LoopOf(u)'
    BY <2>1, <2>2, LoopKept DEF TransportInv, TypeOK
  <2>3. LoopOf(t)'
    <3>1. owed[t] \subseteq Accepted /\ pc'[t] = "messages"
      BY DEF TransportInv, TypeOK, LoopInv, LoopOf
    <3>2. ASSUME running'[t] = "none", NEW q \in owed[t] PROVE transfer'[q] = "done"
      <4>1. q \in Rpcs /\ transfer[q] # "none" /\ transfer'[q] # "running"
        BY <3>1, <3>2 DEF TransportInv, TypeOK, PlaceInv
      <4>. QED  BY <1>1, <4>1 DEF TransportInv, TypeOK
    <3>. QED  BY <3>1, <3>2 DEF LoopOf
  <2>. QED  BY <2>2, <2>3 DEF LoopInv
<1>. QED  BY <1>2, <1>3, <1>4, <1>5 DEF TransportInv

(* A message goes from the queue to the hands of one thread. *)
LEMMA StepGetMessage ==
  ASSUME TransportInv, NEW t \in Threads, GetMessage(t)
  PROVE  TransportInv'
<1>0. messages # <<>> /\ messages \in Seq(Rpcs) /\ IsInjective(messages)
  BY DEF GetMessage, TransportInv, TypeOK, PlaceInv
<1>a. PICK r \in Rpcs : r = Head(messages)
  BY <1>0, TailLoses
<1>1. /\ pc[t] = "messages"
      /\ current' = [current EXCEPT ![t] = {r}]
      /\ messages' = Tail(messages)
      /\ pc' = [pc EXCEPT ![t] = "finish"]
      /\ UNCHANGED <<global, asked, held, transfer, outcome, handles, told,
                     running, fault, until, late, owed, sync>>
  BY <1>a DEF GetMessage
<1>2. /\ r \in Rpcs /\ Queued(r)
      /\ messages' \in Seq(Rpcs)
      /\ IsInjective(messages')
      /\ ToSet(messages') = ToSet(messages) \ {r}
  BY <1>0, <1>a, <1>1, TailLoses DEF Queued
<1>3. transfer[r] = "done" /\ ~Told(r) /\ \A u \in Threads : r \notin current[u]
  BY <1>2 DEF TransportInv, PlaceInv
<1>4. /\ current[t] = {} /\ client = "up"
      /\ current'[t] = {r} /\ pc'[t] = "finish"
      /\ \A u \in Threads \ {t} : current'[u] = current[u] /\ pc'[u] = pc[u]
  BY <1>1, ClientIsUp DEF TransportInv, TypeOK, HandInv
<1>5. TypeOK' /\ ConstInv'
  BY <1>1, <1>2, <1>4 DEF TransportInv, TypeOK, ConstInv
<1>6. SyncInv'
  <2>1. \A u \in Threads : pc'[u] = pc[u] \/ {pc[u], pc'[u]} \cap Calling = {}
    BY <1>1 DEF TransportInv, TypeOK, Calling
  <2>. QED  BY <1>1, <2>1, CallsKept
<1>7. HandInv'
  <2>1. ASSUME NEW u \in Threads
        PROVE  IF pc'[u] \in {"finish", "callback"}
               THEN \E q \in Rpcs : current'[u] = {q} ELSE current'[u] = {}
    BY <1>2, <1>4 DEF TransportInv, HandInv
  <2>2. ASSUME NEW u \in Threads, NEW v \in Threads,
               NEW q \in current'[u] \cap current'[v]
        PROVE  u = v
    BY <1>3, <1>4 DEF TransportInv, HandInv
  <2>. QED  BY <2>1, <2>2 DEF HandInv
<1>8. PlaceInv'
  <2>1. ASSUME NEW q \in Rpcs
        PROVE  /\ Queued(q)' <=> Queued(q) /\ q # r
               /\ Told(q)' <=> Told(q)
               /\ \A u \in Threads : AboutToBeTold(q, u) => AboutToBeTold(q, u)'
    BY <1>1, <1>2, <1>4 DEF TransportInv, TypeOK, Queued, Told, AboutToBeTold
  <2>2. AboutToBeTold(r, t)'
    BY <1>4 DEF AboutToBeTold
  <2>3. ASSUME NEW q \in Rpcs
        PROVE  /\ transfer'[q] # "none" <=> asked'[q] = "accepted"
               /\ Queued(q)' => transfer'[q] = "done" /\ ~Told(q)'
               /\ Told(q)' => transfer'[q] = "done" /\ Len(told'[q]) = 1
               /\ transfer'[q] = "done" =>
                    Queued(q)' \/ Told(q)' \/ \E u \in Threads : AboutToBeTold(q, u)'
               /\ q \in handles' <=> transfer'[q] # "none" /\ ~Told(q)'
    <3>1. CASE q = r
      BY <1>1, <1>2, <1>3, <2>1, <2>2, <3>1 DEF TransportInv, PlaceInv
    <3>2. CASE q # r
      BY <1>1, <2>1, <3>2 DEF TransportInv, PlaceInv
    <3>. QED  BY <3>1, <3>2
  <2>4. ASSUME NEW u \in Threads, NEW q \in current'[u]
        PROVE  transfer'[q] = "done" /\ ~Queued(q)' /\ (pc'[u] = "finish" <=> ~Told(q)')
    <3>1. CASE u = t
      <4>1. q = r
        BY <1>1, <2>4, <3>1 DEF TransportInv, TypeOK
      <4>. QED  BY <1>1, <1>2, <1>3, <2>1, <3>1, <4>1 DEF TransportInv, TypeOK
    <3>2. CASE u # t
      <4>1. q \in current[u] /\ q \in Rpcs /\ pc'[u] = pc[u]
        BY <1>1, <2>4, <3>2 DEF TransportInv, TypeOK
      <4>. QED  BY <1>1, <2>1, <4>1 DEF TransportInv, PlaceInv
    <3>. QED  BY <3>1, <3>2
  <2>. QED  BY <1>2, <2>3, <2>4 DEF PlaceInv
<1>9. \A q \in Rpcs : InHand(q) => InHand(q)'
  BY <1>1, <1>4 DEF TransportInv, TypeOK, InHand
<1>10. HeldInv'
  BY <1>1, <1>9 DEF TransportInv, HeldInv, Told
<1>11. LoopInv'
  <2>1. Onwards
    BY <1>1, <1>9 DEF Onwards, Answered, Told
  <2>2. ASSUME NEW u \in Threads, u # t PROVE LoopOf(u)'
    BY <1>1, <2>1, <2>2, LoopKept DEF TransportInv, TypeOK
  <2>3. LoopOf(t)'
    BY <1>1 DEF TransportInv, TypeOK, LoopInv, LoopOf
  <2>. QED  BY <2>2, <2>3 DEF LoopInv
<1>. QED  BY <1>5, <1>6, <1>7, <1>8, <1>10, <1>11 DEF TransportInv

(* finishCurlTransaction: the caller of the RPC in hand is told. *)
LEMMA StepFinishTransaction ==
  ASSUME TransportInv, NEW t \in Threads, FinishTransaction(t)
  PROVE  TransportInv'
<1>1. PICK r \in Rpcs : current[t] = {r}
  BY DEF FinishTransaction, TransportInv, HandInv
<1>2. /\ transfer[r] = "done" /\ ~Queued(r) /\ told[r] = <<>>
      /\ asked[r] = "accepted"
  BY <1>1 DEF FinishTransaction, TransportInv, PlaceInv, Told
<1>3. PICK said \in {"ok", "fault"} : told' = [told EXCEPT ![r] = Append(@, said)]
  <2>1. Answers(r) \subseteq {"ok", "fault"}
    BY DEF Answers, TransportInv, TypeOK
  <2>. QED  BY <1>1, <2>1 DEF FinishTransaction
<1>4. /\ pc[t] = "finish" /\ pc' = [pc EXCEPT ![t] = "callback"]
      /\ handles' = handles \ {r}
      /\ fault' = fault \/ fault' = [fault EXCEPT ![t] = "transfer"]
      /\ UNCHANGED <<global, asked, held, transfer, outcome, messages, current,
                     running, until, late, owed, sync>>
  BY <1>1 DEF FinishTransaction
<1>5. /\ told'[r] = <<said>>
      /\ \A q \in Rpcs \ {r} : told'[q] = told[q]
      /\ told' \in [Rpcs -> Seq({"ok", "fault", "refused"})]
      /\ Len(told'[r]) = 1 /\ told'[r] # <<>>
  BY <1>2, <1>3 DEF TransportInv, TypeOK
<1>6. /\ pc'[t] = "callback"
      /\ \A u \in Threads \ {t} : pc'[u] = pc[u] /\ r \notin current[u]
  BY <1>1, <1>4 DEF TransportInv, TypeOK, HandInv
<1>7. TypeOK' /\ ConstInv'
  <2>1. client = "up"
    BY <1>4, ClientIsUp
  <2>. QED  BY <1>4, <1>5, <2>1 DEF TransportInv, TypeOK, ConstInv
<1>8. SyncInv'
  BY <1>4, <1>6, CallsKept DEF Calling
<1>9. HandInv'
  BY <1>4, <1>6 DEF TransportInv, HandInv
<1>10. PlaceInv'
  <2>1. ASSUME NEW q \in Rpcs
        PROVE  /\ transfer'[q] # "none" <=> asked'[q] = "accepted"
               /\ Queued(q)' => transfer'[q] = "done" /\ ~Told(q)'
               /\ Told(q)' => transfer'[q] = "done" /\ Len(told'[q]) = 1
               /\ transfer'[q] = "done" =>
                    Queued(q)' \/ Told(q)' \/ \E u \in Threads : AboutToBeTold(q, u)'
               /\ q \in handles' <=> transfer'[q] # "none" /\ ~Told(q)'
    <3>1. CASE q = r
      BY <1>2, <1>4, <1>5, <3>1 DEF TransportInv, PlaceInv, Queued, Told
    <3>2. CASE q # r
      <4>1. /\ (Queued(q)' <=> Queued(q)) /\ (Told(q)' <=> Told(q))
            /\ told'[q] = told[q]
        BY <1>4, <1>5, <3>2 DEF Queued, Told
      <4>2. \A u \in Threads : AboutToBeTold(q, u) => AboutToBeTold(q, u)'
        BY <1>1, <1>4, <1>6, <3>2 DEF AboutToBeTold
      <4>. QED  BY <1>4, <3>2, <4>1, <4>2 DEF TransportInv, PlaceInv
    <3>. QED  BY <3>1, <3>2
  <2>2. ASSUME NEW u \in Threads, NEW q \in current'[u]
        PROVE  transfer'[q] = "done" /\ ~Queued(q)' /\ (pc'[u] = "finish" <=> ~Told(q)')
    <3>1. CASE u = t
      BY <1>1, <1>2, <1>4, <1>5, <1>6, <2>2, <3>1 DEF Queued, Told
    <3>2. CASE u # t
      <4>1. q \in Rpcs /\ q # r /\ q \in current[u]
        BY <1>4, <1>6, <2>2, <3>2 DEF TransportInv, TypeOK
      <4>. QED  BY <1>4, <1>5, <1>6, <3>2, <4>1 DEF TransportInv, PlaceInv, Queued, Told
    <3>. QED  BY <3>1, <3>2
  <2>. QED  BY <1>4, <2>1, <2>2 DEF TransportInv, PlaceInv
<1>11. InHand(r) /\ \A q \in Rpcs : InHand(q)' <=> InHand(q)
  BY <1>1, <1>4 DEF InHand
<1>12. HeldInv'
  <2>1. ASSUME NEW q \in Rpcs
        PROVE  /\ asked[q] = "no" => held[q] = {} /\ told'[q] = <<>>
               /\ asked[q] = "refused" => /\ held[q] \subseteq {"callInfo", "headerList"}
                                          /\ told'[q] \in {<<>>, <<"refused">>}
               /\ Told(q)' /\ ~InHand(q)' => held[q] = {}
    <3>1. CASE q = r
      BY <1>2, <1>11, <3>1
    <3>2. CASE q # r
      BY <1>4, <1>5, <1>11, <3>2 DEF TransportInv, HeldInv, Told
    <3>. QED  BY <3>1, <3>2
  <2>. QED  BY <1>4, <2>1 DEF HeldInv
<1>13. LoopInv'
  <2>1. Onwards
    BY <1>4, <1>5, <1>11 DEF Onwards, Answered, Told
  <2>2. ASSUME NEW u \in Threads, u # t PROVE LoopOf(u)'
    BY <1>4, <1>6, <2>1, <2>2, LoopKept DEF TransportInv, TypeOK
  <2>3. LoopOf(t)'
    BY <1>4, <1>6 DEF TransportInv, LoopInv, LoopOf
  <2>. QED  BY <2>2, <2>3 DEF LoopInv
<1>. QED  BY <1>7, <1>8, <1>9, <1>10, <1>12, <1>13 DEF TransportInv

(* What the RPC held is freed; its caller had been told. *)
LEMMA StepCallbackReturns ==
  ASSUME TransportInv, NEW t \in Threads, CallbackReturns(t)
  PROVE  TransportInv'
<1>1. PICK r \in Rpcs : current[t] = {r}
  BY DEF CallbackReturns, TransportInv, HandInv
<1>2. /\ pc[t] = "callback"
      /\ held' = [held EXCEPT ![r] = {}]
      /\ current' = [current EXCEPT ![t] = {}]
      /\ \/ fault[t] = "none" /\ pc' = [pc EXCEPT ![t] = "messages"]
         \/ fault[t] # "none" /\ pc' = [pc EXCEPT ![t] = "test"]
      /\ UNCHANGED <<global, asked, multi, told, running, fault, until, late, owed,
                     sync>>
  BY <1>1 DEF CallbackReturns, TransportInv, TypeOK
<1>3. Told(r) /\ transfer[r] = "done" /\ asked[r] = "accepted"
  BY <1>1, <1>2 DEF TransportInv, PlaceInv
<1>4. /\ current'[t] = {} /\ pc'[t] \in {"messages", "test"}
      /\ \A u \in Threads \ {t} : pc'[u] = pc[u] /\ current'[u] = current[u]
  BY <1>2 DEF TransportInv, TypeOK
<1>5. TypeOK' /\ ConstInv'
  <2>1. client = "up"
    BY <1>2, ClientIsUp
  <2>2. /\ held' \in [Rpcs -> SUBSET Resources] /\ current' \in [Threads -> SUBSET Rpcs]
        /\ pc' \in [Threads -> {"idle", "wait", "perform", "messages", "finish",
                               "callback", "test", "return", "exchange", "answered",
                               "failed"}]
    <3>1. /\ held \in [Rpcs -> SUBSET Resources] /\ current \in [Threads -> SUBSET Rpcs]
          /\ pc \in [Threads -> {"idle", "wait", "perform", "messages", "finish",
                                "callback", "test", "return", "exchange", "answered",
                                "failed"}]
      BY DEF TransportInv, TypeOK
    <3>2. current' \in [Threads -> SUBSET Rpcs] /\ held' \in [Rpcs -> SUBSET Resources]
      BY <1>2, <3>1
    <3>. QED  BY <1>2, <3>1, <3>2
  <2>3. TypeOK'
    <3>1. TypeOK
      BY DEF TransportInv
    <3>. QED  BY <1>2, <2>2, <3>1 DEF TypeOK
  <2>4. ConstInv'
    BY <1>2, <2>1 DEF TransportInv, ConstInv
  <2>. QED  BY <2>3, <2>4
<1>6. SyncInv'
  BY <1>2, <1>4, CallsKept DEF Calling
<1>7. HandInv'
  BY <1>4 DEF TransportInv, HandInv
<1>8. PlaceInv'
  <2>1. \A q \in Rpcs : \A u \in Threads : AboutToBeTold(q, u) => AboutToBeTold(q, u)'
    BY <1>2, <1>4 DEF AboutToBeTold
  <2>2. \A q \in Rpcs : (Queued(q)' <=> Queued(q)) /\ (Told(q)' <=> Told(q))
    BY <1>2 DEF Queued, Told
  <2>3. \A q \in Rpcs : transfer[q] = "done" =>
          Queued(q)' \/ Told(q)' \/ \E u \in Threads : AboutToBeTold(q, u)'
    BY <2>1, <2>2 DEF TransportInv, PlaceInv
  <2>4. ASSUME NEW u \in Threads, NEW q \in current'[u]
        PROVE  transfer'[q] = "done" /\ ~Queued(q)' /\ (pc'[u] = "finish" <=> ~Told(q)')
    BY <1>2, <1>4, <2>4 DEF TransportInv, PlaceInv, Queued, Told
  <2>. QED  BY <1>2, <2>2, <2>3, <2>4 DEF TransportInv, PlaceInv
<1>9. \A q \in Rpcs : q # r => (InHand(q)' <=> InHand(q))
  BY <1>1, <1>4 DEF InHand
<1>10. HeldInv'
  BY <1>2, <1>3, <1>9 DEF TransportInv, TypeOK, HeldInv, Told
<1>11. LoopInv'
  <2>1. Onwards
    BY <1>2, <1>3, <1>9 DEF Onwards, Answered, Told
  <2>2. ASSUME NEW u \in Threads, u # t PROVE LoopOf(u)'
    BY <1>2, <1>4, <2>1, <2>2, LoopKept
  <2>3. LoopOf(t)'
    BY <1>2, <1>4, <2>1 DEF TransportInv, TypeOK, LoopInv, LoopOf, Onwards
  <2>. QED  BY <2>2, <2>3 DEF LoopInv
<1>. QED  BY <1>5, <1>6, <1>7, <1>8, <1>10, <1>11 DEF TransportInv

-----------------------------------------------------------------------------
(*                             The theorems                                 *)

(* The invariant is inductive. *)
LEMMA TransportInvariant == Spec => []TransportInv
<1>1. Init => TransportInv
  <2> SUFFICES ASSUME Init PROVE TransportInv
    OBVIOUS
  <2>1. TypeOK /\ ConstInv /\ SyncInv /\ HandInv /\ HeldInv /\ LoopInv
    BY DEF Init, TypeOK, ConstInv, SyncInv, InCall, HandInv, HeldInv, Told, LoopInv,
           LoopOf
  <2>2. IsInjective(messages) /\ ToSet(messages) = {}
    BY DEF Init, IsInjective, ToSet
  <2>3. PlaceInv
    BY <2>2 DEF Init, PlaceInv, Queued, Told
  <2>. QED  BY <2>1, <2>3 DEF TransportInv
<1>2. TransportInv /\ [Next]_vars => TransportInv'
  <2> SUFFICES ASSUME TransportInv, [Next]_vars PROVE TransportInv'
    OBVIOUS
  <2>1. CASE ClientInit \/ ClientInitFails \/ ClientCleanup
    BY <2>1, ClientSteps
  <2>2. ASSUME NEW t \in Threads, NEW r \in Rpcs, StartRpc(t, r) \/ RefuseRpc(t, r)
        PROVE  TransportInv'
    BY <2>2, StepStartRpc, StepRefuseRpc
  <2>3. ASSUME NEW t \in Threads, NEW type \in {"forever", "deadline"},
               FinishAsynch(t, type)
        PROVE  TransportInv'
    BY <2>3, LoopSteps
  <2>4. ASSUME NEW t \in Threads, LoopStep(t) PROVE TransportInv'
    <3>1. CASE Perform(t)
      BY <3>1, PerformEnds, PerformLast DEF Perform
    <3>. QED  BY <2>4, <3>1, LoopSteps, StepGetMessage, StepEndOfMessages,
                 StepFinishTransaction, StepCallbackReturns
              DEF LoopStep
  <2>5. ASSUME NEW t \in Threads, Call(t) \/ CallStep(t) PROVE TransportInv'
    BY <2>5, CallSteps DEF CallStep
  <2>6. ASSUME NEW r \in Rpcs, ServerAnswers(r) PROVE TransportInv'
    BY <2>6, StepServerAnswers
  <2>7. CASE UNCHANGED vars
    <3> USE <2>7 DEF vars, TransportInv
    <3>1. TypeOK' /\ ConstInv'
      BY DEF TypeOK, ConstInv
    <3>2. SyncInv' /\ HandInv' /\ PlaceInv' /\ HeldInv'
      BY CallsKept, PlacesKept
    <3>3. LoopInv'
      BY DEF LoopInv, LoopOf, Answered, Told, InHand
    <3>. QED  BY <3>1, <3>2, <3>3
  <2>. QED  BY <2>1, <2>2, <2>3, <2>4, <2>5, <2>6, <2>7 DEF Next
<1>. QED  BY <1>1, <1>2, PTL DEF Spec

(* Type correctness of the client, its RPCs and its threads. *)
THEOREM TransportTyped == Spec => []TypeOK
<1>1. TransportInv => TypeOK
  BY DEF TransportInv
<1>. QED  BY <1>1, TransportInvariant, PTL

(* xmlrpc_client_init2 and _cleanup count: a client has its constants. *)
THEOREM TransportConstants == Spec => []ClientHasConstants
<1>1. TransportInv => ClientHasConstants
  BY DEF TransportInv, TypeOK, ConstInv, ClientHasConstants
<1>. QED  BY <1>1, TransportInvariant, PTL

(* Whoever calls through the synchronous session gets its own response. *)
THEOREM TransportSyncOwn == Spec => []SyncAnswersOwnCaller
<1>1. TransportInv => SyncAnswersOwnCaller
  BY DEF TransportInv, SyncInv, InCall, SyncAnswersOwnCaller
<1>. QED  BY <1>1, TransportInvariant, PTL

(* No completed transfer is lost and no callback is called twice, however   *)
(* many threads run finishAsynch and whatever of it fails.                  *)
THEOREM TransportCompleted == Spec => []CompletedIsSomewhere
<1>1. TransportInv => CompletedIsSomewhere
  <2> SUFFICES ASSUME TransportInv, NEW r \in Rpcs
      PROVE /\ told[r] # <<>> =>
                 IF asked[r] = "refused"
                 THEN told[r] = <<"refused">> /\ transfer[r] = "none"
                 ELSE transfer[r] = "done" /\ asked[r] = "accepted"
            /\ transfer[r] = "done" =>
                 Cardinality({n \in DOMAIN messages : messages[n] = r})
                   + Cardinality({t \in Threads : r \in current[t] /\ At(t, "finish")})
                   + Len(told[r]) = 1
    BY DEF CompletedIsSomewhere
  <2> DEFINE hands == {t \in Threads : AboutToBeTold(r, t)}
             places == {n \in DOMAIN messages : messages[n] = r}
  <2>1. told[r] # <<>> => IF asked[r] = "refused"
                          THEN told[r] = <<"refused">> /\ transfer[r] = "none"
                          ELSE transfer[r] = "done" /\ asked[r] = "accepted"
    BY DEF TransportInv, TypeOK, PlaceInv, HeldInv, Told
  <2>2. Cardinality(places) = IF Queued(r) THEN 1 ELSE 0
    BY PlacesInQueue DEF TransportInv, TypeOK, PlaceInv, Queued
  <2>3. Cardinality(hands) = IF hands # {} THEN 1 ELSE 0
    <3>1. CASE hands = {}
      BY <3>1, FS_EmptySet
    <3>2. CASE hands # {}
      <4>1. PICK t \in Threads : AboutToBeTold(r, t)
        BY <3>2
      <4>2. hands = {t}
        BY <4>1 DEF AboutToBeTold, TransportInv, HandInv
      <4>. QED  BY <3>2, <4>2, FS_Singleton
    <3>. QED  BY <3>1, <3>2
  <2>4. transfer[r] = "done" => Len(told[r]) = IF Told(r) THEN 1 ELSE 0
    BY DEF TransportInv, TypeOK, PlaceInv, Told
  <2>5. hands # {} => ~Queued(r) /\ ~Told(r)
    BY DEF AboutToBeTold, TransportInv, PlaceInv
  <2>6. Queued(r) => ~Told(r)
    BY DEF TransportInv, PlaceInv
  <2>7. transfer[r] = "done" => Queued(r) \/ Told(r) \/ hands # {}
    BY DEF TransportInv, PlaceInv
  <2> HIDE DEF places
  <2>8. ASSUME transfer[r] = "done"
        PROVE  Cardinality(places) + Cardinality(hands) + Len(told[r]) = 1
    <3> HIDE DEF hands
    <3>1. Len(told[r]) = IF Told(r) THEN 1 ELSE 0
      BY <2>4, <2>8
    <3>. QED  BY <2>2, <2>3, <2>5, <2>6, <2>7, <2>8, <3>1
  <2>. QED  BY <2>1, <2>8 DEF places, AboutToBeTold
<1>. QED  BY <1>1, TransportInvariant, PTL

(* A thread that leaves finishCurlSessions in time and without a fault has   *)
(* seen all its RPCs answered, though the count it went by was old.         *)
THEOREM TransportReturn == Spec => []ReturnLeavesNone
<1>1. TransportInv => ReturnLeavesNone
  <2>1. TransportInv => \A r \in Rpcs : InHand(r) <=> r \in InHands
    BY DEF InHand, InHands
  <2>. QED  BY <2>1 DEF TransportInv, TypeOK, LoopInv, LoopOf, Answered, Told,
                        ReturnLeavesNone
<1>. QED  BY <1>1, TransportInvariant, PTL

(* When xmlrpc_client_cleanup is over nothing is left in the manager or      *)
(* allocated, but what refused RPCs have leaked.                            *)
THEOREM TransportClean == Spec => []NothingLeftBehind
<1>1. TransportInv => NothingLeftBehind
  <2> SUFFICES ASSUME TransportInv, client = "none"
      PROVE  /\ handles = {} /\ messages = <<>>
             /\ \A r \in Rpcs :
                  held[r] \subseteq IF asked[r] = "refused"
                                    THEN {"callInfo", "headerList"} ELSE {}
    BY DEF NothingLeftBehind
  <2>1. /\ \A t \in Threads : current[t] = {}
        /\ \A r \in Rpcs : asked[r] = "accepted" => Told(r)
    BY DEF TransportInv, ConstInv, HandInv, Told
  <2>2. handles = {}
    BY <2>1 DEF TransportInv, TypeOK, PlaceInv
  <2>3. messages = <<>>
    <3>1. \A r \in Rpcs : ~Queued(r)
      BY <2>1 DEF TransportInv, PlaceInv
    <3>2. messages \in Seq(Rpcs)
      BY DEF TransportInv, TypeOK
    <3>3. Len(messages) = 0
      <4> SUFFICES ASSUME Len(messages) # 0 PROVE FALSE
        OBVIOUS
      <4>1. 1 \in DOMAIN messages /\ messages[1] \in Rpcs
        BY <3>2
      <4>. QED  BY <3>1, <4>1 DEF Queued, ToSet
    <3>. QED  BY <3>2, <3>3
  <2>4. ASSUME NEW r \in Rpcs
        PROVE  held[r] \subseteq IF asked[r] = "refused"
                                 THEN {"callInfo", "headerList"} ELSE {}
    <3>1. asked[r] \in {"no", "refused", "accepted"} /\ ~InHand(r)
      BY <2>1 DEF TransportInv, TypeOK, InHand
    <3>. QED  BY <2>1, <3>1 DEF TransportInv, HeldInv
  <2>. QED  BY <2>2, <2>3, <2>4
<1>. QED  BY <1>1, TransportInvariant, PTL

-----------------------------------------------------------------------------
(*                      The client implements AsyncCalls                    *)

(* What AsyncCalls sees of a thread. *)
HandOf(t) == IF At(t, "finish") THEN current[t] ELSE {}
Places == [t \in Threads |-> Place(t)]
Hands == [t \in Threads |-> HandOf(t)]

Called == <<client, asked, told, Places, owed, Hands>>

(* A step of one thread is a step of one thread there. *)
LEMMA OneThreadSeen ==
  ASSUME NEW t \in Threads,
         \A u \in Threads \ {t} : /\ pc'[u] = pc[u] /\ current'[u] = current[u]
                                  /\ late'[u] = late[u] /\ fault'[u] = fault[u]
  PROVE  /\ Places' = [Places EXCEPT ![t] = Place(t)']
         /\ Hands' = [Hands EXCEPT ![t] = HandOf(t)']
<1>1. \A u \in Threads \ {t} : Place(u)' = Place(u) /\ HandOf(u)' = HandOf(u)
  BY DEF Place, HandOf
<1>. QED  BY <1>1 DEF Places, Hands

(* A thread that is not about to tell anybody has nothing in hand.          *)
LEMMA NothingInHand ==
  ASSUME NEW t \in Threads, pc[t] # "finish"
  PROVE  Hands[t] = {}
  BY DEF Hands, HandOf

(* No call is outstanding for the one that Outstanding there is not.        *)
LEMMA SameOutstanding ==
  /\ Calls!Outstanding = Outstanding
  /\ Calls!InHands = UNION {Hands[t] : t \in Threads}
<1>1. Calls!Outstanding = Outstanding
  BY DEF Calls!Outstanding
<1>2. Calls!InHands = UNION {Hands[t] : t \in Threads}
  BY DEF Calls!InHands, Hands, HandOf
<1>. QED  BY <1>1, <1>2

(* The client, its RPCs and its constants come and go. *)
LEMMA CallsOpenAndAsk ==
  ASSUME TransportInv, UNCHANGED <<pc, current, fault, late, owed>>,
         \/ ClientInit \/ ClientInitFails \/ ClientCleanup
         \/ \E t \in Threads, r \in Rpcs : StartRpc(t, r) \/ RefuseRpc(t, r)
         \/ \E r \in Rpcs : ServerAnswers(r)
  PROVE  Calls!Next \/ UNCHANGED Called
<1>1. UNCHANGED <<Places, Hands>>
  BY DEF Places, Place, Hands, HandOf
<1>2. CASE ClientInit
  <2>1. Calls!Open <=> /\ client = "none" /\ client' = "up"
                       /\ UNCHANGED <<asked, told, Places, owed, Hands>>
    BY DEF Calls!Open, Places, Hands, HandOf
  <2>. QED  BY <1>1, <1>2, <2>1 DEF ClientInit, Calls!Next
<1>3. CASE ClientInitFails
  BY <1>1, <1>3 DEF ClientInitFails, Teardown, Called
<1>4. CASE ClientCleanup
  <2>1. Calls!Close <=> /\ client = "up" /\ Calls!Outstanding = {}
                        /\ \A t \in Threads : Places[t] = "out"
                        /\ client' = "none"
                        /\ UNCHANGED <<asked, told, Places, owed, Hands>>
    BY DEF Calls!Close, Places, Hands, HandOf
  <2>2. \A t \in Threads : Places[t] = "out"
    BY <1>4 DEF ClientCleanup, Places, Place
  <2>. QED  BY <1>1, <1>4, <2>1, <2>2, SameOutstanding DEF ClientCleanup, Calls!Next
<1>5. ASSUME NEW t \in Threads, NEW r \in Rpcs, StartRpc(t, r) \/ RefuseRpc(t, r)
      PROVE  Calls!Next
  <2>1. Calls!Ask(r) <=>
          /\ client = "up" /\ asked[r] = "no"
          /\ \/ asked' = [asked EXCEPT ![r] = "accepted"] /\ UNCHANGED told
             \/ /\ asked' = [asked EXCEPT ![r] = "refused"]
                /\ told' \in {told, [told EXCEPT ![r] = <<"refused">>]}
          /\ UNCHANGED <<client, Places, owed, Hands>>
    BY DEF Calls!Ask, Places, Hands, HandOf
  <2>. QED  BY <1>1, <1>5, <2>1 DEF StartRpc, RefuseRpc, CanStart, Calls!Next
<1>6. ASSUME NEW r \in Rpcs, ServerAnswers(r) PROVE UNCHANGED Called
  BY <1>1, <1>6 DEF ServerAnswers, Called
<1>. QED  BY <1>2, <1>3, <1>4, <1>5, <1>6

(* A thread enters the loop, goes round in it, and leaves it.               *)
LEMMA CallsLoop ==
  ASSUME TransportInv, NEW t \in Threads,
         \/ \E type \in {"forever", "deadline"} : FinishAsynch(t, type)
         \/ WaitForWork(t) \/ LoopFails(t) \/ Perform(t) \/ EndOfMessages(t)
         \/ CallbackReturns(t) \/ LoopTest(t) \/ Return(t)
  PROVE  Calls!Next \/ UNCHANGED Called
<1>1. /\ UNCHANGED <<client, asked, told>>
      /\ pc[t] # "finish" /\ pc'[t] # "finish"
      /\ \A u \in Threads \ {t} : /\ pc'[u] = pc[u] /\ current'[u] = current[u]
                                  /\ late'[u] = late[u] /\ fault'[u] = fault[u]
  <2> USE DEF TransportInv, TypeOK
  <2>1. CASE \/ \E type \in {"forever", "deadline"} : FinishAsynch(t, type)
             \/ WaitForWork(t) \/ EndOfMessages(t)
    BY <2>1 DEF FinishAsynch, WaitForWork, EndOfMessages
  <2>2. CASE LoopFails(t)
    BY <2>2 DEF LoopFails
  <2>3. CASE Perform(t)
    BY <2>3 DEF Perform
  <2>4. CASE CallbackReturns(t) \/ Return(t)
    BY <2>4 DEF CallbackReturns, Return
  <2>5. CASE LoopTest(t)
    BY <2>5 DEF LoopTest
  <2>. QED  BY <2>1, <2>2, <2>3, <2>4, <2>5
<1>2. /\ Places' = [Places EXCEPT ![t] = Place(t)']
      /\ Hands' = Hands /\ Hands[t] = {}
      /\ Places[t] = Place(t) /\ Places = [Places EXCEPT ![t] = Place(t)]
  <2>1. /\ Places' = [Places EXCEPT ![t] = Place(t)']
        /\ Hands' = [Hands EXCEPT ![t] = HandOf(t)']
    BY <1>1, OneThreadSeen
  <2>2. Hands[t] = {} /\ HandOf(t)' = {}
    BY <1>1, NothingInHand DEF HandOf
  <2>3. Hands = [Hands EXCEPT ![t] = {}]
    BY <2>2 DEF Hands
  <2>. QED  BY <2>1, <2>2, <2>3 DEF Places
<1>3. CASE WaitForWork(t) \/ Perform(t) \/ EndOfMessages(t) \/ CallbackReturns(t)
  <2>1. /\ pc[t] \in {"wait", "perform", "messages", "callback"}
        /\ pc'[t] \in {"perform", "messages", "test"}
        /\ UNCHANGED owed
    <3> USE DEF TransportInv, TypeOK
    <3>1. CASE Perform(t)
      BY <3>1 DEF Perform
    <3>. QED  BY <1>3, <3>1 DEF WaitForWork, EndOfMessages, CallbackReturns
  <2>2. Place(t) = "in" /\ Place(t)' = "in"
    BY <2>1 DEF Place
  <2>. QED  BY <1>1, <1>2, <2>1, <2>2 DEF Called
<1>4. ASSUME NEW type \in {"forever", "deadline"}, FinishAsynch(t, type)
      PROVE  Calls!Next
  <2>1. Calls!Enter(t) <=>
          /\ client = "up" /\ Places[t] = "out"
          /\ Places' = [Places EXCEPT ![t] = "in"]
          /\ owed' = [owed EXCEPT ![t] = Calls!Outstanding]
          /\ UNCHANGED <<client, asked, told, Hands>>
    BY DEF Calls!Enter, Calls!Move, Places, Hands, HandOf
  <2>2. Place(t) = "out" /\ Place(t)' = "in"
    BY <1>4 DEF FinishAsynch, Place, TransportInv, TypeOK
  <2>. QED  BY <1>1, <1>2, <1>4, <2>1, <2>2, SameOutstanding DEF FinishAsynch, Calls!Next
<1>5. ASSUME Place(t) = "in", Place(t)' = "early", UNCHANGED owed PROVE Calls!Next
  <2>1. Calls!GiveUp(t) <=>
          /\ Places[t] = "in" /\ Hands[t] = {}
          /\ Places' = [Places EXCEPT ![t] = "early"]
          /\ UNCHANGED <<client, asked, told, owed, Hands>>
    BY DEF Calls!GiveUp, Calls!Move, Places, Hands, HandOf
  <2>. QED  BY <1>1, <1>2, <1>5, <2>1 DEF Calls!Next
<1>6. CASE LoopFails(t)
  <2>1. Place(t) = "in" /\ UNCHANGED owed
    BY <1>6 DEF LoopFails, Place
  <2>2. pc'[t] = "return" /\ fault'[t] # "none"
    BY <1>6 DEF LoopFails, TransportInv, TypeOK
  <2>3. Place(t)' = "early"
    BY <2>2 DEF Place
  <2>. QED  BY <1>5, <2>1, <2>3
<1>7. CASE LoopTest(t)
  <2>1. Place(t) = "in" /\ UNCHANGED <<owed, fault, current>>
    BY <1>7 DEF LoopTest, Place
  <2>2. pc'[t] \in {"wait", "return"}
    BY <1>7 DEF LoopTest, TransportInv, TypeOK
  <2>3. Place(t)' = IF pc'[t] = "wait" THEN "in"
                   ELSE IF late'[t] = "no" /\ fault'[t] = "none" THEN "done" ELSE "early"
    BY <2>2 DEF Place
  <2>4. CASE Place(t)' = "in"
    BY <1>1, <1>2, <2>1, <2>4 DEF Called
  <2>5. CASE Place(t)' = "early"
    BY <1>5, <2>1, <2>5
  <2>6. CASE Place(t)' = "done"
    <3>1. Calls!Finish(t) <=>
            /\ Places[t] = "in" /\ Hands[t] = {}
            /\ owed[t] \cap Calls!Outstanding \subseteq Calls!InHands
            /\ Places' = [Places EXCEPT ![t] = "done"]
            /\ UNCHANGED <<client, asked, told, owed, Hands>>
      BY DEF Calls!Finish, Calls!Move, Places, Hands, HandOf
    <3>2. pc'[t] = "return" /\ late'[t] = "no" /\ fault[t] = "none"
      <4>1. fault'[t] = fault[t]
        BY <2>1
      <4>. QED  BY <2>2, <2>3, <2>6, <4>1
    <3>3. At(t, "test") /\ running[t] = "none"
      BY <1>7, <3>2 DEF LoopTest, TransportInv, TypeOK
    <3>4. ASSUME NEW r \in owed[t], r \in Outstanding
          PROVE  r \in UNION {Hands[u] : u \in Threads}
      <4>1. ~Told(r) /\ Answered(r)
        BY <3>2, <3>3, <3>4 DEF TransportInv, LoopInv, LoopOf, Told
      <4>2. PICK u \in Threads : r \in current[u]
        BY <4>1 DEF Answered, InHand
      <4>3. At(u, "finish")
        BY <4>1, <4>2 DEF TransportInv, PlaceInv
      <4>. QED  BY <4>2, <4>3 DEF Hands, HandOf
    <3>. QED  BY <1>1, <1>2, <2>1, <2>6, <3>1, <3>4, SameOutstanding DEF Calls!Next
  <2>. QED  BY <2>2, <2>3, <2>4, <2>5, <2>6
<1>8. CASE Return(t)
  <2>1. Calls!Leave(t) <=>
          /\ Places[t] \in {"done", "early"}
          /\ Places' = [Places EXCEPT ![t] = "out"]
          /\ owed' = [owed EXCEPT ![t] = {}]
          /\ UNCHANGED <<client, asked, told, Hands>>
    BY DEF Calls!Leave, Calls!Move, Places, Hands, HandOf
  <2>2. Place(t) \in {"done", "early"}
    BY <1>8 DEF Return, Place
  <2>3. Place(t)' = "out"
    BY <1>8 DEF Return, Place, TransportInv, TypeOK
  <2>. QED  BY <1>1, <1>2, <1>8, <2>1, <2>2, <2>3 DEF Return, Calls!Next
<1>. QED  BY <1>3, <1>4, <1>6, <1>7, <1>8

(* A caller's turn: its message is taken by one thread, which tells it.     *)
LEMMA CallsTell ==
  ASSUME TransportInv, NEW t \in Threads, GetMessage(t) \/ FinishTransaction(t)
  PROVE  Calls!Next
<1>1. /\ UNCHANGED <<client, asked, owed>>
      /\ pc[t] \in {"messages", "finish"} /\ pc'[t] \in {"finish", "callback"}
      /\ \A u \in Threads \ {t} : /\ pc'[u] = pc[u] /\ current'[u] = current[u]
                                  /\ late'[u] = late[u] /\ fault'[u] = fault[u]
  BY DEF GetMessage, FinishTransaction, TransportInv, TypeOK
<1>2. Place(t) = "in" /\ Place(t)' = "in"
  BY <1>1 DEF Place
<1>3. /\ Places' = Places /\ Places[t] = "in"
      /\ Hands' = [Hands EXCEPT ![t] = HandOf(t)']
  BY <1>1, <1>2, OneThreadSeen DEF Places
<1>4. CASE GetMessage(t)
  <2>1. /\ messages # <<>> /\ messages \in Seq(Rpcs)
        /\ current'[t] = {Head(messages)} /\ UNCHANGED told
        /\ pc[t] = "messages" /\ pc'[t] = "finish"
    BY <1>4 DEF GetMessage, TransportInv, TypeOK
  <2>2. PICK r \in Rpcs : r = Head(messages) /\ Queued(r)
    BY <2>1 DEF Queued, ToSet
  <2>3. Calls!Take(t, r) <=>
          /\ Places[t] = "in" /\ Hands[t] = {}
          /\ r \in Calls!Outstanding \ Calls!InHands
          /\ Hands' = [Hands EXCEPT ![t] = {r}]
          /\ UNCHANGED <<client, asked, told, Places, owed>>
    BY DEF Calls!Take, Places, Hands, HandOf
  <2>4. r \in Outstanding /\ \A u \in Threads : r \notin Hands[u]
    BY <2>2 DEF TransportInv, PlaceInv, Told, Hands, HandOf
  <2>5. Hands[t] = {} /\ HandOf(t)' = {r}
    BY <2>1, <2>2 DEF Hands, HandOf
  <2>. QED  BY <1>1, <1>3, <2>1, <2>3, <2>4, <2>5, SameOutstanding DEF Calls!Next
<1>5. CASE FinishTransaction(t)
  <2>1. PICK r \in Rpcs : current[t] = {r}
    BY <1>5 DEF FinishTransaction, TransportInv, HandInv
  <2>2. /\ told[r] = <<>> /\ asked[r] = "accepted"
        /\ pc[t] = "finish" /\ pc'[t] = "callback"
    <3>1. pc[t] = "finish" /\ pc'[t] = "callback"
      BY <1>5 DEF FinishTransaction, TransportInv, TypeOK
    <3>2. transfer[r] = "done" /\ ~Told(r)
      BY <2>1, <3>1 DEF TransportInv, PlaceInv
    <3>. QED  BY <3>1, <3>2 DEF TransportInv, PlaceInv, Told
  <2>3. Answers(r) \subseteq {"ok", "fault"}
    BY DEF Answers, TransportInv, TypeOK
  <2>4. PICK said \in {"ok", "fault"} : told' = [told EXCEPT ![r] = Append(@, said)]
    BY <1>5, <2>1, <2>3 DEF FinishTransaction
  <2>5. told' = [told EXCEPT ![r] = <<said>>]
    BY <2>2, <2>4 DEF TransportInv, TypeOK
  <2>6. Calls!Tell(t) <=>
          /\ Places[t] = "in"
          /\ \E q \in Hands[t], word \in {"ok", "fault"} :
               told' = [told EXCEPT ![q] = <<word>>]
          /\ Hands' = [Hands EXCEPT ![t] = {}]
          /\ UNCHANGED <<client, asked, Places, owed>>
    BY DEF Calls!Tell, Places, Hands, HandOf
  <2>7. Hands[t] = {r} /\ HandOf(t)' = {}
    BY <2>1, <2>2 DEF Hands, HandOf
  <2>. QED  BY <1>1, <1>3, <2>5, <2>6, <2>7 DEF Calls!Next
<1>. QED  BY <1>4, <1>5

(* A synchronous call is made under the lock of the one session.            *)
LEMMA CallsCall ==
  ASSUME TransportInv, NEW t \in Threads, Call(t) \/ Exchange(t) \/ CallReturns(t)
  PROVE  Calls!Next \/ UNCHANGED Called
<1>1. /\ UNCHANGED <<client, asked, told, owed>>
      /\ pc[t] # "finish" /\ pc'[t] # "finish"
      /\ \A u \in Threads \ {t} : /\ pc'[u] = pc[u] /\ current'[u] = current[u]
                                  /\ late'[u] = late[u] /\ fault'[u] = fault[u]
  BY DEF Call, Exchange, CallReturns, TransportInv, TypeOK
<1>2. /\ Places' = [Places EXCEPT ![t] = Place(t)']
      /\ Hands' = Hands
      /\ Places[t] = Place(t) /\ Places = [Places EXCEPT ![t] = Place(t)]
  BY <1>1, OneThreadSeen DEF Hands, HandOf, Places
<1>3. CASE Call(t)
  <2>1. Calls!Call(t) <=>
          /\ client = "up" /\ Places[t] = "out"
          /\ \A u \in Threads : Places[u] # "calling"
          /\ Places' = [Places EXCEPT ![t] = "calling"]
          /\ UNCHANGED <<client, asked, told, owed, Hands>>
    BY DEF Calls!Call, Calls!Move, Places, Hands, HandOf
  <2>2. InCall = {} /\ client = "up"
    BY <1>3 DEF Call, TransportInv, SyncInv
  <2>3. \A u \in Threads : Places[u] # "calling"
    BY <2>2 DEF InCall, Places, Place
  <2>4. Place(t) = "out" /\ Place(t)' = "calling"
    BY <1>3 DEF Call, Place, TransportInv, TypeOK
  <2>. QED  BY <1>1, <1>2, <2>1, <2>2, <2>3, <2>4 DEF Calls!Next
<1>4. CASE Exchange(t)
  <2>1. Place(t) = "calling" /\ Place(t)' = "calling"
    BY <1>4 DEF Exchange, Place, TransportInv, TypeOK
  <2>. QED  BY <1>1, <1>2, <2>1 DEF Called
<1>5. CASE CallReturns(t)
  <2>1. Calls!Return(t) <=>
          /\ Places[t] = "calling"
          /\ Places' = [Places EXCEPT ![t] = "out"]
          /\ UNCHANGED <<client, asked, told, owed, Hands>>
    BY DEF Calls!Return, Calls!Move, Places, Hands, HandOf
  <2>2. Place(t) = "calling" /\ Place(t)' = "out"
    BY <1>5 DEF CallReturns, Place, TransportInv, TypeOK
  <2>. QED  BY <1>1, <1>2, <2>1, <2>2 DEF Calls!Next
<1>. QED  BY <1>3, <1>4, <1>5

(* Whatever the threads of the client, its transport and the network do is   *)
(* a step of AsyncCalls, or none.                                           *)
LEMMA CallsStep ==
  ASSUME TransportInv, [Next]_vars
  PROVE  Calls!Next \/ UNCHANGED Called
<1>1. CASE ClientInit \/ ClientInitFails \/ ClientCleanup
  BY <1>1, CallsOpenAndAsk DEF ClientInit, ClientInitFails, ClientCleanup
<1>2. ASSUME NEW t \in Threads, NEW r \in Rpcs, StartRpc(t, r) \/ RefuseRpc(t, r)
      PROVE  Calls!Next \/ UNCHANGED Called
  BY <1>2, CallsOpenAndAsk DEF StartRpc, RefuseRpc
<1>3. ASSUME NEW r \in Rpcs, ServerAnswers(r) PROVE Calls!Next \/ UNCHANGED Called
  BY <1>3, CallsOpenAndAsk DEF ServerAnswers
<1>4. ASSUME NEW t \in Threads, NEW type \in {"forever", "deadline"},
             FinishAsynch(t, type)
      PROVE  Calls!Next \/ UNCHANGED Called
  BY <1>4, CallsLoop
<1>5. ASSUME NEW t \in Threads, LoopStep(t) PROVE Calls!Next \/ UNCHANGED Called
  BY <1>5, CallsLoop, CallsTell DEF LoopStep
<1>6. ASSUME NEW t \in Threads, Call(t) \/ CallStep(t)
      PROVE  Calls!Next \/ UNCHANGED Called
  BY <1>6, CallsCall DEF CallStep
<1>7. CASE UNCHANGED vars
  BY <1>7 DEF vars, Called, Places, Place, Hands, HandOf
<1>. QED  BY <1>1, <1>2, <1>3, <1>4, <1>5, <1>6, <1>7 DEF Next

(* Each caller is told once, by one thread; a call of the event loop that    *)
(* ends in time and without a fault leaves nothing of what was outstanding;  *)
(* synchronous calls are made one at a time; and the client is cleaned up    *)
(* when nothing is outstanding and no thread is inside.                     *)
THEOREM TransportImplements == Spec => CallsSpec
<1>1. Init => Calls!Init
  BY DEF Init, Calls!Init, Place
<1>2. TransportInv /\ [Next]_vars => [Calls!Next]_(Calls!vars)
  BY CallsStep DEF Called, Places, Hands, HandOf, Calls!vars
<1>. QED  BY <1>1, <1>2, TransportInvariant, PTL DEF Spec, CallsSpec, Calls!Spec
=============================================================================

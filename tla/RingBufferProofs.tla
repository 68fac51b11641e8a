-------------------------- MODULE RingBufferProofs --------------------------
(***************************************************************************)
(* Proofs about RingBuffer for every number of clients, ring size and      *)
(* number of iterations.  The invariants rest on CallersBalance, which     *)
(* counts the callers in flight against the counters of the ring.          *)
(***************************************************************************)
EXTENDS RingBuffer, FiniteSetTheorems, SequenceTheorems, TLAPS

USE RingAssumption

(* An index reduced modulo MAXSIZE is a slot of the ring. *)
LEMMA SlotOf == ASSUME NEW n \in Nat PROVE n % MAXSIZE \in Slots
  BY SMT DEF Slots

(* Any set of clients is finite and no larger than the set of all clients. *)
LEMMA SomeClients ==
  ASSUME NEW S \in SUBSET Clients
  PROVE  /\ IsFiniteSet(S)
         /\ Cardinality(S) \in Nat
         /\ Cardinality(Clients) \in Nat
         /\ Cardinality(S) <= Cardinality(Clients)
  BY FS_Subset, FS_CardinalityType

(* A client outside a set of clients makes that set smaller than the whole. *)
LEMMA ClientsBut ==
  ASSUME NEW c \in Clients, NEW S \in SUBSET Clients, c \notin S
  PROVE  Cardinality(S) < Cardinality(Clients)
<1>1. /\ IsFiniteSet(S) /\ Cardinality(S) \in Nat
      /\ IsFiniteSet(S \cup {c})
  BY SomeClients
<1>2. Cardinality(S \cup {c}) = Cardinality(S) + 1
  BY <1>1, FS_AddElement
<1>3. Cardinality(S \cup {c}) <= Cardinality(Clients)
  BY SomeClients
<1>. QED  BY <1>1, <1>2, <1>3, SomeClients

(* Type correctness needs nothing but the assumption on the constants. *)
THEOREM RingTyped == Spec => []TypeOK
<1>1. Init => TypeOK
  BY DEF Init, TypeOK, Slots, Requests, Answers
<1>2. TypeOK /\ [Next]_vars => TypeOK'
  <2> SUFFICES ASSUME TypeOK, [Next]_vars PROVE TypeOK'
    OBVIOUS
  <2> USE DEF TypeOK, ring
  <2>1. ASSUME NEW c \in Clients, WriteRequest(c) PROVE TypeOK'
    <3>1. request_writes % MAXSIZE \in Slots
      BY SlotOf
    <3>. QED  BY <2>1, <3>1 DEF WriteRequest
  <2>2. ASSUME NEW c \in Clients, WriteRequestFull(c) PROVE TypeOK'
    BY <2>2 DEF WriteRequestFull, NextIteration, Requests
  <2>3. ASSUME NEW c \in Clients, AwaitResponse(c) \/ SpuriousWakeup(c) PROVE TypeOK'
    BY <2>3 DEF AwaitResponse, SpuriousWakeup
  <2>4. ASSUME NEW c \in Clients, ReadResponse(c) PROVE TypeOK'
    <3>1. response_reads % MAXSIZE \in Slots
      BY SlotOf
    <3>. QED  BY <2>4, <3>1 DEF ReadResponse
  <2>5. ASSUME NEW c \in Clients, Report(c) PROVE TypeOK'
    BY <2>5 DEF Report, NextIteration, Requests
  <2>6. CASE ServerAwait \/ ServerSpuriousWakeup \/ ServerResume \/ ServerCheck
    BY <2>6 DEF ServerAwait, ServerSpuriousWakeup, ServerResume, ServerCheck
  <2>7. CASE ReadRequest
    <3>1. CASE Size < 1
      BY <2>7, <3>1 DEF ReadRequest
    <3>2. CASE ~(Size < 1)
      <4>1. request_reads % MAXSIZE \in Slots /\ response_writes % MAXSIZE \in Slots
        BY SlotOf
      <4>2. Size \in Int /\ Requests \subseteq Nat
        BY DEF Size, Requests
      <4>3. Compute(request_buffer[request_reads % MAXSIZE]) \in Answers
        BY <4>1 DEF Answers
      <4>. QED  BY <2>7, <3>2, <4>1, <4>3 DEF ReadRequest, Signal, Sleepers
    <3>. QED  BY <3>1, <3>2
  <2>8. CASE UNCHANGED vars
    BY <2>8 DEF vars
  <2>. QED
    BY <2>1, <2>2, <2>3, <2>4, <2>5, <2>6, <2>7, <2>8 DEF Next, ClientStep, ServerStep
<1>. QED  BY <1>1, <1>2, PTL DEF Spec

-----------------------------------------------------------------------------
(* What each step of a client does to the two counted sets. *)
LEMMA EnterFlight ==
  ASSUME TypeOK, NEW c \in Clients, WriteRequest(c)
  PROVE  /\ InFlight' = InFlight \cup {c} /\ c \notin InFlight
         /\ Woken' = Woken
  BY DEF WriteRequest, InFlight, Woken, TypeOK

(* A client that has its response is in flight no more. *)
LEMMA LeaveFlight ==
  ASSUME TypeOK, NEW c \in Clients, ReadResponse(c)
  PROVE  /\ InFlight' = InFlight \ {c} /\ c \in InFlight
         /\ Woken' = Woken \ {c} /\ c \in Woken
  BY DEF ReadResponse, InFlight, Woken, TypeOK

(* A signal wakes at most one, who was in flight. *)
LEMMA WakeUp ==
  ASSUME TypeOK, NEW s, Signal(s)
  PROVE  /\ InFlight' = InFlight
         /\ \/ Woken' = Woken
            \/ \E c \in Clients : Woken' = Woken \cup {c} /\ c \notin Woken
<1>1. CASE Sleepers(s) = {} /\ UNCHANGED pc
  BY <1>1 DEF InFlight, Woken
<1>2. ASSUME NEW c \in Sleepers(s), pc' = [pc EXCEPT ![c] = "woken"]
      PROVE  /\ InFlight' = InFlight
             /\ Woken' = Woken \cup {c} /\ c \notin Woken
  BY <1>2 DEF Sleepers, InFlight, Woken, TypeOK
<1>. QED  BY <1>1, <1>2 DEF Signal, Sleepers

(* Every other step of a client leaves both sets alone. *)
LEMMA StayPut ==
  ASSUME TypeOK, NEW c \in Clients, AwaitResponse(c) \/ Report(c)
  PROVE  InFlight' = InFlight /\ Woken' = Woken
  BY DEF AwaitResponse, Report, NextIteration, InFlight, Woken, TypeOK

(* With no more clients than slots, and waits that only return when signalled,
   a caller never meets a full ring. *)
LEMMA CallerFindsRoom ==
  ASSUME CallersBalance, Cardinality(Clients) <= MAXSIZE,
         NEW c \in Clients, pc[c] = "call"
  PROVE  Size <= MAXSIZE - 1
<1>1. InFlight \in SUBSET Clients /\ Woken \in SUBSET Clients /\ c \notin InFlight
  BY DEF InFlight, Woken
<1>2. Cardinality(InFlight) < Cardinality(Clients)
  BY <1>1, ClientsBut
<1>3. Cardinality(Woken) \in Nat /\ Cardinality(InFlight) \in Nat
      /\ Cardinality(Clients) \in Nat
  BY <1>1, SomeClients
<1>. QED  BY <1>2, <1>3 DEF CallersBalance, TypeOK, Size

(* The balance of callers and counters is an invariant of the whole system. *)
THEOREM RingBalanced ==
  ASSUME Cardinality(Clients) <= MAXSIZE, SpuriousWakeups = FALSE
  PROVE  Spec => []CallersBalance
<1>1. Init => CallersBalance
  <2> SUFFICES ASSUME Init PROVE CallersBalance
    OBVIOUS
  <2>1. TypeOK
    BY DEF Init, TypeOK, Slots, Requests, Answers
  <2>2. InFlight = {} /\ Woken = {}
    BY DEF Init, InFlight, Woken
  <2>. QED  BY <2>1, <2>2, FS_EmptySet DEF Init, CallersBalance
<1>2. CallersBalance /\ TypeOK' /\ [Next]_vars => CallersBalance'
  <2> SUFFICES ASSUME CallersBalance, TypeOK', [Next]_vars PROVE CallersBalance'
    OBVIOUS
  <2> USE DEF CallersBalance
  <2>0. /\ IsFiniteSet(InFlight) /\ Cardinality(InFlight) \in Nat
        /\ IsFiniteSet(Woken) /\ Cardinality(Woken) \in Nat
    BY SomeClients DEF InFlight, Woken
  <2>1. ASSUME NEW c \in Clients, WriteRequest(c) PROVE CallersBalance'
    <3>1. Cardinality(InFlight') = Cardinality(InFlight) + 1 /\ Woken' = Woken
      BY <2>0, <2>1, EnterFlight, FS_AddElement
    <3>. QED  BY <2>0, <2>1, <3>1 DEF WriteRequest, TypeOK
  <2>2. ASSUME NEW c \in Clients PROVE ~WriteRequestFull(c)
    BY CallerFindsRoom DEF WriteRequestFull, Size, TypeOK
  <2>3. ASSUME NEW c \in Clients, AwaitResponse(c) \/ Report(c) PROVE CallersBalance'
    <3>1. InFlight' = InFlight /\ Woken' = Woken
      BY <2>3, StayPut
    <3>. QED  BY <2>3, <3>1 DEF AwaitResponse, Report, ring
  <2>4. ASSUME NEW c \in Clients, ReadResponse(c) PROVE CallersBalance'
    <3>1. /\ Cardinality(InFlight') = Cardinality(InFlight) - 1
          /\ Cardinality(Woken') = Cardinality(Woken) - 1
      BY <2>0, <2>4, LeaveFlight, FS_RemoveElement
    <3>. QED  BY <2>0, <2>4, <3>1 DEF ReadResponse, TypeOK
  <2>5. CASE ServerAwait \/ ServerResume
    BY <2>5 DEF ServerAwait, ServerResume, ring, InFlight, Woken
  <2>6. CASE ServerCheck
    BY <2>6 DEF ServerCheck, Size, TypeOK, ring, InFlight, Woken
  <2>7. CASE ReadRequest
    <3>1. ~(Size < 1)
      BY <2>7 DEF ReadRequest, Size, TypeOK
    <3>2. Signal(request_reads % MAXSIZE)
      BY <2>7, <3>1 DEF ReadRequest
    <3>3. /\ InFlight' = InFlight
          /\ Cardinality(Woken') <= Cardinality(Woken) + 1
      <4>1. /\ InFlight' = InFlight
            /\ \/ Woken' = Woken
               \/ \E c \in Clients : Woken' = Woken \cup {c} /\ c \notin Woken
        BY <3>2, WakeUp
      <4>2. CASE Woken' = Woken
        BY <2>0, <4>1, <4>2
      <4>3. ASSUME NEW c \in Clients, Woken' = Woken \cup {c}, c \notin Woken
            PROVE  Cardinality(Woken') = Cardinality(Woken) + 1
        BY <2>0, <4>3, FS_AddElement
      <4>. QED  BY <2>0, <4>1, <4>2, <4>3
    <3>4. Cardinality(Woken') \in Nat
      BY SomeClients DEF Woken
    <3>. QED  BY <2>0, <2>7, <3>1, <3>3, <3>4 DEF ReadRequest, Size, TypeOK
  <2>8. ~ServerSpuriousWakeup /\ \A c \in Clients : ~SpuriousWakeup(c)
    BY DEF ServerSpuriousWakeup, SpuriousWakeup
  <2>9. CASE UNCHANGED vars
    BY <2>9 DEF vars, ring, InFlight, Woken
  <2>. QED
    BY <2>1, <2>2, <2>3, <2>4, <2>5, <2>6, <2>7, <2>8, <2>9
       DEF Next, ClientStep, ServerStep
<1>. QED  BY <1>1, <1>2, RingTyped, PTL DEF Spec

(* A client never takes a response that the server has not written yet. *)
THEOREM RingReadsReplies ==
  ASSUME Cardinality(Clients) <= MAXSIZE, SpuriousWakeups = FALSE
  PROVE  Spec => []ReadsOnlyReplies
<1>1. CallersBalance => ReadsOnlyReplies
  <2> SUFFICES ASSUME CallersBalance PROVE ReadsOnlyReplies
    OBVIOUS
  <2>1. IsFiniteSet(Woken) /\ Cardinality(Woken) \in Nat
    BY SomeClients DEF Woken
  <2>2. Woken # {} => Cardinality(Woken) # 0
    BY <2>1, FS_EmptySet
  <2>. QED  BY <2>1, <2>2 DEF CallersBalance, TypeOK, ReadsOnlyReplies
<1>. QED  BY <1>1, RingBalanced, PTL

(* A response is read before its slot of response_buffer is written again. *)
THEOREM RingRepliesKept ==
  ASSUME Cardinality(Clients) <= MAXSIZE, SpuriousWakeups = FALSE
  PROVE  Spec => []UnreadRepliesKept
<1>1. CallersBalance => UnreadRepliesKept
  <2>1. Cardinality(InFlight) <= Cardinality(Clients)
        /\ Cardinality(InFlight) \in Nat /\ Cardinality(Clients) \in Nat
    BY SomeClients DEF InFlight
  <2>. QED  BY <2>1 DEF CallersBalance, TypeOK, UnreadRepliesKept
<1>. QED  BY <1>1, RingBalanced, PTL

-----------------------------------------------------------------------------
(* The indices that are in the ring at one time have slots of their own. *)
LEMMA OwnSlots ==
  ASSUME NEW i \in Nat, NEW j \in Nat, i < j, j - i < MAXSIZE
  PROVE  i % MAXSIZE # j % MAXSIZE
<1> SUFFICES ASSUME i % MAXSIZE = j % MAXSIZE PROVE FALSE
  OBVIOUS
<1>1. PICK p \in Int, q \in Int :
        i = MAXSIZE * p + (i % MAXSIZE) /\ j = MAXSIZE * q + (j % MAXSIZE)
  <2>1. /\ i = MAXSIZE * (i \div MAXSIZE) + (i % MAXSIZE)
        /\ j = MAXSIZE * (j \div MAXSIZE) + (j % MAXSIZE)
        /\ i \div MAXSIZE \in Int /\ j \div MAXSIZE \in Int
    BY SMT
  <2>. QED  BY <2>1
<1>2. PICK d \in Int : d = q - p
  OBVIOUS
<1>3. i % MAXSIZE \in Int
  BY SlotOf DEF Slots
<1>4. j - i = MAXSIZE * d
  BY <1>1, <1>2, <1>3
<1>5. CASE d <= 0
  BY <1>4, <1>5
<1>6. CASE d >= 1
  BY <1>4, <1>6
<1>. QED  BY <1>5, <1>6

(* The counters tell how much is in the ring, and it is never too much; this
   holds whatever wakes whom. *)
RingHolds ==
  /\ TypeOK
  /\ request_reads <= request_writes
  /\ request_writes - request_reads <= MAXSIZE
  /\ response_writes = request_reads

(* The ring by itself: read_request is all that moves the two middle counters. *)
LEMMA RingHeld == Spec => []RingHolds
<1>1. Init => RingHolds
  <2>1. Init => TypeOK
    BY DEF Init, TypeOK, Slots, Requests, Answers
  <2>. QED  BY <2>1 DEF Init, RingHolds
<1>2. RingHolds /\ TypeOK' /\ [Next]_vars => RingHolds'
  <2> SUFFICES ASSUME RingHolds, TypeOK', [Next]_vars PROVE RingHolds'
    OBVIOUS
  <2> USE DEF RingHolds, ring
  <2>1. ASSUME NEW c \in Clients, WriteRequest(c) PROVE RingHolds'
    BY <2>1 DEF WriteRequest, Size, TypeOK
  <2>2. ASSUME NEW c \in Clients,
               \/ WriteRequestFull(c) \/ AwaitResponse(c) \/ SpuriousWakeup(c)
               \/ ReadResponse(c) \/ Report(c)
        PROVE  RingHolds'
    BY <2>2 DEF WriteRequestFull, AwaitResponse, SpuriousWakeup, ReadResponse, Report
  <2>3. CASE ReadRequest
    <3>1. CASE Size < 1
      BY <2>3, <3>1 DEF ReadRequest
    <3>2. CASE ~(Size < 1)
      <4>1. /\ request_writes' = request_writes
            /\ request_reads' = request_reads + 1
            /\ response_writes' = response_writes + 1
        BY <2>3, <3>2 DEF ReadRequest
      <4>. QED  BY <3>2, <4>1 DEF Size, TypeOK
    <3>. QED  BY <3>1, <3>2
  <2>4. CASE ServerAwait \/ ServerSpuriousWakeup \/ ServerResume \/ ServerCheck
    BY <2>4 DEF ServerAwait, ServerSpuriousWakeup, ServerResume, ServerCheck
  <2>5. CASE UNCHANGED vars
    BY <2>5 DEF vars
  <2>. QED
    BY <2>1, <2>2, <2>3, <2>4, <2>5 DEF Next, ClientStep, ServerStep
<1>. QED  BY <1>1, <1>2, RingTyped, PTL DEF Spec

(* PendingHasCaller, a request at a time. *)
HasCaller(n) ==
  \E c \in Clients : pc[c] \in {"written", "asleep"} /\ response[c] = n % MAXSIZE

(* PendingHasCaller speaks of the slots, HasCaller of the requests in them. *)
LEMMA CallerOfEach ==
  PendingHasCaller <=> \A n \in request_reads .. request_writes - 1 : HasCaller(n)
  BY DEF PendingHasCaller, PendingSlots, HasCaller

(* Nobody waits for an answer to a request that was lost: as long as waits only
   return when signalled, each request in the ring has its client waiting, or
   about to wait, on the condition variable of its slot. *)
THEOREM RingPending ==
  ASSUME SpuriousWakeups = FALSE
  PROVE  Spec => []PendingHasCaller
<1>1. Init => PendingHasCaller
  BY DEF Init, PendingHasCaller, PendingSlots
<1>2. RingHolds /\ RingHolds' /\ PendingHasCaller /\ [Next]_vars => PendingHasCaller'
  <2> SUFFICES ASSUME RingHolds, RingHolds', PendingHasCaller, [Next]_vars,
                      NEW n \in request_reads' .. request_writes' - 1
               PROVE  HasCaller(n)'
    BY DEF PendingHasCaller, PendingSlots, HasCaller
  <2> USE DEF ring
  <2>0. /\ n \in Nat /\ request_reads \in Nat /\ request_writes \in Nat
        /\ request_reads' \in Nat /\ request_writes' \in Nat
        /\ request_reads <= n
        /\ n < request_writes => HasCaller(n)
    <3>1. /\ request_reads \in Nat /\ request_writes \in Nat
          /\ request_reads' \in Nat /\ request_writes' \in Nat
      BY DEF RingHolds, TypeOK
    <3>2. request_reads <= request_reads'
      BY <3>1 DEF RingHolds, Next, ClientStep, ServerStep, WriteRequest,
        WriteRequestFull, AwaitResponse, SpuriousWakeup, ReadResponse, Report,
        ServerAwait, ServerSpuriousWakeup, ServerResume, ServerCheck, ReadRequest,
        vars
    <3>3. n \in Nat /\ request_reads <= n
      BY <3>1, <3>2
    <3>. QED  BY <3>1, <3>3, CallerOfEach
  <2>1. ASSUME NEW c \in Clients, WriteRequest(c) PROVE HasCaller(n)'
    <3>1. request_writes' = request_writes + 1 /\ request_reads' = request_reads
      BY <2>1 DEF WriteRequest
    <3>2. CASE n = request_writes
      BY <2>1, <3>2 DEF WriteRequest, HasCaller, RingHolds, TypeOK
    <3>3. CASE n < request_writes
      <4>1. PICK d \in Clients :
              pc[d] \in {"written", "asleep"} /\ response[d] = n % MAXSIZE
        BY <2>0, <3>3 DEF HasCaller
      <4>2. d # c
        BY <2>1, <4>1 DEF WriteRequest
      <4>. QED
        BY <2>1, <4>1, <4>2 DEF WriteRequest, HasCaller, RingHolds, TypeOK
    <3>. QED  BY <2>0, <3>1, <3>2, <3>3
  <2>2. ASSUME NEW c \in Clients,
               \/ WriteRequestFull(c) \/ AwaitResponse(c) \/ SpuriousWakeup(c)
               \/ ReadResponse(c) \/ Report(c)
        PROVE  HasCaller(n)'
    <3>0. request_writes' = request_writes
      BY <2>2 DEF WriteRequestFull, AwaitResponse, SpuriousWakeup, ReadResponse,
                  Report
    <3>1. HasCaller(n)
      BY <2>0, <3>0
    <3>2. PICK d \in Clients :
            pc[d] \in {"written", "asleep"} /\ response[d] = n % MAXSIZE
      BY <3>1 DEF HasCaller
    <3>3. response' = response /\ pc'[d] \in {"written", "asleep"}
      BY <2>2, <3>2 DEF WriteRequestFull, AwaitResponse, SpuriousWakeup,
        ReadResponse, Report, NextIteration, RingHolds, TypeOK
    <3>. QED  BY <3>2, <3>3 DEF HasCaller
  <2>3. CASE ReadRequest
    <3>1. CASE Size < 1
      BY <2>0, <2>3, <3>1 DEF ReadRequest, HasCaller
    <3>2. CASE ~(Size < 1)
      <4>1. /\ request_reads' = request_reads + 1 /\ request_writes' = request_writes
            /\ response' = response /\ Signal(request_reads % MAXSIZE)
        BY <2>3, <3>2 DEF ReadRequest
      <4>2. PICK d \in Clients :
              pc[d] \in {"written", "asleep"} /\ response[d] = n % MAXSIZE
        BY <2>0, <4>1 DEF HasCaller
      <4>3. n % MAXSIZE # request_reads % MAXSIZE
        <5>1. request_reads < n /\ n - request_reads < MAXSIZE
          BY <2>0, <4>1 DEF RingHolds
        <5>. QED  BY <2>0, <5>1, OwnSlots
      <4>4. pc'[d] = pc[d]
        BY <4>1, <4>2, <4>3 DEF Signal, Sleepers, RingHolds, TypeOK
      <4>. QED  BY <4>1, <4>2, <4>4 DEF HasCaller
    <3>. QED  BY <3>1, <3>2
  <2>4. CASE ServerAwait \/ ServerSpuriousWakeup \/ ServerResume \/ ServerCheck
    <3>1. /\ request_writes' = request_writes
          /\ pc' = pc /\ response' = response
      BY <2>4 DEF ServerAwait, ServerSpuriousWakeup, ServerResume, ServerCheck
    <3>. QED  BY <2>0, <3>1 DEF HasCaller
  <2>5. CASE UNCHANGED vars
    BY <2>0, <2>5 DEF vars, HasCaller
  <2>. QED
    BY <2>1, <2>2, <2>3, <2>4, <2>5 DEF Next, ClientStep, ServerStep
<1>. QED  BY <1>1, <1>2, RingHeld, PTL DEF Spec

-----------------------------------------------------------------------------
(* The queue of the service and its latest reply, as the ring holds them. *)
Queue == [k \in 1 .. Size |-> request_buffer[(request_reads + k - 1) % MAXSIZE]]

Latest == IF response_writes = 0 THEN 0
          ELSE response_buffer[(response_writes - 1) % MAXSIZE]

(* The queue is the sequence of requests not yet taken, oldest first. *)
LEMMA QueueIsSequence ==
  ASSUME RingHolds
  PROVE  /\ Size \in 0 .. MAXSIZE
         /\ Queue \in Seq(Requests \cup {0})
         /\ Len(Queue) = Size
         /\ \A k \in 1 .. Size :
              Queue[k] = request_buffer[(request_reads + k - 1) % MAXSIZE]
<1>1. Size \in 0 .. MAXSIZE /\ request_reads \in Nat
  BY DEF RingHolds, TypeOK, Size
<1>2. \A k \in 1 .. Size : (request_reads + k - 1) % MAXSIZE \in Slots
  BY <1>1, SlotOf
<1>3. Queue \in [1 .. Size -> Requests \cup {0}]
  BY <1>2 DEF Queue, RingHolds, TypeOK
<1>4. Queue \in Seq(Requests \cup {0}) /\ Len(Queue) = Size
  BY <1>1, <1>3
<1>. QED  BY <1>1, <1>4 DEF Queue

(* The same after a step. *)
LEMMA QueueStaysSequence ==
  ASSUME RingHolds'
  PROVE  /\ Size' \in 0 .. MAXSIZE
         /\ Queue' \in Seq(Requests \cup {0})
         /\ Len(Queue') = Size'
         /\ \A k \in 1 .. Size' :
              Queue'[k] = request_buffer'[(request_reads' + k - 1) % MAXSIZE]
<1>0. /\ request_reads' \in Nat /\ request_writes' \in Nat
      /\ request_reads' <= request_writes' /\ request_writes' - request_reads' <= MAXSIZE
  BY DEF RingHolds, TypeOK
<1>1. Size' \in 0 .. MAXSIZE /\ request_reads' \in Nat
  <2>1. Size' = request_writes' - request_reads'
    BY DEF Size
  <2>2. PICK r \in Nat, w \in Nat : r = request_reads' /\ w = request_writes'
    BY <1>0
  <2>3. r <= w /\ w - r <= MAXSIZE
    BY <1>0, <2>2
  <2>4. w - r \in 0 .. MAXSIZE
    BY <2>3
  <2>. QED  BY <1>0, <2>1, <2>2, <2>4
<1>2. \A k \in 1 .. Size' : (request_reads' + k - 1) % MAXSIZE \in Slots
  BY <1>1, SlotOf
<1>3. Queue' \in [1 .. Size' -> Requests \cup {0}]
  BY <1>2 DEF Queue, RingHolds, TypeOK, Slots, Requests
<1>4. Queue' \in Seq(Requests \cup {0}) /\ Len(Queue') = Size'
  BY <1>1, <1>3
<1>. QED  BY <1>1, <1>4 DEF Queue

(* write_request puts its request at the end of the queue. *)
LEMMA QueueTakesIn ==
  ASSUME RingHolds, RingHolds', NEW c \in Clients, WriteRequest(c)
  PROVE  /\ Len(Queue) < MAXSIZE
         /\ Queue' = Append(Queue, x[c])
         /\ x[c] \in Requests
<1>1. /\ request_reads' = request_reads /\ request_reads \in Nat
      /\ request_writes' = request_writes + 1 /\ request_writes \in Nat
      /\ request_buffer' = [request_buffer EXCEPT ![request_writes % MAXSIZE] = x[c]]
      /\ request_writes % MAXSIZE \in Slots
      /\ request_buffer \in [Slots -> Requests \cup {0}]
      /\ x[c] \in Requests
  BY SlotOf DEF WriteRequest, RingHolds, TypeOK
<1>2. Size < MAXSIZE /\ Size' = Size + 1
  BY <1>1 DEF WriteRequest, Size
<1>3. /\ Queue' \in Seq(Requests \cup {0}) /\ Len(Queue') = Size + 1
      /\ \A k \in 1 .. Size + 1 :
           Queue'[k] = request_buffer'[(request_reads + k - 1) % MAXSIZE]
  <2>1. /\ Size' \in 0 .. MAXSIZE
        /\ Queue' \in Seq(Requests \cup {0})
        /\ Len(Queue') = Size'
        /\ \A k \in 1 .. Size' :
             Queue'[k] = request_buffer'[(request_reads' + k - 1) % MAXSIZE]
    BY QueueStaysSequence
  <2>. QED  BY <1>1, <1>2, <2>1
<1>4. /\ Append(Queue, x[c]) \in Seq(Requests \cup {0})
      /\ Len(Append(Queue, x[c])) = Size + 1
      /\ \A k \in 1 .. Size : Append(Queue, x[c])[k] = Queue[k]
      /\ Append(Queue, x[c])[Size + 1] = x[c]
  BY <1>1, QueueIsSequence
<1>5. ASSUME NEW k \in 1 .. Size + 1
      PROVE  Queue'[k] = Append(Queue, x[c])[k]
  <2>1. CASE k = Size + 1
    <3>1. request_reads + k - 1 = request_writes
      BY <1>1, <2>1 DEF Size
    <3>. QED  BY <1>1, <1>3, <1>4, <2>1, <3>1
  <2>2. CASE k \in 1 .. Size
    <3>1. PICK i \in Nat : /\ i = request_reads + k - 1
                           /\ i < request_writes /\ request_writes - i < MAXSIZE
      BY <1>1, <1>2, <2>2 DEF Size, RingHolds
    <3>2. i % MAXSIZE # request_writes % MAXSIZE /\ i % MAXSIZE \in Slots
      BY <1>1, <3>1, OwnSlots, SlotOf
    <3>3. request_buffer'[i % MAXSIZE] = request_buffer[i % MAXSIZE]
      BY <1>1, <3>2
    <3>. QED  BY <1>3, <1>4, <2>2, <3>1, <3>3, QueueIsSequence
  <2>. QED  BY <1>2, <2>1, <2>2, QueueIsSequence
<1>6. Queue' = Append(Queue, x[c])
  BY <1>3, <1>4, <1>5, SeqEqual
<1>. QED  BY <1>1, <1>2, <1>6, QueueIsSequence

(* read_request takes the request at the head of the queue and answers it. *)
LEMMA QueueGivesOut ==
  ASSUME RingHolds, RingHolds', ReadRequest, ~(Size < 1)
  PROVE  /\ Queue # <<>>
         /\ Queue' = Tail(Queue)
         /\ response_writes' = response_writes + 1
         /\ Latest' = Compute(Head(Queue))
<1>1. /\ request_reads' = request_reads + 1 /\ request_reads \in Nat
      /\ request_writes' = request_writes /\ request_writes \in Nat
      /\ request_buffer' = request_buffer
      /\ response_writes' = response_writes + 1 /\ response_writes \in Nat
      /\ response_buffer' = [response_buffer EXCEPT ![response_writes % MAXSIZE]
                              = Compute(request_buffer[request_reads % MAXSIZE])]
      /\ response_writes % MAXSIZE \in Slots
      /\ response_buffer \in [Slots -> Answers]
  BY SlotOf DEF ReadRequest, RingHolds, TypeOK
<1>2. Size >= 1 /\ Size' = Size - 1 /\ Size \in Nat
  BY <1>1 DEF Size
<1>3. /\ Queue' \in Seq(Requests \cup {0}) /\ Len(Queue') = Size - 1
      /\ \A k \in 1 .. Size - 1 :
           Queue'[k] = request_buffer[(request_reads + 1 + k - 1) % MAXSIZE]
  <2>1. /\ Size' \in 0 .. MAXSIZE
        /\ Queue' \in Seq(Requests \cup {0})
        /\ Len(Queue') = Size'
        /\ \A k \in 1 .. Size' :
             Queue'[k] = request_buffer'[(request_reads' + k - 1) % MAXSIZE]
    BY QueueStaysSequence
  <2>. QED  BY <1>1, <1>2, <2>1
<1>4. /\ Queue # <<>>
      /\ Tail(Queue) \in Seq(Requests \cup {0})
      /\ Len(Tail(Queue)) = Size - 1
      /\ \A k \in 1 .. Size - 1 : Tail(Queue)[k] = Queue[k + 1]
      /\ Head(Queue) = Queue[1]
  BY <1>2, QueueIsSequence
<1>5. ASSUME NEW k \in 1 .. Size - 1 PROVE Queue'[k] = Tail(Queue)[k]
  <2>1. request_reads + 1 + k - 1 = request_reads + (k + 1) - 1 /\ k + 1 \in 1 .. Size
    BY <1>1, <1>2
  <2>. QED  BY <1>3, <1>4, <2>1, QueueIsSequence
<1>6. Queue' = Tail(Queue)
  BY <1>3, <1>4, <1>5, SeqEqual
<1>7. Latest' = Compute(Head(Queue))
  <2>1. response_writes' - 1 = response_writes /\ response_writes' # 0
        /\ request_reads + 1 - 1 = request_reads
    BY <1>1
  <2>2. Head(Queue) = request_buffer[request_reads % MAXSIZE]
    BY <1>2, <1>4, <2>1, QueueIsSequence
  <2>. QED  BY <1>1, <2>1, <2>2 DEF Latest
<1>. QED  BY <1>1, <1>4, <1>6, <1>7

(* The ring implements the service: write_request is its Submit, a read_request
   that finds a request its Serve, and every other step a stutter.  Nothing is
   assumed of wakeups, of the number of clients or of the lock. *)
THEOREM RingImplements == Spec => ServiceSpec
<1>1. Init => Service!Init
  <2> SUFFICES ASSUME Init PROVE Service!Init
    OBVIOUS
  <2>1. Size = 0 /\ response_writes = 0
    BY DEF Init, Size
  <2>2. 1 .. Size = {}
    BY <2>1
  <2>. QED  BY <2>1, <2>2 DEF Service!Init
<1>2. RingHolds /\ RingHolds' /\ [Next]_vars => [Service!Next]_(Service!vars)
  <2> SUFFICES ASSUME RingHolds, RingHolds', [Next]_vars
               PROVE  Service!Next \/ UNCHANGED <<Queue, response_writes, Latest>>
    BY DEF Service!vars, Queue, Latest
  <2> USE DEF ring
  <2>1. ASSUME NEW c \in Clients, WriteRequest(c) PROVE Service!Next
    <3>1. response_writes' = response_writes /\ Latest' = Latest
      BY <2>1 DEF WriteRequest, Latest
    <3>2. ASSUME NEW n \in Requests
          PROVE  Service!Submit(n) <=>
            /\ Len(Queue) < MAXSIZE
            /\ Queue' = Append(Queue, n)
            /\ response_writes' = response_writes /\ Latest' = Latest
      BY DEF Service!Submit, Queue, Latest
    <3>3. PICK n \in Requests : n = x[c]
      BY <2>1, QueueTakesIn
    <3>4. Service!Submit(n)
      BY <2>1, <3>1, <3>2, <3>3, QueueTakesIn
    <3>. QED  BY <3>4 DEF Service!Next
  <2>2. CASE ReadRequest
    <3>1. CASE Size < 1
      BY <2>2, <3>1 DEF ReadRequest, Queue, Latest, Size
    <3>2. CASE ~(Size < 1)
      <4>1. Service!Serve <=>
              /\ Queue # <<>>
              /\ Queue' = Tail(Queue)
              /\ response_writes' = response_writes + 1
              /\ Latest' = Compute(Head(Queue))
        BY DEF Service!Serve, Service!Answer, Service!PRIME, Compute, PRIME,
               Queue, Latest
      <4>. QED  BY <2>2, <3>2, <4>1, QueueGivesOut DEF Service!Next
    <3>. QED  BY <3>1, <3>2
  <2>3. ASSUME NEW c \in Clients,
               \/ WriteRequestFull(c) \/ AwaitResponse(c) \/ SpuriousWakeup(c)
               \/ ReadResponse(c) \/ Report(c)
        PROVE  UNCHANGED <<Queue, response_writes, Latest>>
    BY <2>3 DEF WriteRequestFull, AwaitResponse, SpuriousWakeup, ReadResponse,
                Report, Queue, Latest, Size
  <2>4. CASE ServerAwait \/ ServerSpuriousWakeup \/ ServerResume \/ ServerCheck
    BY <2>4 DEF ServerAwait, ServerSpuriousWakeup, ServerResume, ServerCheck,
                Queue, Latest, Size
  <2>5. CASE UNCHANGED vars
    BY <2>5 DEF vars, Queue, Latest, Size
  <2>. QED
    BY <2>1, <2>2, <2>3, <2>4, <2>5 DEF Next, ClientStep, ServerStep
<1>. QED
  BY <1>1, <1>2, RingHeld, PTL DEF Spec, ServiceSpec, Service!Spec
=============================================================================

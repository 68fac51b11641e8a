----------------------------- MODULE RingBuffer -----------------------------
(***************************************************************************)
(* project2: client threads and a server process exchange requests and     *)
(* replies through struct ring_buffer in shared memory (ringbuffer.c,      *)
(* client.c, server.c).  One process-shared mutex protects the structure;  *)
(* the server sleeps on `nonempty', a client on response_ready[response].  *)
(*                                                                         *)
(* A critical section is one step, taken when nobody holds data_mutex: no  *)
(* other thread can observe its middle.  The two early returns that leave  *)
(* data_mutex locked keep the thread in `holder' forever (the mutex is of  *)
(* the default kind: its owner locks it again and blocks).  What the code  *)
(* does outside the mutex is a step of its own: the server's test of the   *)
(* two counters, and the gap between unlocking in write_request and        *)
(* locking again to wait.                                                  *)
(***************************************************************************)
EXTENDS Integers, FiniteSets, Sequences

CONSTANTS
  Clients,          (* the NUM_THREADS threads of client.c               *)
  Server,           (* the server process                                *)
  MAXSIZE,          (* slots of the ring                                 *)
  Iterations,       (* requests per thread: i with pow(2.0, i) < INT_MAX *)
  SpuriousWakeups   (* may pthread_cond_wait return without a signal?    *)

ASSUME RingAssumption ==
  /\ IsFiniteSet(Clients)
  /\ Server \notin Clients
  /\ MAXSIZE \in Nat \ {0}
  /\ Iterations \in Nat
  /\ SpuriousWakeups \in BOOLEAN

PRIME == 97

Slots == 0 .. MAXSIZE - 1
Requests == 0 .. Iterations - 1

VARIABLES
  request_buffer,    (* slot -> the x it holds (its response field is the slot) *)
  request_writes,
  request_reads,
  response_buffer,   (* slot -> a result                                        *)
  response_writes,
  response_reads,
  holder,            (* data_mutex: {} when free, else {its owner}              *)
  pc,                (* where each client is in make_requests                   *)
  x,                 (* its loop variable i                                     *)
  response,          (* the slot write_request returned to it                   *)
  result,            (* what it read from response_buffer                       *)
  server             (* where the server is in main and process_requests        *)

ring == <<request_buffer, request_writes, request_reads,
          response_buffer, response_writes, response_reads>>
vars == <<ring, holder, pc, x, response, result, server>>

Free == holder = {}
Size == request_writes - request_reads

(* int result = pow(2.0, next->x); result = result % next->p *)
Compute(n) == (2^n) % PRIME

(* The threads inside pthread_cond_wait(&response_ready[s]). *)
Sleepers(s) == {c \in Clients : pc[c] = "asleep" /\ response[c] = s}

Woken == {c \in Clients : pc[c] = "woken"}

(* Between a successful write_request and the read of a response. *)
InFlight == {c \in Clients : pc[c] \in {"written", "asleep", "woken"}}

(* The slots holding requests the server has not taken. *)
PendingSlots == {n % MAXSIZE : n \in request_reads .. request_writes - 1}

-----------------------------------------------------------------------------
(* init_ring_buffer, written to the shared object before a client maps it. *)
Init ==
  /\ request_buffer = [s \in Slots |-> 0]
  /\ request_writes = 0
  /\ request_reads = 0
  /\ response_buffer = [s \in Slots |-> 0]
  /\ response_writes = 0
  /\ response_reads = 0
  /\ holder = {}
  /\ pc = [c \in Clients |-> IF Iterations = 0 THEN "done" ELSE "call"]
  /\ x = [c \in Clients |-> 0]
  /\ response = [c \in Clients |-> 0]
  /\ result = [c \in Clients |-> 0]
  /\ server = "start"

(* Mutant: the loop condition lets one exponent too many through. *)
NextIteration_TooFar(c) ==
  /\ x' = [x EXCEPT ![c] = @ + 1]
  /\ pc' = [pc EXCEPT ![c] = IF x[c] < Iterations THEN "call" ELSE "done"]

(* The for loop of make_requests goes round, or the thread ends. *)
NextIteration(c) ==
  /\ x' = [x EXCEPT ![c] = @ + 1]
  /\ pc' = [pc EXCEPT ![c] = IF x[c] + 1 < Iterations THEN "call" ELSE "done"]

(* Mutant: the slot is read after request_writes was advanced. *)
WriteRequest_NextSlot(c) ==
  /\ pc[c] = "call"
  /\ Free
  /\ Size <= MAXSIZE - 1
  /\ request_buffer' = [request_buffer EXCEPT ![request_writes % MAXSIZE] = x[c]]
  /\ response' = [response EXCEPT ![c] = (request_writes + 1) % MAXSIZE]
  /\ request_writes' = request_writes + 1
  /\ server' = IF server = "asleep" THEN "woken" ELSE server
  /\ pc' = [pc EXCEPT ![c] = "written"]
  /\ UNCHANGED <<request_reads, response_buffer, response_writes,
                 response_reads, holder, x, result>>

(* Mutant: the test for a full ring is size > MAXSIZE. *)
WriteRequest_OneTooMany(c) ==
  /\ pc[c] = "call"
  /\ Free
  /\ Size <= MAXSIZE
  /\ LET slot == request_writes % MAXSIZE IN
       /\ request_buffer' = [request_buffer EXCEPT ![slot] = x[c]]
       /\ response' = [response EXCEPT ![c] = slot]
  /\ request_writes' = request_writes + 1
  /\ server' = IF server = "asleep" THEN "woken" ELSE server
  /\ pc' = [pc EXCEPT ![c] = "written"]
  /\ UNCHANGED <<request_reads, response_buffer, response_writes,
                 response_reads, holder, x, result>>

(* write_request stores the request, signals nonempty and unlocks. *)
WriteRequest(c) ==
  /\ pc[c] = "call"
  /\ Free
  /\ Size <= MAXSIZE - 1
  /\ LET slot == request_writes % MAXSIZE IN
       /\ request_buffer' = [request_buffer EXCEPT ![slot] = x[c]]
       /\ response' = [response EXCEPT ![c] = slot]
  /\ request_writes' = request_writes + 1
  /\ server' = IF server = "asleep" THEN "woken" ELSE server
  /\ pc' = [pc EXCEPT ![c] = "written"]
  /\ UNCHANGED <<request_reads, response_buffer, response_writes,
                 response_reads, holder, x, result>>

(* write_request finds the ring full: -1 without unlocking; `continue'. *)
WriteRequestFull(c) ==
  /\ pc[c] = "call"
  /\ Free
  /\ Size > MAXSIZE - 1
  /\ holder' = {c}
  /\ NextIteration(c)
  /\ UNCHANGED <<ring, response, result, server>>

(* Mutant: the client does not wait. *)
AwaitResponse_Not(c) ==
  /\ pc[c] = "written"
  /\ Free
  /\ pc' = [pc EXCEPT ![c] = "woken"]
  /\ UNCHANGED <<ring, holder, x, response, result, server>>

(* The client locks data_mutex and goes to sleep, releasing it. *)
AwaitResponse(c) ==
  /\ pc[c] = "written"
  /\ Free
  /\ pc' = [pc EXCEPT ![c] = "asleep"]
  /\ UNCHANGED <<ring, holder, x, response, result, server>>

SpuriousWakeup(c) ==
  /\ SpuriousWakeups
  /\ pc[c] = "asleep"
  /\ pc' = [pc EXCEPT ![c] = "woken"]
  /\ UNCHANGED <<ring, holder, x, response, result, server>>

(* Mutant: response_reads is not advanced. *)
ReadResponse_Stays(c) ==
  /\ pc[c] = "woken"
  /\ Free
  /\ result' = [result EXCEPT ![c] = response_buffer[response_reads % MAXSIZE]]
  /\ pc' = [pc EXCEPT ![c] = "report"]
  /\ UNCHANGED <<ring, holder, x, response, server>>

(* pthread_cond_wait returns with the mutex; the next unread reply is taken,
   whichever request it belongs to. *)
ReadResponse(c) ==
  /\ pc[c] = "woken"
  /\ Free
  /\ result' = [result EXCEPT ![c] = response_buffer[response_reads % MAXSIZE]]
  /\ response_reads' = response_reads + 1
  /\ pc' = [pc EXCEPT ![c] = "report"]
  /\ UNCHANGED <<request_buffer, request_writes, request_reads,
                 response_buffer, response_writes, holder, x, response, server>>

(* printf of the request with its result, usleep, i++. *)
Report(c) ==
  /\ pc[c] = "report"
  /\ NextIteration(c)
  /\ UNCHANGED <<ring, holder, response, result, server>>

-----------------------------------------------------------------------------
(* main of server.c: lock, pthread_cond_wait(&nonempty) without a test. *)
ServerAwait ==
  /\ server = "start"
  /\ Free
  /\ server' = "asleep"
  /\ UNCHANGED <<ring, holder, pc, x, response, result>>

ServerSpuriousWakeup ==
  /\ SpuriousWakeups
  /\ server = "asleep"
  /\ server' = "woken"
  /\ UNCHANGED <<ring, holder, pc, x, response, result>>

(* pthread_cond_wait returns holding the mutex, which main unlocks. *)
ServerResume ==
  /\ server = "woken"
  /\ Free
  /\ server' = "check"
  /\ UNCHANGED <<ring, holder, pc, x, response, result>>

(* Mutant: the loop leaves the last request in the ring. *)
ServerCheck_LeavesOne ==
  /\ server = "check"
  /\ server' = IF Size > 1 THEN "read" ELSE "start"
  /\ UNCHANGED <<ring, holder, pc, x, response, result>>

(* The loop test of process_requests, made without the mutex. *)
ServerCheck ==
  /\ server = "check"
  /\ server' = IF Size > 0 THEN "read" ELSE "start"
  /\ UNCHANGED <<ring, holder, pc, x, response, result>>

(* pthread_cond_signal(&response_ready[s]): one sleeper wakes, if any. *)
Signal(s) ==
  \/ /\ Sleepers(s) = {}
     /\ UNCHANGED pc
  \/ \E c \in Sleepers(s) : pc' = [pc EXCEPT ![c] = "woken"]

(* Mutant: response_writes is not advanced. *)
ReadRequest_Stays ==
  /\ server = "read"
  /\ Free
  /\ server' = "check"
  /\ IF Size < 1
     THEN /\ holder' = {Server}
          /\ UNCHANGED <<ring, pc>>
     ELSE LET slot == request_reads % MAXSIZE IN
          /\ response_buffer' = [response_buffer EXCEPT
                    ![response_writes % MAXSIZE] = Compute(request_buffer[slot])]
          /\ Signal(slot)
          /\ request_reads' = request_reads + 1
          /\ UNCHANGED <<request_buffer, request_writes, response_writes,
                         response_reads, holder>>
  /\ UNCHANGED <<x, response, result>>

(* read_request tests the counters again under the mutex: finding nothing it
   returns without unlocking; else it takes the oldest request, stores its
   result and signals the sleepers of that slot. *)
ReadRequest ==
  /\ server = "read"
  /\ Free
  /\ server' = "check"
  /\ IF Size < 1
     THEN /\ holder' = {Server}
          /\ UNCHANGED <<ring, pc>>
     ELSE LET slot == request_reads % MAXSIZE IN
          /\ response_buffer' = [response_buffer EXCEPT
                    ![response_writes % MAXSIZE] = Compute(request_buffer[slot])]
          /\ Signal(slot)
          /\ request_reads' = request_reads + 1
          /\ response_writes' = response_writes + 1
          /\ UNCHANGED <<request_buffer, request_writes, response_reads, holder>>
  /\ UNCHANGED <<x, response, result>>

-----------------------------------------------------------------------------
ClientStep(c) ==
  WriteRequest(c) \/ WriteRequestFull(c) \/ AwaitResponse(c)
    \/ ReadResponse(c) \/ Report(c)

ServerStep == ServerAwait \/ ServerResume \/ ServerCheck \/ ReadRequest

Next ==
  \/ \E c \in Clients : ClientStep(c) \/ SpuriousWakeup(c)
  \/ ServerStep
  \/ ServerSpuriousWakeup

Spec == Init /\ [][Next]_vars

(* Every thread that can run is scheduled.  Between two steps data_mutex is
   free unless it was leaked, so weak fairness is enough for the lock. *)
Fairness == WF_vars(ServerStep) /\ \A c \in Clients : WF_vars(ClientStep(c))

FairSpec == Spec /\ Fairness

-----------------------------------------------------------------------------
Answers == {Compute(n) : n \in Requests \cup {0}} \cup {0}

TypeOK ==
  /\ request_buffer \in [Slots -> Requests \cup {0}]
  /\ request_writes \in Nat
  /\ request_reads \in Nat
  /\ response_buffer \in [Slots -> Answers]
  /\ response_writes \in Nat
  /\ response_reads \in Nat
  /\ holder \in SUBSET (Clients \cup {Server})
  /\ pc \in [Clients -> {"call", "written", "asleep", "woken", "report", "done"}]
  /\ x \in [Clients -> 0 .. Iterations]
  /\ \A c \in Clients : pc[c] # "done" => x[c] \in Requests
  /\ response \in [Clients -> Slots]
  /\ result \in [Clients -> Answers]
  /\ server \in {"start", "asleep", "woken", "check", "read"}

(* The response a woken client takes has been written: response_reads never
   passes response_writes, although no client compares the two. *)
ReadsOnlyReplies ==
  /\ response_reads <= response_writes
  /\ \A c \in Woken : response_reads < response_writes

(* No reply is overwritten before it has been read, although read_request
   never looks at response_reads. *)
UnreadRepliesKept == response_writes - response_reads <= MAXSIZE

(* Every request still in the ring has a client that will be, or already is,
   waiting on the condition variable of its slot. *)
PendingHasCaller ==
  \A s \in PendingSlots : \E c \in Clients :
    pc[c] \in {"written", "asleep"} /\ response[c] = s

(* The counters and the callers balance: every request was written by a caller
   that is still in flight or has read one response, and every caller that was
   woken is owed a response already written.  So no thread returns from
   write_request or read_request with data_mutex locked: with NUM_THREADS =
   MAXSIZE, as in the code, and waits that return when signalled, no caller ever
   meets a full ring.  ReadsOnlyReplies and UnreadRepliesKept follow from it; it
   is inductive, they are not. *)
CallersBalance ==
  /\ TypeOK
  /\ holder = {}
  /\ response_writes = request_reads
  /\ request_reads <= request_writes
  /\ server = "read" => request_reads < request_writes
  /\ request_writes = response_reads + Cardinality(InFlight)
  /\ response_reads + Cardinality(Woken) <= response_writes

(* Once awake the server serves every request in the ring before it sleeps. *)
ServerAwake == server \in {"woken", "check", "read"}

ServerDrains ==
  \A n \in 0 .. Iterations * Cardinality(Clients) :
    (ServerAwake /\ request_reads = n /\ Size > 0) ~> (request_reads > n)

(* The ring implements the service: requests are answered once each, in the
   order they were written, whatever wakes whom and even after a leaked lock. *)
Service == INSTANCE RequestService WITH
  Capacity <- MAXSIZE,
  pending <- [k \in 1 .. Size |-> request_buffer[(request_reads + k - 1) % MAXSIZE]],
  replied <- response_writes,
  reply <- IF response_writes = 0 THEN 0
           ELSE response_buffer[(response_writes - 1) % MAXSIZE]

ServiceSpec == Service!Spec

-----------------------------------------------------------------------------
(* What the report of project2 says of the program and the code does not do. *)

(* "The service should then reply with the return value": a client prints the
   answer to its own request. *)
AnswersMatchRequests ==
  \A c \in Clients : pc[c] = "report" => result[c] = Compute(x[c])

(* "The service then notifies the client that a response has been filled, and
   the client retrieves the response". *)
ReplyReachesCaller ==
  \A c \in Clients :
    (pc[c] \in {"written", "asleep"} /\ response[c] \notin PendingSlots)
      ~> (pc[c] = "report")
=============================================================================

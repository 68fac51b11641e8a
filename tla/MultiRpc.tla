------------------------------ MODULE MultiRpc ------------------------------
(***************************************************************************)
(* project3: the client sends one request to each of N servers, a thread   *)
(* for each, and runs a callback when enough of them have answered         *)
(* (examples/xmlrpc_client.c).  The caller, client_start_sync, creates the *)
(* threads, waits once on client_satisfied and runs the callback; the      *)
(* response handler counts the responses under result_mutex and signals.   *)
(*                                                                         *)
(* What the threads share is modelled as they share it: request_data, one  *)
(* struct in the caller's frame that the creation loop overwrites, and the *)
(* setup count of the XML-RPC library.  The handler's critical section is  *)
(* a step, as nobody sees its middle.  The caller keeps result_mutex once  *)
(* its wait has returned; destroying it locked leaves it locked (EBUSY).   *)
(* The servers and the transport answer each request once or with a fault. *)
(***************************************************************************)
EXTENDS Integers, FiniteSets

CONSTANTS
  N,                (* num_servers                                           *)
  Unreported,       (* the callback has not run                              *)
  SpuriousWakeups,  (* may pthread_cond_wait return without a signal?        *)
  LocalFaults       (* may pthread_create or the library fail, so that the
                       program exits?                                        *)

ASSUME MultiRpcAssumption ==
  /\ N \in Nat \ {0}
  /\ Unreported \notin Nat
  /\ SpuriousWakeups \in BOOLEAN
  /\ LocalFaults \in BOOLEAN

MAJORITY == 0
ANY == 1
ALL == 2

Threads == 1 .. N      (* thread t is created for server_list[t]: server t *)

VARIABLES
  option,
  healthy,         (* the servers that answer without a fault                  *)
  caller,          (* where client_start_sync is                               *)
  created,         (* its loop variable t: threads created so far              *)
  server_name,     (* request_data.server_name (0: not yet assigned)           *)
  thread,          (* where each thread is in MakeRequest                      *)
  name,            (* the server each thread read from request_data            *)
  constSetupCount, (* of the library; only compared with 0, so it stays at 1   *)
  result_mutex,    (* between two steps: "free" or the caller's                *)
  num_responses,
  value,           (* the server that gave the value kept last                 *)
  report           (* what the callback printed as the number of servers       *)

shared == <<result_mutex, num_responses, value>>
request == <<server_name, name, constSetupCount>>
vars == <<option, healthy, caller, created, thread, request, shared, report>>

Running == caller # "exited"
Answered == {t \in Threads : thread[t] = "answered"}

(* Mutant: half of the servers are taken for a majority. *)
Signals_AtHalf(n) ==
  \/ option = MAJORITY /\ n >= N \div 2
  \/ option = ANY
  \/ option \notin {MAJORITY, ANY} /\ n = N

(* Mutant: one response more than a majority is asked for. *)
Signals_TooLate(n) ==
  \/ option = MAJORITY /\ n > N \div 2 + 1
  \/ option = ANY
  \/ option \notin {MAJORITY, ANY} /\ n = N

(* The test under which the response handler signals, n responses counted. *)
Signals(n) ==
  \/ option = MAJORITY /\ n >= N \div 2 + 1
  \/ option = ANY
  \/ option \notin {MAJORITY, ANY} /\ n = N

-----------------------------------------------------------------------------
(* The command line, and client_start_sync up to its loop. *)
Init ==
  /\ option \in {MAJORITY, ANY, ALL}
  /\ healthy \in SUBSET Threads
  /\ caller = "create"
  /\ created = 0
  /\ server_name = 0
  /\ thread = [t \in Threads |-> "unborn"]
  /\ name = [t \in Threads |-> 0]
  /\ constSetupCount = 0
  /\ result_mutex = "free"
  /\ num_responses = 0
  /\ value = 0
  /\ report = Unreported

(* Mutant: the creation loop goes once too far. *)
CreateThread_TooMany ==
  /\ caller = "create"
  /\ created <= N
  /\ created' = created + 1
  /\ server_name' = created + 1
  /\ thread' = [thread EXCEPT ![created + 1] = "started"]
  /\ UNCHANGED <<option, healthy, caller, name, constSetupCount, shared, report>>

(* request_data.server_name = server_list[t]; pthread_create. *)
CreateThread ==
  /\ caller = "create"
  /\ created < N
  /\ created' = created + 1
  /\ server_name' = created + 1
  /\ thread' = [thread EXCEPT ![created + 1] = "started"]
  /\ UNCHANGED <<option, healthy, caller, name, constSetupCount, shared, report>>

(* Mutant: the caller does not wait. *)
Await_Not ==
  /\ caller = "create"
  /\ created = N
  /\ result_mutex = "free"
  /\ caller' = "woken"
  /\ UNCHANGED <<option, healthy, created, thread, request, shared, report>>

(* pthread_mutex_lock, then pthread_cond_wait without a test. *)
Await ==
  /\ caller = "create"
  /\ created = N
  /\ result_mutex = "free"
  /\ caller' = "asleep"
  /\ UNCHANGED <<option, healthy, created, thread, request, shared, report>>

SpuriousWakeup ==
  /\ SpuriousWakeups
  /\ caller = "asleep"
  /\ caller' = "woken"
  /\ UNCHANGED <<option, healthy, created, thread, request, shared, report>>

(* Mutant: the pthread_mutex_unlock that the code comments out. *)
Callback_Unlocks ==
  /\ caller = "woken"
  /\ result_mutex = "free"
  /\ report' = num_responses
  /\ caller' = "returned"
  /\ UNCHANGED <<option, healthy, created, thread, request, shared>>

(* The wait returns with result_mutex, which is never unlocked; the callback
   prints; client_start_sync returns and its frame is gone. *)
Callback ==
  /\ caller = "woken"
  /\ result_mutex = "free"
  /\ result_mutex' = "caller"
  /\ report' = num_responses
  /\ caller' = "returned"
  /\ UNCHANGED <<option, healthy, created, thread, request, num_responses, value>>

(* main returns; the threads die with the process. *)
MainReturns ==
  /\ caller = "returned"
  /\ caller' = "exited"
  /\ UNCHANGED <<option, healthy, created, thread, request, shared, report>>

-----------------------------------------------------------------------------
(* MakeRequest copies *request_data.  Once the caller has returned the struct
   is dead and the read undefined: the thread is lost. *)
ReadRequestData(t) ==
  /\ thread[t] = "started"
  /\ Running
  /\ IF caller = "returned"
     THEN /\ thread' = [thread EXCEPT ![t] = "lost"]
          /\ UNCHANGED name
     ELSE /\ thread' = [thread EXCEPT ![t] = "setup"]
          /\ name' = [name EXCEPT ![t] = server_name]
  /\ UNCHANGED <<option, healthy, caller, created, server_name, constSetupCount,
                 shared, report>>

(* xmlrpc_client_setup_global_const: the test of constSetupCount ... *)
SetupTest(t) ==
  /\ thread[t] = "setup"
  /\ Running
  /\ thread' = [thread EXCEPT ![t] = IF constSetupCount = 0 THEN "transport" ELSE "ready"]
  /\ UNCHANGED <<option, healthy, caller, created, request, shared, report>>

(* ... and its increment, after the transports have been set up. *)
SetupTransport(t) ==
  /\ thread[t] = "transport"
  /\ Running
  /\ constSetupCount' = 1
  /\ thread' = [thread EXCEPT ![t] = "ready"]
  /\ UNCHANGED <<option, healthy, caller, created, server_name, name, shared, report>>

(* xmlrpc_client_create, xmlrpc_client_start_rpcf. *)
StartRpc(t) ==
  /\ thread[t] = "ready"
  /\ Running
  /\ thread' = [thread EXCEPT ![t] = "calling"]
  /\ UNCHANGED <<option, healthy, caller, created, request, shared, report>>

(* die_if_fault_occurred, or pthread_create failing in the caller: exit(1). *)
Die ==
  /\ LocalFaults
  /\ \/ caller = "create" /\ created < N
     \/ Running /\ \E t \in Threads : thread[t] \in {"transport", "ready", "calling"}
  /\ caller' = "exited"
  /\ UNCHANGED <<option, healthy, created, thread, request, shared, report>>

(* Mutant: a response that is a fault is counted. *)
ResponseFault_Counts(t) ==
  /\ thread[t] = "calling"
  /\ Running
  /\ name[t] \notin healthy
  /\ thread' = [thread EXCEPT ![t] = "failed"]
  /\ num_responses' = num_responses + 1
  /\ UNCHANGED <<option, healthy, caller, created, request, result_mutex, value, report>>

(* handle_sample_add_response with a fault: it is printed and not counted. *)
ResponseFault(t) ==
  /\ thread[t] = "calling"
  /\ Running
  /\ name[t] \notin healthy
  /\ thread' = [thread EXCEPT ![t] = "failed"]
  /\ UNCHANGED <<option, healthy, caller, created, request, shared, report>>

(* handle_sample_add_response with a sum.  The signal wakes the caller if it
   is waiting and is lost if it is not. *)
Response(t) ==
  /\ thread[t] = "calling"
  /\ Running
  /\ name[t] \in healthy
  /\ result_mutex = "free"
  /\ num_responses' = num_responses + 1
  /\ value' = name[t]
  /\ caller' = IF caller = "asleep" /\ Signals(num_responses + 1)
               THEN "woken" ELSE caller
  /\ thread' = [thread EXCEPT ![t] = "answered"]
  /\ UNCHANGED <<option, healthy, created, request, result_mutex, report>>

-----------------------------------------------------------------------------
CallerStep == CreateThread \/ Await \/ Callback \/ MainReturns

ThreadStep(t) ==
  \/ ReadRequestData(t) \/ SetupTest(t) \/ SetupTransport(t)
  \/ StartRpc(t) \/ ResponseFault(t) \/ Response(t)

Next ==
  \/ CallerStep
  \/ SpuriousWakeup
  \/ Die
  \/ \E t \in Threads : ThreadStep(t)

Spec == Init /\ [][Next]_vars

(* Every thread that can run is scheduled and every request is answered or
   fails.  result_mutex is free between two steps until the callback runs. *)
Fairness == WF_vars(CallerStep) /\ \A t \in Threads : WF_vars(ThreadStep(t))

FairSpec == Spec /\ Fairness

-----------------------------------------------------------------------------
TypeOK ==
  /\ option \in {MAJORITY, ANY, ALL}
  /\ healthy \in SUBSET Threads
  /\ caller \in {"create", "asleep", "woken", "returned", "exited"}
  /\ created \in 0 .. N
  /\ server_name \in 0 .. N
  /\ thread \in [Threads -> {"unborn", "started", "setup", "transport", "ready",
                             "calling", "answered", "failed", "lost"}]
  /\ name \in [Threads -> 0 .. N]
  /\ constSetupCount \in {0, 1}
  /\ result_mutex \in {"free", "caller"}
  /\ num_responses \in Nat
  /\ value \in 0 .. N
  /\ report \in Nat \cup {Unreported}

(* The promise to the user, with the responses that were counted. *)
Semantics == INSTANCE ResponseSemantics WITH
  responses <- num_responses,
  reported <- report

SemanticsSpec == Semantics!Spec

(* The callback runs only when the option is satisfied, whatever responses
   come in between the signal and the return of the wait: a response is counted
   once for each thread that answered, a woken caller has been signalled for
   good reason, more responses do not spoil it, and after the callback none is
   counted. *)
CountsAnswers ==
  /\ TypeOK
  /\ \A t \in Threads : t > created => thread[t] = "unborn"
  /\ num_responses = Cardinality(Answered)
  /\ caller = "woken" => Semantics!Satisfies(option, num_responses)
  /\ caller = "returned" => result_mutex = "caller"
  /\ caller \in {"create", "asleep", "woken"} => report = Unreported
  /\ result_mutex = "caller" => report # Unreported
  /\ report # Unreported =>
       /\ result_mutex = "caller"
       /\ report = num_responses
       /\ Semantics!Satisfies(option, report)

(* The number the callback prints is the number of responses there ever are:
   no handler gets past result_mutex any more, even if the wait returned
   without a signal. *)
ReportIsFinal ==
  report # Unreported => report = num_responses /\ result_mutex = "caller"

(* The threads whose response is still to be counted. *)
StillComing ==
  {t \in Threads : /\ thread[t] \in {"setup", "transport", "ready", "calling"}
                   /\ name[t] \in healthy}

(* A caller that is waiting in time, while responses that satisfy its option
   are still to come, is woken: no handler swallows the deciding signal. *)
WaiterIsWoken ==
  (/\ caller = "asleep"
   /\ StillComing # {}
   /\ Semantics!Satisfies(option, num_responses + Cardinality(StillComing)))
    ~> (caller # "asleep")

-----------------------------------------------------------------------------
(* What the report of project3 says and the program does not do. *)

(* "ALL requires all servers to report back": the callback of an ALL request
   has an answer of every server on the command line. *)
AllMeansAll ==
  report # Unreported /\ option = ALL =>
    Threads \subseteq {name[t] : t \in Answered}
=============================================================================

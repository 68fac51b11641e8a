--------------------------- MODULE ClientTransport ---------------------------
(***************************************************************************)
(* The xmlrpc-c client (src/xmlrpc_client.c, xmlrpc_client_global.c) over  *)
(* its Curl transport (lib/curl_transport/xmlrpc_curl_transport.c), which  *)
(* the clients of project3 are linked with.                                *)
(*                                                                         *)
(* Threads start asynchronous RPCs, any of them calls the event loop that  *)
(* finishes them (finish_asynch), and any of them makes synchronous calls  *)
(* over the one session kept for those.  A call of the Curl multi manager  *)
(* is made under the manager's lock and is one step; between two of them   *)
(* any other thread may run.  libcurl itself and the HTTP servers are      *)
(* external: a transfer is `added' until curl_multi_perform sends it,      *)
(* `running' until its server has answered, `ready' until                  *)
(* curl_multi_perform reads the answer, then `done', with a message in the *)
(* manager's queue.  A select, a manager call, an allocation, a transfer   *)
(* or the HTTP request may fail, as far as Failures lets it.               *)
(***************************************************************************)
EXTENDS Integers, FiniteSets, Sequences, SequencesExt

CONSTANTS
  Threads,      (* threads of the client program                            *)
  Rpcs,         (* the asynchronous RPCs it may start                       *)
  Failures,     (* what may fail: a subset of AnyFailure                    *)
  MaxSetups     (* bound on constSetupCount                                 *)

(* What starting an RPC acquires, in this order; the step it fails at.      *)
StartSteps == <<"callInfo", "callXml", "asynchData", "response", "session",
                "rpc", "transaction", "serverUrl", "headerList", "setup",
                "handle">>
Resources == ToSet(StartSteps) \ {"setup", "handle"}
AnyFailure == ToSet(StartSteps)
                \cup {"globalSetup", "create", "select", "perform",
                      "http", "transfer"}

ASSUME TransportAssumption ==
  /\ IsFiniteSet(Threads)
  /\ IsFiniteSet(Rpcs)
  /\ Failures \subseteq AnyFailure
  /\ MaxSetups \in Nat

VARIABLES
  constSetupCount,
  constants,     (* the transport's setup: "unset", "set" or "failed"       *)
  client,        (* globalClientP: "none" or "up"                           *)
  asked,         (* RPC -> "no", "refused" or "accepted" by start_rpc       *)
  held,          (* RPC -> what is allocated for it                         *)
  transfer,      (* RPC -> "none", "added", "running", "ready", "done"      *)
  outcome,       (* RPC -> "ok", or what went wrong: "http", "transfer"     *)
  handles,       (* the RPCs whose session is in the multi manager          *)
  messages,      (* the manager's queue of completed sessions               *)
  told,          (* RPC -> what its callback was called with, in order      *)
  pc,
  current,       (* thread -> {} or the RPC whose message it took           *)
  running,       (* thread -> runningHandles > 0 at its last perform        *)
  fault,         (* thread -> the fault in finishAsynch's env, or "none"    *)
  until,         (* thread -> timeoutType: "forever" or "deadline"          *)
  late,          (* thread -> "yes" when its deadline had passed            *)
  owed,          (* thread -> RPCs outstanding when its finish was called   *)
  sessionLock,   (* syncCurlSessionLockP: {} or its holder                  *)
  session,       (* {} or whose transaction the synchronous session carries *)
  replies        (* thread -> responses in its synchronous response buffer  *)

global == <<constSetupCount, constants, client>>
multi == <<transfer, outcome, handles, messages>>
loop == <<current, running, fault, until, late, owed>>
sync == <<sessionLock, session, replies>>
vars == <<global, asked, held, multi, told, pc, loop, sync>>

Accepted == {r \in Rpcs : asked[r] = "accepted"}
Outstanding == {r \in Accepted : told[r] = <<>>}
InHands == UNION {current[t] : t \in Threads}

At(t, here) == pc[t] = here
Goto(t, there) == pc' = [pc EXCEPT ![t] = there]

Init ==
  /\ constSetupCount = 0
  /\ constants = "unset"
  /\ client = "none"
  /\ asked = [r \in Rpcs |-> "no"]
  /\ held = [r \in Rpcs |-> {}]
  /\ transfer = [r \in Rpcs |-> "none"]
  /\ outcome = [r \in Rpcs |-> "ok"]
  /\ handles = {}
  /\ messages = <<>>
  /\ told = [r \in Rpcs |-> <<>>]
  /\ pc = [t \in Threads |-> "idle"]
  /\ current = [t \in Threads |-> {}]
  /\ running = [t \in Threads |-> "still"]
  /\ fault = [t \in Threads |-> "none"]
  /\ until = [t \in Threads |-> "forever"]
  /\ late = [t \in Threads |-> "no"]
  /\ owed = [t \in Threads |-> {}]
  /\ sessionLock = {}
  /\ session = {}
  /\ replies = [t \in Threads |-> 0]

-----------------------------------------------------------------------------
(*                     The global client and its constants                  *)

(* Mutant: the destruction of a client takes a count of its own back too. *)
Teardown_Twice(count) ==
  /\ constSetupCount' = count - 2
  /\ constants' = IF count - 2 <= 0 THEN "unset" ELSE constants

(* xmlrpc_client_teardown_global_const *)
Teardown(count) ==
  /\ constSetupCount' = count - 1
  /\ constants' = IF count - 1 = 0 THEN "unset" ELSE constants

(* Mutant: a client that could not be created does not take back its count. *)
ClientInitFails_KeepsCount ==
  /\ client = "none"
  /\ constSetupCount < MaxSetups
  /\ \E why \in {"globalSetup", "create"} \cap Failures :
       /\ why = "globalSetup" => constSetupCount = 0
       /\ constSetupCount' = constSetupCount + 1
       /\ constants' = IF why = "create" THEN "unset" ELSE "failed"
  /\ UNCHANGED <<client, asked, held, multi, told, pc, loop, sync>>

(* xmlrpc_client_init2: the first call sets the constants up, every call    *)
(* counts, and a client is made.                                            *)
ClientInit ==
  /\ client = "none"
  /\ constSetupCount < MaxSetups
  /\ constSetupCount' = constSetupCount + 1
  /\ constants' = IF constSetupCount = 0 THEN "set" ELSE constants
  /\ client' = "up"
  /\ UNCHANGED <<asked, held, multi, told, pc, loop, sync>>

(* It fails in the setup, which is counted all the same and not undone, or  *)
(* in the creation of the client, which is undone.                          *)
ClientInitFails ==
  /\ client = "none"
  /\ constSetupCount < MaxSetups
  /\ \E why \in {"globalSetup", "create"} \cap Failures :
       IF why = "create"
       THEN Teardown(constSetupCount + 1)
       ELSE /\ constSetupCount = 0
            /\ constSetupCount' = 1
            /\ constants' = "failed"
  /\ UNCHANGED <<client, asked, held, multi, told, pc, loop, sync>>

(* xmlrpc_client_cleanup.  `A condition of destroying the transport is that *)
(* there be no outstanding RPCs', and no thread is inside the client.       *)
ClientCleanup ==
  /\ client = "up"
  /\ Outstanding = {}
  /\ \A t \in Threads : At(t, "idle")
  /\ client' = "none"
  /\ Teardown(constSetupCount)
  /\ UNCHANGED <<asked, held, multi, told, pc, loop, sync>>

-----------------------------------------------------------------------------
(*                          Starting an RPC                                 *)

(* Where a step comes in StartSteps; what was acquired before it failed.    *)
StepNo(step) == CHOOSE n \in 1 .. Len(StartSteps) : StartSteps[n] = step
Before(step) == {StartSteps[n] : n \in 1 .. StepNo(step) - 1} \cap Resources

(* Each function gives back, when the fault reaches it, what it acquired    *)
(* itself: createCurlTransaction its url and block (the header list it does *)
(* not), createRpc the rpc, sendRequest the session and response buffer and *)
(* on a failure to add the handle the whole RPC, and start_rpc the call     *)
(* info with what hangs on it, once call_info_new has handed it over.       *)
DestroyRpc == {"headerList", "serverUrl", "transaction", "rpc"}
CreateRpcGivesBack == {"serverUrl", "transaction", "rpc"}
CallInfoFree == {"asynchData", "callXml", "callInfo"}

(* Mutant: sendRequest does not give the response buffer back. *)
GivenBack_NoBuffer(step) ==
  (IF step = "callXml" THEN {} ELSE CallInfoFree)
    \cup {"session"}
    \cup (IF step = "handle" THEN DestroyRpc ELSE CreateRpcGivesBack)

GivenBack(step) ==
  (IF step = "callXml" THEN {} ELSE CallInfoFree)
    \cup {"session", "response"}
    \cup (IF step = "handle" THEN DestroyRpc ELSE CreateRpcGivesBack)

CanStart(t, r) ==
  /\ client = "up"
  /\ pc[t] \in {"idle", "callback"}
  /\ asked[r] = "no"

(* xmlrpc_client_start_rpc, also from within a callback. *)
StartRpc(t, r) ==
  /\ CanStart(t, r)
  /\ asked' = [asked EXCEPT ![r] = "accepted"]
  /\ held' = [held EXCEPT ![r] = Resources]
  /\ handles' = handles \cup {r}
  /\ transfer' = [transfer EXCEPT ![r] = "added"]
  /\ UNCHANGED <<global, outcome, messages, told, pc, loop, sync>>

(* It fails at one of its steps.  A private client's caller is given the    *)
(* fault only; the wrappers of the global client call the callback with it  *)
(* at once.  (Without a client every start is refused and changes nothing.) *)
RefuseRpc(t, r) ==
  /\ CanStart(t, r)
  /\ \E step \in ToSet(StartSteps) \cap Failures :
       held' = [held EXCEPT ![r] = Before(step) \ GivenBack(step)]
  /\ asked' = [asked EXCEPT ![r] = "refused"]
  /\ told' \in {told, [told EXCEPT ![r] = <<"refused">>]}
  /\ UNCHANGED <<global, multi, pc, loop, sync>>

(* External: the server's answer reaches the socket, or the exchange breaks. *)
ServerAnswers(r) ==
  /\ transfer[r] = "running"
  /\ transfer' = [transfer EXCEPT ![r] = "ready"]
  /\ \E how \in {"ok"} \cup ({"http", "transfer"} \cap Failures) :
       outcome' = [outcome EXCEPT ![r] = how]
  /\ UNCHANGED <<global, asked, held, handles, messages, told, pc, loop, sync>>

-----------------------------------------------------------------------------
(*                  The event loop: finish_asynch                           *)

(* xmlrpc_client_event_loop_finish or _finish_timeout *)
FinishAsynch(t, type) ==
  /\ client = "up"
  /\ At(t, "idle")
  /\ Goto(t, "wait")
  /\ until' = [until EXCEPT ![t] = type]
  /\ owed' = [owed EXCEPT ![t] = Outstanding]
  /\ UNCHANGED <<global, asked, held, multi, told, current, running, fault,
                 late, sync>>

(* waitForWork: select, when the manager has anything to wait on, for three *)
(* seconds at most.                                                         *)
WaitForWork(t) ==
  /\ At(t, "wait")
  /\ Goto(t, "perform")
  /\ UNCHANGED <<global, asked, held, multi, told, loop, sync>>

(* The select or the perform fails: a fault in the environment of the loop, *)
(* which ends it.  An interrupted select is a failure like any other.       *)
LoopFails(t) ==
  /\ \E what \in {"select", "perform"} \cap Failures :
       /\ IF what = "select" THEN At(t, "wait") /\ handles # {}
                              ELSE At(t, "perform")
       /\ fault' = [fault EXCEPT ![t] = what]
  /\ Goto(t, "return")
  /\ UNCHANGED <<global, asked, held, multi, told, current, running, until,
                 late, owed, sync>>

(* What a perform leaves of the transfers: those it sends, and one it ends. *)
Performed(ended) ==
  [r \in Rpcs |-> IF r \in ended THEN "done"
                  ELSE IF transfer[r] = "added" THEN "running"
                  ELSE transfer[r]]

(* Mutant: only the transfers this call sends count as running. *)
Perform_CountsSent(t) ==
  /\ At(t, "perform")
  /\ \/ \E r \in Rpcs :
          /\ transfer[r] = "ready"
          /\ transfer' = Performed({r})
          /\ messages' = Append(messages, r)
          /\ UNCHANGED <<pc, running>>
     \/ /\ \A r \in Rpcs : transfer[r] # "ready"
        /\ transfer' = Performed({})
        /\ running' = [running EXCEPT ![t] =
                         IF \E r \in Rpcs : transfer[r] = "added"
                         THEN "still" ELSE "none"]
        /\ Goto(t, "messages")
        /\ UNCHANGED messages
  /\ UNCHANGED <<global, asked, held, outcome, handles, told, current, fault,
                 until, late, owed, sync>>

(* doCurlWork calls curl_multi_perform until there is no immediate work.    *)
(* The last call says whether any transfer is still running: a value read   *)
(* under the manager's lock, and used after the callbacks have run.         *)
Perform(t) ==
  /\ At(t, "perform")
  /\ \/ \E r \in Rpcs :
          /\ transfer[r] = "ready"
          /\ transfer' = Performed({r})
          /\ messages' = Append(messages, r)
          /\ UNCHANGED <<pc, running>>
     \/ /\ \A r \in Rpcs : transfer[r] # "ready"
        /\ transfer' = Performed({})
        /\ running' = [running EXCEPT ![t] =
                         IF \E r \in Rpcs : transfer'[r] = "running"
                         THEN "still" ELSE "none"]
        /\ Goto(t, "messages")
        /\ UNCHANGED messages
  /\ UNCHANGED <<global, asked, held, outcome, handles, told, current, fault,
                 until, late, owed, sync>>

(* Mutant: the message is looked at under the lock but left in the queue. *)
GetMessage_Peeks(t) ==
  /\ At(t, "messages")
  /\ messages # <<>>
  /\ current' = [current EXCEPT ![t] = {Head(messages)}]
  /\ Goto(t, "finish")
  /\ UNCHANGED <<global, asked, held, multi, told, running, fault, until, late,
                 owed, sync>>

(* processCurlMessages takes the next message from the queue ... *)
GetMessage(t) ==
  /\ At(t, "messages")
  /\ messages # <<>>
  /\ current' = [current EXCEPT ![t] = {Head(messages)}]
  /\ messages' = Tail(messages)
  /\ Goto(t, "finish")
  /\ UNCHANGED <<global, asked, held, transfer, outcome, handles, told,
                 running, fault, until, late, owed, sync>>

(* ... or finds none, and the turn of the loop is over. *)
EndOfMessages(t) ==
  /\ At(t, "messages")
  /\ messages = <<>>
  /\ Goto(t, "test")
  /\ UNCHANGED <<global, asked, held, multi, told, loop, sync>>

(* What asynchComplete makes of a transfer's result.  The failure of a      *)
(* transfer is not in the environment it is given, so it parses whatever    *)
(* part of the response has come, which may be the whole of it.             *)
Answers(r) ==
  CASE outcome[r] = "ok" -> {"ok"}
    [] outcome[r] = "http" -> {"fault"}
    [] outcome[r] = "transfer" -> {"ok", "fault"}

(* finishCurlTransaction: out of the manager, then the user's callback.  A  *)
(* failed transfer is put in the environment of the loop.                   *)
FinishTransaction(t) ==
  /\ At(t, "finish")
  /\ \E r \in current[t] :
       /\ handles' = handles \ {r}
       /\ fault' = IF outcome[r] = "transfer"
                   THEN [fault EXCEPT ![t] = "transfer"] ELSE fault
       /\ \E said \in Answers(r) : told' = [told EXCEPT ![r] = Append(@, said)]
  /\ Goto(t, "callback")
  /\ UNCHANGED <<global, asked, held, transfer, outcome, messages, current,
                 running, until, late, owed, sync>>

(* The callback returns, what the RPC held is freed; on a fault no further  *)
(* message is taken.                                                        *)
CallbackReturns(t) ==
  /\ At(t, "callback")
  /\ held' = [r \in Rpcs |-> IF r \in current[t] THEN {} ELSE held[r]]
  /\ current' = [current EXCEPT ![t] = {}]
  /\ Goto(t, IF fault[t] = "none" THEN "messages" ELSE "test")
  /\ UNCHANGED <<global, asked, multi, told, running, fault, until, late, owed,
                 sync>>

(* Mutant: the loop ends only at its deadline. *)
LoopTest_OnlyDeadline(t) ==
  /\ At(t, "test")
  /\ \E passed \in IF until[t] = "deadline" THEN {"no", "yes"} ELSE {"no"} :
       /\ late' = [late EXCEPT ![t] = passed]
       /\ Goto(t, IF passed = "yes" \/ fault[t] # "none"
                  THEN "return" ELSE "wait")
  /\ UNCHANGED <<global, asked, held, multi, told, current, running, fault,
                 until, owed, sync>>

(* finishCurlSessions goes round while RPCs are running, in time, no fault. *)
LoopTest(t) ==
  /\ At(t, "test")
  /\ \E passed \in IF until[t] = "deadline" THEN {"no", "yes"} ELSE {"no"} :
       /\ late' = [late EXCEPT ![t] = passed]
       /\ Goto(t, IF running[t] = "none" \/ passed = "yes" \/ fault[t] # "none"
                  THEN "return" ELSE "wait")
  /\ UNCHANGED <<global, asked, held, multi, told, current, running, fault,
                 until, owed, sync>>

(* finishAsynch reports a fault on stderr only, and returns: its locals go. *)
Return(t) ==
  /\ At(t, "return")
  /\ Goto(t, "idle")
  /\ owed' = [owed EXCEPT ![t] = {}]
  /\ running' = [running EXCEPT ![t] = "still"]
  /\ fault' = [fault EXCEPT ![t] = "none"]
  /\ until' = [until EXCEPT ![t] = "forever"]
  /\ late' = [late EXCEPT ![t] = "no"]
  /\ UNCHANGED <<global, asked, held, multi, told, current, sync>>

-----------------------------------------------------------------------------
(*                     A synchronous call: xmlrpc_client_call2              *)

(* Mutant: the lock of the synchronous session is not taken. *)
Call_NoLock(t) ==
  /\ client = "up"
  /\ At(t, "idle")
  /\ session' = {t}
  /\ replies' = [replies EXCEPT ![t] = 0]
  /\ Goto(t, "exchange")
  /\ UNCHANGED <<global, asked, held, multi, told, loop, sessionLock>>

(* The steps of an RPC's start that a synchronous call makes under the lock. *)
SyncSteps == {"rpc", "transaction", "serverUrl", "headerList", "setup"}

(* call: under the lock the session is set up for this thread's request and *)
(* its own new response buffer, or a step of that setup fails and nothing   *)
(* is sent.  (What fails before, the response buffer, takes no lock.)       *)
Call(t) ==
  /\ client = "up"
  /\ At(t, "idle")
  /\ sessionLock = {}
  /\ sessionLock' = {t}
  /\ session' = {t}
  /\ replies' = [replies EXCEPT ![t] = 0]
  /\ \/ Goto(t, "exchange")
     \/ SyncSteps \cap Failures # {} /\ Goto(t, "failed")
  /\ UNCHANGED <<global, asked, held, multi, told, loop>>

(* curl_easy_perform: the response is collected into the buffer of whoever  *)
(* the session is set up for; a failure leaves part of it, or none.         *)
Exchange(t) ==
  /\ At(t, "exchange")
  /\ \/ /\ replies' = [u \in Threads |->
                         IF u \in session THEN replies[u] + 1 ELSE replies[u]]
        /\ Goto(t, "answered")
     \/ /\ {"http", "transfer"} \cap Failures # {}
        /\ Goto(t, "failed")
        /\ UNCHANGED replies
  /\ UNCHANGED <<global, asked, held, multi, told, loop, sessionLock, session>>

(* The transaction is destroyed, the lock released; the caller parses the   *)
(* response or gets the fault.                                              *)
CallReturns(t) ==
  /\ pc[t] \in {"answered", "failed"}
  /\ sessionLock' = sessionLock \ {t}
  /\ session' = session \ {t}
  /\ replies' = [replies EXCEPT ![t] = 0]
  /\ Goto(t, "idle")
  /\ UNCHANGED <<global, asked, held, multi, told, loop>>

-----------------------------------------------------------------------------
LoopStep(t) ==
  \/ WaitForWork(t)
  \/ LoopFails(t)
  \/ Perform(t)
  \/ GetMessage(t)
  \/ EndOfMessages(t)
  \/ FinishTransaction(t)
  \/ CallbackReturns(t)
  \/ LoopTest(t)
  \/ Return(t)

CallStep(t) == Exchange(t) \/ CallReturns(t)

Next ==
  \/ ClientInit
  \/ ClientInitFails
  \/ ClientCleanup
  \/ \E t \in Threads :
       \/ \E r \in Rpcs : StartRpc(t, r) \/ RefuseRpc(t, r)
       \/ \E type \in {"forever", "deadline"} : FinishAsynch(t, type)
       \/ LoopStep(t)
       \/ Call(t)
       \/ CallStep(t)
  \/ \E r \in Rpcs : ServerAnswers(r)

(* A thread inside the client goes on, its callbacks return, and the server *)
(* of a running transfer answers or the exchange breaks: the transport has  *)
(* no timeout of its own for that.                                          *)
Fairness ==
  /\ \A t \in Threads : WF_vars(LoopStep(t)) /\ WF_vars(CallStep(t))
  /\ \A r \in Rpcs : WF_vars(ServerAnswers(r))

Spec == Init /\ [][Next]_vars /\ Fairness

-----------------------------------------------------------------------------
TypeOK ==
  /\ constSetupCount \in 0 .. MaxSetups
  /\ constants \in {"unset", "set", "failed"}
  /\ client \in {"none", "up"}
  /\ asked \in [Rpcs -> {"no", "refused", "accepted"}]
  /\ held \in [Rpcs -> SUBSET Resources]
  /\ transfer \in [Rpcs -> {"none", "added", "running", "ready", "done"}]
  /\ outcome \in [Rpcs -> {"ok", "http", "transfer"}]
  /\ handles \subseteq Rpcs
  /\ messages \in Seq(Rpcs)
  /\ told \in [Rpcs -> Seq({"ok", "fault", "refused"})]
  /\ pc \in [Threads -> {"idle", "wait", "perform", "messages", "finish",
                         "callback", "test", "return", "exchange", "answered",
                         "failed"}]
  /\ current \in [Threads -> SUBSET Rpcs]
  /\ running \in [Threads -> {"none", "still"}]
  /\ fault \in [Threads -> {"none", "select", "perform", "transfer"}]
  /\ until \in [Threads -> {"forever", "deadline"}]
  /\ late \in [Threads -> {"no", "yes"}]
  /\ owed \in [Threads -> SUBSET Rpcs]
  /\ sessionLock \subseteq Threads
  /\ session \subseteq Threads
  /\ replies \in [Threads -> Nat]

(* A transfer that has completed is in one place: in the manager's queue, in *)
(* the hands of one thread, or its caller has been told.  However many       *)
(* threads run the event loop and whatever of it fails, none is lost and no  *)
(* callback is called twice.  An RPC that was refused is never sent nor told *)
(* by the loop (sendRequest: `unless we return failure, we arrange to have   *)
(* complete() called'); at most it was told once, of that refusal.           *)
CompletedIsSomewhere ==
  \A r \in Rpcs :
    /\ told[r] # <<>> =>
         IF asked[r] = "refused"
         THEN told[r] = <<"refused">> /\ transfer[r] = "none"
         ELSE transfer[r] = "done" /\ asked[r] = "accepted"
    /\ transfer[r] = "done" =>
         Cardinality({n \in DOMAIN messages : messages[n] = r})
           + Cardinality({t \in Threads : r \in current[t] /\ At(t, "finish")})
           + Len(told[r]) = 1

(* A call of the event loop that returns without having timed out or failed  *)
(* leaves no RPC of those outstanding when it was called: each is told, or a *)
(* second thread in the loop has its message in hand.  The end of the loop   *)
(* is decided by a count read before the callbacks of the same turn, which   *)
(* may have started more.                                                    *)
ReturnLeavesNone ==
  \A t \in Threads :
    At(t, "return") /\ late[t] = "no" /\ fault[t] = "none" =>
      owed[t] \subseteq {r \in Rpcs : told[r] # <<>>} \cup InHands

(* When the client is cleaned up, which its user may do as soon as every RPC *)
(* has been told and no thread is inside, the manager has no session and no  *)
(* message (the assertion of destroy), and nothing is left allocated for any *)
(* RPC but what two error paths of its start leak: the call info when its    *)
(* XML cannot be made, the header list when the session cannot be set up.    *)
NothingLeftBehind ==
  client = "none" =>
    /\ handles = {}
    /\ messages = <<>>
    /\ \A r \in Rpcs :
         held[r] \subseteq IF asked[r] = "refused"
                           THEN {"callInfo", "headerList"} ELSE {}

(* A client exists only between the setup of the global constants and their *)
(* teardown.  (The setup may have failed: it is counted all the same, so it *)
(* is not tried again, and a second xmlrpc_client_init2 succeeds.)          *)
ClientHasConstants == client = "up" => constants # "unset"

(* One session serves all synchronous calls: a caller that is answered has   *)
(* exactly one response in its buffer, and it is to its own request.         *)
SyncAnswersOwnCaller ==
  \A t \in Threads : At(t, "answered") => replies[t] = 1 /\ session = {t}

(* A call of the event loop ends, whatever fails: also when callbacks start  *)
(* further RPCs.  With ReturnLeavesNone, what was outstanding is answered.   *)
LoopEnds == \A t \in Threads : At(t, "wait") ~> At(t, "idle")

(* What asynchComplete says of its argument: `describes an error that the    *)
(* transport encountered in processing the call'.  A caller is told "ok"     *)
(* only when the exchange with the server succeeded.                         *)
FailureIsTold ==
  \A r \in Rpcs : told[r] = <<"ok">> => outcome[r] = "ok"

-----------------------------------------------------------------------------
(*                       The calls it implements                            *)

(* Where a thread is for its caller: the loop has done what it came for when *)
(* it returns neither late nor with a fault.                                *)
Place(t) ==
  CASE At(t, "idle") -> "out"
    [] pc[t] \in {"exchange", "answered", "failed"} -> "calling"
    [] At(t, "return") /\ late[t] = "no" /\ fault[t] = "none" -> "done"
    [] At(t, "return") /\ ~(late[t] = "no" /\ fault[t] = "none") -> "early"
    [] OTHER -> "in"

Calls == INSTANCE AsyncCalls WITH
  place <- [t \in Threads |-> Place(t)],
  hand <- [t \in Threads |-> IF At(t, "finish") THEN current[t] ELSE {}]

(* The client, with its transport, implements AsyncCalls.  Telling the       *)
(* caller of an RPC is finishCurlTransaction's call of the completion        *)
(* routine; what a thread did is done when finishCurlSessions goes by a      *)
(* count of running transfers that was read before the callbacks ran, while  *)
(* other threads took messages too; and a client is cleaned up when nothing  *)
(* is outstanding.                                                           *)
CallsSpec == Calls!Spec
=============================================================================

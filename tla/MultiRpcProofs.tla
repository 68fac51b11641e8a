-------------------------- MODULE MultiRpcProofs --------------------------
(***************************************************************************)
(* Proofs about MultiRpc for every number of servers.  What the user is    *)
(* promised rests on CountsAnswers: while nobody holds result_mutex the    *)
(* count equals the number of threads that have answered, so that the      *)
(* responses that come after the signal cannot spoil what it stood for.    *)
(***************************************************************************)
EXTENDS MultiRpc, FiniteSetTheorems, TLAPS

USE MultiRpcAssumption

(* Type correctness. *)
THEOREM RpcTyped == Spec => []TypeOK
<1>1. Init => TypeOK
  BY DEF Init, TypeOK, MAJORITY, ANY, ALL
<1>2. TypeOK /\ [Next]_vars => TypeOK'
  <2> SUFFICES ASSUME TypeOK, [Next]_vars PROVE TypeOK'
    OBVIOUS
  <2> USE DEF TypeOK, Threads, request, shared
  <2>1. CASE CreateThread
    BY <2>1 DEF CreateThread
  <2>2. CASE Await \/ SpuriousWakeup \/ Callback \/ MainReturns \/ Die
    BY <2>2 DEF Await, SpuriousWakeup, Callback, MainReturns, Die
  <2>3. ASSUME NEW t \in Threads, ReadRequestData(t) PROVE TypeOK'
    BY <2>3 DEF ReadRequestData
  <2>4. ASSUME NEW t \in Threads, SetupTest(t) \/ SetupTransport(t) PROVE TypeOK'
    BY <2>4 DEF SetupTest, SetupTransport
  <2>5. ASSUME NEW t \in Threads, StartRpc(t) \/ ResponseFault(t) PROVE TypeOK'
    BY <2>5 DEF StartRpc, ResponseFault
  <2>6. ASSUME NEW t \in Threads, Response(t) PROVE TypeOK'
    BY <2>6 DEF Response
  <2>7. CASE UNCHANGED vars
    BY <2>7 DEF vars
  <2>. QED
    BY <2>1, <2>2, <2>3, <2>4, <2>5, <2>6, <2>7 DEF Next, CallerStep, ThreadStep
<1>. QED  BY <1>1, <1>2, PTL DEF Spec

-----------------------------------------------------------------------------
(* No more threads answer than there are servers. *)
LEMMA AtMostN ==
  ASSUME NEW S \in SUBSET Threads
  PROVE  IsFiniteSet(S) /\ Cardinality(S) \in 0 .. N
<1>1. IsFiniteSet(Threads) /\ Cardinality(Threads) = N
  BY FS_Interval DEF Threads
<1>. QED  BY <1>1, FS_Subset, FS_CardinalityType

(* The test of the handler decides exactly what the option means. *)
LEMMA SignalsRight ==
  ASSUME NEW n \in 1 .. N, option \in {MAJORITY, ANY, ALL}
  PROVE  Signals(n) <=> Semantics!Satisfies(option, n)
<1>1. n >= N \div 2 + 1 <=> 2 * n > N
  OBVIOUS
<1>. QED
  BY <1>1 DEF Signals, Semantics!Satisfies, MAJORITY, ANY, ALL,
              Semantics!MAJORITY, Semantics!ANY, Semantics!ALL

(* A further response does not unsatisfy an option, as there is none after the
   N-th. *)
LEMMA StaysSatisfied ==
  ASSUME NEW n \in Nat, n + 1 <= N, option \in {MAJORITY, ANY, ALL},
         Semantics!Satisfies(option, n)
  PROVE  Semantics!Satisfies(option, n + 1)
  BY DEF Semantics!Satisfies, MAJORITY, ANY, ALL,
         Semantics!MAJORITY, Semantics!ANY, Semantics!ALL

(* The steps other than a response leave the set of answers alone. *)
LEMMA AnswersKept ==
  ASSUME CountsAnswers,
         \/ CallerStep \/ Die
         \/ \E t \in Threads : \/ ReadRequestData(t) \/ SetupTest(t)
                               \/ SetupTransport(t) \/ StartRpc(t) \/ ResponseFault(t)
  PROVE  Answered' = Answered /\ option' = option /\ num_responses' = num_responses
<1>. USE DEF CountsAnswers, TypeOK, Answered, shared
<1>1. CASE CreateThread
  BY <1>1 DEF CreateThread
<1>2. CASE Await \/ Callback \/ MainReturns \/ Die
  BY <1>2 DEF Await, Callback, MainReturns, Die
<1>3. ASSUME NEW t \in Threads, ReadRequestData(t) \/ SetupTest(t) \/ SetupTransport(t)
      PROVE  Answered' = Answered /\ option' = option /\ num_responses' = num_responses
  BY <1>3 DEF ReadRequestData, SetupTest, SetupTransport
<1>4. ASSUME NEW t \in Threads, StartRpc(t) \/ ResponseFault(t)
      PROVE  Answered' = Answered /\ option' = option /\ num_responses' = num_responses
  BY <1>4 DEF StartRpc, ResponseFault
<1>. QED  BY <1>1, <1>2, <1>3, <1>4 DEF CallerStep

(* The number of responses counts the threads that answered, a woken caller is
   satisfied, and what the callback reports stays true. *)
THEOREM RpcCounts ==
  ASSUME SpuriousWakeups = FALSE
  PROVE  Spec => []CountsAnswers
<1>1. Init => CountsAnswers
  <2> SUFFICES ASSUME Init PROVE CountsAnswers
    OBVIOUS
  <2>1. TypeOK
    BY DEF Init, TypeOK, MAJORITY, ANY, ALL
  <2>2. Answered = {}
    BY DEF Init, Answered
  <2>. QED  BY <2>1, <2>2, FS_EmptySet DEF Init, CountsAnswers
<1>2. CountsAnswers /\ TypeOK' /\ [Next]_vars => CountsAnswers'
  <2> SUFFICES ASSUME CountsAnswers, TypeOK', [Next]_vars PROVE CountsAnswers'
    OBVIOUS
  <2> USE DEF CountsAnswers, request, shared
  <2>1. CASE CreateThread
    <3>1. Answered' = Answered
      BY <2>1, AnswersKept DEF CallerStep
    <3>2. \A u \in Threads : u > created' => thread'[u] = "unborn"
      BY <2>1 DEF CreateThread, TypeOK, Threads
    <3>. QED  BY <2>1, <3>1, <3>2 DEF CreateThread
  <2>2. CASE Await \/ MainReturns \/ Die
    <3>1. Answered' = Answered
      BY <2>2, AnswersKept DEF CallerStep
    <3>. QED  BY <2>2, <3>1 DEF Await, MainReturns, Die
  <2>3. CASE Callback
    <3>1. Answered' = Answered
      BY <2>3, AnswersKept DEF CallerStep
    <3>. QED  BY <2>3, <3>1 DEF Callback, TypeOK
  <2>4. ASSUME NEW t \in Threads,
               \/ ReadRequestData(t) \/ SetupTest(t) \/ SetupTransport(t)
               \/ StartRpc(t) \/ ResponseFault(t)
        PROVE  CountsAnswers'
    <3>1. Answered' = Answered
      BY <2>4, AnswersKept
    <3>2. UNCHANGED <<option, num_responses, caller, result_mutex, report>>
      BY <2>4 DEF ReadRequestData, SetupTest, SetupTransport, StartRpc, ResponseFault
    <3>3. \A u \in Threads : u > created' => thread'[u] = "unborn"
      BY <2>4 DEF ReadRequestData, SetupTest, SetupTransport, StartRpc, ResponseFault,
                  TypeOK
    <3>. QED  BY <3>1, <3>2, <3>3
  <2>5. ASSUME NEW t \in Threads, Response(t) PROVE CountsAnswers'
    <3>1. Answered' = Answered \cup {t} /\ t \notin Answered
      BY <2>5 DEF Response, Answered, TypeOK
    <3>2. Answered \in SUBSET Threads /\ Answered' \in SUBSET Threads
      BY DEF Answered
    <3>3. Cardinality(Answered') = Cardinality(Answered) + 1
      BY <3>1, <3>2, AtMostN, FS_AddElement
    <3>4. num_responses' = Cardinality(Answered') /\ num_responses + 1 \in 1 .. N
      BY <2>5, <3>2, <3>3, AtMostN DEF Response
    <3>5. caller' = "woken" => Semantics!Satisfies(option, num_responses + 1)
      <4>1. CASE caller = "woken"
        BY <3>4, <4>1, StaysSatisfied DEF TypeOK
      <4>2. CASE caller = "asleep" /\ Signals(num_responses + 1)
        BY <3>4, <4>2, SignalsRight DEF TypeOK
      <4>. QED  BY <2>5, <4>1, <4>2 DEF Response
    <3>6. \A u \in Threads : u > created' => thread'[u] = "unborn"
      BY <2>5 DEF Response, TypeOK
    <3>. QED  BY <2>5, <3>4, <3>5, <3>6 DEF Response, Running
  <2>6. ~SpuriousWakeup
    BY DEF SpuriousWakeup
  <2>7. CASE UNCHANGED vars
    BY <2>7 DEF vars, Answered
  <2>. QED
    BY <2>1, <2>2, <2>3, <2>4, <2>5, <2>6, <2>7 DEF Next, CallerStep, ThreadStep
<1>. QED  BY <1>1, <1>2, RpcTyped, PTL DEF Spec

(* The client implements the promised semantics: a thread's response is the
   abstract one, the callback the abstract report, all else a stutter. *)
THEOREM RpcImplements ==
  ASSUME SpuriousWakeups = FALSE
  PROVE  Spec => SemanticsSpec
<1>1. Init => Semantics!Init
  BY DEF Init, Semantics!Init, MAJORITY, ANY, ALL,
         Semantics!MAJORITY, Semantics!ANY, Semantics!ALL
<1>2. CountsAnswers /\ CountsAnswers' /\ [Next]_vars => [Semantics!Next]_(Semantics!vars)
  <2> SUFFICES ASSUME CountsAnswers, CountsAnswers', [Next]_vars
               PROVE  Semantics!Next \/ UNCHANGED Semantics!vars
    OBVIOUS
  <2> USE DEF Semantics!vars, shared
  <2>1. CASE CreateThread \/ Await \/ MainReturns \/ Die \/ SpuriousWakeup
    BY <2>1 DEF CreateThread, Await, MainReturns, Die, SpuriousWakeup
  <2>2. CASE Callback
    BY <2>2 DEF Callback, CountsAnswers, Semantics!Next, Semantics!Report
  <2>3. ASSUME NEW t \in Threads,
               \/ ReadRequestData(t) \/ SetupTest(t) \/ SetupTransport(t)
               \/ StartRpc(t) \/ ResponseFault(t)
        PROVE  UNCHANGED Semantics!vars
    BY <2>3 DEF ReadRequestData, SetupTest, SetupTransport, StartRpc, ResponseFault
  <2>4. ASSUME NEW t \in Threads, Response(t) PROVE Semantics!Next
    <3>1. Answered' \in SUBSET Threads
      BY DEF Answered
    <3>2. num_responses' <= N
      BY <3>1, AtMostN DEF CountsAnswers
    <3>. QED
      BY <2>4, <3>2 DEF Response, CountsAnswers, TypeOK, Semantics!Next, Semantics!Respond
  <2>5. CASE UNCHANGED vars
    BY <2>5 DEF vars
  <2>. QED
    BY <2>1, <2>2, <2>3, <2>4, <2>5 DEF Next, CallerStep, ThreadStep
<1>. QED
  BY <1>1, <1>2, RpcCounts, PTL DEF Spec, SemanticsSpec, Semantics!Spec

-----------------------------------------------------------------------------
(* The callback keeps result_mutex, and nobody counts without it: what ties *)
(* the report to the count needs neither a signal nor a satisfied option.   *)
MutexKept ==
  /\ caller \in {"create", "asleep", "woken"} => report = Unreported
  /\ result_mutex = "caller" <=> report # Unreported
  /\ report # Unreported => report = num_responses

(* No response is counted any more once the callback has run, whatever woke *)
(* the caller.                                                              *)
THEOREM RpcReportFinal == Spec => []ReportIsFinal
<1>1. Init => MutexKept
  BY DEF Init, MutexKept
<1>2. TypeOK /\ MutexKept /\ [Next]_vars => MutexKept'
  <2> SUFFICES ASSUME TypeOK, MutexKept, [Next]_vars PROVE MutexKept'
    OBVIOUS
  <2> USE DEF MutexKept, request, shared
  <2>1. CASE CreateThread \/ Await \/ SpuriousWakeup \/ MainReturns \/ Die
    BY <2>1 DEF CreateThread, Await, SpuriousWakeup, MainReturns, Die
  <2>2. CASE Callback
    BY <2>2, MultiRpcAssumption DEF Callback, TypeOK
  <2>3. ASSUME NEW t \in Threads,
               \/ ReadRequestData(t) \/ SetupTest(t) \/ SetupTransport(t)
               \/ StartRpc(t) \/ ResponseFault(t)
        PROVE  UNCHANGED <<caller, report, result_mutex, num_responses>>
    BY <2>3 DEF ReadRequestData, SetupTest, SetupTransport, StartRpc, ResponseFault
  <2>4. ASSUME NEW t \in Threads, Response(t) PROVE MutexKept'
    BY <2>4 DEF Response, Running
  <2>5. CASE UNCHANGED vars
    BY <2>5 DEF vars
  <2>. QED
    BY <2>1, <2>2, <2>3, <2>4, <2>5 DEF Next, CallerStep, ThreadStep
<1>3. MutexKept => ReportIsFinal
  BY DEF MutexKept, ReportIsFinal
<1>. QED  BY <1>1, <1>2, <1>3, RpcTyped, PTL DEF Spec
=============================================================================

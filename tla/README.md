# Formal models of the three course projects

The repository holds three C programs: **project2**, an RPC service over shared
memory; **project3**, a client that sends one XML-RPC call to many servers and
returns when enough of them have answered (built on a vendored copy of the
xmlrpc-c library, and answered by the Abyss server that is part of it); **project4**, a library for recoverable virtual memory (RVM).
This directory models them in TLA+, checks small instances with TLC and proves
the properties that matter most with TLAPS.

| module | what it is | for |
|---|---|---|
| `RequestService` | what the shared-memory service promises | project2 |
| `RingBuffer` | clients, server, ring, mutex, condition variables | `project2/ringbuffer.c`, `client.c`, `server.c` |
| `MCRingBuffer` | symmetry for TLC | |
| `RingBufferProofs` | theorems about `RingBuffer` | |
| `ResponseSemantics` | what ANY, MAJORITY and ALL promise | project3 |
| `MultiRpc` | the caller, a thread for each server, the handler | `project3/examples/xmlrpc_client.c`, `project3/src/xmlrpc_client.c` (setup) |
| `MultiRpcProofs` | theorems about `MultiRpc` | |
| `AsyncCalls` | what an RPC client promises its threads | project3 |
| `ClientTransport` | threads over the RPC client, its event loop and synchronous session | `project3/src/xmlrpc_client.c`, `xmlrpc_client_global.c`, `lib/curl_transport/xmlrpc_curl_transport.c` |
| `ClientTransportProofs` | theorems about `ClientTransport` | |
| `ConnectionPool` | what the server promises those who connect | project3 |
| `AbyssServer` | the server's connections, threads, children, SIGCHLD, shutdown | `lib/abyss/src/server.c`, `conn.c`, `thread_pthread.c`, `thread_fork.c`, `src/xmlrpc_server_abyss.c` |
| `AbyssServerProofs` | theorems about `AbyssServer` | |
| `RpcConnection` | what one connection promises its client | project3 |
| `HttpConnection` | one connection: buffer, header, body, call, response, keep-alive | `lib/abyss/src/conn.c`, `http.c`, `session.c`, `response.c`, `server.c`, `src/xmlrpc_server_abyss.c` |
| `MCHttpConnection` | the requests of the checked clients | |
| `HttpConnectionProofs` | theorems about `HttpConnection` | |
| `RecoverableStore` | what the recoverable memory promises, and to whom it promises nothing | project4 |
| `Rvm` | processes, mappings, segment files, log locks | `project4/rvm.c`, `rvm.h` |
| `MCRvm` | symmetry for TLC | |
| `RvmProofs`, `RvmDataProofs` | theorems about the locks and the table of `Rvm`, and about its data | |
| `SequenceLemmas` | sequences without repetition, and `FlattenSeq`: lemmas the proofs share | |

`PROJECT.json` gives for each definition the lines it stands for, and lists the
runs, the mutants, the findings, the hazards and the theorems.

## 1. Inventory

### project2: the ring buffer

*State.* One `struct ring_buffer` in POSIX shared memory (`ringbuffer.h:6-24`):
`MAXSIZE` request slots and `MAXSIZE` response slots, four counters
(`request_writes`, `request_reads`, `response_writes`, `response_reads`), the
process-shared `data_mutex`, the condition variable `nonempty`, and one
condition variable `response_ready[i]` for each slot.

*Operations.* `write_request` puts a request in the next slot, signals
`nonempty` and tells the client the slot. The client locks again and waits on
`response_ready[slot]`, then takes `response_buffer[response_reads++ % MAXSIZE]`.
The server waits on `nonempty`, then `process_requests` calls `read_request`
while the counters differ; that computes `2^x mod 97`, stores it at
`response_writes++ % MAXSIZE` and signals the slot of the request.

*Interaction.* `NUM_THREADS` client threads and one server process share the
structure and nothing else. `server.c` creates and initialises it; `client.c`
maps it, runs the threads, and unlinks it at the end.

*Hard.* Everything is in the gaps: between the unlock in `write_request` and
the lock before the wait; between the server's test of the counters (without
the mutex) and its wait; between a signal and the return of the wait. No wait is
in a loop. Two early returns keep the mutex locked. Nothing compares
`response_writes` with `response_reads`.

*Correct when* the mutex is always given back, a response is read after it was
written and before it is overwritten, each request is answered once and in
order, the answer goes to the client that asked, and no caller sleeps for ever.

### project3: the multi-RPC client

*State.* Globals `result_mutex`, `client_satisfied`, `num_responses`, the last
value, the option; `request_data`, one struct in the frame of
`client_start_sync` that all threads are given the address of; in the library,
`constSetupCount`.

*Operations.* `client_start_sync` creates a thread for each server, locks, waits
once, and runs the callback. `MakeRequest` copies `request_data`, sets up the
library, creates a client and starts the call; `handle_sample_add_response`
counts the response and signals when the option is satisfied.
`client_start_async` runs the same function in another thread.

*Hard.* Threads read a struct that the creating loop overwrites; responses that
come before the wait; responses that come between the signal and the callback;
faults; spurious wakeups; the mutex that stays locked after the callback and is
destroyed locked; library setup that is not thread-safe.

*Correct when* the callback runs only with enough responses for the option, runs
when there are enough, and the responses come from the servers it speaks of.

The rest of `project3/` is xmlrpc-c. Three parts of it keep state that several
threads, processes or peers share, and are modelled; they follow. The libwww and
wininet transports, the registry, data types, parsing and encoding (with expat),
C++ wrappers, tools and the build system are not.

### project3: the xmlrpc-c client over Curl

*State.* `constSetupCount` and `globalClientP`; for each RPC what was allocated for
it; the Curl multi manager with its sessions and its queue of messages, behind a
lock; one session for synchronous calls, behind another; the locals of each
thread in the event loop.

*Operations.* `xmlrpc_client_init2`, `_cleanup`, `_start_rpc`, `_call2`,
`_event_loop_finish`, `_event_loop_finish_timeout`. The event loop (`finishAsynch`)
waits in a select, performs, takes the messages of completed sessions, and
finishes each: out of the manager, then the caller's callback.

*Interaction.* Every thread may do all of this at once, callbacks start further
RPCs, and libcurl and the servers answer in any order or not at all.

*Hard.* Whether anything is still running is read before the callbacks of the turn;
two threads share the queue; an RPC acquires nine things in four functions, each
with its own error path; failures are put in one of two environments.

*Correct when* each accepted RPC is told once, a loop that ends leaves nothing of
what it was called for, errors give back what was acquired, synchronous
responses go to their own callers, and the constants outlive the client.

### project3: the Abyss server

*State.* The list of outstanding connections, known to the master only; for each
connection its `TConn`, thread or child, socket and `finished` flag; the signal
mask and the pid pool; in a connection, `buffer`, `buffersize`, `bufferpos` and the
session of the present request.

*Operations.* `ServerRun` accepts, collects finished connections, waits for room
below `MAX_CONN`, creates a connection with its thread or child; `ServerTerminate`
asks it to stop; a SIGCHLD handler waits for children. In a connection,
`serverFunc` reads requests, has them handled (`handleXmlrpcReq`: read the body, run
the registry, write the response) and keeps the connection alive or not.

*Interaction.* Threads tell the master through `finished`; children through SIGCHLD,
which interrupts it anywhere; the client's bytes come in whatever pieces.

*Hard.* A thread marked finished is still using its connection; a child may die
before it is registered; signals merge; a read may end in the middle of a request
or in the next one; the client may wait for the server while the server waits for it.

*Correct when* nothing is freed while in use, sockets are closed once, no more than
`MAX_CONN` are served, waiting clients get their turn, a shutdown ends; calls reach
the registry whole and in order and each request gets its own response.

### project4: recoverable virtual memory

*State.* In a process: the array `mapped[]` of `MAXSEGS` entries (address,
name, size, ranges), `num_mapped`, and the private mappings themselves. On
disk: a file for each segment, a `.log` for each segment whose only functional
use is the `lockf` lock, and `store.log`. A transaction value (`trans_t`)
carries the base addresses.

*Operations.* `rvm_init`, `rvm_map` (extends the file with zeroes, maps it
`MAP_PRIVATE`, registers it), `rvm_unmap`, `rvm_destroy`, `rvm_begin_trans`
(locks and logs each segment), `rvm_about_to_modify` (appends a range),
`rvm_commit_trans` (writes each range to the file), `rvm_abort_trans` (reads the
file back), `rvm_truncate_log`, `rvm_verbose`.

*Interaction.* Processes share the directory. A process that dies leaves what
it wrote; its descriptors, locks and mappings go.

*Hard.* Crashes between two writes of a commit; POSIX locks that any `close` of
the file drops; copy-on-write pages that stop following the file; an array with
stale entries behind its end; ranges that are never cleared.

*Correct when* the table describes the live mappings, the files hold what
commits promised and nothing else, memory and file agree outside of
transactions, and locking cannot deadlock.

## 2. RingBuffer

Client `c` goes `call -> written -> asleep -> woken -> report -> call ... done`,
the server `start -> asleep -> woken -> check -> read -> check ... start`.

| action | code |
|---|---|
| `WriteRequest`, `WriteRequestFull` | `write_request`, and the return of -1 with `data_mutex` locked |
| `AwaitResponse` | lock and `pthread_cond_wait(&response_ready[...])`, `client.c:28-29` |
| `ReadResponse`, `Report` | `client.c:29-43` after the wait has returned |
| `ServerAwait`, `ServerResume` | `server.c:27-31` |
| `ServerCheck` | the loop test of `process_requests`, made without the mutex |
| `ReadRequest` | `read_request`, with the early return that leaves `data_mutex` locked |
| `SpuriousWakeup`, `ServerSpuriousWakeup` | what POSIX allows `pthread_cond_wait` |

A critical section is one step, enabled when nobody holds the mutex: nobody can
see its middle. `holder` is therefore empty between two steps unless an early
return leaked the mutex; then its owner blocks on it as well, as the mutex is of
the default kind. Only the exponent `x` of a request is kept: `PRIME` is the same
for all, and the condition variable of a slot is named by the slot.

### Runs

* **ring_core** (3 clients, 3 slots, 2 requests each, no spurious wakeup, weak
  fairness). `CallersBalance` (of which `TypeOK` and a mutex that is given back are conjuncts),
  `UnreadRepliesKept`, `PendingHasCaller`, `ServerDrains`. The code has
  `NUM_THREADS = MAXSIZE`, which the instance keeps. The checks that the code does
  not make (is a response there? is the response buffer full? is the ring still
  non-empty under the lock?) are not needed, because each caller has one request
  in flight. Six requests go twice around three slots, so every index wraps.
* **ring_service** (3 clients, 2 slots, spurious wakeups). More callers than
  slots, callers that leave early, full rings and leaked mutexes all occur, and
  the ring still implements `RequestService`: requests are answered once each,
  in order, with the right value. Who gets the answer is another matter:
* **ring_mixed_answers** (expected violation). A client takes the oldest unread
  response, not its own. The recorded output `timings` begins with
  `Request (20, 97) = 93`, and 2^20 mod 97 is 6.
* `ring_lost_reply.cfg` (a demonstration, see section 8; `ReplyReachesCaller` is
  violated). The server may answer and signal between the client's unlock and its
  wait. One client and one request are enough; the client sleeps beside its reply.

`ServerDrains` is the liveness that does hold: a server that is awake takes every
request in the ring. *Fairness* is weak fairness of each thread's steps: every
runnable thread is scheduled. The mutex is free between any two steps unless it
is leaked, so a thread that wants it is enabled continuously and weak fairness
suffices. Waking from a spurious wakeup is never required.

## 3. MultiRpc

The caller goes `create -> asleep -> woken -> returned -> exited`; thread `t`
goes `unborn -> started -> setup -> (transport ->) ready -> calling`, then
`answered` or `failed`, or `lost` when it reads `request_data` after the frame
that holds it is gone.

| action | code |
|---|---|
| `CreateThread` | one turn of the loop: `request_data.server_name = ...; pthread_create` |
| `Await`, `SpuriousWakeup`, `Callback`, `MainReturns` | the lock, the single wait, the callback, the end of `main` |
| `ReadRequestData` | the copy of `*request_data` in `MakeRequest` |
| `SetupTest`, `SetupTransport` | `xmlrpc_client_setup_global_const`: test, then increment |
| `StartRpc` | `xmlrpc_client_create`, `xmlrpc_client_start_rpcf` |
| `Response`, `ResponseFault` | `handle_sample_add_response` |
| `Die` | `die_if_fault_occurred`, a failing `pthread_create`: `exit(1)` |

`healthy` is the set of servers that answer without a fault, chosen at the start.
The library and the network are external: a call that is started ends with one
response or one fault. The unlock after the callback is commented out in the
code, and the mutex is destroyed while locked; glibc answers `EBUSY` and leaves
it as it is, which is how the model treats that undefined behaviour. A read of
`request_data` after the caller has returned may give anything: such a thread is
`lost` and takes no further step (the process is about to end).
The copy of `request_data` is taken as atomic, which it is for the pointer
`server_name`, the only field the loop changes.

### Runs

* **rpc_semantics** (4 servers, no spurious wakeup, faults and exits). For every
  option and every set of healthy servers the count is the number of answers, and
  from the deciding response to the callback the option stays satisfied
  (`CountsAnswers`); the client implements `ResponseSemantics` (`SemanticsSpec`), in which
  the callback needs a satisfied option. Four is the smallest
  even number whose majority is neither one server nor all of them.
* **rpc_live** (3 servers, spurious wakeups, weak fairness). `WaiterIsWoken`: a
  caller asleep while responses that will satisfy the option are still coming is
  woken. Three is the odd case of the majority. `ReportIsFinal`: no response is
  counted after the callback, even if that follows a spurious wakeup.
* `rpc_not_all.cfg` (2 servers; a demonstration, `AllMeansAll` is violated). Both
  threads read the name of server 2; server 1 is never asked and `ALL` is satisfied.

*Fairness*: weak fairness of the caller and of each thread, which includes that a
started call ends. Exits (`Die`) and spurious wakeups are never required.

## 4. Rvm

A library call is one step while it cannot be told apart from one. Calls that
touch several files are several steps, so that other processes and crashes come
in between: `BeginTrans`, then for each segment `LockSegment` and `LogBegin`;
`CommitTrans`, then `WriteRange` for each range and `LogCommit` for each segment;
`AbortTrans`, then `AbortSegment` for each segment; `Return` ends each.
`call[p].todo` holds what a call still has to do.

| action | code |
|---|---|
| `Start`, `Crash` | `rvm_init` in a new process; the death of a process anywhere |
| `Map` | `rvm_map`: padding the file, mapping, the search of `mapped[]`, registration |
| `Unmap`, `UnmapEmpty` | `rvm_unmap`, and the call with nothing mapped |
| `Destroy` | `rvm_destroy` |
| `AboutToModify`, `Store` | declaring a range; the caller's store to it |
| `LogSegment` (operator) | `logSegment`: opening and closing the `.log` drops the lock |

*Memory.* A range is one cell, a cell is one page. A page that the process has not
stored to is `Shared` and shows the file, as `MAP_PRIVATE` pages do; a stored one
keeps its own value. `mapped` is the whole array, stale entries behind
`num_mapped` included, because `rvm_map` reads one of them. An element of a
`malloc`ed array never written is `Garbage`; a step that depends on one, or that
goes outside of an array, sets `undefined`, after which nothing follows.

*History.* `promised[s]` is the set of contents that the file of `s` may have by the
commits that returned, are in progress, or were cut off by a crash. `spoilt` is the set
of segments of which the code keeps no promise, until they are destroyed: those that a
second process has mapped, and those mapped without an entry of their own. The second
happens when `mmap` returns an address the process had before and `rvm_map`, whose search
of `mapped[]` goes one entry too far, finds the stale entry of that address behind the
last one (`rvm.c:118`). No action of the code reads these two.

*Callers* keep to the interface: one transaction at a time, stores only to declared
ranges, `Destroy` only for segments nobody has mapped, no `Unmap` of what the open
transaction is about. A crash is the death of a process, not of the machine: what
was written to a file stays.

### Runs

* **rvm_table** (1 process, 2 segments, 2 addresses, addresses reused, ranges up to 2). `TypeOK`,
  `TableAgrees` under any order of mapping, unmapping from the
  middle, destroying, committing over two segments, crashing and starting again.
  Two entries are the least for which unmapping the first moves the second.
  `StoreSpec` (below) where segments are spoilt: a spoilt segment is *lost* for the store, leaves its
  files, images and transactions (`Lose`), and comes back when it is destroyed. What is
  shown is that the damage stays there: a process whose other mapping has no entry still
  commits and aborts the segments that have one.
  `WaiterHoldsNothing`: no process waits for a log while it holds another, so opposite lock
  orders cannot deadlock. It is so for a bad reason, see **rvm_not_locked_out**.
* **rvm_data** (1 process, 1 segment of 1 or 2 cells, addresses reused, ranges up to 3).
  `DiskAsPromised`, `MemoryAgrees`: commits write exactly the declared ranges,
  aborts restore the rest, and remapping with a larger size keeps the contents of a segment that
  is not spoilt.
  `StoreSpec`: the whole implements `RecoverableStore`, which has no addresses, no table,
  no ranges and no private pages, only files, the image a process has of each segment,
  and the cells that its transaction has declared (`Images`, `Phases`, `Declarations`).
  A commit or an abort may return there only when image and file are the same.
  Three ranges over two cells give repeated ranges, and ranges left over from an
  earlier transaction.
* **rvm_unregistered** (expected violation of `CommittedIsInFile`: when a commit returns, the file
  shows what memory shows). A process unmaps a segment and maps one at the same address, which
  is what Linux does; the new mapping gets no entry, and its commit writes nothing.
* **rvm_not_locked_out** (expected violation). `rvm_begin_trans` locks the `.log`
  and then logs to it; the `close` in `logSegment` drops the lock. Two processes
  are in transactions on one segment.
* `rvm_grown.cfg` (a demonstration, `CommittedIsInFile` is violated). Another process maps the
  segment with a larger size; a commit seeks from the end of the file, and lands in the
  wrong place (`rvm.c:272`). `rvm_shared.cfg` (2 processes, 1 segment of 1 or 2 cells) holds: the
  store loses a segment when the second process maps it, and not before, and gets
  it back whole.
* `rvm_torn_commit.cfg` (a demonstration, `CommitAtomic` is violated). A crash between
  two writes of a commit leaves half of it; nothing on disk allows to repair or to
  undo it.

## 5. ClientTransport

A thread is `idle`, or in the event loop: `wait -> perform -> messages -> finish ->
callback -> messages ... -> test -> wait ... -> return`, or in a synchronous call:
`exchange -> answered` or `failed`. A transfer goes `added -> running -> ready -> done`.

| action | code |
|---|---|
| `ClientInit`, `ClientInitFails`, `ClientCleanup` | `xmlrpc_client_init2`, `_cleanup`, with the setup and teardown of the constants |
| `StartRpc`, `RefuseRpc` | `xmlrpc_client_start_rpc` down to `curl_multi_add_handle`; the failure of each of its eleven steps |
| `FinishAsynch`, `WaitForWork`, `Perform`, `LoopTest`, `Return` | `finishAsynch`, `waitForWork`, `doCurlWork`, the test of `finishCurlSessions` |
| `GetMessage`, `EndOfMessages`, `FinishTransaction`, `CallbackReturns` | `processCurlMessages`, `finishCurlTransaction`, `asynchComplete` |
| `LoopFails` | a select or a perform that fails |
| `Call`, `Exchange`, `CallReturns` | `call`: lock, transaction (`SyncSteps`, each of which may fail), `curl_easy_perform`, unlock |
| `ServerAnswers` | external: the answer comes, or the exchange breaks |

A call of the multi manager is one step, as it is made under the manager's lock.
`StartSteps` lists what starting an RPC acquires, in order; `GivenBack` says what the
four functions on the way up free when step n fails, so that a leak is the
difference of the two. The caller of a refused RPC is told at once, by the global
wrappers (`xmlrpc_client_global.c:272-282`) if not by an environment, so a refused RPC
is nobody's afterwards. `owed[t]` and `told[r]` are history. A user of the library
keeps to its interface: no cleanup with RPCs outstanding or threads inside.
External are libcurl (`Performed`: what a perform does with the transfers) and the
servers. Which of the ended transfers a perform reports first, and how long a
select waits, are free.

**client_transport** (2 threads, 2 RPCs, failing setups, selects and transfers, weak
fairness):
`CompletedIsSomewhere` (a completed transfer is in the queue, in one thread's hands
or told, once, for any number of loops); `ReturnLeavesNone` (a loop that ends by
itself leaves no RPC it was called for); `NothingLeftBehind` (a client that is
cleaned up leaves no session, message or memory); `ClientHasConstants`;
`SyncAnswersOwnCaller`; `LoopEnds` (a loop ends, whatever fails and whatever the
callbacks start); `CallsSpec` (the whole implements `AsyncCalls`, which knows no transfers,
queue, locks or memory: callers ask, threads take outstanding calls in hand and tell their
callers, and a loop that finishes has nothing left to wait for).
*Fairness* is weak fairness of the steps of each thread inside the client, which
include the return of callbacks and synchronous exchanges, and of the answer of
each running transfer: it comes, or the exchange breaks. The transport sets no
timeout for that, so without it even `LoopEnds` would fail.

What these properties leave out is what the code does: two error paths of a start leak
(the call info when its XML cannot be made, the header list when the session cannot
be set up: `xmlrpc_curl_transport.c:1271-1276` frees the URL only); a fault in the
loop ends it with other RPCs outstanding, and `finishAsynch` only prints it; a failed
global setup is counted (`xmlrpc_client.c:146`), so the next `xmlrpc_client_init2`
succeeds over constants that were not set up. `client_failure.cfg` shows the
hardest: the failure of a transfer goes to the environment of the loop
(`xmlrpc_curl_transport.c:1519`) and not to the one `asynchComplete` is given, against
the comment in `xmlrpc_client.c:764-770`, so a broken exchange whose response is
complete is told as a success.

## 6. AbyssServer

The master goes `test -> accept -> scan (-> join -> scan ...) -> capacity (-> scan ->
asleep -> capacity ...) -> create (-> register) -> add -> test`, and after a request
to terminate `drain -> scan -> asleep -> drain ... -> returned`.

| action | code |
|---|---|
| `TestTermination`, `Accept`, `AcceptFails`, `AddToList` | the loop of `serverRun2` |
| `Collect` (operator), `ScanNext`, `Join`, `ScanEnd` | `freeFinishedConns`, `ConnWaitAndRelease`, `ThreadWaitAndRelease` |
| `CapacityTest`, `WakeUp`, `DrainTest` | `waitForConnectionCapacity`, `waitForConnectionFreed`, `waitForNoConnections` |
| `CreateConn`, `Register`, `CreateConnFails` | `ConnCreate`, `ThreadCreate`: fork with SIGCHLD blocked, registration, the error paths |
| `JobReturns`, `ConnDone` | `connJob`, the cleanup handler of the thread |
| `HandleSigchld` | `sigchld` and `ThreadHandleSigchld`, at any place of the master |
| `ServerTerminate` | a request in a thread asks for the end |
| `Connect` | external: a client connects, or connects again |

`build` is chosen at the start: `pthread`, `fork` with the SIGCHLD handler of
`xmlrpc_server_abyss.c`, or `polling`, fork without it. A TConn is `live` until the
master frees it; `closed[c]` counts how often its socket is destroyed. SIGCHLD is
one bit, as signals of a kind do not queue. A terminate request in a child changes
the child's memory only, so it is not an action of that build. Only the master
frees connections, so its scan is a step for each element: threads and signals
come between.

**abyss_server** (3 connections that come again, `MAX_CONN` 2, builds pthread and
fork, failing accepts, peer names, threads and forks, weak fairness):
`InUseIsAllocated` (no TConn is freed nor socket destroyed under a thread that uses
them or a handler that may find them), `ClosedOnce`, `ListIsOutstanding` (the list is
the live connections, at most `MAX_CONN`, none when `ServerRun` returns),
`ConnectionIsClosed` (a waiting client is served and closed),
`TerminationReturns`, and `PoolSpec`: the server implements `ConnectionPool`, which knows no
list, threads, children or signals. It accepts in order of arrival, serves at most `MAX_CONN`
at a time, closes each once, takes at most one more after a request to stop, and stops
when nothing is served.
*Fairness* is weak fairness of the master, of the delivery of a pending unblocked
signal, and of the end of each job. The last is justified by `keepalivetimeout`,
`keepalivemaxconn` and handlers that return; see `SentIsAnswered` for the
connection itself.

What they leave out: a fork that fails leaves SIGCHLD blocked for good
(`thread_fork.c:184`), which `SigchldLost` names and `ConnectionIsClosed` exempts; a
TConn whose creation fails is never freed (`conn.c:105-168`, `leaked`);
`terminationRequested` is only looked at when a connection arrives, so
`TerminationReturns` asks for one. `abyss_polling.cfg` shows that without SIGCHLD no child is ever
found to have exited: `kill(pid, 0)` succeeds for one that nobody has waited for
(`thread_fork.c:143`), and at `MAX_CONN` the server stops serving.

## 7. HttpConnection

The client's stream is a sequence of pieces, each of one request: a blank line, the
request line, header lines, the blank line that ends them, pieces of body. A line may come
in two: a `part` of it, in which a read may end, and the rest. `sent`
says how far the stream is, `wire` what has arrived, `buffer` and `bufferpos` what the server
has read and consumed. The server goes `wait -> line -> headers -> dispatch -> body
(-> refill -> reading -> body) -> call -> respond -> finish -> wait` or `closed`.

| action | code |
|---|---|
| `AwaitRequest`, `AwaitTimesOut`, `FinishRequest` | the loop of `serverFunc` |
| `ConnRead`, `ConnReadInit` (operators) | filling and moving the buffer |
| `ReadMore`, `HeaderTimesOut` | `ConnReadHeader` needs more, or its deadline passes |
| `ReadRequestLine`, `ReadHeader` | `RequestRead`: `parseRequestLine`, `processHeader` |
| `Dispatch` | `processDataFromClient`, the tests of `handleXmlrpcReq`, the memory for the body |
| `TakeBody`, `RefillBuffer`, `ReadBody`, `BodyFails`, `BodyTimesOut` | `getBody`, `SessionGetReadData`, `SessionRefillBuffer` |
| `ProcessCall`, `Respond` | the registry, the response with its `Connection` header |
| `Send` | external: the client sends the next piece |

*How requests fail.* By what they are: 505, 400 (also for a URI that is none), 404, 405, 411, or
500 for a body over the limit (`Refusal`). By time: 408 from a header or a body that does not
come, and from a 100 that cannot be written (`session.c:33-36`). By the server: 500 when there
is no memory for the body; when the registry has none for its output, before the method
ran; and *after* the method ran, when its result cannot be serialized or sent
(`registry.c:435-457`, `xmlrpc_server_abyss.c:106-108, 398-403`). So a call that was executed is answered with its
result or with a 500, and a client that gets a 500 cannot tell which of the three it was.

A read takes all the pieces that have arrived and fit. A line counts as
read only with something behind it, as it might be continued: this is why a request
line without version (HTTP/0.9) waits until its deadline unless more comes. Its
`version` is whatever the session's memory holds. A client that does not pipeline
waits for each response, and one that said `expect` waits for the 100.

`clientIs` of a session is history: what the client did when the request failed. It was
`sending` (it could send more without hearing from the server), `late` (it had sent what the server
could still read, but a deadline passed), `waiting` (everything it may send is read, or
lies behind a buffer that is full), or `gone` (it takes no 100).
A client whose header does not fit is `waiting`: `ConnRead` then reads 0 bytes until the
time is over (`conn.c:332`), and `http.c:516` answers 408.

**http_connection** (all pairs of fourteen kinds of request and all triples of three
kinds of call, pipelined or not, weak fairness of the server's steps and none of the
client): `NothingSkipped` (the buffer and the socket are the end of the stream, and
between requests nothing of the last one is left), `CallsAreWhole` (the registry
gets each RPC once, in order, with exactly its body), `EachAnsweredForItself` (the
n-th response is to the n-th request; a result is for an RPC, an RPC is refused only for
time or by a failing server, and a client that does not pipeline and
waits for the server is told it took too long only in two cases, below), `ToldWhatHappens` (the
`Connection` header is kept), `SentIsAnswered` (a request sent whole on an open connection
is answered), and `RpcSpec`: the connection implements `RpcConnection`, which knows no stream,
reads, buffer or headers. A request that has arrived is executed or refused; what was
executed is answered, with its result or with a 500, before anything else happens; an RPC
is refused only for time or with a 500; and the connection stays open after a result exactly
as long as the client wants it to, up to `keepalivemaxconn` requests.

The two cases in which a waiting client gets a 408: its header does not fit in the buffer
(`HeaderFits`), or its request line has no version and nothing follows it.

What they leave out: a pipelined request that came in with the last read lies in the
buffer until something else arrives or the connection times out, as `serverFunc`
waits for a read first; `ToldWhatHappens` and `SentIsAnswered` exempt clients that pipeline
for this reason. A `recv` that returns -1 would be taken for a read of very many bytes
(`conn.c:337-346`): the bytes are compared with 0 as an unsigned number. It is not an action, because
`recv` follows a `FIONREAD` that has just counted bytes in a socket that nobody else
reads; what a failing one would do to the buffer has no defined outcome.

## 8. Bounds, constants, deadlock, demonstrations

The programs of projects 2 and 4 and the multi-RPC client stop when their requests
are done, when a client sleeps beside its reply or when undefined behaviour is met;
the Abyss server returns, or waits for clients, and a connection ends: their
configurations say `CHECK_DEADLOCK FALSE`, and that a step is possible where it
should be is stated by the liveness properties and `WaiterHoldsNothing`.
`client_transport` checks for deadlock: a client can always be set up, used or
cleaned up.

* `Iterations` bounds the requests of a client (31 in the code).
* Counters are in `Nat`; the code's `unsigned int` counters cannot reach 2^32 with
  31 requests for each of 128 threads.
* `MAXRANGES` is 10 in the code and 0 to 3 here. A process that needs more ranges
  meets undefined behaviour, as in the code, so it bounds the behaviours as well.
* `UnmapEmpty` happens once (`num_mapped` is at least -1).
* `constSetupCount` is only compared with zero: it stays at 1 in `MultiRpc`, and up to
  `MaxSetups` = 2 in `ClientTransport`, the least for which one teardown is not the last.
* `client_transport` has 2 threads, 2 RPCs and one synchronous session. Two threads are
  enough for every race over the queue and the session; the second RPC is the one
  a callback starts, or the one still running when the loop ends. The failures
  of that run are one for each kind of error path; every other step of a start may
  be put in `Failures` as well.
* `MAX_CONN` is 16 in the code and 2 in `abyss_server`, with 3 connections that come
  again: the list is empty, partly full and full, with one waiting.
* In `http_connection` a connection holds 7 pieces (`BUFFER_SIZE` 8) and two requests
  (`keepalivemaxconn` 2; 30 in the code), an acceptable body two pieces:
  a call is up to 9 pieces, so a read ends in every place, and one header does not fit. `Scripts` are all pairs of
  fourteen kinds of request and all triples of three kinds of call.

Some constants switch a hazard on, and passing runs that leave it off say what
holds without it. What TLC finds when it is switched on is the code's behaviour:

* `SpuriousWakeups = TRUE` in `ring_core` breaks `CallersBalance` (a caller that
  leaves early lets the ring fill up, and `write_request` returns -1 with the mutex
  locked) and in `rpc_semantics` breaks `SemanticsSpec` (a callback without enough
  responses): no `pthread_cond_wait` of the two programs is in a loop.
* `AddressReuse` is on in all passing runs of `Rvm`; **rvm_unregistered** shows what it does.
* Several processes are in `rvm_not_locked_out`, `rvm_grown` and `rvm_shared`; the theorems
  of section 9 are about any number. Growth is not the only reason
  why a shared segment is spoilt: ranges
  declared by an earlier transaction are written again by each later commit, from
  private pages that do not show what others have committed (`rvm.c:267`).

Seven configurations are kept beside the runs of `PROJECT.json`. All but one show a
consequence of the code by a property that TLC finds violated, with
`tlc -config X.cfg M`:

| configuration | module | property |
|---|---|---|
| `ring_lost_reply.cfg` | `MCRingBuffer` | `ReplyReachesCaller` (section 2) |
| `rpc_not_all.cfg` | `MultiRpc` | `AllMeansAll` (section 3) |
| `rvm_torn_commit.cfg` | `MCRvm` | `CommitAtomic` (section 4) |
| `rvm_grown.cfg` | `MCRvm` | `CommittedIsInFile` (section 4) |
| `rvm_shared.cfg` | `MCRvm` | `StoreSpec`, which holds (section 4) |
| `client_failure.cfg` | `ClientTransport` | `FailureIsTold` (section 5) |
| `abyss_polling.cfg` | `AbyssServer` | `ConnectionIsClosed` without SIGCHLD (section 6) |

Three more consequences are in the models and have no configuration. A request written before
the server waits stays in the ring until another one comes (`server.c:29`), the
mirror image of `ring_lost_reply`; the multi-RPC caller misses a deciding
response that comes before it waits (`project3/examples/xmlrpc_client.c:117`);
ranges are never cleared, so a long sequence of legal transactions passes the end
of the array (`rvm.c:320`, the `undefined` of `AboutToModify`).

## 9. Proofs

The theorems hold for every value of the constants that the named assumptions of the
modules allow (`RingAssumption`, `MultiRpcAssumption`, `TransportAssumption`,
`ServerAssumption`, `ConnectionAssumption`, `RvmAssumption`): any number of threads,
connections, processes, segments and requests, any sizes and any set of failures.
A theorem that needs more says so in its statement, and so does this section: only waits
that are signalled (section 8) and room for the clients in the ring are asked for. Every
invariant that a run expects to hold is also a theorem.

| theorem | property | besides the module's assumption |
|---|---|---|
| `RingTyped`, `RingImplements` | `TypeOK` (a conjunct of `CallersBalance`), `ServiceSpec` | |
| `RingPending` | `PendingHasCaller` | signalled waits |
| `RingBalanced`, `RingReadsReplies`, `RingRepliesKept` | `CallersBalance`, `ReadsOnlyReplies` (which follows from the first), `UnreadRepliesKept` | signalled waits, no more clients than slots |
| `RpcTyped`, `RpcReportFinal` | `TypeOK`, `ReportIsFinal` | |
| `RpcCounts`, `RpcImplements` | `CountsAnswers`, `SemanticsSpec` | signalled waits |
| `TransportTyped`, `TransportConstants`, `TransportSyncOwn`, `TransportCompleted`, `TransportReturn`, `TransportClean`, `TransportImplements` | `TypeOK`, `ClientHasConstants`, `SyncAnswersOwnCaller`, `CompletedIsSomewhere`, `ReturnLeavesNone`, `NothingLeftBehind`, `CallsSpec` | |
| `ServerTyped`, `ServerInUse`, `ServerClosedOnce`, `ServerListExact`, `ServerImplements` | `TypeOK`, `InUseIsAllocated`, `ClosedOnce`, `ListIsOutstanding`, `PoolSpec` | |
| `ConnTyped`, `ConnNothingSkipped`, `ConnCallsWhole`, `ConnAnswered`, `ConnTold`, `ConnImplements` | `TypeOK`, `NothingSkipped`, `CallsAreWhole`, `EachAnsweredForItself`, `ToldWhatHappens`, `RpcSpec` | |
| `RvmWaiterHoldsNothing`, `RvmTyped`, `RvmTableAgrees` | `WaiterHoldsNothing`, `TypeOK`, `TableAgrees` | |
| `RvmDiskAsPromised`, `RvmMemoryAgrees`, `RvmImplements` | `DiskAsPromised`, `MemoryAgrees`, `StoreSpec` | |

"Signalled waits" is `SpuriousWakeups = FALSE`. Section 8 says what happens without it.

**RingBufferProofs.** What matters is not inductive: that a woken client finds a
response depends on how many others are woken, and that the ring is not full on
how many callers are in flight. `CallersBalance` counts both:
`request_writes = response_reads + Cardinality(InFlight)` and
`response_reads + Cardinality(Woken) <= response_writes`. The lemmas
`EnterFlight`, `LeaveFlight`, `WakeUp` and `StayPut` say how a step changes the two
sets; `CallerFindsRoom` turns `Cardinality(Clients) <= MAXSIZE` (the code has 128 and
128) into a free slot.
`RingHolds` is what the ring keeps whatever wakes whom: the order of the counters, at
most `MAXSIZE` between them, and as many responses written as requests read. From it
`RingPending` follows a request at a time: `OwnSlots` says that two requests in the
ring have two slots, so a signal wakes the one caller of the request just read.
`RingImplements` is the refinement of `RequestService`, also with leaked mutexes and
callers that leave early: the queue of the service is the window of `request_buffer`
between the counters, and each step of the ring appends to it, takes its head and
answers it, or leaves it alone.

**MultiRpcProofs.** `CountsAnswers` ties
`num_responses` to the set of threads that answered (so it is at most `N`, which
makes the `==` of ALL safe) and carries the satisfied option from the signal to
the callback; `SignalsRight` shows that `num_servers/2 + 1` is a majority for even
and odd numbers, `StaysSatisfied` that more responses do not spoil it.
`RpcImplements` is the refinement of `ResponseSemantics`, step by step.
`RpcReportFinal` rests on something else: the callback never gives the mutex back
(`MutexKept`), so it does not matter what woke the caller.

**ClientTransportProofs.** `TransportInv` has a part for each question.
`ConstInv`: the constants are set up as long as somebody counts on them. `SyncInv`: the
session is in use by exactly the thread that holds its lock. `PlaceInv` and `HandInv`:
an accepted RPC is with libcurl, in the queue, in the hands of one thread, or told;
`PlacesInQueue` turns this into the sum of `CompletedIsSomewhere`. `HeldInv`: what was
allocated is given back. `LoopInv` is what makes `ReturnLeavesNone` inductive: it says what
a thread knows of the RPCs it was called for. If its perform found nothing running, they
are done, and stay so; once it then finds the queue empty they are told or in the hands of
another thread. That a callback starts further RPCs does not hurt, as they are not
owed to this call.
`TransportImplements` is the refinement of `AsyncCalls`, by the same invariant. `Place` says where a
thread is for the abstract client; most steps of the loop are none of it. The
step that needs proof is the end of a loop: `Finish` asks that nothing this call was
entered with is still outstanding, which is `LoopInv` where the loop's test succeeds
(`CallsLoop`), and `GiveUp` is what is left when a select or a perform failed.

**AbyssServerProofs.** `ServerInv`: where the master is with the connection it brings in or
takes out (`MasterInv`); the stages of a connection (`LifeInv`: not touched, over, with a
thread that ends in three steps, or with a child that is in the pid pool until it has been
waited for); and `ListInv`: list, hand and the connection being added are together the live
ones, and where the master is past the test of the capacity there is room. A child that
dies before it is registered is the hard case: it is not in the pool, and nobody
collects it, because SIGCHLD is blocked from before the fork until the master has
registered it. `MasterInv` carries this (`blocked` at `register`), and the handler finds
every child it may reap. That at most `MAX_CONN` threads run is the cardinality of the
list, as it has no repetition.
`ServerImplements` is the refinement of `ConnectionPool`. It needs one more invariant,
`StopInv`: the master drains its list, or has returned, only when it was asked to, which can
happen to the threaded server alone. A request to stop may come between the test of
`terminationRequested` and the accept, so the pool allows for one more connection then, and for none
after it. A connection is closed for the pool where its socket is destroyed, several at a time
when one signal stands for several children (`PoolCloses`).

**HttpConnectionProofs.** First the stream: `FlattenSeq` of the requests, cut at each
request (`Upto`, `Located`). Then `ConnInv`. `StreamInv`: buffer and socket hold the last
pieces of what was sent, in order, so that any read is a continuation. `PlaceInv`: for each place of
`serverFunc` how far into the present request the server is, and what it knows of it: the
header lines it has heard are the first of the request's, the body it has is the first of
the request's, and it asks for a body only with an empty buffer. `AnswerInv` and `ClientInv`
relate the responses to what the client, knowing them, has sent: a client that waits has
not sent beyond the request after the last response, so nothing can be left in the buffer
when the server closes. `CallsInv` is about what the registry was given. `LoopInv` counts.
`ConnNothingSkipped` and `ConnCallsWhole` are needed by no other part;
`EachAnsweredForItself` needs all of them, as whether a 408 is deserved
depends on what the client had sent when the server stopped reading. A header that fits
is not stopped by a full buffer, as what the server keeps of it is a beginning of it
(`HeaderTimesOutInv`).
`ConnImplements` is the refinement of `RpcConnection`. For it `HeardInv` goes on beyond the header:
down to the response the session says what the header of the present request said, so
that the keepalive of a result follows from the request and its number alone, and the last
call is of the present request exactly until its result is sent (`SeenNow`). That a call
is made only of what has arrived (`CalledWhole`) is `PlaceInv`: what is consumed of the stream then
is the request to its end, and no more is consumed than was sent.

**RvmProofs.** `LockInv` says that a process owns the lock of a segment only while it is in
the one step between `LockSegment` and `LogBegin` of that segment. `TableInv` is about the
table, for any processes, with or without address reuse: what is mapped is inside
of its file (`LiveFits`), which other processes make longer at any time; each entry in use
describes a live mapping (`EntriesAgree`) and none is there twice (`NothingTwice`); what a
transaction has declared stays mapped (`DeclaredLive`); and what a call still has to do
is about entries in use (`TodoKnown`), although the list was made when the call began. Here
`TypeOK` is a result: an element of an array that was never written, a stale entry or a
read beyond the file would put something in a file that is no value. `StepOf`
splits each step: what it does to its own process, and that the others see their files not
shortened.

**RvmDataProofs.** `DataInv` adds the contents, of the segments that are not spoilt; the
mappings of these are `Kept`. Memory differs from the file only in what
the open transaction has declared (`UndeclaredAgrees`), and where a commit or an abort has
been, not even there (`LeftToDo`); what is declared is among the ranges a commit
writes (`DeclaredRanged`); a mapping has an entry and is of its whole file (`MappedWhole`), so the
seek from the end of the file hits the right place; what a running commit promises is
promised (`CommitPromised`), and a file is put together from such contents (`FilePromised`).
That no such segment is mapped by two processes (`Exclusive`) is part of the invariant.

Nothing is assumed of addresses or of sharing. What has to be proved instead is
that trouble with one segment is no trouble of another. A mapping without an entry can
write nothing, as a call finds addresses through the table. A mapping shared with
another process can be written over or grow under it, but all of this is in the one file: a
step is a step on the file of one segment (`WriteRangeLost`), and the other processes' kept
mappings are of other files (`OthersData`). `MapDoes` says what a map does in each of its
branches, and that the only ways to spoil a segment are a second process and an address in
`mapped[]` already.

`RvmImplements` is the refinement of `RecoverableStore`, which states what is lost, when,
and until when. An image
is what `Load` gives at the one address where the segment is mapped (`ImageIs`, `OneMapping`), and
nothing when the segment is spoilt (`Seen`).
Starts, locks and log records are steps of nothing. A write of a commit is of a
declared cell; or the range is left over from an earlier transaction and it writes what the
file has (`UndeclaredAgrees`); or it is to a lost segment: the last two are steps of nothing
too. That image and file are the same when a
commit returns is `LeftToDo` with an empty `todo`. A map is `Map` or `Lose` of the store, or is not
noticed when the segment is lost before and after (`StoreMapsSound`, `StoreLoses`,
`StoreMapsLost`).

**SequenceLemmas.** Appending, removing, prepending and taking the head of sequences without
repetition; and what `FlattenSeq` is: typed, compatible with `Append`, with the elements of
its parts. `FlattenSeq` is defined by recursion over the sequence. Its unfolding is proved from the
well-foundedness of the naturals (`CountingUp`: a property of 0 that n hands on to
n + 1 is everybody's; stated for a set, not for an operator).

*Only model-checked:* liveness (`ServerDrains`, `WaiterIsWoken`, `LoopEnds`,
`ConnectionIsClosed`, `TerminationReturns`, `SentIsAnswered`), which is out of the
prover's reach. What the runs that expect a violation and the demonstrations of
section 8 show are counterexamples.

*What proving changed.* Three definitions of the models were rewritten so that they could be reasoned
about, without a change to their behaviours: the guards of a `CASE` in `HttpConnection`
overlapped, and are disjoint now; `KeepaliveBy` looks for the last header that
says something instead of folding; `Known` of `Rvm` is a `FlattenSeq`. One property
became stronger: `EachAnsweredForItself` exempted every request the server cannot
read from the claim about a 408, and now exempts only a request line without version and a header that does not fit.

## 10. Not modelled, and the plan

Not modelled, and why:

* The start-up and end of project2 (`server.c:13-26`, `client.c:46-74`): the structure is
  copied over mutexes that may be in use, which has no defined outcome; the unlink
  and the death of a client.
* The contents of `store.log` and the `.log` files, `rvm_truncate_log` and `rvm_verbose`:
  the library never reads the logs. Destroying a mapped segment and writes that fail.
* Of the client: building the call's XML, server information, private clients, the
  options, headers, proxies and cookies of a Curl session. libcurl is external. Two
  threads in the event loop also write the manager's descriptor sets without its
  lock (`curlMulti_updateFdSet`); what libcurl makes of the sets is not modelled.
* Of Abyss: files, directories, access lists, MIME types, logs, `ServerRunOnce`,
  `ServerRunConn`, daemon start-up, the Windows sockets; of a connection, lines that
  are continued, chunked bodies, authentication and cookies. A call ends when its
  `Content-Length` is reached whatever the transfer encoding says.
* The registry, which runs one parsed call to its end in one thread; data types,
  parsers, encoders and expat (data, little control); the other transports (not built
  here), C++ wrappers, tools and the build system.
* The clock, `printf`, `usleep` and layout of output. The older client
  `xmlrpc_asynch_client.c` has the same handler and wait as the one modelled.

The largest part of the tree by lines is this vendored code: expat, gzip, wrappers,
generated configuration. Of the three projects' own code what is missing is named above.

Left to do:

1. What is left of a segment that several processes share without growing it, each cell
   declared by one of them only: the weakest discipline of callers under which its file
   holds what was promised. Now such a segment is lost.
2. What `StartRpc` gives back on each error path, as an invariant over `StartSteps` instead of the
   sets it is stated with.

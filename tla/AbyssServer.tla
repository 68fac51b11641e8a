----------------------------- MODULE AbyssServer -----------------------------
(***************************************************************************)
(* The connections of the Abyss HTTP server that the XML-RPC server of     *)
(* project3 runs on (lib/abyss/src/server.c, conn.c, thread_pthread.c,     *)
(* thread_fork.c, and the SIGCHLD handler of src/xmlrpc_server_abyss.c).   *)
(*                                                                         *)
(* ServerRun, the master, accepts connections and gives each a thread or,  *)
(* in the other build, a child process.  Only the master touches the list  *)
(* of outstanding connections: a thread that is done marks its connection  *)
(* finished, and the master collects the finished ones when the next       *)
(* connection comes, when there are MAX_CONN of them and when it shuts     *)
(* down.  A child that exits is seen by a signal handler, which interrupts *)
(* the master anywhere, or, where the program takes no SIGCHLD, by polling.*)
(* What happens inside a connection is module HttpConnection.              *)
(***************************************************************************)
EXTENDS Integers, Sequences, SequencesExt, FiniteSets

CONSTANTS
  Conns,      (* connections; one that is over may be made again            *)
  MAX_CONN,   (* 16 in the code                                             *)
  Builds,     (* "pthread"; "fork" with SIGCHLD; "polling": fork without it *)
  Failures    (* of "accept", "memory", "peer" (its name), "thread" or fork *)

ASSUME ServerAssumption ==
  /\ IsFiniteSet(Conns)
  /\ MAX_CONN \in Nat \ {0}
  /\ Builds \subseteq {"pthread", "fork", "polling"}
  /\ Failures \subseteq {"accept", "memory", "peer", "thread"}

VARIABLES
  build,
  client,      (* connection -> "away", "waiting" to be accepted, "taken"   *)
  backlog,     (* the kernel's queue of the waiting ones                    *)
  terminationRequested,
  blocked,     (* is SIGCHLD blocked? "yes" or "no"                         *)
  oldBlocked,  (* the mask ThreadCreate restores                            *)
  sigchld,     (* is one pending? signals of a kind do not queue            *)
  master,      (* where ServerRun is                                        *)
  arriving,    (* {} or the connection it accepted last                     *)
  list,        (* outstandingConnListP                                      *)
  cursor,      (* how far freeFinishedConns has got in it                   *)
  back,        (* who called freeFinishedConns                              *)
  hand,        (* {} or the connection taken out of the list, to release    *)
  conn,        (* its TConn: "none", "live", "freed", or "leaked"           *)
  finished,    (* connectionP->finished                                     *)
  pid,         (* threadP->pid: "set" or "none"                             *)
  job,         (* its thread or child: "none", "running", "cleanup" (the    *)
               (* thread's exit), "zombie" (the child's), "gone"            *)
  closed       (* how often its socket has been destroyed                   *)

run == <<master, arriving, list, cursor, back, hand>>
signals == <<blocked, oldBlocked, sigchld>>
conns == <<conn, finished, pid, job, closed>>
vars == <<build, client, backlog, terminationRequested, signals, run, conns>>

At(here) == master = here
Goto(there) == master' = there
Zombies == {c \in Conns : job[c] = "zombie"}

Init ==
  /\ build \in Builds
  /\ client = [c \in Conns |-> "away"]
  /\ backlog = <<>>
  /\ terminationRequested = "no"
  /\ blocked = "no"
  /\ oldBlocked = "no"
  /\ sigchld = "no"
  /\ master = "test"
  /\ arriving = {}
  /\ list = <<>>
  /\ cursor = 1
  /\ back = "serve"
  /\ hand = {}
  /\ conn = [c \in Conns |-> "none"]
  /\ finished = [c \in Conns |-> "no"]
  /\ pid = [c \in Conns |-> "none"]
  /\ job = [c \in Conns |-> "none"]
  /\ closed = [c \in Conns |-> 0]

(* External: a client connects, again perhaps once its last is released.    *)
Connect(c) ==
  /\ \/ client[c] = "away"
     \/ client[c] = "taken" /\ conn[c] # "live" /\ closed[c] > 0
  /\ client' = [client EXCEPT ![c] = "waiting"]
  /\ backlog' = Append(backlog, c)
  /\ conn' = [conn EXCEPT ![c] = "none"]
  /\ finished' = [finished EXCEPT ![c] = "no"]
  /\ job' = [job EXCEPT ![c] = "none"]
  /\ closed' = [closed EXCEPT ![c] = 0]
  /\ UNCHANGED <<build, terminationRequested, signals, run, pid>>

-----------------------------------------------------------------------------
(*                        serverRun2: the accept loop                       *)

(* Mutant: a shutdown is seen only when no connection is outstanding. *)
TestTermination_WhenIdle ==
  /\ At("test")
  /\ Goto(IF terminationRequested = "yes" /\ list = <<>> THEN "drain" ELSE "accept")
  /\ UNCHANGED <<build, client, backlog, terminationRequested, signals,
                 arriving, list, cursor, back, hand, conns>>

(* while (!terminationRequested) *)
TestTermination ==
  /\ At("test")
  /\ Goto(IF terminationRequested = "yes" THEN "drain" ELSE "accept")
  /\ UNCHANGED <<build, client, backlog, terminationRequested, signals,
                 arriving, list, cursor, back, hand, conns>>

(* Mutant: the list is gone through from its last place. *)
Collect_FromLast(caller) ==
  /\ Goto("scan")
  /\ cursor' = Len(list)
  /\ back' = caller

(* freeFinishedConns begins, for the given caller. *)
Collect(caller) ==
  /\ Goto("scan")
  /\ cursor' = 1
  /\ back' = caller

(* SocketAccept returns a connection; the finished ones are collected. *)
Accept ==
  /\ At("accept")
  /\ backlog # <<>>
  /\ arriving' = {Head(backlog)}
  /\ client' = [client EXCEPT ![Head(backlog)] = "taken"]
  /\ backlog' = Tail(backlog)
  /\ Collect("serve")
  /\ UNCHANGED <<build, terminationRequested, signals, list, hand, conns>>

(* It accepts one and has no memory for it: the connection is closed. *)
AcceptFails ==
  /\ "accept" \in Failures
  /\ At("accept")
  /\ backlog # <<>>
  /\ client' = [client EXCEPT ![Head(backlog)] = "taken"]
  /\ closed' = [closed EXCEPT ![Head(backlog)] = @ + 1]
  /\ backlog' = Tail(backlog)
  /\ Goto("test")
  /\ UNCHANGED <<build, terminationRequested, signals, arriving, list, cursor,
                 back, hand, conn, finished, pid, job>>

(* ThreadUpdateStatus: without SIGCHLD, kill(pid, 0) tells whether the child *)
(* exists.  One that has exited does, as long as nobody waits for it.       *)
FoundDead(c) == build = "polling" /\ pid[c] = "set" /\ job[c] = "gone"

(* One turn of freeFinishedConns. *)
ScanNext ==
  /\ At("scan")
  /\ cursor <= Len(list)
  /\ LET c == list[cursor] IN
       IF finished[c] = "yes" \/ FoundDead(c)
       THEN /\ list' = RemoveAt(list, cursor)
            /\ hand' = {c}
            /\ Goto("join")
            /\ UNCHANGED cursor
       ELSE /\ cursor' = cursor + 1
            /\ UNCHANGED <<list, hand, master>>
  /\ UNCHANGED <<build, client, backlog, terminationRequested, signals,
                 arriving, back, conns>>

(* Mutant: the thread is detached, not joined. *)
Join_NoWait ==
  /\ At("join")
  /\ conn' = [c \in Conns |-> IF c \in hand THEN "freed" ELSE conn[c]]
  /\ hand' = {}
  /\ Goto("scan")
  /\ UNCHANGED <<build, client, backlog, terminationRequested, signals,
                 arriving, list, cursor, back, finished, pid, job, closed>>

(* ConnWaitAndRelease: join the thread, or wait for the child unless the    *)
(* handler has already (it clears the pid); then the TConn is freed.        *)
Join ==
  /\ At("join")
  /\ \A c \in hand : job[c] = "gone" \/ (pid[c] = "set" /\ job[c] = "zombie")
  /\ conn' = [c \in Conns |-> IF c \in hand THEN "freed" ELSE conn[c]]
  /\ LET waited == {c \in hand : pid[c] = "set"} IN
       /\ closed' = [c \in Conns |-> closed[c] + IF c \in waited THEN 1 ELSE 0]
       /\ pid' = [c \in Conns |-> IF c \in waited THEN "none" ELSE pid[c]]
       /\ job' = [c \in Conns |-> IF c \in waited THEN "gone" ELSE job[c]]
  /\ hand' = {}
  /\ Goto("scan")
  /\ UNCHANGED <<build, client, backlog, terminationRequested, signals,
                 arriving, list, cursor, back, finished>>

(* The list has been gone through: serverRun2 tests the capacity, the two   *)
(* waits sleep when connections are left.                                   *)
ScanEnd ==
  /\ At("scan")
  /\ cursor > Len(list)
  /\ Goto(IF back = "serve" THEN "capacity"
          ELSE IF list = <<>> THEN back ELSE "asleep")
  /\ UNCHANGED <<build, client, backlog, terminationRequested, signals,
                 arriving, list, cursor, back, hand, conns>>

(* waitForConnectionFreed: the two seconds are over. *)
WakeUp ==
  /\ At("asleep")
  /\ Goto(back)
  /\ UNCHANGED <<build, client, backlog, terminationRequested, signals,
                 arriving, list, cursor, back, hand, conns>>

(* Mutant: the test of the limit is count > MAX_CONN. *)
CapacityTest_OneTooMany ==
  /\ At("capacity")
  /\ IF Len(list) > MAX_CONN
     THEN Collect("capacity")
     ELSE Goto("create") /\ UNCHANGED <<cursor, back>>
  /\ UNCHANGED <<build, client, backlog, terminationRequested, signals,
                 arriving, list, hand, conns>>

(* waitForConnectionCapacity *)
CapacityTest ==
  /\ At("capacity")
  /\ IF Len(list) >= MAX_CONN
     THEN Collect("capacity")
     ELSE Goto("create") /\ UNCHANGED <<cursor, back>>
  /\ UNCHANGED <<build, client, backlog, terminationRequested, signals,
                 arriving, list, hand, conns>>

(* Mutant: a child is forked with SIGCHLD not blocked. *)
CreateConn_NotBlocked ==
  /\ At("create")
  /\ \E c \in arriving :
       /\ conn' = [conn EXCEPT ![c] = "live"]
       /\ job' = [job EXCEPT ![c] = "running"]
  /\ oldBlocked' = blocked
  /\ Goto(IF build = "pthread" THEN "add" ELSE "register")
  /\ UNCHANGED <<build, client, backlog, terminationRequested, blocked, sigchld,
                 arriving, list, cursor, back, hand, finished, pid, closed>>

(* ConnCreate: the thread or child runs at once, before the list knows it.  *)
(* A child is forked with SIGCHLD blocked ...                               *)
CreateConn ==
  /\ At("create")
  /\ \E c \in arriving :
       /\ conn' = [conn EXCEPT ![c] = "live"]
       /\ job' = [job EXCEPT ![c] = "running"]
  /\ oldBlocked' = blocked
  /\ IF build = "pthread"
     THEN Goto("add") /\ UNCHANGED blocked
     ELSE Goto("register") /\ blocked' = "yes"
  /\ UNCHANGED <<build, client, backlog, terminationRequested, sigchld,
                 arriving, list, cursor, back, hand, finished, pid, closed>>

(* ... until it is in the pool the signal handler looks it up in.           *)
Register ==
  /\ At("register")
  /\ \E c \in arriving : pid' = [pid EXCEPT ![c] = "set"]
  /\ blocked' = oldBlocked
  /\ Goto("add")
  /\ UNCHANGED <<build, client, backlog, terminationRequested, oldBlocked,
                 sigchld, arriving, list, cursor, back, hand, conn, finished,
                 job, closed>>

(* It fails: the socket is destroyed, the TConn, if there was memory for it, *)
(* is not freed.  A fork that fails leaves SIGCHLD blocked.                 *)
CreateConnFails ==
  /\ At("create")
  /\ \E c \in arriving : \E why \in Failures \ {"accept"} :
       /\ conn' = [conn EXCEPT ![c] = IF why = "memory" THEN "none" ELSE "leaked"]
       /\ closed' = [closed EXCEPT ![c] = @ + 1]
       /\ blocked' = IF why = "thread" /\ build # "pthread" THEN "yes" ELSE blocked
  /\ arriving' = {}
  /\ Goto("test")
  /\ UNCHANGED <<build, client, backlog, terminationRequested, oldBlocked,
                 sigchld, list, cursor, back, hand, finished, pid, job>>

(* addToOutstandingConnList; ConnProcess has nothing left to start. *)
AddToList ==
  /\ At("add")
  /\ list' = SetToSeq(arriving) \o list
  /\ arriving' = {}
  /\ Goto("test")
  /\ UNCHANGED <<build, client, backlog, terminationRequested, signals, cursor,
                 back, hand, conns>>

(* waitForNoConnections, then ServerRun returns. *)
DrainTest ==
  /\ At("drain")
  /\ IF list = <<>>
     THEN Goto("returned") /\ UNCHANGED <<cursor, back>>
     ELSE Collect("drain")
  /\ UNCHANGED <<build, client, backlog, terminationRequested, signals,
                 arriving, list, hand, conns>>

-----------------------------------------------------------------------------
(*                     The threads, the children, the signal                *)

(* A request handled in a thread asks for the server's termination.  (In a  *)
(* child it changes the child's copy: the master never learns of it.)       *)
ServerTerminate(c) ==
  /\ build = "pthread"
  /\ job[c] = "running"
  /\ terminationRequested = "no"
  /\ terminationRequested' = "yes"
  /\ UNCHANGED <<build, client, backlog, signals, run, conns>>

(* Mutant: the job destroys the socket it has served. *)
JobReturns_Closes(c) ==
  /\ job[c] = "running"
  /\ build = "pthread"
  /\ finished' = [finished EXCEPT ![c] = "yes"]
  /\ job' = [job EXCEPT ![c] = "cleanup"]
  /\ closed' = [closed EXCEPT ![c] = @ + 1]
  /\ UNCHANGED <<build, client, backlog, terminationRequested, signals, run,
                 conn, pid>>

(* connJob: serverFunc is over.  A thread marks its connection finished and *)
(* goes on to its cleanup; a child marks only its own copy, and exits.      *)
JobReturns(c) ==
  /\ job[c] = "running"
  /\ IF build = "pthread"
     THEN /\ finished' = [finished EXCEPT ![c] = "yes"]
          /\ job' = [job EXCEPT ![c] = "cleanup"]
          /\ UNCHANGED sigchld
     ELSE /\ job' = [job EXCEPT ![c] = "zombie"]
          /\ sigchld' = IF build = "fork" THEN "yes" ELSE "no"
          /\ UNCHANGED finished
  /\ UNCHANGED <<build, client, backlog, terminationRequested, blocked,
                 oldBlocked, run, conn, pid, closed>>

(* connDone, run by the thread's cleanup handler: after that it is gone. *)
ConnDone(c) ==
  /\ job[c] = "cleanup"
  /\ finished' = [finished EXCEPT ![c] = "yes"]
  /\ closed' = [closed EXCEPT ![c] = @ + 1]
  /\ job' = [job EXCEPT ![c] = "gone"]
  /\ UNCHANGED <<build, client, backlog, terminationRequested, signals, run,
                 conn, pid>>

(* A wait of the master that a signal ends. *)
Interrupted == CASE At("accept") -> "test" [] At("asleep") -> back
                 [] OTHER -> master

(* ThreadHandleSigchld of these children: connDone for those in the pool,   *)
(* in the master, wherever that is.                                         *)
Reap(children) ==
  LET known == {c \in children : pid[c] = "set"} IN
    /\ finished' = [c \in Conns |-> IF c \in known THEN "yes" ELSE finished[c]]
    /\ closed' = [c \in Conns |-> closed[c] + IF c \in known THEN 1 ELSE 0]
    /\ pid' = [c \in Conns |-> IF c \in known THEN "none" ELSE pid[c]]
    /\ job' = [c \in Conns |-> IF c \in children THEN "gone" ELSE job[c]]

(* Mutant: the handler waits for one child per signal. *)
HandleSigchld_One ==
  /\ sigchld = "yes"
  /\ blocked = "no"
  /\ sigchld' = "no"
  /\ \E c \in Zombies : Reap({c})
  /\ Goto(Interrupted)
  /\ UNCHANGED <<build, client, backlog, terminationRequested, blocked,
                 oldBlocked, arriving, list, cursor, back, hand, conn>>

(* sigchld waits for every child that has exited.                           *)
HandleSigchld ==
  /\ sigchld = "yes"
  /\ blocked = "no"
  /\ sigchld' = "no"
  /\ Reap(Zombies)
  /\ Goto(Interrupted)
  /\ UNCHANGED <<build, client, backlog, terminationRequested, blocked,
                 oldBlocked, arriving, list, cursor, back, hand, conn>>

-----------------------------------------------------------------------------
MasterStep ==
  \/ TestTermination
  \/ Accept
  \/ AcceptFails
  \/ ScanNext
  \/ Join
  \/ ScanEnd
  \/ WakeUp
  \/ CapacityTest
  \/ CreateConn
  \/ Register
  \/ CreateConnFails
  \/ AddToList
  \/ DrainTest

Next ==
  \/ MasterStep
  \/ HandleSigchld
  \/ \E c \in Conns :
       Connect(c) \/ ServerTerminate(c) \/ JobReturns(c) \/ ConnDone(c)

(* The master, the threads and the signals go on.  A job ends: the server   *)
(* closes a connection that is silent for keepalivetimeout or has had       *)
(* keepalivemaxconn requests, and the handlers of requests return.          *)
Fairness ==
  /\ WF_vars(MasterStep)
  /\ WF_vars(HandleSigchld)
  /\ \A c \in Conns : WF_vars(JobReturns(c)) /\ WF_vars(ConnDone(c))

Spec == Init /\ [][Next]_vars /\ Fairness

-----------------------------------------------------------------------------
TypeOK ==
  /\ build \in Builds
  /\ client \in [Conns -> {"away", "waiting", "taken"}]
  /\ backlog \in Seq(Conns)
  /\ terminationRequested \in {"no", "yes"}
  /\ blocked \in {"no", "yes"}
  /\ oldBlocked \in {"no", "yes"}
  /\ sigchld \in {"no", "yes"}
  /\ master \in {"test", "accept", "scan", "join", "asleep", "capacity",
                 "create", "register", "add", "drain", "returned"}
  /\ arriving \subseteq Conns
  /\ list \in Seq(Conns)
  /\ cursor \in Nat \ {0}
  /\ back \in {"serve", "capacity", "drain"}
  /\ hand \subseteq Conns
  /\ conn \in [Conns -> {"none", "live", "freed", "leaked"}]
  /\ finished \in [Conns -> {"no", "yes"}]
  /\ pid \in [Conns -> {"none", "set"}]
  /\ job \in [Conns -> {"none", "running", "cleanup", "zombie", "gone"}]
  /\ closed \in [Conns -> Nat]

(* A TConn is not freed, nor its socket destroyed, while its thread uses     *)
(* them (marking it finished is not the last the thread does), nor while a   *)
(* signal handler may still look it up by the pid of its child.              *)
InUseIsAllocated ==
  \A c \in Conns :
    /\ job[c] \in {"running", "cleanup"} => conn[c] = "live" /\ closed[c] = 0
    /\ pid[c] = "set" => conn[c] = "live" /\ closed[c] = 0

(* A socket is destroyed once, whichever of the thread's cleanup, the signal *)
(* handler, the wait for a child and the error paths comes to do it, and by  *)
(* the time a TConn is freed it has been.                                    *)
ClosedOnce ==
  \A c \in Conns :
    /\ closed[c] <= 1
    /\ conn[c] \in {"freed", "leaked"} => closed[c] = 1

(* The list, which only the master changes, has every live connection once,  *)
(* but the one being added or released, and never more than MAX_CONN; so no  *)
(* more than MAX_CONN threads run.  When ServerRun returns there is none.    *)
ListIsOutstanding ==
  /\ Len(list) <= MAX_CONN
  /\ IsInjective(list)
  /\ ToSet(list) \subseteq {c \in Conns : conn[c] = "live"}
  /\ {c \in Conns : conn[c] = "live"} \subseteq ToSet(list) \cup arriving \cup hand
  /\ Cardinality({c \in Conns : job[c] \in {"running", "cleanup"}}) <= MAX_CONN
  /\ At("returned") => \A c \in Conns : conn[c] # "live"

(* A fork that failed has left SIGCHLD blocked for good. *)
SigchldLost == blocked = "yes" /\ ~At("register")

(* Every connection that waits is accepted, served and closed, unless the    *)
(* server stops first: a full list gets room again.  Not so once SIGCHLD is  *)
(* lost.                                                                     *)
ConnectionIsClosed ==
  \A c \in Conns :
    client[c] = "waiting" ~> closed[c] = 1 \/ At("returned") \/ SigchldLost

(* shutdownAbyss: the connections in progress are finished up and ServerRun  *)
(* returns, as soon as one more connection arrives to wake it.               *)
TerminationReturns ==
  terminationRequested = "yes" /\ backlog # <<>> ~> At("returned")

(* The server implements a pool of MAX_CONN connections, whatever finishes a *)
(* connection and wherever a signal finds the master: a connection is next   *)
(* until its thread or child exists, and served until its socket is gone.    *)
Pool == INSTANCE ConnectionPool WITH
  Capacity <- MAX_CONN,
  queue <- backlog,
  next <- {c \in arriving : conn[c] # "live"},
  serving <- {c \in Conns : conn[c] = "live" /\ closed[c] = 0},
  stop <- IF At("returned") THEN "stopped"
          ELSE IF terminationRequested = "no" THEN "no"
          ELSE IF At("accept") THEN "once" ELSE "closing"

PoolSpec == Pool!Spec
=============================================================================

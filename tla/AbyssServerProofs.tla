-------------------------- MODULE AbyssServerProofs --------------------------
(***************************************************************************)
(* Proofs about AbyssServer, for any set of connections, any MAX_CONN, each *)
(* build and each set of failures.  The inductive invariant says where the *)
(* master is with the connection it brings in or takes out, what a         *)
(* connection can be in each stage of its life, and that the list has the  *)
(* live ones.                                                              *)
(***************************************************************************)
EXTENDS AbyssServer, SequenceLemmas

USE ServerAssumption

-----------------------------------------------------------------------------
(*                            The invariant                                 *)

(* The master has a connection it has accepted and not yet got rid of. *)
Bringing ==
  \/ master \in {"capacity", "create", "register", "add"}
  \/ master \in {"scan", "join", "asleep"} /\ back # "drain"

(* It has a connection in hand exactly where it waits for its thread. *)
MasterInv ==
  /\ IF Bringing THEN \E c \in Conns : arriving = {c} ELSE arriving = {}
  /\ IF At("join") THEN \E c \in Conns : hand = {c} ELSE hand = {}
  /\ At("asleep") => back \in {"capacity", "drain"}
  /\ At("register") => build # "pthread" /\ blocked = "yes"
  /\ sigchld = "yes" => build = "fork"

BacklogInv ==
  /\ IsInjective(backlog)
  /\ \A c \in ToSet(backlog) : client[c] = "waiting"

(* A new connection, not touched yet. *)
Fresh(c) ==
  /\ conn[c] = "none"
  /\ finished[c] = "no"
  /\ pid[c] = "none"
  /\ job[c] = "none"
  /\ closed[c] = 0

(* One that the server is through with. *)
Over(c) ==
  /\ conn[c] # "live"
  /\ pid[c] = "none"
  /\ job[c] \in {"none", "gone"}
  /\ closed[c] = 1
  /\ c \notin arriving

(* One that has a thread, which is done with it in three steps. *)
InThread(c) ==
  /\ build = "pthread"
  /\ pid[c] = "none"
  /\ \/ job[c] = "running" /\ finished[c] = "no" /\ closed[c] = 0
     \/ job[c] = "cleanup" /\ finished[c] = "yes" /\ closed[c] = 0
     \/ job[c] = "gone" /\ finished[c] = "yes" /\ closed[c] = 1

BeingRegistered(c) == At("register") /\ c \in arriving

(* One that has a child: until the handler or the join has waited for it,   *)
(* it is in the pool, unless the master has yet to put it there.            *)
InChild(c) ==
  /\ build # "pthread"
  /\ \/ /\ job[c] \in {"running", "zombie"}
        /\ finished[c] = "no"
        /\ closed[c] = 0
        /\ pid[c] = IF BeingRegistered(c) THEN "none" ELSE "set"
     \/ /\ job[c] = "gone"
        /\ finished[c] = "yes"
        /\ closed[c] = 1
        /\ pid[c] = "none"
        /\ ~BeingRegistered(c)

LifeOf(c) ==
  IF client[c] # "taken" THEN Fresh(c) /\ c \notin arriving
  ELSE \/ Fresh(c) /\ c \in arriving /\ master \notin {"register", "add"}
       \/ Over(c)
       \/ conn[c] = "live" /\ (InThread(c) \/ InChild(c))

LifeInv == \A c \in Conns : LifeOf(c)

Live == {c \in Conns : conn[c] = "live"}

(* The connection that is live before it is in the list. *)
Added == IF master \in {"register", "add"} THEN arriving ELSE {}

ListInv ==
  /\ IsInjective(list)
  /\ ToSet(list) \cup hand \cup Added = Live
  /\ ToSet(list) \cap (hand \cup arriving) = {}
  /\ hand \cap arriving = {}
  /\ \A c \in hand : finished[c] = "yes"
  /\ Len(list) <= MAX_CONN
  /\ master \in {"join", "create", "register", "add"} => Len(list) < MAX_CONN
  /\ At("returned") => list = <<>>

ServerInv == TypeOK /\ MasterInv /\ BacklogInv /\ LifeInv /\ ListInv

-----------------------------------------------------------------------------
(*                              The steps                                   *)

USE DEF At, Goto, Collect, run, signals, conns

(* The steps of the master that only go on to the next place. *)
LEMMA MasterMoves ==
  ASSUME ServerInv,
         TestTermination \/ ScanEnd \/ WakeUp \/ CapacityTest \/ DrainTest
  PROVE  ServerInv'
<1> USE DEF TestTermination, ScanEnd, WakeUp, CapacityTest, DrainTest
<1>1. TypeOK' /\ MasterInv'
  BY DEF ServerInv, TypeOK, MasterInv, Bringing
<1>2. BacklogInv'
  BY DEF ServerInv, TypeOK, BacklogInv
<1>3. LifeInv'
  BY DEF ServerInv, TypeOK, MasterInv, Bringing, LifeInv, LifeOf, Fresh, Over,
         InThread, InChild, BeingRegistered
<1>4. ListInv'
  BY DEF ServerInv, TypeOK, MasterInv, Bringing, ListInv, Live, Added
<1>. QED  BY <1>1, <1>2, <1>3, <1>4 DEF ServerInv

(* The connection at the head of the backlog is a new one. *)
LEMMA HeadIsNew ==
  ASSUME ServerInv, backlog # <<>>
  PROVE  /\ Head(backlog) \in Conns
         /\ client[Head(backlog)] = "waiting"
         /\ Fresh(Head(backlog)) /\ Head(backlog) \notin arriving
         /\ Head(backlog) \notin ToSet(list) \cup hand
         /\ Tail(backlog) \in Seq(Conns)
         /\ IsInjective(Tail(backlog))
         /\ ToSet(Tail(backlog)) = ToSet(backlog) \ {Head(backlog)}
<1>1. backlog \in Seq(Conns) /\ IsInjective(backlog)
  BY DEF ServerInv, TypeOK, BacklogInv
<1>2. /\ Head(backlog) \in Conns /\ Head(backlog) \in ToSet(backlog)
      /\ Tail(backlog) \in Seq(Conns)
      /\ IsInjective(Tail(backlog))
      /\ ToSet(Tail(backlog)) = ToSet(backlog) \ {Head(backlog)}
  BY <1>1, TailLoses
<1>3. client[Head(backlog)] = "waiting"
  BY <1>2 DEF ServerInv, BacklogInv
<1>4. Fresh(Head(backlog)) /\ Head(backlog) \notin arriving
  BY <1>2, <1>3 DEF ServerInv, LifeInv, LifeOf
<1>5. Head(backlog) \notin ToSet(list) \cup hand
  BY <1>4 DEF ServerInv, ListInv, Live, Fresh
<1>. QED  BY <1>2, <1>3, <1>4, <1>5

(* The rest of the backlog waits on. *)
LEMMA BacklogShorter ==
  ASSUME ServerInv, backlog # <<>>, backlog' = Tail(backlog),
         client' = [client EXCEPT ![Head(backlog)] = "taken"]
  PROVE  BacklogInv'
<1>1. /\ IsInjective(backlog')
      /\ ToSet(backlog') = ToSet(backlog) \ {Head(backlog)}
      /\ backlog' \in Seq(Conns)
  BY HeadIsNew
<1>2. \A c \in ToSet(backlog') : c \in Conns
  BY <1>1 DEF ToSet
<1>. QED  BY <1>1, <1>2 DEF ServerInv, TypeOK, BacklogInv

(* An accepted connection is what the master brings in from now on.         *)
LEMMA StepAccept == ASSUME ServerInv, Accept PROVE ServerInv'
<1> DEFINE c == Head(backlog)
<1>0. /\ master = "accept" /\ backlog # <<>>
      /\ arriving' = {c} /\ backlog' = Tail(backlog)
      /\ client' = [client EXCEPT ![c] = "taken"]
      /\ master' = "scan" /\ cursor' = 1 /\ back' = "serve"
      /\ UNCHANGED <<build, terminationRequested, signals, list, hand, conns>>
  BY DEF Accept
<1>1. /\ c \in Conns /\ Fresh(c) /\ c \notin ToSet(list) \cup hand
      /\ Tail(backlog) \in Seq(Conns)
  BY <1>0, HeadIsNew
<1>2. BacklogInv'
  BY <1>0, BacklogShorter
<1> HIDE DEF c
<1>3. TypeOK' /\ MasterInv'
  BY <1>0, <1>1 DEF ServerInv, TypeOK, MasterInv, Bringing
<1>4. LifeInv'
  <2> SUFFICES ASSUME NEW d \in Conns PROVE LifeOf(d)'
    BY DEF LifeInv
  <2>1. LifeOf(d) /\ arriving = {}
    BY <1>0 DEF ServerInv, LifeInv, MasterInv, Bringing
  <2>. QED  BY <1>0, <1>1, <2>1
       DEF ServerInv, TypeOK, LifeOf, Fresh, Over, InThread, InChild, BeingRegistered
<1>5. ListInv'
  <2>1. arriving = {} /\ Added = {}
    BY <1>0 DEF ServerInv, MasterInv, Bringing, Added
  <2>. QED  BY <1>0, <1>1, <2>1 DEF ServerInv, ListInv, Live, Added
<1>. QED  BY <1>2, <1>3, <1>4, <1>5 DEF ServerInv

(* A connection for which there is no memory is over at once.               *)
LEMMA StepAcceptFails == ASSUME ServerInv, AcceptFails PROVE ServerInv'
<1> DEFINE c == Head(backlog)
<1>0. /\ master = "accept" /\ backlog # <<>>
      /\ backlog' = Tail(backlog)
      /\ client' = [client EXCEPT ![c] = "taken"]
      /\ closed' = [closed EXCEPT ![c] = @ + 1]
      /\ master' = "test"
      /\ UNCHANGED <<build, terminationRequested, signals, arriving, list, cursor,
                     back, hand, conn, finished, pid, job>>
  BY DEF AcceptFails
<1>1. /\ c \in Conns /\ Fresh(c) /\ c \notin arriving
      /\ Tail(backlog) \in Seq(Conns)
  BY <1>0, HeadIsNew
<1>2. BacklogInv'
  BY <1>0, BacklogShorter
<1> HIDE DEF c
<1>3. TypeOK' /\ MasterInv'
  BY <1>0, <1>1 DEF ServerInv, TypeOK, MasterInv, Bringing
<1>4. LifeInv'
  <2> SUFFICES ASSUME NEW d \in Conns PROVE LifeOf(d)'
    BY DEF LifeInv
  <2>1. LifeOf(d)
    BY DEF ServerInv, LifeInv
  <2>. QED  BY <1>0, <1>1, <2>1
       DEF ServerInv, TypeOK, LifeOf, Fresh, Over, InThread, InChild, BeingRegistered
<1>5. ListInv'
  BY <1>0 DEF ServerInv, ListInv, Live, Added
<1>. QED  BY <1>2, <1>3, <1>4, <1>5 DEF ServerInv

(* No child is found dead: it has a pid until somebody has waited for it. *)
LEMMA NobodyFoundDead == ASSUME ServerInv, NEW c \in Conns PROVE ~FoundDead(c)
  BY DEF FoundDead, ServerInv, TypeOK, LifeInv, LifeOf, Fresh, Over, InThread, InChild

(* One turn of freeFinishedConns: on to the next place, or a connection that *)
(* is finished goes from the list to the master's hand.                     *)
LEMMA StepScanNext == ASSUME ServerInv, ScanNext PROVE ServerInv'
<1>1. CASE UNCHANGED <<list, hand, master>>
  <2>1. cursor' \in Nat \ {0} /\ UNCHANGED <<build, client, backlog,
          terminationRequested, signals, arriving, back, conns>>
    BY <1>1 DEF ScanNext, ServerInv, TypeOK
  <2>2. TypeOK' /\ MasterInv' /\ BacklogInv'
    BY <1>1, <2>1 DEF ServerInv, TypeOK, MasterInv, Bringing, BacklogInv
  <2>3. LifeInv' /\ ListInv'
    BY <1>1, <2>1 DEF ServerInv, LifeInv, LifeOf, Fresh, Over, InThread, InChild,
                      BeingRegistered, ListInv, Live, Added
  <2>. QED  BY <2>2, <2>3 DEF ServerInv
<1>2. CASE ~UNCHANGED <<list, hand, master>>
  <2> DEFINE c == list[cursor]
  <2>1. /\ list \in Seq(Conns) /\ IsInjective(list) /\ cursor \in 1 .. Len(list)
        /\ master = "scan"
    BY DEF ScanNext, ServerInv, TypeOK, ListInv
  <2>2. /\ c \in Conns /\ c \in ToSet(list)
        /\ RemoveAt(list, cursor) \in Seq(Conns)
        /\ IsInjective(RemoveAt(list, cursor))
        /\ ToSet(RemoveAt(list, cursor)) = ToSet(list) \ {c}
        /\ Len(RemoveAt(list, cursor)) = Len(list) - 1
    BY <2>1, RemoveLoses
  <2>3. /\ finished[c] = "yes"
        /\ list' = RemoveAt(list, cursor) /\ hand' = {c} /\ master' = "join"
        /\ UNCHANGED <<cursor, build, client, backlog, terminationRequested,
                       signals, arriving, back, conns>>
    BY <1>2, <2>2, NobodyFoundDead DEF ScanNext
  <2> HIDE DEF c
  <2>4. TypeOK' /\ MasterInv' /\ BacklogInv'
    BY <2>1, <2>2, <2>3 DEF ServerInv, TypeOK, MasterInv, Bringing, BacklogInv
  <2>5. LifeInv'
    BY <2>1, <2>3 DEF ServerInv, LifeInv, LifeOf, Fresh, Over, InThread, InChild,
                      BeingRegistered
  <2>6. ListInv'
    <3>1. Len(list) \in Nat /\ Len(list) <= MAX_CONN /\ hand = {} /\ Added = {}
      BY <2>1 DEF ServerInv, ListInv, MasterInv, Added
    <3>2. Len(list') <= MAX_CONN /\ Len(list') < MAX_CONN
      BY <2>2, <2>3, <3>1
    <3>3. ToSet(list) = Live /\ ToSet(list) \cap arriving = {}
      BY <3>1 DEF ServerInv, ListInv
    <3>4. Live' = Live /\ Added' = {}
      BY <2>3 DEF Live, Added
    <3>. QED  BY <2>2, <2>3, <3>2, <3>3, <3>4 DEF ListInv
  <2>. QED  BY <2>4, <2>5, <2>6 DEF ServerInv
<1>. QED  BY <1>1, <1>2

(* The master has a connection in hand that is over for its thread or child: *)
(* the wait only has a TConn to free.                                        *)
LEMMA StepJoin == ASSUME ServerInv, Join PROVE ServerInv'
<1>0. PICK c \in Conns : hand = {c}
  BY DEF Join, ServerInv, MasterInv
<1>1. /\ conn[c] = "live" /\ finished[c] = "yes" /\ c \notin ToSet(list)
      /\ c \notin arriving
  BY <1>0 DEF ServerInv, ListInv, Live
<1>2. /\ job[c] = "gone" \/ (pid[c] = "set" /\ job[c] = "zombie")
      /\ LifeOf(c)
  BY <1>0 DEF Join, ServerInv, LifeInv
<1>3. job[c] = "gone" /\ closed[c] = 1 /\ pid[c] = "none" /\ client[c] = "taken"
  BY <1>1, <1>2 DEF LifeOf, Fresh, Over, InThread, InChild
<1>4. /\ conn' = [conn EXCEPT ![c] = "freed"] /\ hand' = {}
      /\ master = "join" /\ master' = "scan"
      /\ UNCHANGED <<build, client, backlog, terminationRequested, signals,
                     arriving, list, cursor, back, finished, closed, pid, job>>
  <2>1. {d \in hand : pid[d] = "set"} = {}
    BY <1>0, <1>3
  <2>2. closed' = closed /\ pid' = pid /\ job' = job
    BY <2>1 DEF Join, ServerInv, TypeOK
  <2>3. conn' = [conn EXCEPT ![c] = "freed"] /\ hand' = {}
    BY <1>0 DEF Join, ServerInv, TypeOK
  <2>4. master = "join" /\ master' = "scan"
    BY DEF Join
  <2>5. UNCHANGED <<build, client, backlog, terminationRequested, signals,
                    arriving, list, cursor, back, finished>>
    BY DEF Join
  <2>. QED  BY <2>2, <2>3, <2>4, <2>5
<1>5. TypeOK' /\ MasterInv' /\ BacklogInv'
  BY <1>4 DEF ServerInv, TypeOK, MasterInv, Bringing, BacklogInv
<1>6. LifeInv'
  <2> SUFFICES ASSUME NEW d \in Conns PROVE LifeOf(d)'
    BY DEF LifeInv
  <2>1. LifeOf(d)
    BY DEF ServerInv, LifeInv
  <2>2. CASE d = c
    BY <1>1, <1>3, <1>4, <2>2 DEF ServerInv, TypeOK, LifeOf, Over
  <2>3. CASE d # c
    BY <1>4, <2>1, <2>3 DEF ServerInv, TypeOK, LifeOf, Fresh, Over, InThread,
                            InChild, BeingRegistered
  <2>. QED  BY <2>2, <2>3
<1>7. ListInv'
  <2>1. Live' = Live \ {c} /\ Added = {} /\ Added' = {}
    BY <1>4 DEF ServerInv, TypeOK, Live, Added
  <2>. QED  BY <1>0, <1>1, <1>4, <2>1 DEF ServerInv, ListInv
<1>. QED  BY <1>5, <1>6, <1>7 DEF ServerInv

(* The connection that is being made is a new one. *)
LEMMA ArrivingIsNew ==
  ASSUME ServerInv, master = "create"
  PROVE  \E c \in Conns : /\ arriving = {c} /\ client[c] = "taken" /\ Fresh(c)
                          /\ hand = {} /\ c \notin ToSet(list)
                          /\ ToSet(list) = Live /\ Len(list) < MAX_CONN
<1>1. PICK c \in Conns : arriving = {c}
  BY DEF ServerInv, MasterInv, Bringing
<1>2. hand = {} /\ Added = {}
  BY DEF ServerInv, MasterInv, Added
<1>3. client[c] = "taken" /\ c \notin ToSet(list) /\ ToSet(list) = Live
  BY <1>1, <1>2 DEF ServerInv, LifeInv, LifeOf, ListInv
<1>4. Fresh(c)
  BY <1>1, <1>3 DEF ServerInv, LifeInv, LifeOf, Over, Live
<1>. QED  BY <1>1, <1>2, <1>3, <1>4 DEF ServerInv, ListInv

(* The thread or child that is made runs before the list knows about it.    *)
LEMMA StepCreateConn == ASSUME ServerInv, CreateConn PROVE ServerInv'
<1>0. PICK c \in Conns : /\ arriving = {c} /\ client[c] = "taken" /\ Fresh(c)
                         /\ hand = {} /\ c \notin ToSet(list)
                         /\ ToSet(list) = Live /\ Len(list) < MAX_CONN
  BY ArrivingIsNew DEF CreateConn
<1>1. /\ conn' = [conn EXCEPT ![c] = "live"]
      /\ job' = [job EXCEPT ![c] = "running"]
      /\ master = "create"
      /\ master' = IF build = "pthread" THEN "add" ELSE "register"
      /\ blocked' = IF build = "pthread" THEN blocked ELSE "yes"
      /\ oldBlocked' = blocked
      /\ UNCHANGED <<build, client, backlog, terminationRequested, sigchld,
                     arriving, list, cursor, back, hand, finished, pid, closed>>
  BY <1>0 DEF CreateConn
<1>2. TypeOK' /\ MasterInv' /\ BacklogInv'
  BY <1>0, <1>1 DEF ServerInv, TypeOK, MasterInv, Bringing, BacklogInv
<1>3. LifeInv'
  <2> SUFFICES ASSUME NEW d \in Conns PROVE LifeOf(d)'
    BY DEF LifeInv
  <2>1. LifeOf(d)
    BY DEF ServerInv, LifeInv
  <2>2. CASE d = c
    BY <1>0, <1>1, <2>2
       DEF ServerInv, TypeOK, LifeOf, Fresh, InThread, InChild, BeingRegistered
  <2>3. CASE d # c
    BY <1>0, <1>1, <2>1, <2>3
       DEF ServerInv, TypeOK, LifeOf, Fresh, Over, InThread, InChild, BeingRegistered
  <2>. QED  BY <2>2, <2>3
<1>4. ListInv'
  <2>1. Live' = Live \cup {c} /\ Added' = {c}
    BY <1>0, <1>1 DEF ServerInv, TypeOK, Live, Added
  <2>. QED  BY <1>0, <1>1, <2>1 DEF ServerInv, ListInv
<1>. QED  BY <1>2, <1>3, <1>4 DEF ServerInv

(* ConnCreate fails: the connection is over, whatever it leaks.             *)
LEMMA StepCreateConnFails == ASSUME ServerInv, CreateConnFails PROVE ServerInv'
<1>0. PICK c \in Conns : /\ arriving = {c} /\ client[c] = "taken" /\ Fresh(c)
                         /\ hand = {} /\ c \notin ToSet(list)
                         /\ ToSet(list) = Live /\ Len(list) < MAX_CONN
  BY ArrivingIsNew DEF CreateConnFails
<1>1. /\ \E after \in {"none", "leaked"} : conn' = [conn EXCEPT ![c] = after]
      /\ closed' = [closed EXCEPT ![c] = @ + 1]
      /\ blocked' \in {blocked, "yes"}
      /\ arriving' = {}
      /\ master = "create" /\ master' = "test"
      /\ UNCHANGED <<build, client, backlog, terminationRequested, oldBlocked,
                     sigchld, list, cursor, back, hand, finished, pid, job>>
  BY <1>0 DEF CreateConnFails
<1>2. TypeOK' /\ MasterInv' /\ BacklogInv'
  BY <1>0, <1>1 DEF ServerInv, TypeOK, MasterInv, Bringing, BacklogInv
<1>3. LifeInv'
  <2> SUFFICES ASSUME NEW d \in Conns PROVE LifeOf(d)'
    BY DEF LifeInv
  <2>1. LifeOf(d)
    BY DEF ServerInv, LifeInv
  <2>2. CASE d = c
    BY <1>0, <1>1, <2>2 DEF ServerInv, TypeOK, LifeOf, Fresh, Over
  <2>3. CASE d # c
    BY <1>0, <1>1, <2>1, <2>3
       DEF ServerInv, TypeOK, LifeOf, Fresh, Over, InThread, InChild, BeingRegistered
  <2>. QED  BY <2>2, <2>3
<1>4. ListInv'
  <2>1. Live' = Live /\ Added' = {}
    BY <1>0, <1>1 DEF ServerInv, TypeOK, Live, Added, Fresh
  <2>. QED  BY <1>0, <1>1, <2>1 DEF ServerInv, ListInv
<1>. QED  BY <1>2, <1>3, <1>4 DEF ServerInv

(* The child gets into the pool, and SIGCHLD may come again.                *)
LEMMA StepRegister == ASSUME ServerInv, Register PROVE ServerInv'
<1>0. PICK c \in Conns : arriving = {c}
  BY DEF Register, ServerInv, MasterInv, Bringing
<1>1. /\ master = "register" /\ master' = "add"
      /\ pid' = [pid EXCEPT ![c] = "set"]
      /\ blocked' = oldBlocked
      /\ UNCHANGED <<build, client, backlog, terminationRequested, oldBlocked,
                     sigchld, arriving, list, cursor, back, hand, conn, finished,
                     job, closed>>
  BY <1>0 DEF Register
<1>2. TypeOK' /\ MasterInv' /\ BacklogInv'
  BY <1>0, <1>1 DEF ServerInv, TypeOK, MasterInv, Bringing, BacklogInv
<1>3. conn[c] = "live" /\ build # "pthread"
  BY <1>0, <1>1 DEF ServerInv, MasterInv, ListInv, Live, Added
<1>4. LifeInv'
  BY <1>0, <1>1, <1>3 DEF ServerInv, TypeOK, LifeInv, LifeOf, Fresh, Over, InThread,
                          InChild, BeingRegistered
<1>5. ListInv'
  BY <1>0, <1>1 DEF ServerInv, ListInv, Live, Added
<1>. QED  BY <1>2, <1>4, <1>5 DEF ServerInv

(* The new connection goes to the front of the list.                        *)
LEMMA StepAddToList == ASSUME ServerInv, AddToList PROVE ServerInv'
<1>0. PICK c \in Conns : arriving = {c}
  BY DEF AddToList, ServerInv, MasterInv, Bringing
<1>1. list \in Seq(Conns) /\ IsInjective(list) /\ c \notin ToSet(list)
  BY <1>0 DEF ServerInv, TypeOK, ListInv
<1>2. /\ list' \in Seq(Conns)
      /\ IsInjective(list')
      /\ ToSet(list') = ToSet(list) \cup {c}
      /\ Len(list') = Len(list) + 1
  BY <1>0, <1>1, PrependNew DEF AddToList
<1>3. /\ master = "add" /\ master' = "test" /\ arriving' = {}
      /\ UNCHANGED <<build, client, backlog, terminationRequested, signals,
                     cursor, back, hand, conns>>
  BY DEF AddToList
<1>4. TypeOK' /\ MasterInv' /\ BacklogInv'
  BY <1>2, <1>3 DEF ServerInv, TypeOK, MasterInv, Bringing, BacklogInv
<1>5. LifeInv'
  BY <1>3 DEF ServerInv, LifeInv, LifeOf, Fresh, Over, InThread, InChild,
              BeingRegistered
<1>6. ListInv'
  <2>1. Len(list) \in Nat /\ Len(list) < MAX_CONN /\ hand = {} /\ Added = {c}
    BY <1>0, <1>1, <1>3 DEF ServerInv, ListInv, MasterInv, Added
  <2>2. Len(list') <= MAX_CONN
    BY <1>2, <2>1
  <2>3. Live' = Live /\ Added' = {} /\ hand' = {} /\ arriving' = {}
    BY <1>3, <2>1 DEF Live, Added
  <2>4. ToSet(list') = Live
    BY <1>2, <2>1 DEF ServerInv, ListInv
  <2>. QED  BY <1>2, <1>3, <2>2, <2>3, <2>4 DEF ListInv
<1>. QED  BY <1>4, <1>5, <1>6 DEF ServerInv

-----------------------------------------------------------------------------
(* A client connects with a connection that the server is through with.     *)
LEMMA StepConnect ==
  ASSUME ServerInv, NEW c \in Conns, Connect(c)
  PROVE  ServerInv'
<1>1. client[c] # "waiting" /\ conn[c] # "live" /\ pid[c] = "none" /\ LifeOf(c)
  BY DEF Connect, ServerInv, TypeOK, LifeInv, LifeOf, Fresh, Over
<1>2. c \notin arriving
  BY <1>1 DEF Connect, LifeOf, Fresh, Over
<1>3. /\ backlog \in Seq(Conns) /\ IsInjective(backlog) /\ c \notin ToSet(backlog)
  BY <1>1 DEF ServerInv, TypeOK, BacklogInv
<1>4. /\ backlog' \in Seq(Conns)
      /\ IsInjective(backlog')
      /\ ToSet(backlog') = ToSet(backlog) \cup {c}
  BY <1>3, AppendNew DEF Connect
<1>5. TypeOK' /\ MasterInv'
  BY <1>4 DEF Connect, ServerInv, TypeOK, MasterInv, Bringing
<1>6. BacklogInv'
  <2>1. \A d \in ToSet(backlog) : d \in Conns
    BY <1>3 DEF ToSet
  <2>. QED  BY <1>4, <2>1 DEF Connect, ServerInv, TypeOK, BacklogInv
<1>7. LifeInv'
  BY <1>1, <1>2 DEF Connect, ServerInv, TypeOK, LifeInv, LifeOf, Fresh, Over,
                    InThread, InChild, BeingRegistered
<1>8. ListInv'
  <2>1. Live' = Live /\ Added' = Added /\ c \notin Live
    BY <1>1 DEF Connect, ServerInv, TypeOK, Live, Added
  <2>2. \A d \in hand : finished'[d] = finished[d]
    BY <2>1 DEF Connect, ServerInv, TypeOK, ListInv
  <2>. QED  BY <2>1, <2>2 DEF Connect, ServerInv, ListInv
<1>. QED  BY <1>5, <1>6, <1>7, <1>8 DEF ServerInv

(* What threads, children and the handler do leaves the list and the master  *)
(* alone: a connection they are done with is in one of the three places.     *)
LEMMA ListKept ==
  ASSUME ServerInv, UNCHANGED <<list, hand, arriving, conn>>,
         master' = master \/ (master' \in {"test", "capacity", "drain"}
                              /\ master \in {"accept", "asleep"}),
         \A c \in Conns : finished[c] = "yes" => finished'[c] = "yes"
  PROVE  ListInv'
<1>1. Live' = Live /\ Added' = Added
  BY DEF Live, Added
<1>2. hand \subseteq Conns
  BY DEF ServerInv, TypeOK
<1>. QED  BY <1>1, <1>2 DEF ServerInv, ListInv

(* A request for termination sets a flag only.                              *)
LEMMA StepServerTerminate ==
  ASSUME ServerInv, NEW c \in Conns, ServerTerminate(c)
  PROVE  ServerInv'
<1>1. TypeOK' /\ MasterInv' /\ BacklogInv'
  BY DEF ServerTerminate, ServerInv, TypeOK, MasterInv, Bringing, BacklogInv
<1>2. LifeInv'
  BY DEF ServerTerminate, ServerInv, LifeInv, LifeOf, Fresh, Over, InThread, InChild,
         BeingRegistered
<1>3. ListInv'
  BY ListKept DEF ServerTerminate
<1>. QED  BY <1>1, <1>2, <1>3 DEF ServerInv

(* A thread marks its connection and goes on to its cleanup; a child exits. *)
LEMMA StepJobReturns ==
  ASSUME ServerInv, NEW c \in Conns, JobReturns(c)
  PROVE  ServerInv'
<1>1. TypeOK' /\ MasterInv' /\ BacklogInv'
  <2>1. TypeOK'
    <3>1. /\ finished' \in [Conns -> {"no", "yes"}]
          /\ job' \in [Conns -> {"none", "running", "cleanup", "zombie", "gone"}]
          /\ sigchld' \in {"no", "yes"}
      <4>1. /\ finished \in [Conns -> {"no", "yes"}]
            /\ job \in [Conns -> {"none", "running", "cleanup", "zombie", "gone"}]
            /\ sigchld \in {"no", "yes"}
        BY DEF ServerInv, TypeOK
      <4>. QED  BY <4>1 DEF JobReturns
    <3>2. TypeOK /\ UNCHANGED <<build, client, backlog, terminationRequested, blocked,
                                oldBlocked, run, conn, pid, closed>>
      BY DEF JobReturns, ServerInv
    <3>. QED  BY <3>1, <3>2 DEF TypeOK
  <2>2. MasterInv'
    BY DEF JobReturns, ServerInv, MasterInv, Bringing
  <2>3. BacklogInv'
    BY DEF JobReturns, ServerInv, BacklogInv
  <2>. QED  BY <2>1, <2>2, <2>3
<1>2. LifeInv'
  <2> SUFFICES ASSUME NEW d \in Conns PROVE LifeOf(d)'
    BY DEF LifeInv
  <2>1. LifeOf(d)
    BY DEF ServerInv, LifeInv
  <2>2. CASE d = c
    BY <2>1, <2>2 DEF JobReturns, ServerInv, TypeOK, LifeOf, Fresh, Over, InThread,
                      InChild, BeingRegistered
  <2>3. CASE d # c
    BY <2>1, <2>3 DEF JobReturns, ServerInv, TypeOK, LifeOf, Fresh, Over, InThread,
                      InChild, BeingRegistered
  <2>. QED  BY <2>2, <2>3
<1>3. ListInv'
  BY ListKept DEF JobReturns, ServerInv, TypeOK
<1>. QED  BY <1>1, <1>2, <1>3 DEF ServerInv

(* The cleanup of a thread destroys the socket that was still open.         *)
LEMMA StepConnDone ==
  ASSUME ServerInv, NEW c \in Conns, ConnDone(c)
  PROVE  ServerInv'
<1>1. TypeOK' /\ MasterInv' /\ BacklogInv'
  BY DEF ConnDone, ServerInv, TypeOK, MasterInv, Bringing, BacklogInv
<1>2. LifeInv'
  BY DEF ConnDone, ServerInv, TypeOK, LifeInv, LifeOf, Fresh, Over, InThread, InChild,
         BeingRegistered
<1>3. ListInv'
  BY ListKept DEF ConnDone, ServerInv, TypeOK
<1>. QED  BY <1>1, <1>2, <1>3 DEF ServerInv

(* SIGCHLD is blocked until the new child is in the pool: the handler knows  *)
(* every child that has exited.                                              *)
LEMMA HandlerKnowsAll ==
  ASSUME ServerInv, HandleSigchld
  PROVE  {c \in Zombies : pid[c] = "set"} = Zombies
<1>1. ASSUME NEW c \in Conns, job[c] = "zombie" PROVE pid[c] = "set"
  <2>1. ~BeingRegistered(c)
    BY DEF HandleSigchld, ServerInv, MasterInv, BeingRegistered
  <2>2. LifeOf(c)
    BY DEF ServerInv, LifeInv
  <2>. QED  BY <1>1, <2>1, <2>2 DEF LifeOf, Fresh, Over, InThread, InChild
<1>. QED  BY <1>1 DEF Zombies

(* The handler ends the connection of every child that has exited.          *)
LEMMA StepHandleSigchld == ASSUME ServerInv, HandleSigchld PROVE ServerInv'
<1>1. /\ finished' = [c \in Conns |-> IF c \in Zombies THEN "yes" ELSE finished[c]]
      /\ closed' = [c \in Conns |-> closed[c] + IF c \in Zombies THEN 1 ELSE 0]
      /\ pid' = [c \in Conns |-> IF c \in Zombies THEN "none" ELSE pid[c]]
      /\ job' = [c \in Conns |-> IF c \in Zombies THEN "gone" ELSE job[c]]
  BY HandlerKnowsAll DEF HandleSigchld, Reap
<1>2. /\ \/ master' = master
         \/ master = "accept" /\ master' = "test"
         \/ master = "asleep" /\ master' = back
      /\ blocked = "no" /\ sigchld' = "no"
      /\ UNCHANGED <<build, client, backlog, terminationRequested, blocked,
                     oldBlocked, arriving, list, cursor, back, hand, conn>>
  BY DEF HandleSigchld, Interrupted
<1>3. TypeOK' /\ MasterInv' /\ BacklogInv'
  BY <1>1, <1>2 DEF ServerInv, TypeOK, MasterInv, Bringing, BacklogInv
<1>4. LifeInv'
  <2> SUFFICES ASSUME NEW c \in Conns PROVE LifeOf(c)'
    BY DEF LifeInv
  <2>1. LifeOf(c) /\ ~BeingRegistered(c)
    BY <1>2 DEF ServerInv, LifeInv, MasterInv, BeingRegistered
  <2>2. ~BeingRegistered(c)' /\ (master' \in {"register", "add"} <=> master \in {"register", "add"})
    BY <1>2, <2>1 DEF ServerInv, MasterInv, TypeOK, BeingRegistered
  <2>. QED  BY <1>1, <1>2, <2>1, <2>2
       DEF ServerInv, TypeOK, Zombies, LifeOf, Fresh, Over, InThread, InChild
<1>5. ListInv'
  <2>1. \A c \in Conns : finished[c] = "yes" => finished'[c] = "yes"
    BY <1>1
  <2>2. master' = master \/ (master' \in {"test", "capacity", "drain"}
                              /\ master \in {"accept", "asleep"})
    BY <1>2 DEF ServerInv, MasterInv
  <2>. QED  BY <1>2, <2>1, <2>2, ListKept
<1>. QED  BY <1>3, <1>4, <1>5 DEF ServerInv

-----------------------------------------------------------------------------
(*                             The theorems                                 *)

(* The invariant is inductive. *)
LEMMA ServerInvariant == Spec => []ServerInv
<1>1. Init => ServerInv
  <2> SUFFICES ASSUME Init PROVE ServerInv
    OBVIOUS
  <2>1. TypeOK /\ MasterInv /\ LifeInv
    BY DEF Init, TypeOK, MasterInv, Bringing, LifeInv, LifeOf, Fresh
  <2>2. BacklogInv
    BY DEF Init, BacklogInv, IsInjective, ToSet
  <2>3. ListInv
    <3>1. IsInjective(list) /\ ToSet(list) = {} /\ Len(list) = 0
      BY DEF Init, IsInjective, ToSet
    <3>. QED  BY <3>1 DEF Init, ListInv, Live, Added
  <2>. QED  BY <2>1, <2>2, <2>3 DEF ServerInv
<1>2. ServerInv /\ [Next]_vars => ServerInv'
  <2> SUFFICES ASSUME ServerInv, [Next]_vars PROVE ServerInv'
    OBVIOUS
  <2>1. CASE MasterStep
    BY <2>1, MasterMoves, StepAccept, StepAcceptFails, StepScanNext, StepJoin,
       StepCreateConn, StepRegister, StepCreateConnFails, StepAddToList
       DEF MasterStep
  <2>2. CASE HandleSigchld
    BY <2>2, StepHandleSigchld
  <2>3. ASSUME NEW c \in Conns,
               Connect(c) \/ ServerTerminate(c) \/ JobReturns(c) \/ ConnDone(c)
        PROVE  ServerInv'
    BY <2>3, StepConnect, StepServerTerminate, StepJobReturns, StepConnDone
  <2>4. CASE UNCHANGED vars
    BY <2>4 DEF vars, ServerInv, TypeOK, MasterInv, Bringing, BacklogInv, LifeInv,
                LifeOf, Fresh, Over, InThread, InChild, BeingRegistered, ListInv,
                Live, Added
  <2>. QED  BY <2>1, <2>2, <2>3, <2>4 DEF Next
<1>. QED  BY <1>1, <1>2, PTL DEF Spec

(* Type correctness of the master, the connections and the signals. *)
THEOREM ServerTyped == Spec => []TypeOK
<1>1. ServerInv => TypeOK
  BY DEF ServerInv
<1>. QED  BY <1>1, ServerInvariant, PTL

(* freeFinishedConns and connDone never take away the TConn or the socket   *)
(* that a thread is still using or that the handler of SIGCHLD may look up.  *)
THEOREM ServerInUse == Spec => []InUseIsAllocated
<1>1. ServerInv => InUseIsAllocated
  <2> SUFFICES ASSUME ServerInv, NEW c \in Conns
               PROVE  job[c] \in {"running", "cleanup"} \/ pid[c] = "set"
                        => conn[c] = "live" /\ closed[c] = 0
    BY DEF InUseIsAllocated
  <2>1. LifeOf(c)
    BY DEF ServerInv, LifeInv
  <2>. QED  BY <2>1 DEF LifeOf, Fresh, Over, InThread, InChild
<1>. QED  BY <1>1, ServerInvariant, PTL

(* Cleanup, handler, wait and error paths together destroy a socket once,   *)
(* before the TConn is freed.                                               *)
THEOREM ServerClosedOnce == Spec => []ClosedOnce
<1>1. ServerInv => ClosedOnce
  <2> SUFFICES ASSUME ServerInv, NEW c \in Conns
               PROVE  /\ closed[c] <= 1
                      /\ conn[c] \in {"freed", "leaked"} => closed[c] = 1
    BY DEF ClosedOnce
  <2>1. LifeOf(c)
    BY DEF ServerInv, LifeInv
  <2>. QED  BY <2>1 DEF LifeOf, Fresh, Over, InThread, InChild
<1>. QED  BY <1>1, ServerInvariant, PTL

(* The live connections are those in the list and at most one more, for     *)
(* which there is room: the one being added or the one being released.      *)
LEMMA LiveFit ==
  ASSUME ServerInv
  PROVE  IsFiniteSet(Live) /\ Cardinality(Live) \in Nat /\ Cardinality(Live) <= MAX_CONN
<1>1. /\ list \in Seq(Conns) /\ Len(list) \in Nat /\ Len(list) <= MAX_CONN
      /\ MAX_CONN \in Nat /\ Live = ToSet(list) \cup (hand \cup Added)
  BY DEF ServerInv, TypeOK, ListInv
<1>2. /\ IsFiniteSet(ToSet(list)) /\ Cardinality(ToSet(list)) \in Nat
      /\ Cardinality(ToSet(list)) <= Len(list)
  BY <1>1, NoMoreElements
<1>3. CASE hand \cup Added = {}
  <2>1. Live = ToSet(list)
    BY <1>1, <1>3
  <2>2. Cardinality(ToSet(list)) <= MAX_CONN
    BY <1>1, <1>2
  <2>. QED  BY <1>2, <2>1, <2>2, Zenon
<1>4. CASE hand \cup Added # {}
  <2>1. PICK c \in Conns : hand \cup Added = {c}
    BY <1>4 DEF ServerInv, MasterInv, Bringing, Added
  <2>2. Len(list) < MAX_CONN
    BY <1>4 DEF ServerInv, MasterInv, ListInv, Added
  <2>3. /\ IsFiniteSet(ToSet(list) \cup {c})
        /\ Cardinality(ToSet(list) \cup {c}) <= Cardinality(ToSet(list)) + 1
    <3>1. PICK S : S = ToSet(list) /\ IsFiniteSet(S) /\ Cardinality(S) \in Nat
      BY <1>2
    <3>2. /\ IsFiniteSet(S \cup {c})
          /\ \/ Cardinality(S \cup {c}) = Cardinality(S)
             \/ Cardinality(S \cup {c}) = Cardinality(S) + 1
      BY ONLY <3>1, FS_AddElement
    <3>. QED  BY <3>1, <3>2
  <2>4. Live = ToSet(list) \cup {c}
    BY <1>1, <2>1
  <2>5. IsFiniteSet(Live) /\ Cardinality(Live) \in Nat
    BY <2>3, <2>4, FS_CardinalityType
  <2>6. Cardinality(Live) <= Cardinality(ToSet(list)) + 1
    BY <2>3, <2>4, Zenon
  <2>. QED  BY <1>1, <1>2, <2>2, <2>5, <2>6
<1>. QED  BY <1>3, <1>4

(* The list that only the master changes has what ServerRun still owes an   *)
(* end to, never more than MAX_CONN, and no thread runs outside that limit. *)
THEOREM ServerListExact == Spec => []ListIsOutstanding
<1>1. ServerInv => ListIsOutstanding
  <2> SUFFICES ASSUME ServerInv PROVE ListIsOutstanding
    OBVIOUS
  <2>1. {c \in Conns : job[c] \in {"running", "cleanup"}} \subseteq Live
    <3>1. \A c \in Conns : LifeOf(c)
      BY DEF ServerInv, LifeInv
    <3>. QED  BY <3>1 DEF Live, LifeOf, Fresh, Over, InThread, InChild
  <2>2. Cardinality({c \in Conns : job[c] \in {"running", "cleanup"}}) <= MAX_CONN
    <3> DEFINE R == {c \in Conns : job[c] \in {"running", "cleanup"}}
    <3> HIDE DEF R
    <3>1. IsFiniteSet(R) /\ Cardinality(R) <= Cardinality(Live)
      BY <2>1, LiveFit, FS_Subset DEF R
    <3>2. Cardinality(R) \in Nat /\ MAX_CONN \in Nat
      BY <3>1, FS_CardinalityType
    <3>3. Cardinality(R) <= MAX_CONN
      BY <3>1, <3>2, LiveFit
    <3>. QED  BY <3>3 DEF R
  <2>3. At("returned") => \A c \in Conns : conn[c] # "live"
    <3> SUFFICES ASSUME master = "returned" PROVE Live = {}
      BY DEF Live
    <3>1. list = <<>> /\ hand = {} /\ Added = {}
      BY DEF ServerInv, ListInv, MasterInv, Added
    <3>2. ToSet(list) = {}
      BY <3>1 DEF ToSet
    <3>. QED  BY <3>1, <3>2 DEF ServerInv, ListInv
  <2>. QED  BY <2>2, <2>3 DEF ListIsOutstanding, ServerInv, ListInv, Live, Added
<1>. QED  BY <1>1, ServerInvariant, PTL

-----------------------------------------------------------------------------
(*                     The pool of connections                              *)

(* Termination is asked for by a thread only, and once the master waits for *)
(* the last connections it has been asked for.                              *)
StopInv ==
  /\ terminationRequested = "yes" => build = "pthread"
  /\ master \in {"drain", "returned"} \/ back = "drain" => terminationRequested = "yes"

(* The master drains the list only because a request asked it to.           *)
LEMMA StopInvariant == Spec => []StopInv
<1>1. Init => StopInv
  BY DEF Init, StopInv
<1>2. ServerInv /\ StopInv /\ [Next]_vars => StopInv'
  <2> SUFFICES ASSUME ServerInv, StopInv, [Next]_vars PROVE StopInv'
    OBVIOUS
  <2> USE DEF StopInv, ServerInv, TypeOK
  <2>1. CASE TestTermination \/ ScanEnd \/ WakeUp \/ CapacityTest \/ DrainTest
    BY <2>1 DEF TestTermination, ScanEnd, WakeUp, CapacityTest, DrainTest
  <2>2. CASE Accept \/ AcceptFails \/ ScanNext \/ Join
    BY <2>2 DEF Accept, AcceptFails, ScanNext, Join
  <2>3. CASE CreateConn \/ Register \/ CreateConnFails \/ AddToList
    BY <2>3 DEF CreateConn, Register, CreateConnFails, AddToList
  <2>4. CASE HandleSigchld
    BY <2>4 DEF HandleSigchld, Interrupted
  <2>5. ASSUME NEW c \in Conns,
               Connect(c) \/ ServerTerminate(c) \/ JobReturns(c) \/ ConnDone(c)
        PROVE  StopInv'
    BY <2>5 DEF Connect, ServerTerminate, JobReturns, ConnDone
  <2>6. CASE UNCHANGED vars
    BY <2>6 DEF vars
  <2>. QED  BY <2>1, <2>2, <2>3, <2>4, <2>5, <2>6 DEF Next, MasterStep
<1>. QED  BY <1>1, <1>2, ServerInvariant, PTL DEF Spec

(* What the pool is made of. *)
Coming == {c \in arriving : conn[c] # "live"}
Serving == {c \in Conns : conn[c] = "live" /\ closed[c] = 0}
Stopping ==
  IF At("returned") THEN "stopped"
  ELSE IF terminationRequested = "no" THEN "no"
  ELSE IF At("accept") THEN "once" ELSE "closing"

Pooled == <<backlog, Coming, Serving, Stopping>>

(* A connection is open from its creation to the end of its job: those that *)
(* come are new, and none of them is served.                                *)
LEMMA ComingIsNew ==
  ASSUME ServerInv
  PROVE  /\ Coming = IF master \in {"register", "add"} THEN {} ELSE arriving
         /\ \A c \in Conns : client[c] # "taken" => c \notin Coming \cup Serving
         /\ \A c \in Conns : Over(c) => c \notin Coming \cup Serving
<1>1. \A c \in Conns : LifeOf(c)
  BY DEF ServerInv, LifeInv
<1>2. arriving \subseteq Conns
  BY DEF ServerInv, TypeOK
<1>3. master \in {"register", "add"} => \A c \in arriving : conn[c] = "live"
  BY DEF ServerInv, ListInv, Live, Added
<1>4. master \notin {"register", "add"} => \A c \in arriving : conn[c] # "live"
  BY <1>2 DEF ServerInv, ListInv, Live, Added
<1>5. \A c \in Conns : client[c] # "taken" => c \notin Coming \cup Serving
  BY <1>1 DEF LifeOf, Fresh, Coming, Serving
<1>6. \A c \in Conns : Over(c) => c \notin Coming \cup Serving
  BY DEF Over, Coming, Serving
<1>. QED  BY <1>3, <1>4, <1>5, <1>6 DEF Coming

(* Connections that are closed, if any, are closed in one step of the pool. *)
LEMMA PoolCloses ==
  ASSUME NEW over \in SUBSET Serving, Serving' = Serving \ over,
         UNCHANGED <<backlog, Coming, Stopping>>
  PROVE  Pool!Next \/ UNCHANGED Pooled
<1>1. Pool!Close <=> /\ \E S \in SUBSET Serving : S # {} /\ Serving' = Serving \ S
                     /\ UNCHANGED <<backlog, Coming, Stopping>>
  BY DEF Pool!Close, Coming, Serving, Stopping
<1>2. CASE over = {}
  BY <1>2 DEF Pooled
<1>3. CASE over # {}
  BY <1>1, <1>3 DEF Pool!Next
<1>. QED  BY <1>2, <1>3

(* The server implements the pool: Accept of the pool is the accept of      *)
(* serverRun2, its Serve is ConnCreate, its Close is connDone, of a thread  *)
(* or in the handler of SIGCHLD, its Stop is the return of ServerRun.       *)
LEMMA PoolStep ==
  ASSUME ServerInv, StopInv, [Next]_vars
  PROVE  Pool!Next \/ UNCHANGED Pooled
<1> USE DEF Pooled, Stopping
<1>1. CASE TestTermination \/ ScanEnd \/ WakeUp \/ CapacityTest
  BY <1>1 DEF TestTermination, ScanEnd, WakeUp, CapacityTest, ServerInv, StopInv,
              TypeOK, MasterInv, Coming, Serving
<1>2. CASE ScanNext \/ Register \/ AddToList
  <2>1. CASE ScanNext
    BY <2>1 DEF ScanNext, ServerInv, TypeOK, Coming, Serving
  <2>2. CASE Register
    BY <2>2 DEF Register, Coming, Serving
  <2>3. CASE AddToList
    BY <2>3, ComingIsNew DEF AddToList, Coming, Serving
  <2>. QED  BY <1>2, <2>1, <2>2, <2>3
<1>3. CASE Join
  <2>1. \A c \in hand : pid[c] = "none" /\ closed[c] = 1
    <3>1. \A c \in hand : c \in Conns /\ LifeOf(c) /\ finished[c] = "yes" /\ conn[c] = "live"
      BY DEF ServerInv, TypeOK, LifeInv, ListInv, Live
    <3>2. \A c \in hand : job[c] = "gone" \/ (pid[c] = "set" /\ job[c] = "zombie")
      BY <1>3 DEF Join
    <3>. QED  BY <3>1, <3>2 DEF LifeOf, Fresh, Over, InThread, InChild
  <2>2. /\ UNCHANGED <<build, client, backlog, terminationRequested, arriving>>
        /\ conn' = [c \in Conns |-> IF c \in hand THEN "freed" ELSE conn[c]]
        /\ closed' = [c \in Conns |-> closed[c] + 0]
        /\ master = "join" /\ master' = "scan"
    BY <1>3, <2>1 DEF Join
  <2>3. Coming' = Coming
    BY <2>2 DEF Coming, ServerInv, TypeOK, ListInv
  <2>4. Serving' = Serving
    BY <2>1, <2>2 DEF Serving, ServerInv, TypeOK
  <2>. QED  BY <2>2, <2>3, <2>4
<1>4. CASE Accept \/ AcceptFails
  <2>1. Pool!Accept <=>
          /\ Stopping \in {"no", "once"}
          /\ backlog # <<>>
          /\ Coming = {}
          /\ backlog' = Tail(backlog)
          /\ Coming' \in {{Head(backlog)}, {}}
          /\ Stopping' = IF Stopping = "once" THEN "closing" ELSE "no"
          /\ UNCHANGED Serving
    BY DEF Pool!Accept, Coming, Serving
  <2>2. arriving = {} /\ Coming = {}
    BY <1>4 DEF Accept, AcceptFails, ServerInv, MasterInv, Bringing, Coming
  <2>3. /\ backlog # <<>> /\ backlog' = Tail(backlog) /\ master = "accept"
        /\ master' \in {"scan", "test"}
        /\ UNCHANGED <<terminationRequested, conn>>
    BY <1>4 DEF Accept, AcceptFails
  <2>4. conn[Head(backlog)] = "none"
    BY <2>3, HeadIsNew DEF Fresh
  <2>5. Coming' \in {{Head(backlog)}, {}}
    BY <1>4, <2>2, <2>3, <2>4 DEF Accept, AcceptFails, Coming
  <2>6. Serving' = Serving
    BY <1>4, <2>3, <2>4 DEF Accept, AcceptFails, Serving, ServerInv, TypeOK
  <2>7. Stopping \in {"no", "once"} /\ Stopping' = IF Stopping = "once" THEN "closing" ELSE "no"
    BY <2>3 DEF ServerInv, TypeOK
  <2>. QED  BY <2>1, <2>2, <2>3, <2>5, <2>6, <2>7 DEF Pool!Next
<1>5. CASE CreateConn
  <2>1. Pool!Serve <=>
          /\ Coming # {}
          /\ Cardinality(Serving) < MAX_CONN
          /\ Serving' = Serving \cup Coming
          /\ Coming' = {}
          /\ UNCHANGED <<backlog, Stopping>>
    BY DEF Pool!Serve, Pool!Cardinality, Cardinality, Coming, Serving
  <2>2. PICK c \in Conns : arriving = {c}
    BY <1>5 DEF CreateConn, ServerInv, MasterInv, Bringing
  <2>3. /\ conn' = [conn EXCEPT ![c] = "live"]
        /\ master = "create" /\ master' \in {"add", "register"}
        /\ UNCHANGED <<backlog, terminationRequested, arriving, closed>>
    BY <1>5, <2>2 DEF CreateConn
  <2>4. conn[c] # "live" /\ closed[c] = 0
    <3>1. c \in Coming
      BY <2>2, <2>3, ComingIsNew
    <3>2. LifeOf(c) /\ ~Over(c)
      BY <3>1, ComingIsNew DEF ServerInv, LifeInv
    <3>. QED  BY <3>1, <3>2 DEF Coming, LifeOf, Fresh
  <2>5. Coming = {c} /\ Coming' = {} /\ Serving' = Serving \cup {c}
    BY <2>2, <2>3, <2>4 DEF Coming, Serving, ServerInv, TypeOK
  <2>6. Cardinality(Serving) < MAX_CONN
    <3>1. /\ list \in Seq(Conns) /\ Len(list) < MAX_CONN /\ Live = ToSet(list)
          /\ MAX_CONN \in Nat
      BY <2>3 DEF ServerInv, TypeOK, ListInv, MasterInv, Added
    <3>2. /\ IsFiniteSet(ToSet(list)) /\ Cardinality(ToSet(list)) \in Nat
          /\ Cardinality(ToSet(list)) <= Len(list) /\ Len(list) \in Nat
      BY <3>1, NoMoreElements
    <3>3. Serving \subseteq ToSet(list)
      BY <3>1 DEF Live, Serving
    <3>4. /\ Cardinality(Serving) <= Cardinality(ToSet(list))
          /\ IsFiniteSet(Serving)
      BY <3>2, <3>3, FS_Subset
    <3>5. Cardinality(Serving) \in Nat
      BY <3>4, FS_CardinalityType
    <3>. QED  BY <3>1, <3>2, <3>4, <3>5
  <2>. QED  BY <2>1, <2>3, <2>5, <2>6 DEF Pool!Next
<1>6. CASE CreateConnFails
  <2>1. Pool!Refuse <=> Coming # {} /\ Coming' = {} /\ UNCHANGED <<backlog, Serving, Stopping>>
    BY DEF Pool!Refuse, Coming, Serving
  <2>2. PICK c \in Conns : arriving = {c}
    BY <1>6 DEF CreateConnFails, ServerInv, MasterInv, Bringing
  <2>3. PICK end \in {"none", "leaked"} : conn' = [conn EXCEPT ![c] = end]
    BY <1>6, <2>2 DEF CreateConnFails
  <2>4. /\ closed' = [closed EXCEPT ![c] = closed[c] + 1] /\ arriving' = {}
        /\ master = "create" /\ master' = "test"
        /\ UNCHANGED <<backlog, terminationRequested>>
    BY <1>6, <2>2 DEF CreateConnFails
  <2>5. Coming = {c} /\ conn[c] # "live"
    BY <2>2, <2>4, ComingIsNew DEF Coming
  <2>6. Coming' = {} /\ Serving' = Serving
    BY <2>3, <2>4, <2>5 DEF Coming, Serving, ServerInv, TypeOK
  <2>. QED  BY <2>1, <2>4, <2>5, <2>6 DEF Pool!Next
<1>7. CASE DrainTest
  <2>1. CASE list # <<>>
    BY <1>7, <2>1 DEF DrainTest, StopInv, Coming, Serving
  <2>2. CASE list = <<>>
    <3>1. Pool!Stop <=> /\ Stopping = "closing" /\ Coming = {} /\ Serving = {}
                        /\ Stopping' = "stopped"
                        /\ UNCHANGED <<backlog, Coming, Serving>>
      BY DEF Pool!Stop, Coming, Serving
    <3>2. master = "drain" /\ master' = "returned" /\ terminationRequested = "yes"
      BY <1>7, <2>2 DEF DrainTest, StopInv
    <3>3. arriving = {} /\ hand = {} /\ Added = {}
      BY <3>2 DEF ServerInv, MasterInv, Bringing, Added
    <3>4. Live = {}
      BY <2>2, <3>3 DEF ServerInv, ListInv, ToSet
    <3>5. Coming = {} /\ Serving = {} /\ UNCHANGED <<backlog, Coming, Serving>>
      BY <1>7, <3>3, <3>4 DEF DrainTest, Coming, Serving, Live
    <3>. QED  BY <3>1, <3>2, <3>5 DEF Pool!Next
  <2>. QED  BY <2>1, <2>2
<1>8. CASE HandleSigchld
  <2>1. /\ closed' = [c \in Conns |-> closed[c] + IF c \in Zombies THEN 1 ELSE 0]
        /\ UNCHANGED <<backlog, terminationRequested, arriving, conn>>
        /\ \/ master' = master
           \/ master = "accept" /\ master' = "test"
           \/ master = "asleep" /\ master' = back
    BY <1>8, HandlerKnowsAll DEF HandleSigchld, Reap, Interrupted
  <2>2. (terminationRequested = "no" /\ master # "returned") \/ master' = master
    BY <1>8, <2>1 DEF HandleSigchld, ServerInv, TypeOK, MasterInv, StopInv
  <2>3. Stopping' = Stopping
    BY <2>1, <2>2 DEF ServerInv, TypeOK, MasterInv
  <2>4. Coming' = Coming
    BY <2>1 DEF Coming
  <2>5. Zombies \subseteq Serving
    <3>1. ASSUME NEW c \in Zombies PROVE conn[c] = "live" /\ closed[c] = 0
      <4>1. c \in Conns /\ job[c] = "zombie" /\ LifeOf(c)
        BY <3>1 DEF Zombies, ServerInv, LifeInv
      <4>. QED  BY <4>1 DEF LifeOf, Fresh, Over, InThread, InChild
    <3>. QED  BY <3>1 DEF Serving, Zombies
  <2>6. Serving' = Serving \ Zombies
    BY <2>1, <2>5 DEF Serving, ServerInv, TypeOK
  <2>. QED  BY <2>1, <2>3, <2>4, <2>5, <2>6, PoolCloses
<1>9. ASSUME NEW c \in Conns, Connect(c) PROVE Pool!Next
  <2>1. Pool!Connect(c) <=>
          /\ c \notin ToSet(backlog) \cup Coming \cup Serving
          /\ backlog' = Append(backlog, c)
          /\ UNCHANGED <<Coming, Serving, Stopping>>
    BY DEF Pool!Connect, Pool!ToSet, ToSet, Coming, Serving
  <2>2. /\ client[c] = "away" \/ (client[c] = "taken" /\ conn[c] # "live" /\ closed[c] > 0)
        /\ backlog' = Append(backlog, c)
        /\ conn' = [conn EXCEPT ![c] = "none"]
        /\ closed' = [closed EXCEPT ![c] = 0]
        /\ UNCHANGED <<master, arriving, terminationRequested>>
    BY <1>9 DEF Connect
  <2>3. c \notin ToSet(backlog)
    BY <2>2 DEF ServerInv, BacklogInv
  <2>4. c \notin Coming /\ c \notin Serving /\ c \notin arriving /\ conn[c] # "live"
    <3>1. LifeOf(c)
      BY DEF ServerInv, LifeInv
    <3>. QED  BY <2>2, <3>1 DEF LifeOf, Fresh, Over, Coming, Serving
  <2>5. Coming' = Coming
    BY <2>2, <2>4 DEF Coming, ServerInv, TypeOK
  <2>6. Serving' = Serving
    BY <2>2, <2>4 DEF Serving, ServerInv, TypeOK
  <2>. QED  BY <2>1, <2>2, <2>3, <2>4, <2>5, <2>6 DEF Pool!Next
<1>10. ASSUME NEW c \in Conns, ServerTerminate(c) PROVE Pool!Next
  <2>1. Pool!AskToStop <=>
          /\ Stopping = "no" /\ Stopping' \in {"once", "closing"}
          /\ UNCHANGED <<backlog, Coming, Serving>>
    BY DEF Pool!AskToStop, Coming, Serving
  <2>2. Stopping = "no" /\ Stopping' \in {"once", "closing"}
    BY <1>10 DEF ServerTerminate, StopInv
  <2>. QED  BY <1>10, <2>1, <2>2 DEF ServerTerminate, Coming, Serving, Pool!Next
<1>11. ASSUME NEW c \in Conns, JobReturns(c) PROVE UNCHANGED Pooled
  BY <1>11 DEF JobReturns, Coming, Serving
<1>12. ASSUME NEW c \in Conns, ConnDone(c) PROVE Pool!Next \/ UNCHANGED Pooled
  <2>1. c \in Serving
    <3>1. LifeOf(c) /\ job[c] = "cleanup"
      BY <1>12 DEF ConnDone, ServerInv, LifeInv
    <3>. QED  BY <3>1 DEF Serving, LifeOf, Fresh, Over, InThread, InChild
  <2>2. Serving' = Serving \ {c}
    BY <1>12, <2>1 DEF ConnDone, Serving, ServerInv, TypeOK
  <2>3. UNCHANGED <<backlog, Coming, Stopping>>
    BY <1>12 DEF ConnDone, Coming
  <2>4. {c} \in SUBSET Serving
    BY <2>1
  <2>. QED  BY ONLY <2>2, <2>3, <2>4, PoolCloses
<1>13. CASE UNCHANGED vars
  BY <1>13 DEF vars, Coming, Serving
<1>. QED
  BY <1>1, <1>2, <1>3, <1>4, <1>5, <1>6, <1>7, <1>8, <1>9, <1>10, <1>11, <1>12, <1>13
     DEF Next, MasterStep

(* Connections are accepted in order, served at most MAX_CONN at a time and *)
(* closed once; after a request for termination no more than one is         *)
(* accepted, and ServerRun returns when none is open.                       *)
THEOREM ServerImplements == Spec => PoolSpec
<1>1. Init => Pool!Init
  BY DEF Init, Pool!Init
<1>2. ServerInv /\ StopInv /\ [Next]_vars => [Pool!Next]_(Pool!vars)
  BY PoolStep DEF Pooled, Coming, Serving, Stopping, Pool!vars
<1>. QED
  BY <1>1, <1>2, ServerInvariant, StopInvariant, PTL DEF Spec, PoolSpec, Pool!Spec
=============================================================================

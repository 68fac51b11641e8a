----------------------------- MODULE RvmProofs -----------------------------
(***************************************************************************)
(* Proofs about Rvm for any number of processes, segments and addresses,   *)
(* whether or not mmap returns an address again.  First the log locks: a   *)
(* lock is only ever held between lock_segment and the log record that     *)
(* follows it, on the segment that is being logged.  Then the table of     *)
(* mappings: mapped[] describes what is mapped, and what a call has left   *)
(* to do is about entries of that table.                                   *)
(***************************************************************************)
EXTENDS Rvm, SequenceLemmas

USE RvmAssumption

-----------------------------------------------------------------------------
(* The log locks.                                                           *)

(* The functions are total and the calls are records, whatever they hold. *)
Shape ==
  /\ log_lock \in [Segs -> SUBSET Procs]
  /\ call = [p \in Procs |-> [op |-> call[p].op, todo |-> call[p].todo]]
  /\ mapped = [p \in Procs |-> mapped[p]]
  /\ num_mapped = [p \in Procs |-> num_mapped[p]]

HeldFor(p, s) ==
  /\ call[p].op = "logging"
  /\ s = Entry(p, Head(call[p].todo)).name

(* Processes that are not running are not inside a call. *)
DownIdle ==
  /\ status \in [Procs -> {"down", "up"}]
  /\ \A p \in Procs : status[p] = "down" => call[p].op = "none"

LockInv ==
  /\ Shape
  /\ DownIdle
  /\ \A p \in Procs : \A s \in Segs : p \in log_lock[s] => HeldFor(p, s)

(* The entries of a process depend on its own table only. *)
LEMMA SameTable ==
  ASSUME NEW q \in Procs, call'[q] = call[q],
         mapped'[q] = mapped[q], num_mapped'[q] = num_mapped[q], NEW s
  PROVE  HeldFor(q, s)' <=> HeldFor(q, s)
  BY DEF HeldFor, Entry, Slot, Used

(* A step of p that takes no lock, leaves p without any, and does not touch
   the calls and tables of the others preserves the invariant. *)
LEMMA NoLockTaken ==
  ASSUME LockInv, Shape', DownIdle', NEW p \in Procs,
         \A s \in Segs : log_lock'[s] \subseteq log_lock[s] /\ p \notin log_lock'[s],
         \A q \in Procs : q # p => /\ call'[q] = call[q]
                                   /\ mapped'[q] = mapped[q]
                                   /\ num_mapped'[q] = num_mapped[q]
  PROVE  LockInv'
<1> SUFFICES ASSUME NEW q \in Procs, NEW s \in Segs, q \in log_lock'[s]
             PROVE  HeldFor(q, s)'
  BY DEF LockInv
<1>1. q # p /\ q \in log_lock[s]
  OBVIOUS
<1>. QED  BY <1>1, SameTable DEF LockInv

(* A process that is not writing a begin record holds no lock. *)
LEMMA HoldsNone ==
  ASSUME LockInv, NEW p \in Procs, call[p].op # "logging"
  PROVE  \A s \in Segs : p \notin log_lock[s]
  BY DEF LockInv, HeldFor

(* The steps that leave the calls and the locks as they are. *)
LEMMA TableSteps ==
  ASSUME LockInv, NEW p \in Procs, CanCall(p), NEW a, NEW s,
         LogSegment(p, s) \/ UNCHANGED log_lock, UNCHANGED <<call, status>>,
         mapped' = [mapped EXCEPT ![p] = mapped'[p]],
         num_mapped' = [num_mapped EXCEPT ![p] = num_mapped'[p]]
  PROVE  LockInv'
<1>1. \A t \in Segs : log_lock'[t] \subseteq log_lock[t] /\ p \notin log_lock'[t]
  <2>1. call[p].op = "none"
    BY DEF CanCall, Idle
  <2>2. \A t \in Segs : p \notin log_lock[t]
    BY <2>1, HoldsNone
  <2>3. \A t \in Segs : log_lock'[t] \subseteq log_lock[t]
    BY DEF LogSegment, LockInv, Shape
  <2>. QED  BY <2>2, <2>3
<1>2. Shape' /\ DownIdle'
  BY DEF LockInv, Shape, DownIdle, LogSegment, CanCall, Alive
<1>3. \A q \in Procs : q # p => /\ call'[q] = call[q]
                                /\ mapped'[q] = mapped[q]
                                /\ num_mapped'[q] = num_mapped[q]
  BY DEF LockInv, Shape
<1>. QED  BY <1>1, <1>2, <1>3, NoLockTaken

(* The steps that only move the call of a process on. *)
LEMMA CallSteps ==
  ASSUME LockInv, NEW p \in Procs, NEW s, NEW op, NEW todo,
         LogSegment(p, s) \/ UNCHANGED log_lock,
         call' = [call EXCEPT ![p] = [op |-> op, todo |-> todo]],
         \A t \in Segs : p \notin log_lock'[t],
         UNCHANGED <<mapped, num_mapped, status>>, call[p].op # "none" \/ CanCall(p)
  PROVE  LockInv'
<1>1. \A t \in Segs : log_lock'[t] \subseteq log_lock[t]
  BY DEF LogSegment, LockInv, Shape
<1>2. Shape' /\ DownIdle'
  BY DEF LockInv, Shape, DownIdle, LogSegment, CanCall, Alive
<1>3. \A q \in Procs : q # p => call'[q] = call[q]
  BY DEF LockInv, Shape
<1>. QED  BY <1>1, <1>2, <1>3, NoLockTaken

(* Undefined behaviour ends the model: the step touches no lock. *)
LEMMA UndefinedStep == ASSUME LockInv, Undefined PROVE LockInv'
<1>1. Shape' /\ DownIdle'
  BY DEF Undefined, store, table, LockInv, Shape, DownIdle
<1>2. \A q \in Procs : /\ call'[q] = call[q]
                      /\ mapped'[q] = mapped[q]
                      /\ num_mapped'[q] = num_mapped[q]
  BY DEF Undefined, table
<1>. QED  BY <1>1, <1>2, SameTable DEF LockInv, Undefined, store

(* lock_segment takes the one lock that the following log record is for. *)
LEMMA LockTaken ==
  ASSUME LockInv, NEW p \in Procs, LockSegment(p)
  PROVE  LockInv'
<1>0. PICK name : name = Entry(p, Head(call[p].todo)).name
  OBVIOUS
<1>1. /\ call[p].op = "begin"
      /\ call' = [call EXCEPT ![p] = [op |-> "logging", todo |-> call[p].todo]]
      /\ log_lock' = [log_lock EXCEPT ![name] = {p}]
      /\ UNCHANGED <<mapped, num_mapped, status>>
  BY <1>0 DEF LockSegment, Inside, table
<1>2. /\ call'[p] = [op |-> "logging", todo |-> call[p].todo]
      /\ \A q \in Procs : q # p => call'[q] = call[q]
  BY <1>1 DEF LockInv, Shape
<1>3. Shape' /\ DownIdle'
  <2>1. log_lock' \in [Segs -> SUBSET Procs]
    BY <1>1 DEF LockInv, Shape
  <2>2. call' = [q \in Procs |-> [op |-> call'[q].op, todo |-> call'[q].todo]]
    BY <1>1 DEF LockInv, Shape
  <2>3. DownIdle'
    BY <1>1, <1>2 DEF LockInv, DownIdle
  <2>. QED  BY <1>1, <2>1, <2>2, <2>3 DEF LockInv, Shape
<1>4. HeldFor(p, name)'
  BY <1>0, <1>1, <1>2 DEF HeldFor, Entry, Slot, Used
<1>5. ASSUME NEW q \in Procs, NEW s \in Segs, q \in log_lock'[s]
      PROVE  HeldFor(q, s)'
  <2>1. CASE q = p
    <3>1. s = name
      BY <1>1, <1>5, <2>1, HoldsNone DEF LockInv, Shape
    <3>. QED  BY <1>4, <2>1, <3>1
  <2>2. CASE q # p
    <3>1. q \in log_lock[s]
      BY <1>1, <1>5, <2>2 DEF LockInv, Shape
    <3>. QED  BY <1>1, <1>2, <2>2, <3>1, SameTable DEF LockInv
  <2>. QED  BY <2>1, <2>2
<1>. QED  BY <1>3, <1>5 DEF LockInv

(* No process waits for a log while it holds one: processes that begin
   transactions on the same segments in different orders cannot deadlock. *)
THEOREM RvmWaiterHoldsNothing == Spec => []WaiterHoldsNothing
<1>1. Init => LockInv
  BY DEF Init, LockInv, Shape, DownIdle, HeldFor, Idle
<1>2. LockInv /\ [Next]_vars => LockInv'
  <2> SUFFICES ASSUME LockInv, [Next]_vars PROVE LockInv'
    OBVIOUS
  <2> USE DEF store, table, Inside
  <2>1. ASSUME NEW p \in Procs, Start(p) PROVE LockInv'
    <3>1. Shape' /\ DownIdle'
      BY <2>1 DEF Start, LockInv, Shape, DownIdle
    <3>2. \A s \in Segs : p \notin log_lock[s]
      BY <2>1, HoldsNone DEF Start, LockInv, DownIdle
    <3>3. \A q \in Procs : q # p => num_mapped'[q] = num_mapped[q]
      BY <2>1 DEF Start, LockInv, Shape
    <3>4. UNCHANGED <<log_lock, call, mapped>>
      BY <2>1 DEF Start
    <3>. QED  BY <3>1, <3>2, <3>3, <3>4, NoLockTaken
  <2>2. ASSUME NEW p \in Procs, Crash(p) PROVE LockInv'
    <3>1. Shape' /\ DownIdle'
      BY <2>2 DEF Crash, LockInv, Shape, DownIdle, Idle
    <3>2. \A q \in Procs : q # p => /\ call'[q] = call[q]
                                    /\ mapped'[q] = mapped[q]
                                    /\ num_mapped'[q] = num_mapped[q]
      BY <2>2 DEF Crash, LockInv, Shape
    <3>3. \A s \in Segs : log_lock'[s] \subseteq log_lock[s] /\ p \notin log_lock'[s]
      BY <2>2 DEF Crash
    <3>. QED  BY <3>1, <3>2, <3>3, NoLockTaken
  <2>3. ASSUME NEW p \in Procs, Mapping(p) PROVE LockInv'
    <3>1. ASSUME NEW s \in Segs, NEW n, NEW a, Map(p, s, n, a) PROVE LockInv'
      <4>1. CASE Undefined
        BY <4>1, UndefinedStep
      <4>2. CASE ~Undefined
        <5>1. \E t : LogSegment(p, t)
          BY <3>1, <4>2 DEF Map
        <5>2. UNCHANGED <<call, status>> /\ CanCall(p)
          BY <3>1, <4>2 DEF Map
        <5>3. /\ mapped' = [mapped EXCEPT ![p] = mapped'[p]]
              /\ num_mapped' = [num_mapped EXCEPT ![p] = num_mapped'[p]]
          BY <3>1, <4>2 DEF Map, LockInv, Shape
        <5>. QED  BY <5>1, <5>2, <5>3, TableSteps
      <4>. QED  BY <4>1, <4>2
    <3>2. ASSUME NEW a, Unmap(p, a) PROVE LockInv'
      <4>1. /\ mapped' = [mapped EXCEPT ![p] = mapped'[p]]
            /\ num_mapped' = [num_mapped EXCEPT ![p] = num_mapped'[p]]
        BY <3>2 DEF Unmap, LockInv, Shape
      <4>2. CanCall(p) /\ UNCHANGED <<call, status>> /\ \E t : LogSegment(p, t)
        BY <3>2 DEF Unmap
      <4>. QED  BY <4>1, <4>2, TableSteps
    <3>3. ASSUME NEW s, UnmapEmpty(p) \/ Destroy(p, s) PROVE LockInv'
      <4>1. /\ mapped' = [mapped EXCEPT ![p] = mapped'[p]]
            /\ num_mapped' = [num_mapped EXCEPT ![p] = num_mapped'[p]]
        BY <3>3 DEF UnmapEmpty, Destroy, LockInv, Shape
      <4>2. CanCall(p) /\ UNCHANGED <<log_lock, call, status>>
        BY <3>3 DEF UnmapEmpty, Destroy
      <4>. QED  BY <4>1, <4>2, TableSteps
    <3>. QED  BY <2>3, <3>1, <3>2, <3>3 DEF Mapping
  <2>4. ASSUME NEW p \in Procs, Transaction(p) PROVE LockInv'
    <3>0. call = [q \in Procs |-> [op |-> call[q].op, todo |-> call[q].todo]]
      BY DEF LockInv, Shape
    <3>1. ASSUME NEW bases, BeginTrans(p, bases) PROVE LockInv'
      <4>1. \A s \in Segs : p \notin log_lock'[s]
        BY <3>1, HoldsNone DEF BeginTrans, CanCall, Idle
      <4>. QED  BY <3>1, <4>1, CallSteps DEF BeginTrans
    <3>2. CASE LockSegment(p)
      BY <3>2, LockTaken
    <3>3. CASE LogBegin(p)
      <4>1. \A s \in Segs : p \notin log_lock'[s]
        BY <3>3 DEF LogBegin, LogSegment, LockInv, Shape, HeldFor
      <4>2. call' = [call EXCEPT ![p] = [op |-> "begin", todo |-> Tail(call[p].todo)]]
        BY <3>0, <3>3 DEF LogBegin
      <4>. QED  BY <3>3, <4>1, <4>2, CallSteps DEF LogBegin
    <3>4. ASSUME NEW a, NEW k, AboutToModify(p, a, k) PROVE LockInv'
      <4>1. /\ mapped' = [mapped EXCEPT ![p] = mapped'[p]]
            /\ num_mapped' = [num_mapped EXCEPT ![p] = num_mapped'[p]]
        BY <3>4 DEF AboutToModify, LockInv, Shape
      <4>2. /\ CanCall(p) /\ UNCHANGED <<call, status>>
            /\ (\E s : LogSegment(p, s)) \/ UNCHANGED log_lock
        BY <3>4 DEF AboutToModify
      <4>. QED  BY <4>1, <4>2, TableSteps
    <3>5. ASSUME NEW a, NEW k, NEW v, Store(p, a, k, v) PROVE LockInv'
      <4>1. /\ mapped' = [mapped EXCEPT ![p] = mapped'[p]]
            /\ num_mapped' = [num_mapped EXCEPT ![p] = num_mapped'[p]]
        BY <3>5 DEF Store, LockInv, Shape
      <4>. QED  BY <3>5, <4>1, TableSteps DEF Store
    <3>6. CASE CommitTrans(p) \/ AbortTrans(p)
      <4>1. \A s \in Segs : p \notin log_lock'[s]
        BY <3>6, HoldsNone DEF CommitTrans, AbortTrans, CanCall, Idle
      <4>2. PICK op, todo : call' = [call EXCEPT ![p] = [op |-> op, todo |-> todo]]
        BY <3>6 DEF CommitTrans, AbortTrans
      <4>. QED  BY <3>6, <4>1, <4>2, CallSteps DEF CommitTrans, AbortTrans
    <3>7. CASE WriteRange(p)
      <4>1. CASE Undefined
        BY <4>1, UndefinedStep
      <4>2. CASE ~Undefined
        <5>1. call' = [call EXCEPT ![p] = [op |-> call[p].op, todo |-> Tail(call[p].todo)]]
          BY <3>0, <3>7, <4>2 DEF WriteRange
        <5>2. \A s \in Segs : p \notin log_lock'[s]
          BY <3>7, <4>2, HoldsNone DEF WriteRange
        <5>. QED  BY <3>7, <4>2, <5>1, <5>2, CallSteps DEF WriteRange
      <4>. QED  BY <4>1, <4>2
    <3>8. CASE LogCommit(p) \/ AbortSegment(p)
      <4>1. call' = [call EXCEPT ![p] = [op |-> call[p].op, todo |-> Tail(call[p].todo)]]
        BY <3>0, <3>8 DEF LogCommit, AbortSegment
      <4>2. PICK s : LogSegment(p, s)
        BY <3>8 DEF LogCommit, AbortSegment
      <4>3. \A t \in Segs : p \notin log_lock'[t]
        BY <3>8, <4>2, HoldsNone DEF LogCommit, AbortSegment, LogSegment, LockInv, Shape
      <4>. QED  BY <3>8, <4>1, <4>2, <4>3, CallSteps DEF LogCommit, AbortSegment
    <3>9. CASE Return(p)
      <4>1. \A s \in Segs : p \notin log_lock'[s]
        BY <3>9, HoldsNone DEF Return
      <4>. QED  BY <3>9, <4>1, CallSteps DEF Return, Idle
    <3>. QED
      BY <2>4, <3>1, <3>2, <3>3, <3>4, <3>5, <3>6, <3>7, <3>8, <3>9 DEF Transaction
  <2>5. CASE UNCHANGED vars
    <3>1. Shape' /\ DownIdle'
      BY <2>5 DEF vars, LockInv, Shape, DownIdle
    <3>. QED  BY <2>5, <3>1, SameTable DEF vars, LockInv
  <2>. QED  BY <2>1, <2>2, <2>3, <2>4, <2>5 DEF Next
<1>3. LockInv => WaiterHoldsNothing
  BY HoldsNone DEF WaiterHoldsNothing
<1>. QED  BY <1>1, <1>2, <1>3, PTL DEF Spec

-----------------------------------------------------------------------------
(* The table of mappings.                                                   *)

(* What a process has mapped is of a segment, inside of its file. *)
LiveFits(p) ==
  \A a \in Live(p) :
    vm[p][a].of \in Segs /\ Len(vm[p][a].cells) <= Len(dir[vm[p][a].of])

(* The entries in use: each describes a live mapping. *)
EntriesAgree(p) ==
  \A i \in Used(p) :
    LET e == mapped[p][i] IN
    /\ e.data \in Live(p)
    /\ vm[p][e.data].of = e.name
    /\ Len(vm[p][e.data].cells) = e.size
    /\ ToSet(e.ranges) \subseteq 1 .. e.size \cup {Garbage}

NothingTwice(p) ==
  \A i, j \in Used(p) :
    mapped[p][i].data = mapped[p][j].data \/ mapped[p][i].name = mapped[p][j].name
      => i = j

(* What a transaction has declared is mapped, and stays so: rvm_unmap is not
   called for the addresses of an open transaction. *)
DeclaredLive(p) ==
  \A d \in trans[p].declared :
    /\ d[1] \in Live(p)
    /\ d[2] \in 1 .. Len(vm[p][d[1]].cells)
    /\ Contains(trans[p].bases, d[1])

(* What is left to do of a call is about entries in use: no call changes the
   table while another of the process runs. *)
Doable(p, op, t) ==
  IF op = "commit"
  THEN /\ Registered(p, t[1])
       /\ t[2] \in 1 .. Entry(p, t[1]).size \cup {Garbage, LogIt}
  ELSE Registered(p, t)

TodoKnown(p) ==
  /\ \A t \in ToSet(call[p].todo) : Doable(p, call[p].op, t)
  /\ call[p].op = "logging" => call[p].todo # <<>>
  /\ status[p] = "down" => call[p] = Idle

ProcessInv(p) ==
  LiveFits(p) /\ EntriesAgree(p) /\ NothingTwice(p) /\ DeclaredLive(p) /\ TodoKnown(p)

TableInv == TypeOK /\ \A p \in Procs : ProcessInv(p)

-----------------------------------------------------------------------------
Entries == [data : Addrs \cup {NULL}, name : Segs \cup {NULL}, size : Nat,
            ranges : Seq(Nat \cup {Garbage})]
Mappings == [of : Segs \cup {NULL}, cells : Seq(Cells)]

(* The types of the parts of the state. *)
LEMMA Typed ==
  ASSUME TypeOK, NEW p \in Procs
  PROVE  /\ \A s \in Segs : dir[s] \in Seq(Values) /\ Len(dir[s]) \in Nat
         /\ num_mapped[p] \in -1 .. MAXSEGS
         /\ Used(p) \subseteq Slots
         /\ \A i \in Slots : mapped[p][i] \in Entries
         /\ \A a \in Addrs : /\ vm[p][a] \in Mappings
                             /\ vm[p][a].cells \in Seq(Cells)
                             /\ Len(vm[p][a].cells) \in Nat
<1>1. \A s \in Segs : dir[s] \in Seq(Values) /\ Len(dir[s]) \in Nat
  <2>1. ASSUME NEW s \in Segs PROVE dir[s] \in Seq(Values)
    BY DEF TypeOK
  <2>. QED  BY <2>1
<1>2. num_mapped[p] \in -1 .. MAXSEGS
  BY DEF TypeOK
<1>3. Used(p) \subseteq Slots
  BY <1>2 DEF Used, Slots
<1>4. \A i \in Slots : mapped[p][i] \in Entries
  BY DEF TypeOK, Entries
<1>5. \A a \in Addrs : vm[p][a] \in Mappings
  BY DEF TypeOK, Mappings
<1>6. ASSUME NEW a \in Addrs
      PROVE  vm[p][a].cells \in Seq(Cells) /\ Len(vm[p][a].cells) \in Nat
  <2>1. vm[p][a].cells \in Seq(Cells)
    BY <1>5 DEF Mappings
  <2>. QED  BY <2>1
<1>. QED  BY <1>1, <1>2, <1>3, <1>4, <1>5, <1>6

(* The entry of a registered address. *)
LEMMA EntryIs ==
  ASSUME TypeOK, NEW p \in Procs, LiveFits(p), EntriesAgree(p),
         NEW a, Registered(p, a)
  PROVE  /\ Slot(p, a) \in Used(p) /\ Slot(p, a) \in Slots
         /\ Entry(p, a) = mapped[p][Slot(p, a)]
         /\ Entry(p, a) \in Entries
         /\ Entry(p, a).data = a
         /\ a \in Addrs /\ a \in Live(p)
         /\ Entry(p, a).name \in Segs
         /\ Entry(p, a).name = vm[p][a].of
         /\ Entry(p, a).size \in Nat
         /\ Entry(p, a).size = Len(vm[p][a].cells)
         /\ Entry(p, a).size <= Len(dir[Entry(p, a).name])
         /\ Entry(p, a).ranges \in Seq(Nat \cup {Garbage})
         /\ ToSet(Entry(p, a).ranges) \subseteq 1 .. Entry(p, a).size \cup {Garbage}
<1>1. PICK i : i = Slot(p, a)
  OBVIOUS
<1>2. i \in Used(p) /\ mapped[p][i].data = a
  BY <1>1 DEF Registered, Slot
<1>3. PICK e : e = mapped[p][i]
  OBVIOUS
<1>4. i \in Slots /\ e \in Entries
  BY <1>2, <1>3, Typed
<1>5. Entry(p, a) = e
  BY <1>1, <1>3 DEF Entry
<1>6. /\ e.data = a /\ a \in Live(p)
      /\ vm[p][a].of = e.name
      /\ Len(vm[p][a].cells) = e.size
      /\ ToSet(e.ranges) \subseteq 1 .. e.size \cup {Garbage}
  BY <1>2, <1>3 DEF EntriesAgree
<1>7. a \in Addrs
  BY <1>6 DEF Live
<1>8. e.name \in Segs /\ e.size <= Len(dir[e.name])
  BY <1>6 DEF LiveFits
<1>9. e.size \in Nat /\ e.ranges \in Seq(Nat \cup {Garbage})
  BY <1>4 DEF Entries
<1>. QED  BY <1>1, <1>2, <1>3, <1>4, <1>5, <1>6, <1>7, <1>8, <1>9

(* What the table invariant says of the entries is TableAgrees. *)
LEMMA InvAgrees == ASSUME TableInv PROVE TableAgrees
<1> SUFFICES ASSUME NEW p \in Procs, NEW i \in Used(p)
             PROVE  LET e == mapped[p][i] IN
                    /\ e.data \in Live(p)
                    /\ vm[p][e.data].of = e.name
                    /\ Len(vm[p][e.data].cells) = e.size
                    /\ e.size <= Len(dir[e.name])
                    /\ \A j \in Used(p) : (mapped[p][j].data = e.data
                                             \/ mapped[p][j].name = e.name) => j = i
  BY DEF TableAgrees
<1>1. LiveFits(p) /\ EntriesAgree(p) /\ NothingTwice(p)
  BY DEF TableInv, ProcessInv
<1>2. /\ mapped[p][i].data \in Live(p)
      /\ vm[p][mapped[p][i].data].of = mapped[p][i].name
      /\ Len(vm[p][mapped[p][i].data].cells) = mapped[p][i].size
  BY <1>1 DEF EntriesAgree
<1>3. mapped[p][i].size <= Len(dir[mapped[p][i].name])
  BY <1>1, <1>2 DEF LiveFits
<1>4. \A j \in Used(p) : (mapped[p][j].data = mapped[p][i].data
                            \/ mapped[p][j].name = mapped[p][i].name) => j = i
  BY <1>1 DEF NothingTwice
<1>. QED  BY <1>2, <1>3, <1>4

-----------------------------------------------------------------------------
(* What a process reads is a value. *)
LEMMA LoadTyped ==
  ASSUME TypeOK, NEW p \in Procs, LiveFits(p), NEW a \in Live(p),
         NEW k \in 1 .. Len(vm[p][a].cells)
  PROVE  Load(p, a, k) \in Values
<1>1. /\ a \in Addrs /\ vm[p][a].of \in Segs
      /\ Len(vm[p][a].cells) <= Len(dir[vm[p][a].of])
  BY DEF Live, LiveFits
<1>2. PICK c : c = vm[p][a].cells
  OBVIOUS
<1>3. PICK d : d = dir[vm[p][a].of]
  OBVIOUS
<1>4. c \in Seq(Cells) /\ d \in Seq(Values) /\ Len(c) <= Len(d) /\ k \in 1 .. Len(c)
  BY <1>1, <1>2, <1>3, Typed
<1>5. c[k] \in Cells
  BY <1>4
<1>6. d[k] \in Values
  <2>1. Len(c) \in Nat /\ Len(d) \in Nat
    BY <1>4
  <2>2. k \in 1 .. Len(d)
    BY <1>4, <2>1
  <2>. QED  BY <1>4, <2>2
<1>7. Load(p, a, k) = IF c[k] = Shared THEN d[k] ELSE c[k]
  BY <1>2, <1>3 DEF Load
<1>. QED  BY <1>5, <1>6, <1>7 DEF Cells

(* A promise has values where the file had them. *)
LEMMA PromiseTyped ==
  ASSUME TypeOK, NEW p \in Procs, LiveFits(p), DeclaredLive(p), NEW s \in Segs,
         NEW c \in Seq(Values)
  PROVE  /\ Promise(p, s, c) \in Seq(Values)
         /\ Len(Promise(p, s, c)) = Len(c)
<1> DEFINE At(k) == {a \in Live(p) : <<a, k>> \in trans[p].declared /\ vm[p][a].of = s}
<1>1. PICK n \in Nat : n = Len(c) /\ DOMAIN c = 1 .. n
  OBVIOUS
<1>2. PICK f : f = Promise(p, s, c)
  OBVIOUS
<1>3. f = [k \in 1 .. n |-> IF At(k) = {} THEN c[k] ELSE Load(p, CHOOSE a \in At(k) : TRUE, k)]
  BY <1>1, <1>2 DEF Promise
<1>4. ASSUME NEW k \in 1 .. n PROVE f[k] \in Values
  <2>0. f[k] = IF At(k) = {} THEN c[k] ELSE Load(p, CHOOSE a \in At(k) : TRUE, k)
    BY <1>3
  <2>1. CASE At(k) = {}
    <3>1. f[k] = c[k]
      BY <2>0, <2>1, Zenon
    <3>. QED  BY <1>1, <3>1
  <2>2. CASE At(k) # {}
    <3>1. PICK a : a = CHOOSE b \in At(k) : TRUE
      OBVIOUS
    <3>2. a \in At(k)
      BY <2>2, <3>1
    <3>3. f[k] = Load(p, a, k)
      BY <2>0, <2>2, <3>1, Zenon
    <3>4. a \in Live(p) /\ <<a, k>> \in trans[p].declared
      BY <3>2
    <3>5. k \in 1 .. Len(vm[p][a].cells)
      BY <3>4 DEF DeclaredLive
    <3>. QED  BY <3>3, <3>4, <3>5, LoadTyped
  <2>. QED  BY <2>1, <2>2
<1> HIDE DEF At
<1>5. DOMAIN f = 1 .. n
  BY <1>3
<1>6. f \in [1 .. n -> Values]
  BY <1>3, <1>4, <1>5
<1>7. f \in Seq(Values)
  BY <1>6
<1>8. Len(f) = n
  BY <1>5, <1>7
<1>. QED  BY <1>1, <1>2, <1>7, <1>8

(* Padding adds cells that are zero. *)
LEMMA PadIs ==
  ASSUME NEW c \in Seq(Values), NEW n \in Nat
  PROVE  /\ Pad(c, n) \in Seq(Values)
         /\ Len(c) <= n => /\ Len(Pad(c, n)) = n
                           /\ \A k \in 1 .. Len(c) : Pad(c, n)[k] = c[k]
                           /\ \A k \in Len(c) + 1 .. n : Pad(c, n)[k] = 0
<1>1. PICK l \in Nat : l = Len(c)
  OBVIOUS
<1>2. PICK m \in Int : m = n - l
  BY ONLY n \in Nat, l \in Nat
<1>3. PICK z : z = [i \in 1 .. m |-> 0]
  OBVIOUS
<1>4. z \in Seq(Values) /\ (m >= 0 => Len(z) = m)
  <2>1. CASE m >= 0
    <3>1. z \in [1 .. m -> Values]
      BY <1>3
    <3>2. m \in Nat
      BY <2>1
    <3>3. z \in Seq(Values)
      BY <3>1, <3>2
    <3>. QED  BY <3>2, <3>3, <1>3
  <2>2. CASE ~(m >= 0)
    <3>1. 1 .. m = 1 .. 0
      BY <2>2
    <3>2. z \in [1 .. 0 -> Values]
      BY <1>3, <3>1
    <3>. QED  BY <2>2, <3>2
  <2>. QED  BY <2>1, <2>2
<1>5. Pad(c, n) = c \o z
  BY <1>1, <1>2, <1>3 DEF Pad
<1>6. /\ (c \o z) \in Seq(Values)
      /\ Len(c \o z) = l + Len(z)
      /\ \A k \in 1 .. l : (c \o z)[k] = c[k]
      /\ \A k \in 1 .. Len(z) : (c \o z)[l + k] = z[k]
  BY <1>1, <1>4, Joined
<1>7. ASSUME l <= n, NEW k \in l + 1 .. n PROVE (c \o z)[k] = 0
  <2>1. PICK i \in 1 .. m : k = l + i
    <3>1. k - l \in 1 .. m /\ k = l + (k - l)
      BY <1>2, <1>7
    <3>. QED  BY <3>1
  <2>2. m >= 0
    BY <1>2, <1>7
  <2>. QED  BY <1>3, <1>4, <1>6, <2>1, <2>2
<1>. QED  BY <1>1, <1>2, <1>4, <1>5, <1>6, <1>7

-----------------------------------------------------------------------------
(* The known addresses of a call. *)
LEMMA KnownIs ==
  ASSUME NEW p \in Procs, NEW bases \in Seq(Addrs)
  PROVE  /\ Known(p, bases) \in Seq(Addrs)
         /\ \A a : a \in ToSet(Known(p, bases))
                     <=> Contains(bases, a) /\ Registered(p, a)
<1>1. PICK seqs : seqs = [i \in DOMAIN bases |->
                            IF Registered(p, bases[i]) THEN <<bases[i]>> ELSE <<>>]
  OBVIOUS
<1>2. Known(p, bases) = FlattenSeq(seqs)
  BY <1>1 DEF Known
<1>3. PICK n \in Nat : n = Len(bases) /\ DOMAIN bases = 1 .. n
                       /\ \A i \in 1 .. n : bases[i] \in Addrs
  OBVIOUS
<1>4. DOMAIN seqs = 1 .. n
  BY <1>1, <1>3
<1>5. ASSUME NEW i \in 1 .. n
      PROVE  /\ seqs[i] \in Seq(Addrs)
             /\ \A a : a \in ToSet(seqs[i]) <=> a = bases[i] /\ Registered(p, a)
  <2>0. seqs[i] = IF Registered(p, bases[i]) THEN <<bases[i]>> ELSE <<>>
    BY <1>1, <1>3
  <2>1. CASE Registered(p, bases[i])
    <3>1. seqs[i] = <<bases[i]>>
      BY <2>0, <2>1, Zenon
    <3>2. PICK b \in Addrs : b = bases[i]
      BY <1>3
    <3>3. ToSet(<<b>>) = {b} /\ <<b>> \in Seq(Addrs)
      BY DEF ToSet
    <3>. QED  BY <2>1, <3>1, <3>2, <3>3
  <2>2. CASE ~Registered(p, bases[i])
    <3>1. seqs[i] = <<>>
      BY <2>0, <2>2, Zenon
    <3>2. ToSet(<<>>) = {} /\ <<>> \in Seq(Addrs)
      BY DEF ToSet
    <3>. QED  BY <2>2, <3>1, <3>2
  <2>. QED  BY <2>1, <2>2
<1>6. seqs = [i \in 1 .. n |-> seqs[i]]
  BY <1>1, <1>3
<1>7. seqs \in Seq(Seq(Addrs))
  <2>1. seqs \in [1 .. n -> Seq(Addrs)]
    BY <1>5, <1>6
  <2>. QED  BY <2>1
<1>8. Known(p, bases) \in Seq(Addrs)
  BY <1>2, <1>7, FlattenTyped
<1>9. ToSet(Known(p, bases)) = UNION {ToSet(seqs[i]) : i \in 1 .. n}
  BY <1>2, <1>4, <1>7, FlattenElements
<1>10. \A a : a \in ToSet(Known(p, bases))
                <=> \E i \in 1 .. n : a = bases[i] /\ Registered(p, a)
  BY <1>5, <1>9
<1>11. \A a : Contains(bases, a) <=> \E i \in 1 .. n : bases[i] = a
  BY <1>3 DEF Contains
<1>. QED  BY <1>8, <1>10, <1>11

-----------------------------------------------------------------------------
Writeables == Addrs \X (Nat \cup {Garbage, LogIt})
Calls == [op : {"none", "begin", "logging", "abort"}, todo : Seq(Addrs)]
         \cup [op : {"commit"}, todo : Seq(Writeables)]

(* What a commit writes of one segment: its ranges, then the log record. *)
LEMMA WritesAre ==
  ASSUME NEW p \in Procs, NEW a \in Addrs,
         Entry(p, a).ranges \in Seq(Nat \cup {Garbage})
  PROVE  /\ Writes(p, a) \in Seq(Writeables)
         /\ ToSet(Writes(p, a)) = {<<a, k>> : k \in ToSet(Entry(p, a).ranges) \cup {LogIt}}
<1>1. PICK r \in Seq(Nat \cup {Garbage}) : r = Entry(p, a).ranges
  OBVIOUS
<1>2. PICK n \in Nat : n = Len(r) /\ DOMAIN r = 1 .. n
                       /\ \A i \in 1 .. n : r[i] \in Nat \cup {Garbage}
  OBVIOUS
<1>3. PICK w : w = [i \in 1 .. n |-> <<a, r[i]>>]
  OBVIOUS
<1>4. PICK last : last = <<a, LogIt>>
  OBVIOUS
<1>5. Writes(p, a) = w \o << last >>
  BY <1>1, <1>2, <1>3, <1>4 DEF Writes
<1>6. w \in Seq(Writeables) /\ DOMAIN w = 1 .. n /\ \A i \in 1 .. n : w[i] = <<a, r[i]>>
  <2>1. \A i \in 1 .. n : <<a, r[i]>> \in Writeables
    BY <1>2 DEF Writeables
  <2>2. w \in [1 .. n -> Writeables]
    BY <1>3, <2>1
  <2>. QED  BY <1>3, <2>2
<1>7. last \in Writeables
  BY <1>4 DEF Writeables
<1>8. << last >> \in Seq(Writeables) /\ ToSet(<< last >>) = {last}
  BY <1>7 DEF ToSet
<1>9. ToSet(w \o << last >>) = ToSet(w) \cup {last}
  <2>1. PICK b : b = << last >>
    OBVIOUS
  <2>2. w \in Seq(Writeables) /\ b \in Seq(Writeables) /\ ToSet(b) = {last}
    BY <1>6, <1>8, <2>1
  <2>3. ToSet(w \o b) = ToSet(w) \cup ToSet(b)
    BY ONLY <2>2, JoinedElements
  <2>. QED  BY <2>1, <2>2, <2>3
<1>10. ToSet(w) = {<<a, k>> : k \in ToSet(r)}
  BY <1>2, <1>6 DEF ToSet
<1>11. (w \o << last >>) \in Seq(Writeables)
  BY <1>6, <1>8, Joined
<1>12. {<<a, k>> : k \in ToSet(r) \cup {LogIt}} = {<<a, k>> : k \in ToSet(r)} \cup {last}
  BY <1>4
<1>. QED  BY <1>1, <1>5, <1>9, <1>10, <1>11, <1>12

(* What a commit has to do: the writes of each known segment. *)
CommitTodo(p) ==
  LET known == Known(p, trans[p].bases) IN
  FlattenSeq([i \in DOMAIN known |-> Writes(p, known[i])])

(* It is a sequence of writes to registered mappings: of each of their ranges, and
   the log record. *)
LEMMA CommitTodoIs ==
  ASSUME TypeOK, NEW p \in Procs, LiveFits(p), EntriesAgree(p)
  PROVE  /\ CommitTodo(p) \in Seq(Writeables)
         /\ \A t : t \in ToSet(CommitTodo(p)) <=>
              \E a \in Addrs : /\ Contains(trans[p].bases, a) /\ Registered(p, a)
                               /\ \E k \in ToSet(Entry(p, a).ranges) \cup {LogIt} : t = <<a, k>>
<1>1. PICK bases \in Seq(Addrs) : bases = trans[p].bases
  BY DEF TypeOK
<1>2. PICK known : known = Known(p, bases)
  OBVIOUS
<1>3. /\ known \in Seq(Addrs)
      /\ \A a : a \in ToSet(known) <=> Contains(bases, a) /\ Registered(p, a)
  BY <1>2, KnownIs
<1>4. PICK n \in Nat : n = Len(known) /\ DOMAIN known = 1 .. n
                       /\ \A i \in 1 .. n : known[i] \in Addrs
  BY <1>3
<1>5. PICK seqs : seqs = [i \in 1 .. n |-> Writes(p, known[i])]
  OBVIOUS
<1>6. CommitTodo(p) = FlattenSeq(seqs)
  BY <1>1, <1>2, <1>4, <1>5 DEF CommitTodo
<1>7. ASSUME NEW i \in 1 .. n
      PROVE  /\ seqs[i] \in Seq(Writeables)
             /\ ToSet(seqs[i])
                  = {<<known[i], k>> : k \in ToSet(Entry(p, known[i]).ranges) \cup {LogIt}}
  <2>1. PICK a \in Addrs : a = known[i]
    BY <1>4
  <2>2. a \in ToSet(known)
    BY <1>4, <2>1 DEF ToSet
  <2>3. Registered(p, a)
    BY <1>3, <2>2
  <2>4. Entry(p, a).ranges \in Seq(Nat \cup {Garbage})
    BY <2>3, EntryIs
  <2>5. seqs[i] = Writes(p, a)
    BY <1>5, <2>1
  <2>. QED  BY <2>1, <2>4, <2>5, WritesAre
<1>8. seqs \in Seq(Seq(Writeables)) /\ DOMAIN seqs = 1 .. n
  <2>1. seqs \in [1 .. n -> Seq(Writeables)]
    BY <1>5, <1>7
  <2>. QED  BY <1>5, <2>1
<1>9. CommitTodo(p) \in Seq(Writeables)
  BY <1>6, <1>8, FlattenTyped
<1>10. ToSet(CommitTodo(p)) = UNION {ToSet(seqs[i]) : i \in 1 .. n}
  BY <1>6, <1>8, FlattenElements
<1>11. ASSUME NEW t
       PROVE  t \in ToSet(CommitTodo(p)) <=>
                \E i \in 1 .. n : \E k \in ToSet(Entry(p, known[i]).ranges) \cup {LogIt} :
                  t = <<known[i], k>>
  BY <1>7, <1>10
<1>12. \A a : (\E i \in 1 .. n : a = known[i]) <=>
                a \in Addrs /\ Contains(bases, a) /\ Registered(p, a)
  BY <1>3, <1>4 DEF ToSet
<1>. QED  BY <1>1, <1>9, <1>11, <1>12

-----------------------------------------------------------------------------
(* What a step leaves alone of the processes that do not take it. *)
SameFor(q) ==
  /\ mapped'[q] = mapped[q] /\ num_mapped'[q] = num_mapped[q] /\ vm'[q] = vm[q]
  /\ trans'[q] = trans[q] /\ call'[q] = call[q] /\ status'[q] = status[q]

FilesKept(q) ==
  \A a \in Live(q) : Len(dir[vm[q][a].of]) <= Len(dir'[vm[q][a].of])

(* And then they keep their invariant, as they see their own part of the state
   and files that have not become shorter. *)
LEMMA OthersKeep ==
  ASSUME TypeOK, TypeOK', NEW q \in Procs, ProcessInv(q), SameFor(q), FilesKept(q)
  PROVE  ProcessInv(q)'
<1>1. Live(q)' = Live(q) /\ Used(q)' = Used(q)
  BY DEF Live, Used, SameFor
<1>2. LiveFits(q)'
  <2> SUFFICES ASSUME NEW a \in Live(q)
               PROVE  /\ vm'[q][a].of \in Segs
                      /\ Len(vm'[q][a].cells) <= Len(dir'[vm'[q][a].of])
    BY <1>1 DEF LiveFits
  <2>1. PICK s \in Segs : s = vm[q][a].of /\ vm'[q][a] = vm[q][a]
    BY DEF ProcessInv, LiveFits, SameFor
  <2>2. a \in Addrs
    BY DEF Live
  <2>3. Len(vm[q][a].cells) <= Len(dir[s]) /\ Len(dir[s]) <= Len(dir'[s])
    BY <2>1 DEF ProcessInv, LiveFits, FilesKept
  <2>4. Len(vm[q][a].cells) \in Nat /\ Len(dir[s]) \in Nat
    BY <2>2, Typed
  <2>5. Len(dir'[s]) \in Nat
    <3>1. dir'[s] \in Seq(Values)
      BY DEF TypeOK
    <3>. QED  BY <3>1
  <2>6. Len(vm[q][a].cells) <= Len(dir'[s])
    BY <2>3, <2>4, <2>5
  <2>. QED  BY <2>1, <2>6
<1>3. EntriesAgree(q)' /\ NothingTwice(q)'
  BY <1>1 DEF ProcessInv, EntriesAgree, NothingTwice, SameFor
<1>4. DeclaredLive(q)'
  BY <1>1 DEF ProcessInv, DeclaredLive, SameFor
<1>5. TodoKnown(q)'
  <2>1. \A a : Registered(q, a)' <=> Registered(q, a)
    BY <1>1 DEF Registered, SameFor
  <2>2. \A a : Entry(q, a)' = Entry(q, a)
    BY <1>1 DEF Entry, Slot, SameFor
  <2>. QED  BY <2>1, <2>2 DEF ProcessInv, TodoKnown, Doable, SameFor
<1>. QED  BY <1>2, <1>3, <1>4, <1>5 DEF ProcessInv

(* A step of p is only to be checked for p. *)
LEMMA StepOf ==
  ASSUME TableInv, TypeOK', NEW p \in Procs, ProcessInv(p)',
         \A q \in Procs \ {p} : SameFor(q) /\ FilesKept(q)
  PROVE  TableInv'
<1>1. ASSUME NEW q \in Procs PROVE ProcessInv(q)'
  <2>1. CASE q = p
    BY <2>1
  <2>2. CASE q # p
    BY <2>2, OthersKeep DEF TableInv
  <2>. QED  BY <2>1, <2>2
<1>. QED  BY <1>1 DEF TableInv

(* Nothing is lost of files that are left alone or only grow. *)
LEMMA FilesStay ==
  ASSUME TypeOK, NEW q \in Procs, LiveFits(q),
         \A s \in Segs : Len(dir[s]) <= Len(dir'[s])
  PROVE  FilesKept(q)
  BY DEF LiveFits, FilesKept

(* In particular of files that nobody touches. *)
LEMMA FilesSame ==
  ASSUME TypeOK, NEW q \in Procs, LiveFits(q), UNCHANGED dir
  PROVE  FilesKept(q)
<1>1. \A s \in Segs : Len(dir[s]) <= Len(dir'[s])
  BY Typed
<1>. QED  BY <1>1, FilesStay

(* logSegment gives up locks. *)
LEMMA LogTyped ==
  ASSUME TypeOK, NEW p, NEW s, LogSegment(p, s) \/ UNCHANGED log_lock
  PROVE  log_lock' \in [Segs -> SUBSET Procs]
<1>1. log_lock \in [Segs -> SUBSET Procs]
  BY DEF TypeOK
<1>. QED  BY <1>1 DEF LogSegment

(* Undefined behaviour ends the model as it is. *)
LEMMA UndefinedInv == ASSUME TableInv, Undefined PROVE TableInv'
<1>0. UNCHANGED <<dir, log_lock, status, mapped, num_mapped, vm, trans, call, promised, spoilt>>
      /\ undefined' \in BOOLEAN
  BY DEF Undefined, store, table
<1>1. TypeOK'
  BY <1>0 DEF TableInv, TypeOK
<1>2. ASSUME NEW q \in Procs PROVE ProcessInv(q)'
  <2>1. SameFor(q)
    BY <1>0 DEF SameFor
  <2>2. FilesKept(q)
    BY <1>0, FilesSame DEF TableInv, ProcessInv
  <2>. QED  BY <1>1, <2>1, <2>2, OthersKeep DEF TableInv
<1>. QED  BY <1>1, <1>2 DEF TableInv

-----------------------------------------------------------------------------
(* A step that moves the call of p on, and leaves the tables and the memory as
   they are. *)
LEMMA CallInv ==
  ASSUME TableInv, NEW p \in Procs, status[p] = "up", NEW c \in Calls,
         call' = [call EXCEPT ![p] = c],
         UNCHANGED <<mapped, num_mapped, vm, status, undefined, spoilt>>,
         dir' \in [Segs -> Seq(Values)],
         \A s \in Segs : Len(dir'[s]) = Len(dir[s]),
         log_lock' \in [Segs -> SUBSET Procs],
         promised' \in [Segs -> SUBSET Seq(Values)],
         NEW t, t \in [open : BOOLEAN, bases : Seq(Addrs), declared : SUBSET (Addrs \X Nat)],
         trans' = [trans EXCEPT ![p] = t],
         t.declared = {} \/ t = trans[p],
         \A x \in ToSet(c.todo) : Doable(p, c.op, x),
         c.op = "logging" => c.todo # <<>>
  PROVE  TableInv'
<1>0. TypeOK /\ ProcessInv(p) /\ \A q \in Procs : LiveFits(q)
  BY DEF TableInv, ProcessInv
<1>1. TypeOK'
  <2>1. call' \in [Procs -> Calls]
    BY <1>0 DEF TypeOK, Calls, Writeables
  <2>2. trans' \in [Procs -> [open : BOOLEAN, bases : Seq(Addrs),
                              declared : SUBSET (Addrs \X Nat)]]
    BY <1>0 DEF TypeOK
  <2>. QED  BY <1>0, <2>1, <2>2 DEF TypeOK, Calls, Writeables
<1>2. call'[p] = c /\ trans'[p] = t
  BY <1>0 DEF TypeOK
<1>3. \A q \in Procs \ {p} : SameFor(q)
  BY <1>0 DEF TypeOK, SameFor
<1>4. \A q \in Procs : FilesKept(q)
  <2>1. \A s \in Segs : Len(dir[s]) <= Len(dir'[s])
    BY <1>0, Typed
  <2>. QED  BY <1>0, <2>1, FilesStay
<1>5. Live(p)' = Live(p) /\ Used(p)' = Used(p)
  BY DEF Live, Used
<1>6. LiveFits(p)'
  <2>1. \A s \in Segs : Len(dir'[s]) = Len(dir[s])
    OBVIOUS
  <2>. QED  BY <1>0, <1>5, <2>1 DEF LiveFits
<1>7. EntriesAgree(p)' /\ NothingTwice(p)'
  BY <1>0, <1>5 DEF ProcessInv, EntriesAgree, NothingTwice
<1>8. DeclaredLive(p)'
  BY <1>0, <1>2, <1>5 DEF ProcessInv, DeclaredLive
<1>9. TodoKnown(p)'
  <2>1. \A a : Registered(p, a)' <=> Registered(p, a)
    BY <1>5 DEF Registered
  <2>2. \A a : Entry(p, a)' = Entry(p, a)
    BY <1>5 DEF Entry, Slot
  <2>. QED  BY <1>2, <2>1, <2>2 DEF TodoKnown, Doable
<1>. QED  BY <1>0, <1>1, <1>3, <1>4, <1>6, <1>7, <1>8, <1>9, StepOf DEF ProcessInv

(* A call being a record, a step that takes the next thing to do. *)
LEMMA NextTodo ==
  ASSUME TypeOK, NEW p \in Procs, call[p].todo # <<>>, TodoKnown(p), NEW op,
         \/ call[p].op = "commit" /\ op = "commit"
         \/ call[p].op \in {"begin", "logging", "abort"} /\ op \in {"begin", "abort"}
  PROVE  /\ [op |-> op, todo |-> Tail(call[p].todo)] \in Calls
         /\ call[p] = [op |-> call[p].op, todo |-> call[p].todo]
         /\ Head(call[p].todo) \in ToSet(call[p].todo)
         /\ Doable(p, call[p].op, Head(call[p].todo))
         /\ \A x \in ToSet(Tail(call[p].todo)) : Doable(p, op, x)
<1>1. PICK c : c = call[p]
  OBVIOUS
<1>2. c \in Calls
  BY <1>1 DEF TypeOK, Calls, Writeables
<1>3. c = [op |-> c.op, todo |-> c.todo]
  BY <1>2 DEF Calls
<1>4. CASE c.op = "commit"
  <2>1. c.todo \in Seq(Writeables)
    BY <1>2, <1>4 DEF Calls
  <2>2. PICK s \in Seq(Writeables) : s = c.todo
    BY <2>1
  <2>3. /\ Tail(s) \in Seq(Writeables) /\ Head(s) \in ToSet(s)
        /\ ToSet(Tail(s)) \subseteq ToSet(s)
    BY <1>1, <2>2, HeadAndTail
  <2>4. [op |-> op, todo |-> Tail(s)] \in Calls
    BY <1>1, <1>4, <2>3 DEF Calls
  <2>. QED  BY <1>1, <1>3, <1>4, <2>2, <2>3, <2>4 DEF TodoKnown
<1>5. CASE c.op # "commit"
  <2>1. c.todo \in Seq(Addrs)
    BY <1>2, <1>5 DEF Calls
  <2>2. PICK s \in Seq(Addrs) : s = c.todo
    BY <2>1
  <2>3. /\ Tail(s) \in Seq(Addrs) /\ Head(s) \in ToSet(s)
        /\ ToSet(Tail(s)) \subseteq ToSet(s)
    BY <1>1, <2>2, HeadAndTail
  <2>4. [op |-> op, todo |-> Tail(s)] \in Calls
    BY <1>1, <1>5, <2>3 DEF Calls
  <2>5. op # "commit"
    BY <1>1, <1>5
  <2>. QED  BY <1>1, <1>3, <1>5, <2>2, <2>3, <2>4, <2>5 DEF TodoKnown, Doable
<1>. QED  BY <1>4, <1>5

(* The same for the steps that write the call as call[p].todo = Tail. *)
LEMMA TodoNext ==
  ASSUME TypeOK, NEW p \in Procs, call' = [call EXCEPT ![p].todo = Tail(call[p].todo)]
  PROVE  call' = [call EXCEPT ![p] = [op |-> call[p].op, todo |-> Tail(call[p].todo)]]
<1>1. PICK b, o, old, rest :
        b = call[p] /\ o = call[p].op /\ old = call[p].todo /\ rest = Tail(call[p].todo)
  OBVIOUS
<1>2. b = [op |-> o, todo |-> old]
  <2>1. b \in Calls
    BY <1>1 DEF TypeOK, Calls, Writeables
  <2>. QED  BY <1>1, <2>1 DEF Calls
<1>3. PICK c : c = [op |-> o, todo |-> rest]
  OBVIOUS
<1>4. [b EXCEPT !.todo = rest] = c
  BY ONLY <1>2, <1>3
<1>5. call' = [call EXCEPT ![p] = [b EXCEPT !.todo = rest]]
  BY <1>1, Zenon
<1>6. call' = [call EXCEPT ![p] = c]
  BY <1>4, <1>5, Zenon
<1>. QED  BY <1>1, <1>3, <1>6, Zenon

Transactions == [open : BOOLEAN, bases : Seq(Addrs), declared : SUBSET (Addrs \X Nat)]

(* The parts of the state that a step of a call uses. *)
LEMMA CallTyped ==
  ASSUME TableInv, NEW p \in Procs
  PROVE  /\ TypeOK /\ LiveFits(p) /\ EntriesAgree(p) /\ NothingTwice(p)
         /\ DeclaredLive(p) /\ TodoKnown(p)
         /\ trans[p] \in Transactions /\ trans = [trans EXCEPT ![p] = trans[p]]
         /\ dir \in [Segs -> Seq(Values)] /\ log_lock \in [Segs -> SUBSET Procs]
         /\ promised \in [Segs -> SUBSET Seq(Values)]
         /\ NoTrans \in Transactions /\ Idle \in Calls
<1>1. TypeOK /\ ProcessInv(p)
  BY DEF TableInv
<1>2. <<>> \in Seq(Addrs)
  OBVIOUS
<1>. QED  BY <1>1, <1>2 DEF TypeOK, ProcessInv, Transactions, NoTrans, Idle, Calls

(* The addresses a caller names are a sequence of live ones. *)
LEMMA BasesTyped ==
  ASSUME NEW p \in Procs, NEW bases \in BaseLists(p)
  PROVE  bases \in Seq(Addrs) /\ \A i \in DOMAIN bases : bases[i] \in Live(p)
<1>1. PICK A \in SUBSET Live(p) : bases \in SetToSeqs(A)
  BY DEF BaseLists
<1>2. A \subseteq Addrs
  BY DEF Live
<1>3. Cardinality(A) \in Nat
  BY <1>2, FS_Subset, FS_CardinalityType
<1>4. bases \in [1 .. Cardinality(A) -> A]
  BY <1>1 DEF SetToSeqs
<1>. QED  BY <1>1, <1>2, <1>3, <1>4

(* The transaction that rvm_begin_trans returns. *)
LEMMA Opened ==
  ASSUME NEW bases
  PROVE  [NoTrans EXCEPT !.open = TRUE, !.bases = bases]
           = [open |-> TRUE, bases |-> bases, declared |-> {}]
<1>1. PICK t, o, no, yes, none, nil :
        /\ no = FALSE /\ yes = TRUE /\ none = <<>> /\ nil = {} /\ o = NoTrans
        /\ t = [open |-> TRUE, bases |-> bases, declared |-> {}]
  OBVIOUS
<1>2. o = [open |-> no, bases |-> none, declared |-> nil]
  BY <1>1 DEF NoTrans
<1>3. PICK o1 : o1 = [open |-> yes, bases |-> none, declared |-> nil]
  OBVIOUS
<1>4. t = [open |-> yes, bases |-> bases, declared |-> nil]
  BY <1>1, Zenon
<1>5. [o EXCEPT !.open = yes] = o1
  BY ONLY <1>2, <1>3
<1>6. [o1 EXCEPT !.bases = bases] = t
  BY ONLY <1>3, <1>4
<1>7. [[o EXCEPT !.open = yes] EXCEPT !.bases = bases] = t
  BY <1>5, <1>6, Zenon
<1>8. [[NoTrans EXCEPT !.open = TRUE] EXCEPT !.bases = bases] = t
  BY <1>1, <1>7, Zenon
<1>. QED  BY <1>1, <1>8

(* rvm_begin_trans goes on with registered segments only. *)
LEMMA BeginTransInv ==
  ASSUME TableInv, NEW p \in Procs, NEW bases \in BaseLists(p), BeginTrans(p, bases)
  PROVE  TableInv'
<1>1. bases \in Seq(Addrs)
  BY BasesTyped
<1>2. PICK known : known = Known(p, bases)
  OBVIOUS
<1>3. known \in Seq(Addrs) /\ \A a \in ToSet(known) : Registered(p, a)
  BY <1>1, <1>2, KnownIs
<1>4. PICK c : c = [op |-> "begin", todo |-> known]
  OBVIOUS
<1>5. PICK t : t = [open |-> TRUE, bases |-> bases, declared |-> {}]
  OBVIOUS
<1>6. c \in Calls /\ c.op = "begin" /\ c.todo = known
  BY <1>3, <1>4 DEF Calls
<1>7. t \in Transactions /\ t.declared = {}
  BY <1>1, <1>5 DEF Transactions
<1>8. /\ call' = [call EXCEPT ![p] = c] /\ trans' = [trans EXCEPT ![p] = t]
      /\ UNCHANGED <<dir, log_lock, mapped, num_mapped, vm, status, undefined, promised, spoilt>>
      /\ status[p] = "up"
  <2>1. [NoTrans EXCEPT !.open = TRUE, !.bases = bases] = t
    BY <1>5, Opened
  <2>2. trans' = [trans EXCEPT ![p] = t]
    BY <2>1 DEF BeginTrans
  <2>3. call' = [call EXCEPT ![p] = c]
    BY <1>2, <1>4 DEF BeginTrans
  <2>4. /\ UNCHANGED <<dir, log_lock, mapped, num_mapped, vm, status, undefined, promised, spoilt>>
        /\ status[p] = "up"
    BY DEF BeginTrans, store, table, CanCall, Alive
  <2>. QED  BY <2>2, <2>3, <2>4
<1>9. \A x \in ToSet(c.todo) : Doable(p, c.op, x)
  BY <1>3, <1>6 DEF Doable
<1>. QED  BY <1>6, <1>7, <1>8, <1>9, CallTyped, CallInv DEF Transactions

(* lockf on the log of the next segment. *)
LEMMA LockSegmentInv ==
  ASSUME TableInv, NEW p \in Procs, LockSegment(p)
  PROVE  TableInv'
<1>1. PICK c : c = [op |-> "logging", todo |-> call[p].todo]
  OBVIOUS
<1>2. call[p].op = "begin" /\ call[p].todo # <<>> /\ status[p] = "up"
  BY DEF LockSegment, Inside, Alive
<1>3. c \in Calls /\ c.op = "logging" /\ c.todo = call[p].todo
  <2>1. call[p].todo \in Seq(Addrs)
    BY <1>2, CallTyped DEF TypeOK
  <2>. QED  BY <1>1, <2>1 DEF Calls
<1>4. \A x \in ToSet(c.todo) : Doable(p, c.op, x)
  BY <1>2, <1>3, CallTyped DEF TodoKnown, Doable
<1>5. /\ call' = [call EXCEPT ![p] = c]
      /\ UNCHANGED <<dir, mapped, num_mapped, vm, status, undefined, promised,
                     spoilt, trans>>
  BY <1>1 DEF LockSegment, table
<1>6. log_lock' \in [Segs -> SUBSET Procs]
  <2>1. PICK s : log_lock' = [log_lock EXCEPT ![s] = {p}]
    BY DEF LockSegment
  <2>. QED  BY <2>1, CallTyped
<1>. QED  BY <1>2, <1>3, <1>4, <1>5, <1>6, CallTyped, CallInv DEF Transactions

(* The begin record is logged, and the segment is done with. *)
LEMMA LogBeginInv ==
  ASSUME TableInv, NEW p \in Procs, LogBegin(p)
  PROVE  TableInv'
<1>1. PICK c : c = [op |-> "begin", todo |-> Tail(call[p].todo)]
  OBVIOUS
<1>2. call[p].op = "logging" /\ call[p].todo # <<>> /\ status[p] = "up"
  BY CallTyped DEF LogBegin, Inside, Alive, TodoKnown
<1>3. c \in Calls /\ \A x \in ToSet(c.todo) : Doable(p, c.op, x)
  BY <1>1, <1>2, CallTyped, NextTodo
<1>4. /\ call' = [call EXCEPT ![p] = c]
      /\ UNCHANGED <<dir, mapped, num_mapped, vm, status, undefined, promised,
                     spoilt, trans>>
  BY <1>1 DEF LogBegin, table
<1>5. log_lock' \in [Segs -> SUBSET Procs]
  BY CallTyped, LogTyped DEF LogBegin
<1>6. c.op = "begin"
  BY <1>1
<1>. QED  BY <1>2, <1>3, <1>4, <1>5, <1>6, CallTyped, CallInv DEF Transactions

(* A commit and its promises. *)
LEMMA CommitTransInv ==
  ASSUME TableInv, NEW p \in Procs, CommitTrans(p)
  PROVE  TableInv'
<1>1. PICK todo : todo = CommitTodo(p)
  OBVIOUS
<1>2. /\ todo \in Seq(Writeables)
      /\ \A t \in ToSet(todo) : \E a \in Addrs :
           /\ Registered(p, a)
           /\ \E k \in ToSet(Entry(p, a).ranges) \cup {LogIt} : t = <<a, k>>
  BY <1>1, CallTyped, CommitTodoIs
<1>3. PICK c : c = [op |-> "commit", todo |-> todo]
  OBVIOUS
<1>4. c \in Calls /\ c.op = "commit" /\ c.todo = todo
  BY <1>2, <1>3 DEF Calls
<1>5. ASSUME NEW t \in ToSet(todo) PROVE Doable(p, "commit", t)
  <2>1. PICK a \in Addrs :
           /\ Registered(p, a)
           /\ \E k \in ToSet(Entry(p, a).ranges) \cup {LogIt} : t = <<a, k>>
    BY <1>2
  <2>2. PICK k \in ToSet(Entry(p, a).ranges) \cup {LogIt} : t = <<a, k>>
    BY <2>1
  <2>3. k \in 1 .. Entry(p, a).size \cup {Garbage, LogIt}
    BY <2>1, CallTyped, EntryIs
  <2>4. t[1] = a /\ t[2] = k
    BY <2>2
  <2>. QED  BY <2>1, <2>3, <2>4, Zenon DEF Doable
<1>6. promised' \in [Segs -> SUBSET Seq(Values)]
  <2>1. promised' = [s \in Segs |->
                       promised[s] \cup {Promise(p, s, c2) : c2 \in promised[s]}]
    BY DEF CommitTrans
  <2>2. ASSUME NEW s \in Segs
        PROVE  promised[s] \cup {Promise(p, s, c2) : c2 \in promised[s]} \in SUBSET Seq(Values)
    <3>1. promised[s] \subseteq Seq(Values)
      BY CallTyped
    <3>2. \A c2 \in promised[s] : Promise(p, s, c2) \in Seq(Values)
      BY <3>1, CallTyped, PromiseTyped
    <3>. QED  BY <3>1, <3>2
  <2>. QED  BY <2>1, <2>2
<1>7. /\ call' = [call EXCEPT ![p] = c]
      /\ UNCHANGED <<dir, log_lock, mapped, num_mapped, vm, status, undefined, trans, spoilt>>
      /\ status[p] = "up"
  BY <1>1, <1>3 DEF CommitTrans, CommitTodo, store, table, CanCall, Alive
<1>8. \A x \in ToSet(c.todo) : Doable(p, c.op, x)
  BY <1>4, <1>5
<1>. QED  BY <1>4, <1>6, <1>7, <1>8, CallTyped, CallInv DEF Transactions

(* A write takes a value from the mapping to the file. *)
LEMMA WriteRangeInv ==
  ASSUME TableInv, NEW p \in Procs, WriteRange(p)
  PROVE  TableInv'
<1>1. CASE Undefined
  BY <1>1, UndefinedInv
<1>2. CASE ~Undefined
  <2>1. PICK h : h = Head(call[p].todo)
    OBVIOUS
  <2>2. PICK a, k : a = h[1] /\ k = h[2]
    OBVIOUS
  <2>3. /\ call[p].op = "commit" /\ call[p].todo # <<>> /\ status[p] = "up"
        /\ k # LogIt
    BY <2>1, <2>2 DEF WriteRange, Inside, Alive
  <2>4. /\ k # Garbage
        /\ dir' = [dir EXCEPT ![Entry(p, a).name]
                     [Len(dir[Entry(p, a).name]) - Entry(p, a).size + k] = Load(p, a, k)]
        /\ call' = [call EXCEPT ![p].todo = Tail(call[p].todo)]
        /\ UNCHANGED <<log_lock, mapped, num_mapped, vm, status, undefined, promised,
                     spoilt, trans>>
    BY <1>2, <2>1, <2>2 DEF WriteRange, table
  <2>5. PICK c : c = [op |-> "commit", todo |-> Tail(call[p].todo)]
    OBVIOUS
  <2>6. /\ c \in Calls /\ \A x \in ToSet(c.todo) : Doable(p, c.op, x)
        /\ call[p] = [op |-> call[p].op, todo |-> call[p].todo]
        /\ Doable(p, call[p].op, h)
    BY <2>1, <2>3, <2>5, CallTyped, NextTodo
  <2>7. call' = [call EXCEPT ![p] = c] /\ c.op = "commit"
    BY <2>3, <2>4, <2>5, CallTyped, TodoNext
  <2>8. Registered(p, a) /\ k \in 1 .. Entry(p, a).size
    BY <2>2, <2>3, <2>4, <2>6 DEF Doable
  <2>9. PICK e : e = Entry(p, a)
    OBVIOUS
  <2>10. /\ a \in Live(p) /\ e.name \in Segs /\ e.size \in Nat
         /\ e.size = Len(vm[p][a].cells)
    BY <2>8, <2>9, CallTyped, EntryIs
  <2>11. PICK v \in Values : v = Load(p, a, k)
    BY <2>8, <2>9, <2>10, CallTyped, LoadTyped
  <2>12. PICK f \in Seq(Values) : f = dir[e.name]
    BY <2>10, CallTyped
  <2>13. PICK g : g = [f EXCEPT ![Len(f) - e.size + k] = v]
    OBVIOUS
  <2>14. g \in Seq(Values) /\ Len(g) = Len(f)
    <3>1. PICK n \in Nat : n = Len(f) /\ f \in [1 .. n -> Values]
      BY <2>12
    <3>2. g \in [1 .. n -> Values]
      BY <2>11, <2>13, <3>1
    <3>. QED  BY <3>1, <3>2
  <2>15. dir' = [dir EXCEPT ![e.name] = g]
    BY <2>4, <2>9, <2>11, <2>12, <2>13
  <2>16. dir' \in [Segs -> Seq(Values)] /\ \A s \in Segs : Len(dir'[s]) = Len(dir[s])
    BY <2>10, <2>12, <2>14, <2>15, CallTyped
  <2>. QED  BY <2>3, <2>4, <2>6, <2>7, <2>16, CallTyped, CallInv DEF Transactions
<1>. QED  BY <1>1, <1>2

(* The commit record of a segment is logged. *)
LEMMA LogCommitInv ==
  ASSUME TableInv, NEW p \in Procs, LogCommit(p)
  PROVE  TableInv'
<1>1. PICK c : c = [op |-> "commit", todo |-> Tail(call[p].todo)]
  OBVIOUS
<1>2. call[p].op = "commit" /\ call[p].todo # <<>> /\ status[p] = "up"
  BY DEF LogCommit, Inside, Alive
<1>3. /\ c \in Calls /\ \A x \in ToSet(c.todo) : Doable(p, c.op, x)
      /\ call[p] = [op |-> call[p].op, todo |-> call[p].todo]
  BY <1>1, <1>2, CallTyped, NextTodo
<1>4. /\ call' = [call EXCEPT ![p].todo = Tail(call[p].todo)]
      /\ UNCHANGED <<dir, mapped, num_mapped, vm, status, undefined, promised,
                     spoilt, trans>>
  BY DEF LogCommit, table
<1>5. log_lock' \in [Segs -> SUBSET Procs]
  BY CallTyped, LogTyped DEF LogCommit
<1>6. c.op = "commit" /\ call' = [call EXCEPT ![p] = c]
  BY <1>1, <1>2, <1>4, CallTyped, TodoNext
<1>. QED  BY <1>2, <1>3, <1>4, <1>5, <1>6, CallTyped, CallInv DEF Transactions

(* rvm_abort_trans goes through the registered segments. *)
LEMMA AbortTransInv ==
  ASSUME TableInv, NEW p \in Procs, AbortTrans(p)
  PROVE  TableInv'
<1>1. PICK known : known = Known(p, trans[p].bases)
  OBVIOUS
<1>2. known \in Seq(Addrs) /\ \A a \in ToSet(known) : Registered(p, a)
  <2>1. trans[p].bases \in Seq(Addrs)
    BY CallTyped DEF Transactions
  <2>. QED  BY <1>1, <2>1, KnownIs
<1>3. PICK c : c = [op |-> "abort", todo |-> known]
  OBVIOUS
<1>4. c \in Calls /\ c.op = "abort" /\ c.todo = known
  BY <1>2, <1>3 DEF Calls
<1>5. /\ call' = [call EXCEPT ![p] = c]
      /\ UNCHANGED <<dir, log_lock, mapped, num_mapped, vm, status, undefined, promised,
                     spoilt, trans>>
      /\ status[p] = "up"
  BY <1>1, <1>3 DEF AbortTrans, store, table, CanCall, Alive
<1>6. \A x \in ToSet(c.todo) : Doable(p, c.op, x)
  BY <1>2, <1>4 DEF Doable
<1>. QED  BY <1>4, <1>5, <1>6, CallTyped, CallInv DEF Transactions

(* A call returns; a commit or an abort ends the transaction. *)
LEMMA ReturnInv ==
  ASSUME TableInv, NEW p \in Procs, Return(p)
  PROVE  TableInv'
<1>1. /\ status[p] = "up" /\ call' = [call EXCEPT ![p] = Idle]
      /\ UNCHANGED <<dir, log_lock, mapped, num_mapped, vm, status, undefined, spoilt>>
  BY DEF Return, Inside, Alive, store, table
<1>2. PICK t \in Transactions : /\ trans' = [trans EXCEPT ![p] = t]
                                /\ t.declared = {} \/ t = trans[p]
  <2>1. CASE call[p].op = "begin"
    <3>1. trans' = trans
      BY <2>1 DEF Return
    <3>. QED  BY <3>1, CallTyped
  <2>2. CASE call[p].op # "begin"
    <3>1. trans' = [trans EXCEPT ![p] = NoTrans]
      BY <2>2 DEF Return
    <3>. QED  BY <3>1, CallTyped DEF NoTrans
  <2>. QED  BY <2>1, <2>2
<1>3. promised' \in [Segs -> SUBSET Seq(Values)]
  <2>1. ASSUME NEW s \in Segs
        PROVE  {Promise(p, s, c) : c \in promised[s]} \in SUBSET Seq(Values)
    <3>1. promised[s] \subseteq Seq(Values)
      BY CallTyped
    <3>2. \A c \in promised[s] : Promise(p, s, c) \in Seq(Values)
      BY <3>1, CallTyped, PromiseTyped
    <3>. QED  BY <3>2
  <2>2. \/ promised' = promised
        \/ promised' = [s \in Segs |-> {Promise(p, s, c) : c \in promised[s]}]
    BY DEF Return
  <2>. QED  BY <2>1, <2>2, CallTyped
<1>4. /\ ToSet(Idle.todo) = {} /\ Idle.op # "logging"
  BY DEF ToSet, Idle
<1>. QED  BY <1>1, <1>2, <1>3, <1>4, CallTyped, CallInv DEF Transactions

-----------------------------------------------------------------------------
(* The cells of one mapping change, their number does not. *)
LEMMA MemoryIs ==
  ASSUME TypeOK, NEW p \in Procs, LiveFits(p), NEW a \in Live(p), NEW z \in Seq(Cells),
         Len(z) = Len(vm[p][a].cells),
         vm' = [vm EXCEPT ![p][a].cells = z]
  PROVE  /\ vm' \in [Procs -> [Addrs -> Mappings]]
         /\ \A q \in Procs \ {p} : vm'[q] = vm[q]
         /\ \A b \in Addrs \ {a} : vm'[p][b] = vm[p][b]
         /\ vm'[p][a].cells = z
         /\ \A b \in Addrs : /\ vm'[p][b].of = vm[p][b].of
                             /\ Len(vm'[p][b].cells) = Len(vm[p][b].cells)
         /\ Live(p)' = Live(p)
<1>1. a \in Addrs /\ vm[p][a].of \in Segs /\ vm \in [Procs -> [Addrs -> Mappings]]
  BY DEF Live, LiveFits, TypeOK, Mappings
<1>2. PICK x : x = vm[p][a]
  OBVIOUS
<1>3. x \in Mappings
  BY <1>1, <1>2
<1>4. PICK o, c : o = x.of /\ c = x.cells
  OBVIOUS
<1>5. x = [of |-> o, cells |-> c]
  BY <1>3, <1>4 DEF Mappings
<1>6. PICK y : y = [of |-> o, cells |-> z]
  OBVIOUS
<1>7. [x EXCEPT !.cells = z] = y
  BY ONLY <1>5, <1>6
<1>8. y \in Mappings /\ y.of = o /\ y.cells = z
  BY <1>3, <1>4, <1>6 DEF Mappings
<1>9. vm' = [vm EXCEPT ![p] = [vm[p] EXCEPT ![a] = y]]
  <2>1. vm' = [vm EXCEPT ![p] = [vm[p] EXCEPT ![a] = [vm[p][a] EXCEPT !.cells = z]]]
    BY Zenon
  <2>2. [vm[p][a] EXCEPT !.cells = z] = y
    BY <1>2, <1>7, Zenon
  <2>. QED  BY <2>1, <2>2, Zenon
<1>10. vm' \in [Procs -> [Addrs -> Mappings]] /\ \A q \in Procs \ {p} : vm'[q] = vm[q]
  <2>1. PICK m : m = [vm[p] EXCEPT ![a] = y]
    OBVIOUS
  <2>2. m \in [Addrs -> Mappings]
    BY <1>1, <1>8, <2>1
  <2>3. vm' = [vm EXCEPT ![p] = m]
    BY <1>9, <2>1, Zenon
  <2>. QED  BY <1>1, <2>2, <2>3
<1>11. vm'[p][a] = y /\ \A b \in Addrs \ {a} : vm'[p][b] = vm[p][b]
  BY <1>1, <1>9
<1>12. ASSUME NEW b \in Addrs
       PROVE  /\ vm'[p][b].of = vm[p][b].of
              /\ Len(vm'[p][b].cells) = Len(vm[p][b].cells)
  <2>1. CASE b = a
    BY <2>1, <1>2, <1>4, <1>8, <1>11
  <2>2. CASE b # a
    BY <2>2, <1>11
  <2>. QED  BY <2>1, <2>2
<1>13. Live(p)' = Live(p)
  <2>1. x # Nowhere /\ y # Nowhere
    <3>1. o \in Segs
      BY <1>1, <1>2, <1>4
    <3>2. \A m : m = Nowhere => m.of = NULL
      BY DEF Nowhere
    <3>. QED  BY <1>4, <1>8, <3>1, <3>2
  <2>. QED  BY <1>1, <1>2, <1>11, <2>1 DEF Live
<1>. QED  BY <1>8, <1>10, <1>11, <1>12, <1>13

(* A step that gives a mapping other cells, as a store and an abort do. *)
LEMMA MemoryInv ==
  ASSUME TableInv, NEW p \in Procs, status[p] = "up", NEW a \in Live(p),
         NEW z \in Seq(Cells), Len(z) = Len(vm[p][a].cells),
         vm' = [vm EXCEPT ![p][a].cells = z],
         UNCHANGED <<dir, mapped, num_mapped, status, trans, promised, undefined, spoilt>>,
         log_lock' \in [Segs -> SUBSET Procs],
         NEW c \in Calls, call' = [call EXCEPT ![p] = c],
         \A x \in ToSet(c.todo) : Doable(p, c.op, x),
         c.op = "logging" => c.todo # <<>>
  PROVE  TableInv'
<1>0. TypeOK /\ LiveFits(p) /\ EntriesAgree(p) /\ NothingTwice(p) /\ DeclaredLive(p)
      /\ \A q \in Procs : LiveFits(q)
  BY CallTyped
<1>1. /\ vm' \in [Procs -> [Addrs -> Mappings]]
      /\ \A q \in Procs \ {p} : vm'[q] = vm[q]
      /\ \A b \in Addrs : /\ vm'[p][b].of = vm[p][b].of
                          /\ Len(vm'[p][b].cells) = Len(vm[p][b].cells)
      /\ Live(p)' = Live(p)
  BY <1>0, MemoryIs
<1>2. TypeOK'
  <2>1. call' \in [Procs -> Calls]
    BY <1>0 DEF TypeOK, Calls, Writeables
  <2>. QED  BY <1>0, <1>1, <2>1 DEF TypeOK, Calls, Writeables, Mappings
<1>3. call'[p] = c
  BY <1>0 DEF TypeOK
<1>4. \A q \in Procs \ {p} : SameFor(q)
  BY <1>0, <1>1 DEF TypeOK, SameFor
<1>5. \A q \in Procs : FilesKept(q)
  BY <1>0, FilesSame
<1>6. Live(p) \subseteq Addrs /\ Used(p)' = Used(p)
  BY DEF Live, Used
<1>7. LiveFits(p)'
  BY <1>0, <1>1, <1>6 DEF LiveFits
<1>8. EntriesAgree(p)'
  BY <1>0, <1>1, <1>6 DEF EntriesAgree
<1>9. NothingTwice(p)'
  BY <1>0, <1>6 DEF NothingTwice
<1>10. DeclaredLive(p)'
  BY <1>0, <1>1, <1>6 DEF DeclaredLive
<1>11. TodoKnown(p)'
  <2>1. \A b : Registered(p, b)' <=> Registered(p, b)
    BY <1>6 DEF Registered
  <2>2. \A b : Entry(p, b)' = Entry(p, b)
    BY <1>6 DEF Entry, Slot
  <2>. QED  BY <1>3, <2>1, <2>2 DEF TodoKnown, Doable
<1>. QED  BY <1>2, <1>4, <1>5, <1>7, <1>8, <1>9, <1>10, <1>11, StepOf DEF ProcessInv

(* A store of the caller. *)
LEMMA StoreInv ==
  ASSUME TableInv, NEW p \in Procs, NEW a \in Live(p), NEW k, NEW v \in Values,
         Store(p, a, k, v)
  PROVE  TableInv'
<1>1. PICK z : z = [vm[p][a].cells EXCEPT ![k] = v]
  OBVIOUS
<1>2. PICK y \in Seq(Cells) : y = vm[p][a].cells
  BY CallTyped, Typed DEF Live
<1>3. z \in Seq(Cells) /\ Len(z) = Len(vm[p][a].cells)
  <2>1. PICK n \in Nat : n = Len(y) /\ y \in [1 .. n -> Cells]
    BY <1>2
  <2>2. z \in [1 .. n -> Cells]
    BY <1>1, <1>2, <2>1 DEF Cells
  <2>. QED  BY <1>2, <2>1, <2>2
<1>4. vm' = [vm EXCEPT ![p][a].cells = z]
  <2>1. vm' = [vm EXCEPT ![p] = [vm[p] EXCEPT ![a] = [vm[p][a] EXCEPT !.cells =
                 [vm[p][a].cells EXCEPT ![k] = v]]]]
    BY Zenon DEF Store
  <2>. QED  BY <1>1, <2>1, Zenon
<1>5. /\ UNCHANGED <<dir, log_lock, mapped, num_mapped, status, trans, call, promised,
                  undefined, spoilt>>
      /\ status[p] = "up"
  BY DEF Store, store, CanCall, Alive
<1>6. PICK c \in Calls : c = call[p] /\ call' = [call EXCEPT ![p] = c]
  BY <1>5, CallTyped DEF TypeOK, Calls, Writeables
<1>7. (\A x \in ToSet(c.todo) : Doable(p, c.op, x)) /\ (c.op = "logging" => c.todo # <<>>)
  BY <1>6, CallTyped DEF TodoKnown
<1>8. log_lock' \in [Segs -> SUBSET Procs]
  BY <1>5, CallTyped
<1>. QED  BY <1>3, <1>4, <1>5, <1>6, <1>7, <1>8, MemoryInv

(* A segment read back. *)
LEMMA AbortSegmentInv ==
  ASSUME TableInv, NEW p \in Procs, AbortSegment(p)
  PROVE  TableInv'
<1>1. PICK a : a = Head(call[p].todo)
  OBVIOUS
<1>2. /\ call[p].op = "abort" /\ call[p].todo # <<>> /\ status[p] = "up"
      /\ LogSegment(p, Entry(p, a).name)
      /\ UNCHANGED <<dir, mapped, num_mapped, status, trans, promised, undefined, spoilt>>
  BY <1>1 DEF AbortSegment, Inside, Alive
<1>3. PICK c : c = [op |-> "abort", todo |-> Tail(call[p].todo)]
  OBVIOUS
<1>4. /\ c \in Calls /\ \A x \in ToSet(c.todo) : Doable(p, c.op, x)
      /\ call[p] = [op |-> call[p].op, todo |-> call[p].todo]
      /\ Doable(p, call[p].op, a)
  BY <1>1, <1>2, <1>3, CallTyped, NextTodo
<1>5. call' = [call EXCEPT ![p] = c] /\ c.op = "abort"
  <2>1. call' = [call EXCEPT ![p].todo = Tail(call[p].todo)]
    BY DEF AbortSegment
  <2>. QED  BY <1>2, <1>3, <2>1, CallTyped, TodoNext
<1>6. Registered(p, a)
  BY <1>2, <1>4 DEF Doable
<1>7. PICK e : e = Entry(p, a)
  OBVIOUS
<1>8. /\ a \in Live(p) /\ a \in Addrs /\ e.name \in Segs /\ e.size \in Nat
      /\ e.size = Len(vm[p][a].cells) /\ e.size <= Len(dir[e.name])
  BY <1>6, <1>7, CallTyped, EntryIs
<1>9. PICK y \in Seq(Cells) : y = vm[p][a].cells
  BY <1>8, CallTyped, Typed
<1>10. PICK d \in Seq(Values) : d = dir[e.name]
  BY <1>8, CallTyped
<1>11. PICK z : z = [k \in DOMAIN y |-> IF k <= e.size THEN d[k] ELSE y[k]]
  OBVIOUS
<1>12. z \in Seq(Cells) /\ Len(z) = Len(vm[p][a].cells)
  <2>1. PICK n \in Nat : n = Len(y) /\ n = e.size /\ DOMAIN y = 1 .. n
    BY <1>8, <1>9
  <2>2. \A k \in 1 .. n : z[k] \in Values
    <3>1. Len(d) \in Nat /\ n <= Len(d)
      BY <1>8, <1>10, <2>1
    <3>2. \A k \in 1 .. n : z[k] = d[k] /\ k \in 1 .. Len(d)
      BY <1>11, <2>1, <3>1
    <3>. QED  BY <3>2
  <2>3. z \in [1 .. n -> Cells]
    BY <1>11, <2>1, <2>2 DEF Cells
  <2>. QED  BY <1>9, <2>1, <2>3
<1>13. vm' = [vm EXCEPT ![p][a].cells = z]
  <2>1. vm' = [vm EXCEPT ![p] = [vm[p] EXCEPT ![a] = [vm[p][a] EXCEPT !.cells =
                 [k \in DOMAIN vm[p][a].cells |->
                    IF k <= Entry(p, a).size THEN dir[Entry(p, a).name][k]
                    ELSE vm[p][a].cells[k]]]]]
    BY <1>1, Zenon DEF AbortSegment
  <2>2. z = [k \in DOMAIN vm[p][a].cells |->
               IF k <= Entry(p, a).size THEN dir[Entry(p, a).name][k]
               ELSE vm[p][a].cells[k]]
    BY <1>7, <1>9, <1>10, <1>11, Zenon
  <2>. QED  BY <2>1, <2>2, Zenon
<1>14. log_lock' \in [Segs -> SUBSET Procs]
  BY <1>2, CallTyped, LogTyped
<1>. QED  BY <1>2, <1>4, <1>5, <1>8, <1>12, <1>13, <1>14, MemoryInv

-----------------------------------------------------------------------------
(* Outside of a call there is nothing left to do. *)
LEMMA IdleKnown ==
  ASSUME NEW p \in Procs, call'[p] = Idle
  PROVE  TodoKnown(p)'
<1>1. ToSet(Idle.todo) = {} /\ Idle.op # "logging"
  BY DEF Idle, ToSet
<1>. QED  BY <1>1 DEF TodoKnown

(* One entry of one table is written. *)
LEMMA EntryWritten ==
  ASSUME TypeOK, NEW p \in Procs, NEW i \in Slots, NEW e \in Entries,
         mapped' = [mapped EXCEPT ![p][i] = e]
  PROVE  /\ mapped' \in [Procs -> [Slots -> Entries]]
         /\ \A q \in Procs \ {p} : mapped'[q] = mapped[q]
         /\ \A j \in Slots \ {i} : mapped'[p][j] = mapped[p][j]
         /\ mapped'[p][i] = e
<1>1. mapped \in [Procs -> [Slots -> Entries]]
  BY DEF TypeOK, Entries
<1>2. PICK m : m = [mapped[p] EXCEPT ![i] = e]
  OBVIOUS
<1>3. /\ m \in [Slots -> Entries] /\ m[i] = e
      /\ \A j \in Slots \ {i} : m[j] = mapped[p][j]
  BY <1>1, <1>2
<1>4. mapped' = [mapped EXCEPT ![p] = m]
  BY <1>2, Zenon
<1>. QED  BY <1>1, <1>3, <1>4

(* A range more is declared. *)
LEMMA DeclaredMore ==
  ASSUME TypeOK, NEW p \in Procs, NEW a \in Addrs, NEW k \in Nat,
         trans' = [trans EXCEPT ![p].declared = trans[p].declared \cup {<<a, k>>}]
  PROVE  /\ trans' \in [Procs -> Transactions]
         /\ \A q \in Procs \ {p} : trans'[q] = trans[q]
         /\ trans'[p].open = trans[p].open /\ trans'[p].bases = trans[p].bases
         /\ trans'[p].declared = trans[p].declared \cup {<<a, k>>}
<1>1. PICK x : x = trans[p]
  OBVIOUS
<1>2. x \in Transactions
  BY <1>1 DEF TypeOK, Transactions
<1>3. PICK o, b, d, w : o = x.open /\ b = x.bases /\ d = x.declared /\ w = d \cup {<<a, k>>}
  OBVIOUS
<1>4. x = [open |-> o, bases |-> b, declared |-> d]
  BY <1>2, <1>3 DEF Transactions
<1>5. PICK y : y = [open |-> o, bases |-> b, declared |-> w]
  OBVIOUS
<1>6. [x EXCEPT !.declared = w] = y
  BY ONLY <1>4, <1>5
<1>7. w \subseteq Addrs \X Nat
  BY <1>2, <1>3 DEF Transactions
<1>8. y \in Transactions /\ y.open = o /\ y.bases = b /\ y.declared = w
  BY <1>2, <1>3, <1>5, <1>7 DEF Transactions
<1>9. trans' = [trans EXCEPT ![p] = y]
  <2>1. trans' = [trans EXCEPT ![p] = [trans[p] EXCEPT !.declared =
                    trans[p].declared \cup {<<a, k>>}]]
    BY Zenon
  <2>2. [trans[p] EXCEPT !.declared = trans[p].declared \cup {<<a, k>>}] = y
    BY <1>1, <1>3, <1>6, Zenon
  <2>. QED  BY <2>1, <2>2, Zenon
<1>10. trans \in [Procs -> Transactions]
  BY DEF TypeOK, Transactions
<1>. QED  BY <1>1, <1>3, <1>8, <1>9, <1>10

(* The entry of mapping a takes the range at k. *)
RangeRecorded(p, a, k) ==
  mapped' = [mapped EXCEPT ![p][Slot(p, a)].ranges = Append(mapped[p][Slot(p, a)].ranges, k)]

(* What that changes: nothing but the ranges of that entry. *)
RangeHeld(p, a, k) ==
  /\ mapped' \in [Procs -> [Slots -> Entries]]
  /\ \A q \in Procs \ {p} : mapped'[q] = mapped[q]
  /\ \A j \in Slots : /\ mapped'[p][j].data = mapped[p][j].data
                      /\ mapped'[p][j].name = mapped[p][j].name
                      /\ mapped'[p][j].size = mapped[p][j].size
  /\ \A j \in Slots \ {Slot(p, a)} : mapped'[p][j] = mapped[p][j]
  /\ ToSet(mapped'[p][Slot(p, a)].ranges)
       = ToSet(mapped[p][Slot(p, a)].ranges) \cup {k}

(* And recorded in its entry. *)
LEMMA RangeAdded ==
  ASSUME TypeOK, NEW p \in Procs, LiveFits(p), EntriesAgree(p), NEW a, Registered(p, a),
         NEW k \in Nat,
         RangeRecorded(p, a, k)
  PROVE  RangeHeld(p, a, k)
<1>1. PICK i : i = Slot(p, a)
  OBVIOUS
<1>2. PICK e : e = Entry(p, a)
  OBVIOUS
<1>3. /\ i \in Slots /\ e = mapped[p][i] /\ e \in Entries
      /\ e.ranges \in Seq(Nat \cup {Garbage})
  BY <1>1, <1>2, EntryIs
<1>4. PICK da, na, si, ra : da = e.data /\ na = e.name /\ si = e.size /\ ra = e.ranges
  OBVIOUS
<1>5. PICK r : r = Append(ra, k)
  OBVIOUS
<1>6. r \in Seq(Nat \cup {Garbage}) /\ ToSet(r) = ToSet(ra) \cup {k}
  BY <1>3, <1>4, <1>5, Appended
<1>7. e = [data |-> da, name |-> na, size |-> si, ranges |-> ra]
  BY <1>3, <1>4 DEF Entries
<1>8. PICK f : f = [data |-> da, name |-> na, size |-> si, ranges |-> r]
  OBVIOUS
<1>9. [e EXCEPT !.ranges = r] = f
  BY ONLY <1>7, <1>8
<1>10. f \in Entries /\ f.data = da /\ f.name = na /\ f.size = si /\ f.ranges = r
  BY <1>3, <1>4, <1>6, <1>8 DEF Entries
<1>11. mapped' = [mapped EXCEPT ![p][i] = f]
  <2>1. mapped' = [mapped EXCEPT ![p] = [mapped[p] EXCEPT ![i] =
                     [mapped[p][i] EXCEPT !.ranges = Append(mapped[p][i].ranges, k)]]]
    BY <1>1, Zenon DEF RangeRecorded
  <2>2. [mapped[p][i] EXCEPT !.ranges = Append(mapped[p][i].ranges, k)] = f
    BY <1>3, <1>4, <1>5, <1>9, Zenon
  <2>. QED  BY <2>1, <2>2, Zenon
<1>12. /\ mapped' \in [Procs -> [Slots -> Entries]]
       /\ \A q \in Procs \ {p} : mapped'[q] = mapped[q]
       /\ \A j \in Slots \ {i} : mapped'[p][j] = mapped[p][j]
       /\ mapped'[p][i] = f
  BY ONLY TypeOK, p \in Procs, <1>3, <1>10, <1>11, EntryWritten
<1>13. ASSUME NEW j \in Slots
       PROVE  /\ mapped'[p][j].data = mapped[p][j].data
              /\ mapped'[p][j].name = mapped[p][j].name
              /\ mapped'[p][j].size = mapped[p][j].size
  <2>1. CASE j = i
    BY <1>3, <1>4, <1>10, <1>12, <2>1
  <2>2. CASE j # i
    BY <1>12, <2>2
  <2>. QED  BY <2>1, <2>2
<1>. QED  BY <1>1, <1>3, <1>4, <1>6, <1>10, <1>12, <1>13 DEF RangeHeld

(* rvm_about_to_modify adds a range inside of the mapping. *)
LEMMA AboutToModifyInv ==
  ASSUME TableInv, NEW p \in Procs, NEW a \in Live(p), NEW k \in DOMAIN vm[p][a].cells,
         AboutToModify(p, a, k)
  PROVE  TableInv'
<1>0. /\ TypeOK /\ LiveFits(p) /\ EntriesAgree(p) /\ NothingTwice(p) /\ DeclaredLive(p)
      /\ \A q \in Procs : LiveFits(q)
  BY CallTyped
<1>1. /\ UNCHANGED <<dir, status, num_mapped, vm, call, promised, spoilt>>
      /\ undefined' \in BOOLEAN /\ call[p] = Idle
      /\ Contains(trans[p].bases, a)
  <2>1. undefined' \in BOOLEAN
    <3>1. CASE Registered(p, a)
      <4>1. undefined' = (Len(Entry(p, a).ranges) >= MAXRANGES)
        BY <3>1, Zenon DEF AboutToModify
      <4>2. PICK l, x : l = Len(Entry(p, a).ranges) /\ x = undefined'
        OBVIOUS
      <4>3. l \in Nat
        BY <1>0, <3>1, <4>2, EntryIs
      <4>4. x = (l >= MAXRANGES)
        BY <4>1, <4>2, Zenon
      <4>5. x \in BOOLEAN
        BY <4>3, <4>4
      <4>. QED  BY <4>2, <4>5, Zenon
    <3>2. CASE ~Registered(p, a)
      BY <1>0, <3>2, Zenon DEF AboutToModify, TypeOK
    <3>. QED  BY <3>1, <3>2
  <2>. QED  BY <2>1 DEF AboutToModify, CanCall
<1>2. a \in Addrs /\ k \in 1 .. Len(vm[p][a].cells) /\ k \in Nat
  <2>1. a \in Addrs
    BY DEF Live
  <2>2. PICK c \in Seq(Cells) : c = vm[p][a].cells
    BY <1>0, <2>1, Typed
  <2>3. k \in 1 .. Len(c) /\ Len(c) \in Nat
    BY <2>2
  <2>. QED  BY <2>1, <2>2, <2>3
<1>3. /\ trans' \in [Procs -> Transactions]
      /\ \A q \in Procs \ {p} : trans'[q] = trans[q]
      /\ trans'[p].bases = trans[p].bases
      /\ trans'[p].declared = trans[p].declared \cup {<<a, k>>}
  BY <1>2, CallTyped, DeclaredMore DEF AboutToModify
<1>4. log_lock' \in [Segs -> SUBSET Procs]
  BY <1>0, LogTyped DEF AboutToModify
<1>5. /\ mapped' \in [Procs -> [Slots -> Entries]]
      /\ \A q \in Procs \ {p} : mapped'[q] = mapped[q]
      /\ \A j \in Slots : /\ mapped'[p][j].data = mapped[p][j].data
                          /\ mapped'[p][j].name = mapped[p][j].name
                          /\ mapped'[p][j].size = mapped[p][j].size
      /\ \A j \in Used(p) : ToSet(mapped'[p][j].ranges) \subseteq
           1 .. mapped[p][j].size \cup {Garbage}
  <2>0. Used(p) \subseteq Slots /\ mapped \in [Procs -> [Slots -> Entries]]
    BY <1>0, Typed DEF TypeOK, Entries
  <2>1. CASE ~Registered(p, a)
    <3>1. mapped' = mapped
      BY <2>1 DEF AboutToModify
    <3>. QED  BY <1>0, <2>0, <3>1 DEF EntriesAgree
  <2>2. CASE Registered(p, a)
    <3>1. /\ mapped' \in [Procs -> [Slots -> Entries]]
          /\ \A q \in Procs \ {p} : mapped'[q] = mapped[q]
          /\ \A j \in Slots : /\ mapped'[p][j].data = mapped[p][j].data
                              /\ mapped'[p][j].name = mapped[p][j].name
                              /\ mapped'[p][j].size = mapped[p][j].size
          /\ \A j \in Slots \ {Slot(p, a)} : mapped'[p][j] = mapped[p][j]
          /\ ToSet(mapped'[p][Slot(p, a)].ranges)
               = ToSet(mapped[p][Slot(p, a)].ranges) \cup {k}
      <4>1. RangeRecorded(p, a, k)
        BY <2>2, Zenon DEF AboutToModify, RangeRecorded
      <4>2. RangeHeld(p, a, k)
        BY <1>0, <1>2, <2>2, <4>1, RangeAdded
      <4>. QED  BY ONLY <4>2 DEF RangeHeld
    <3>2. ASSUME NEW j \in Used(p)
          PROVE  ToSet(mapped'[p][j].ranges) \subseteq 1 .. mapped[p][j].size \cup {Garbage}
      <4>1. CASE j = Slot(p, a)
        <5>1. /\ mapped[p][j].size = Len(vm[p][a].cells)
              /\ ToSet(mapped[p][j].ranges) \subseteq 1 .. mapped[p][j].size \cup {Garbage}
          BY <1>0, <2>2, <4>1, EntryIs
        <5>. QED  BY <1>2, <3>1, <4>1, <5>1
      <4>2. CASE j # Slot(p, a)
        <5>1. mapped'[p][j] = mapped[p][j]
          BY <2>0, <3>1, <4>2
        <5>. QED  BY <1>0, <5>1 DEF EntriesAgree
      <4>. QED  BY <4>1, <4>2
    <3>. QED  BY <3>1, <3>2
  <2>. QED  BY <2>1, <2>2
<1>6. TypeOK'
  BY <1>0, <1>1, <1>3, <1>4, <1>5 DEF TypeOK, Entries, Transactions
<1>7. \A q \in Procs \ {p} : SameFor(q) /\ FilesKept(q)
  BY <1>0, <1>1, <1>3, <1>5, FilesSame DEF SameFor
<1>8. Live(p)' = Live(p) /\ Used(p)' = Used(p) /\ Used(p) \subseteq Slots
  BY <1>0, <1>1, Typed DEF Live, Used
<1>9. LiveFits(p)'
  BY <1>0, <1>1, <1>8 DEF LiveFits
<1>10. EntriesAgree(p)'
  BY <1>0, <1>1, <1>5, <1>8 DEF EntriesAgree
<1>11. NothingTwice(p)'
  BY <1>0, <1>5, <1>8 DEF NothingTwice
<1>12. DeclaredLive(p)'
  BY <1>0, <1>1, <1>2, <1>3, <1>8 DEF DeclaredLive
<1>13. TodoKnown(p)'
  BY <1>1, IdleKnown
<1>. QED  BY <1>6, <1>7, <1>9, <1>10, <1>11, <1>12, <1>13, StepOf DEF ProcessInv

-----------------------------------------------------------------------------
(* A mapping that was not there: a file, its padding and, unless the stale
   entry past the end has the same address, an entry of its own. *)
LEMMA MapInv ==
  ASSUME TableInv, NEW p \in Procs, NEW s \in Segs, NEW n \in Sizes, NEW a \in Addrs,
         Map(p, s, n, a)
  PROVE  TableInv'
<1>0. /\ TypeOK /\ LiveFits(p) /\ EntriesAgree(p) /\ NothingTwice(p) /\ DeclaredLive(p)
      /\ \A q \in Procs : LiveFits(q)
  BY CallTyped
<1>1. PICK m : m = num_mapped[p]
  OBVIOUS
<1>2. PICK aliased \in BOOLEAN :
        aliased = (m \in Slots /\ dir[s] # <<>> /\ mapped[p][m].data = a)
  OBVIOUS
<1>3. PICK last : last = IF aliased THEN m - 1 ELSE m
  OBVIOUS
<1>4. CASE n < Len(dir[s]) \/ last < 0
  <2>1. Undefined
    BY <1>1, <1>2, <1>3, <1>4, Zenon DEF Map
  <2>. QED  BY <2>1, UndefinedInv
<1>5. CASE ~(n < Len(dir[s]) \/ last < 0)
  <2>1. /\ dir' = [dir EXCEPT ![s] = Pad(dir[s], n)]
        /\ vm' = [vm EXCEPT ![p][a] = [of |-> s, cells |-> [k \in 1 .. n |-> Shared]]]
        /\ promised' = [promised EXCEPT ![s] = {Pad(c, n) : c \in promised[s]}]
        /\ UNCHANGED <<status, trans, call, undefined>>
        /\ spoilt' = spoilt \cup {s} \/ spoilt' = spoilt
    BY <1>1, <1>2, <1>3, <1>5, Zenon DEF Map
  <2>2. aliased =>
          /\ mapped' = [mapped EXCEPT ![p][m].size = n]
          /\ LogSegment(p, mapped[p][last].name)
          /\ UNCHANGED num_mapped
    BY <1>1, <1>2, <1>3, <1>5, Zenon DEF Map
  <2>3. ~aliased =>
          /\ mapped' = [mapped EXCEPT ![p][m] =
               [data |-> a, name |-> s, size |-> n,
                ranges |-> [i \in DOMAIN mapped[p][m].ranges |-> Garbage]]]
          /\ LogSegment(p, s)
          /\ num_mapped' = [num_mapped EXCEPT ![p] = num_mapped[p] + 1]
    BY <1>1, <1>2, <1>3, <1>5, Zenon DEF Map
  <2>4. /\ m < MAXSEGS /\ vm[p][a] = Nowhere /\ call[p] = Idle
        /\ \A i \in Used(p) : mapped[p][i].name # s
    BY <1>1 DEF Map, CanCall
  <2>5. n \in Nat /\ n >= 1 /\ Len(dir[s]) <= n
    <3>1. n \in Nat /\ n >= 1 /\ Len(dir[s]) \in Nat
      BY <1>0, Typed
    <3>. QED  BY <1>5, <3>1
  <2>6. m \in Slots
    <3>1. m \in -1 .. MAXSEGS /\ last >= 0
      <4>1. m \in -1 .. MAXSEGS
        BY <1>0, <1>1, Typed
      <4>2. last \in Int
        BY <1>3, <4>1
      <4>. QED  BY <1>5, <4>1, <4>2
    <3>2. m >= 0
      BY <1>3, <3>1
    <3>. QED  BY <2>4, <3>1, <3>2 DEF Slots
  <2>7. /\ dir' \in [Segs -> Seq(Values)] /\ Len(dir'[s]) = n
        /\ \A t \in Segs : Len(dir[t]) <= Len(dir'[t])
    <3>1. PICK f \in Seq(Values) : f = dir[s]
      BY CallTyped
    <3>2. PICK g : g = Pad(f, n)
      OBVIOUS
    <3>3. g \in Seq(Values) /\ Len(g) = n
      BY <2>5, <3>1, <3>2, PadIs
    <3>4. dir' = [dir EXCEPT ![s] = g]
      BY <2>1, <3>1, <3>2, Zenon
    <3>5. ASSUME NEW t \in Segs PROVE Len(dir[t]) <= Len(dir'[t])
      <4>1. Len(dir[t]) \in Nat
        BY <1>0, Typed
      <4>2. CASE t = s
        BY <2>5, <3>3, <3>4, <4>2, CallTyped
      <4>3. CASE t # s
        BY <3>4, <4>1, <4>3, CallTyped
      <4>. QED  BY <4>2, <4>3
    <3>. QED  BY <3>3, <3>4, <3>5, CallTyped
  <2>8. promised' \in [Segs -> SUBSET Seq(Values)]
    <3>1. \A c \in promised[s] : Pad(c, n) \in Seq(Values)
      BY <2>5, CallTyped, PadIs
    <3>. QED  BY <2>1, <3>1, CallTyped
  <2>9. log_lock' \in [Segs -> SUBSET Procs]
    BY <1>0, <2>2, <2>3, LogTyped
  <2>10. PICK v : v = [of |-> s, cells |-> [k \in 1 .. n |-> Shared]]
    OBVIOUS
  <2>11. /\ v \in Mappings /\ v.of = s /\ Len(v.cells) = n /\ v # Nowhere
    <3>1. PICK z : z = [k \in 1 .. n |-> Shared]
      OBVIOUS
    <3>2. z \in Seq(Cells) /\ Len(z) = n
      <4>1. z \in [1 .. n -> Cells]
        BY <3>1 DEF Cells
      <4>. QED  BY <2>5, <4>1, <3>1
    <3>3. v = [of |-> s, cells |-> z]
      BY <2>10, <3>1, Zenon
    <3>4. v \in Mappings /\ v.of = s /\ v.cells = z
      BY <3>2, <3>3 DEF Mappings
    <3>5. \A x : x = Nowhere => x.of = NULL
      BY DEF Nowhere
    <3>. QED  BY <3>2, <3>4, <3>5
  <2>12. /\ vm' \in [Procs -> [Addrs -> Mappings]]
         /\ \A q \in Procs \ {p} : vm'[q] = vm[q]
         /\ vm'[p][a] = v
         /\ \A b \in Addrs \ {a} : vm'[p][b] = vm[p][b]
    <3>0. vm \in [Procs -> [Addrs -> Mappings]]
      BY <1>0 DEF TypeOK, Mappings
    <3>1. PICK w : w = [vm[p] EXCEPT ![a] = v]
      OBVIOUS
    <3>2. /\ w \in [Addrs -> Mappings] /\ w[a] = v
          /\ \A b \in Addrs \ {a} : w[b] = vm[p][b]
      BY <2>11, <3>0, <3>1
    <3>3. vm' = [vm EXCEPT ![p] = w]
      BY <2>1, <2>10, <3>1, Zenon
    <3>. QED  BY <3>0, <3>2, <3>3
  <2>13. Live(p)' = Live(p) \cup {a} /\ a \notin Live(p)
    BY <2>4, <2>11, <2>12 DEF Live
  <2>14. PICK e \in Entries : /\ mapped' = [mapped EXCEPT ![p][m] = e]
                              /\ ~aliased => /\ e.data = a /\ e.name = s /\ e.size = n
                                             /\ ToSet(e.ranges) \subseteq {Garbage}
    <3>0. PICK o \in Entries : o = mapped[p][m]
      BY <1>0, <2>6, Typed
    <3>1. CASE aliased
      <4>1. PICK da, na, si, ra : da = o.data /\ na = o.name /\ si = o.size /\ ra = o.ranges
        OBVIOUS
      <4>2. o = [data |-> da, name |-> na, size |-> si, ranges |-> ra]
        BY <4>1 DEF Entries
      <4>3. PICK e : e = [data |-> da, name |-> na, size |-> n, ranges |-> ra]
        OBVIOUS
      <4>4. [o EXCEPT !.size = n] = e
        BY ONLY <4>2, <4>3
      <4>5. e \in Entries
        BY <2>5, <4>1, <4>3 DEF Entries
      <4>6. mapped' = [mapped EXCEPT ![p] = [mapped[p] EXCEPT ![m] =
                         [mapped[p][m] EXCEPT !.size = n]]]
        BY <2>2, <3>1, Zenon
      <4>7. [mapped[p][m] EXCEPT !.size = n] = e
        BY <3>0, <4>4, Zenon
      <4>8. mapped' = [mapped EXCEPT ![p][m] = e]
        BY <4>6, <4>7, Zenon
      <4>. QED  BY <3>1, <4>5, <4>8
    <3>2. CASE ~aliased
      <4>1. PICK r : r = [i \in DOMAIN o.ranges |-> Garbage]
        OBVIOUS
      <4>2. r \in Seq(Nat \cup {Garbage}) /\ ToSet(r) \subseteq {Garbage}
        <5>1. PICK ra \in Seq(Nat \cup {Garbage}) : ra = o.ranges
          BY DEF Entries
        <5>2. PICK l \in Nat : DOMAIN ra = 1 .. l
          BY <5>1
        <5>3. r \in [1 .. l -> Nat \cup {Garbage}]
          BY <4>1, <5>1, <5>2
        <5>4. r \in Seq(Nat \cup {Garbage})
          BY <5>2, <5>3
        <5>5. \A i \in DOMAIN r : r[i] = Garbage
          BY <4>1
        <5>. QED  BY <5>4, <5>5 DEF ToSet
      <4>3. PICK e : e = [data |-> a, name |-> s, size |-> n, ranges |-> r]
        OBVIOUS
      <4>4. /\ e \in Entries
            /\ e.data = a /\ e.name = s /\ e.size = n /\ e.ranges = r
        BY <2>5, <4>2, <4>3 DEF Entries
      <4>5. mapped' = [mapped EXCEPT ![p][m] = e]
        BY <2>3, <3>0, <3>2, <4>1, <4>3, Zenon
      <4>. QED  BY <4>2, <4>4, <4>5
    <3>. QED  BY <3>1, <3>2
  <2>15. /\ mapped' \in [Procs -> [Slots -> Entries]]
         /\ \A q \in Procs \ {p} : mapped'[q] = mapped[q]
         /\ \A j \in Slots \ {m} : mapped'[p][j] = mapped[p][j]
         /\ mapped'[p][m] = e
    BY <1>0, <2>6, <2>14, EntryWritten
  <2>16. /\ num_mapped' \in [Procs -> -1 .. MAXSEGS]
         /\ \A q \in Procs \ {p} : num_mapped'[q] = num_mapped[q]
         /\ num_mapped'[p] = IF aliased THEN m ELSE m + 1
    <3>0. num_mapped \in [Procs -> -1 .. MAXSEGS] /\ m + 1 \in -1 .. MAXSEGS
      <4>1. num_mapped \in [Procs -> -1 .. MAXSEGS]
        BY <1>0 DEF TypeOK
      <4>2. m \in 0 .. MAXSEGS - 1
        BY <2>6 DEF Slots
      <4>. QED  BY <4>1, <4>2
    <3>1. CASE aliased
      BY <1>1, <2>2, <3>0, <3>1
    <3>2. CASE ~aliased
      BY <1>1, <2>3, <3>0, <3>2
    <3>. QED  BY <3>1, <3>2
  <2>17. /\ m \notin Used(p) /\ Used(p) \subseteq Slots
         /\ Used(p)' = IF aliased THEN Used(p) ELSE Used(p) \cup {m}
    <3>1. m \in 0 .. MAXSEGS - 1
      BY <2>6 DEF Slots
    <3>2. Used(p)' = IF aliased THEN 0 .. m - 1 ELSE 0 .. m
      BY <2>16, <3>1 DEF Used
    <3>3. Used(p) = 0 .. m - 1
      BY <1>1 DEF Used
    <3>4. 0 .. m = (0 .. m - 1) \cup {m} /\ m \notin 0 .. m - 1
      BY <3>1
    <3>. QED  BY <1>0, <3>2, <3>3, <3>4, Typed
  <2>18. TypeOK'
    BY <1>0, <2>1, <2>7, <2>8, <2>9, <2>12, <2>15, <2>16 DEF TypeOK, Entries, Mappings
  <2>19. \A q \in Procs \ {p} : SameFor(q) /\ FilesKept(q)
    BY <1>0, <2>1, <2>7, <2>12, <2>15, <2>16, FilesStay DEF SameFor
  <2>20. LiveFits(p)'
    <3> SUFFICES ASSUME NEW b \in Live(p) \cup {a}
                 PROVE  /\ vm'[p][b].of \in Segs
                        /\ Len(vm'[p][b].cells) <= Len(dir'[vm'[p][b].of])
      BY <2>13 DEF LiveFits
    <3>1. CASE b = a
      BY <2>5, <2>7, <2>11, <2>12, <3>1
    <3>2. CASE b # a
      <4>1. b \in Live(p) /\ b \in Addrs /\ vm'[p][b] = vm[p][b]
        BY <2>12, <3>2 DEF Live
      <4>2. PICK t \in Segs : t = vm[p][b].of /\ Len(vm[p][b].cells) <= Len(dir[t])
        BY <1>0, <4>1 DEF LiveFits
      <4>3. Len(vm[p][b].cells) \in Nat /\ Len(dir[t]) \in Nat
        BY <1>0, <4>1, Typed
      <4>4. Len(dir'[t]) \in Nat
        <5>1. dir'[t] \in Seq(Values)
          BY <2>7
        <5>. QED  BY <5>1
      <4>5. Len(dir[t]) <= Len(dir'[t])
        BY <2>7
      <4>6. Len(vm[p][b].cells) <= Len(dir'[t])
        <5>1. PICK x \in Nat, y \in Nat, z \in Nat :
                x = Len(vm[p][b].cells) /\ y = Len(dir[t]) /\ z = Len(dir'[t])
          BY <4>3, <4>4
        <5>2. x <= y /\ y <= z
          BY <4>2, <4>5, <5>1
        <5>3. x <= z
          BY ONLY x \in Nat, y \in Nat, z \in Nat, <5>2
        <5>. QED  BY <5>1, <5>3
      <4>. QED  BY <4>1, <4>2, <4>6
    <3>. QED  BY <3>1, <3>2
  <2>21. ASSUME NEW i \in Used(p)
         PROVE  /\ mapped'[p][i] = mapped[p][i]
                /\ mapped[p][i].data \in Live(p) /\ mapped[p][i].data \in Addrs \ {a}
                /\ vm'[p][mapped[p][i].data] = vm[p][mapped[p][i].data]
    <3>1. mapped'[p][i] = mapped[p][i]
      BY <2>15, <2>17
    <3>2. mapped[p][i].data \in Live(p)
      BY <1>0 DEF EntriesAgree
    <3>3. mapped[p][i].data \in Addrs \ {a}
      BY <2>13, <3>2 DEF Live
    <3>. QED  BY <2>12, <3>1, <3>2, <3>3
  <2>22. EntriesAgree(p)'
    <3> SUFFICES ASSUME NEW i \in Used(p)'
                 PROVE  LET x == mapped'[p][i] IN
                        /\ x.data \in Live(p)'
                        /\ vm'[p][x.data].of = x.name
                        /\ Len(vm'[p][x.data].cells) = x.size
                        /\ ToSet(x.ranges) \subseteq 1 .. x.size \cup {Garbage}
      BY DEF EntriesAgree
    <3>1. CASE i \in Used(p)
      <4>1. LET x == mapped[p][i] IN
            /\ vm[p][x.data].of = x.name /\ Len(vm[p][x.data].cells) = x.size
            /\ ToSet(x.ranges) \subseteq 1 .. x.size \cup {Garbage}
        BY <1>0, <3>1 DEF EntriesAgree
      <4>. QED  BY <2>13, <2>21, <3>1, <4>1
    <3>2. CASE i \notin Used(p)
      <4>1. ~aliased /\ i = m
        BY <2>17, <3>2
      <4>2. mapped'[p][i] = e
        BY <2>15, <4>1
      <4>. QED  BY <2>11, <2>12, <2>13, <2>14, <4>1, <4>2
    <3>. QED  BY <3>1, <3>2
  <2>23. NothingTwice(p)'
    <3> SUFFICES ASSUME NEW i \in Used(p)', NEW j \in Used(p)',
                        mapped'[p][i].data = mapped'[p][j].data
                          \/ mapped'[p][i].name = mapped'[p][j].name
                 PROVE  i = j
      BY DEF NothingTwice
    <3>1. \A k \in Used(p)' \ Used(p) :
            k = m /\ mapped'[p][k].data = a /\ mapped'[p][k].name = s
      BY <2>14, <2>15, <2>17
    <3>2. \A k \in Used(p) : mapped'[p][k].data # a /\ mapped'[p][k].name # s
      BY <2>4, <2>21
    <3>3. CASE i \in Used(p) /\ j \in Used(p)
      BY <1>0, <2>21, <3>3 DEF NothingTwice
    <3>4. CASE ~(i \in Used(p) /\ j \in Used(p))
      BY <3>1, <3>2, <3>4
    <3>. QED  BY <3>3, <3>4
  <2>24. DeclaredLive(p)'
    <3> SUFFICES ASSUME NEW d \in trans[p].declared
                 PROVE  /\ d[1] \in Live(p)'
                        /\ d[2] \in 1 .. Len(vm'[p][d[1]].cells)
                        /\ Contains(trans[p].bases, d[1])
      BY <2>1 DEF DeclaredLive
    <3>1. /\ d[1] \in Live(p) /\ d[2] \in 1 .. Len(vm[p][d[1]].cells)
          /\ Contains(trans[p].bases, d[1])
      BY <1>0 DEF DeclaredLive
    <3>2. d[1] \in Addrs \ {a}
      BY <2>13, <3>1 DEF Live
    <3>. QED  BY <2>12, <2>13, <3>1, <3>2
  <2>25. TodoKnown(p)'
    BY <2>1, <2>4, IdleKnown
  <2>. QED
    BY <2>18, <2>19, <2>20, <2>22, <2>23, <2>24, <2>25, StepOf DEF ProcessInv
<1>. QED  BY <1>4, <1>5

(* rvm_unmap moves the entries after the unmapped one down: the entry that is
   now at j was at from[j]. *)
LEMMA UnmapMoves ==
  ASSUME TypeOK, NEW p \in Procs, LiveFits(p), EntriesAgree(p),
         NEW a \in Addrs, Unmap(p, a)
  PROVE  /\ mapped' \in [Procs -> [Slots -> Entries]]
         /\ num_mapped' \in [Procs -> -1 .. MAXSEGS]
         /\ \A q \in Procs \ {p} : mapped'[q] = mapped[q] /\ num_mapped'[q] = num_mapped[q]
         /\ \E from \in [Used(p)' -> Used(p) \ {Slot(p, a)}] :
              /\ \A j \in Used(p)' : mapped'[p][j] = mapped[p][from[j]]
              /\ \A j, k \in Used(p)' : from[j] = from[k] => j = k
              /\ \A k \in Used(p) \ {Slot(p, a)} : \E j \in Used(p)' : from[j] = k
<1>1. PICK i, m : i = Slot(p, a) /\ m = num_mapped[p]
  OBVIOUS
<1>2. /\ mapped' = [mapped EXCEPT ![p] = [j \in Slots |->
                      IF j \in i .. m - 2 THEN mapped[p][j + 1] ELSE mapped[p][j]]]
      /\ num_mapped' = [num_mapped EXCEPT ![p] = m - 1]
      /\ Registered(p, a)
  BY <1>1 DEF Unmap
<1>3. i \in Used(p) /\ mapped[p][i].data = a /\ a \in Live(p)
  BY <1>1, <1>2, EntryIs
<1>4. /\ m \in Nat /\ m >= 1 /\ m <= MAXSEGS /\ i \in 0 .. m - 1
      /\ Used(p) = 0 .. m - 1 /\ Slots = 0 .. MAXSEGS - 1 /\ Used(p) \subseteq Slots
      /\ num_mapped \in [Procs -> -1 .. MAXSEGS]
  <2>1. m \in -1 .. MAXSEGS /\ Used(p) = 0 .. m - 1 /\ Used(p) \subseteq Slots
    BY <1>1, Typed DEF Used
  <2>. QED  BY <1>3, <2>1 DEF Slots, TypeOK
<1>5. /\ num_mapped' \in [Procs -> -1 .. MAXSEGS]
      /\ \A q \in Procs \ {p} : num_mapped'[q] = num_mapped[q]
      /\ num_mapped'[p] = m - 1
  BY <1>2, <1>4
<1>6. Used(p)' = 0 .. m - 2
  BY <1>4, <1>5 DEF Used
(* The entry that is now at j was at From(j). *)
<1> DEFINE From(j) == IF j < i THEN j ELSE j + 1
<1>7. /\ mapped' \in [Procs -> [Slots -> Entries]]
      /\ \A q \in Procs \ {p} : mapped'[q] = mapped[q]
      /\ \A j \in 0 .. m - 2 : mapped'[p][j] = mapped[p][From(j)]
  <2>1. PICK f : f = [j \in Slots |->
                        IF j \in i .. m - 2 THEN mapped[p][j + 1] ELSE mapped[p][j]]
    OBVIOUS
  <2>2. mapped \in [Procs -> [Slots -> Entries]] /\ mapped[p] \in [Slots -> Entries]
    BY DEF TypeOK, Entries
  <2>3. ASSUME NEW j \in Slots PROVE f[j] \in Entries
    <3>1. f[j] = IF j \in i .. m - 2 THEN mapped[p][j + 1] ELSE mapped[p][j]
      BY <2>1
    <3>2. CASE j \in i .. m - 2
      <4>1. j + 1 \in Slots
        BY <1>4, <3>2
      <4>2. f[j] = mapped[p][j + 1]
        BY <3>1, <3>2, Zenon
      <4>. QED  BY <2>2, <4>1, <4>2
    <3>3. CASE ~(j \in i .. m - 2)
      <4>1. f[j] = mapped[p][j]
        BY <3>1, <3>3, Zenon
      <4>. QED  BY <2>2, <4>1
    <3>. QED  BY <3>2, <3>3
  <2>4. f \in [Slots -> Entries]
    BY <2>1, <2>3
  <2>5. mapped' = [mapped EXCEPT ![p] = f]
    BY <1>2, <2>1, Zenon
  <2>6. mapped'[p] = f /\ \A q \in Procs \ {p} : mapped'[q] = mapped[q]
    BY <2>2, <2>5
  <2>7. mapped' \in [Procs -> [Slots -> Entries]]
    BY <2>2, <2>4, <2>5
  <2>8. ASSUME NEW j \in 0 .. m - 2 PROVE f[j] = mapped[p][From(j)]
    <3>0. j \in Slots
      BY <1>4
    <3>1. f[j] = IF j \in i .. m - 2 THEN mapped[p][j + 1] ELSE mapped[p][j]
      BY <2>1, <3>0
    <3>2. CASE j \in i .. m - 2
      <4>1. From(j) = j + 1
        BY <1>4, <3>2
      <4>. QED  BY <3>1, <3>2, <4>1, Zenon
    <3>3. CASE ~(j \in i .. m - 2)
      <4>1. From(j) = j
        BY <1>4, <3>3
      <4>. QED  BY <3>1, <3>3, <4>1, Zenon
    <3>. QED  BY <3>2, <3>3
  <2> HIDE DEF From
  <2>. QED  BY <2>6, <2>7, <2>8
<1>8. /\ \A j \in 0 .. m - 2 : From(j) \in Used(p) \ {i}
      /\ \A j, k \in 0 .. m - 2 : From(j) = From(k) => j = k
  BY <1>4
<1>9. ASSUME NEW k \in Used(p) \ {i} PROVE \E j \in 0 .. m - 2 : From(j) = k
  <2>1. CASE k < i
    BY <1>4, <2>1
  <2>2. CASE ~(k < i)
    <3>1. k - 1 \in 0 .. m - 2 /\ From(k - 1) = k
      BY <1>4, <2>2
    <3>. QED  BY <3>1
  <2>. QED  BY <2>1, <2>2
<1>10. PICK from : from = [j \in 0 .. m - 2 |-> From(j)]
  OBVIOUS
<1>11. from \in [Used(p)' -> Used(p) \ {i}] /\ \A j \in Used(p)' : from[j] = From(j)
  BY <1>6, <1>8, <1>10
<1> HIDE DEF From
<1>12. /\ \A j \in Used(p)' : mapped'[p][j] = mapped[p][from[j]]
       /\ \A j, k \in Used(p)' : from[j] = from[k] => j = k
       /\ \A k \in Used(p) \ {i} : \E j \in Used(p)' : from[j] = k
  BY <1>6, <1>7, <1>8, <1>9, <1>11
<1>. QED  BY <1>1, <1>5, <1>7, <1>11, <1>12, Zenon

(* rvm_unmap of a registered address. *)
LEMMA UnmapInv ==
  ASSUME TableInv, NEW p \in Procs, NEW a \in Addrs, Unmap(p, a)
  PROVE  TableInv'
<1>0. /\ TypeOK /\ LiveFits(p) /\ EntriesAgree(p) /\ NothingTwice(p) /\ DeclaredLive(p)
      /\ \A q \in Procs : LiveFits(q)
  BY CallTyped
<1>1. PICK i : i = Slot(p, a)
  OBVIOUS
<1>2. /\ vm' = [vm EXCEPT ![p][a] = Nowhere]
      /\ UNCHANGED <<dir, status, trans, call, undefined, promised, spoilt>>
      /\ call[p] = Idle /\ ~Contains(trans[p].bases, a) /\ Registered(p, a)
  BY DEF Unmap, CanCall
<1>3. i \in Used(p) /\ mapped[p][i].data = a /\ a \in Live(p)
  BY <1>0, <1>1, <1>2, EntryIs
<1>7. /\ mapped' \in [Procs -> [Slots -> Entries]]
      /\ num_mapped' \in [Procs -> -1 .. MAXSEGS]
      /\ \A q \in Procs \ {p} : mapped'[q] = mapped[q] /\ num_mapped'[q] = num_mapped[q]
  BY <1>0, UnmapMoves
<1>8. PICK from \in [Used(p)' -> Used(p) \ {i}] :
           /\ \A j \in Used(p)' : mapped'[p][j] = mapped[p][from[j]]
           /\ \A j, k \in Used(p)' : from[j] = from[k] => j = k
  BY <1>0, <1>1, UnmapMoves
<1>9. /\ vm' \in [Procs -> [Addrs -> Mappings]]
      /\ \A q \in Procs \ {p} : vm'[q] = vm[q]
      /\ vm'[p][a] = Nowhere
      /\ \A b \in Addrs \ {a} : vm'[p][b] = vm[p][b]
  <2>0. vm \in [Procs -> [Addrs -> Mappings]]
    BY <1>0 DEF TypeOK, Mappings
  <2>1. PICK w : w = [vm[p] EXCEPT ![a] = Nowhere]
    OBVIOUS
  <2>2. Nowhere \in Mappings
    <3>1. <<>> \in Seq(Cells)
      OBVIOUS
    <3>. QED  BY <3>1 DEF Nowhere, Mappings
  <2>3. /\ w \in [Addrs -> Mappings] /\ w[a] = Nowhere
        /\ \A b \in Addrs \ {a} : w[b] = vm[p][b]
    BY <2>0, <2>1, <2>2
  <2>4. vm' = [vm EXCEPT ![p] = w]
    BY <1>2, <2>1, Zenon
  <2>. QED  BY <2>0, <2>3, <2>4
<1>10. Live(p)' = Live(p) \ {a} /\ Live(p) \subseteq Addrs
  BY <1>9 DEF Live
<1>11. log_lock' \in [Segs -> SUBSET Procs]
  BY <1>0, LogTyped DEF Unmap
<1>12. TypeOK'
  BY <1>0, <1>2, <1>7, <1>9, <1>11 DEF TypeOK, Entries, Mappings
<1>13. \A q \in Procs \ {p} : SameFor(q) /\ FilesKept(q)
  BY <1>0, <1>2, <1>7, <1>9, FilesSame DEF SameFor
<1>14. LiveFits(p)'
  BY <1>0, <1>2, <1>9, <1>10 DEF LiveFits
<1>15. ASSUME NEW j \in Used(p)'
       PROVE  /\ mapped'[p][j] = mapped[p][from[j]]
              /\ from[j] \in Used(p)
              /\ mapped[p][from[j]].data \in Live(p) \ {a}
              /\ vm'[p][mapped[p][from[j]].data] = vm[p][mapped[p][from[j]].data]
  <2>1. from[j] \in Used(p) /\ from[j] # i
    BY <1>8
  <2>2. mapped[p][from[j]].data # a
    BY <1>0, <1>3, <2>1 DEF NothingTwice
  <2>3. mapped[p][from[j]].data \in Live(p)
    BY <1>0, <2>1 DEF EntriesAgree
  <2>. QED  BY <1>8, <1>9, <1>10, <2>1, <2>2, <2>3
<1>16. EntriesAgree(p)'
  <2> SUFFICES ASSUME NEW j \in Used(p)'
               PROVE  LET x == mapped'[p][j] IN
                      /\ x.data \in Live(p)'
                      /\ vm'[p][x.data].of = x.name
                      /\ Len(vm'[p][x.data].cells) = x.size
                      /\ ToSet(x.ranges) \subseteq 1 .. x.size \cup {Garbage}
    BY DEF EntriesAgree
  <2>1. PICK x : x = mapped[p][from[j]]
    OBVIOUS
  <2>2. /\ x.data \in Live(p) /\ vm[p][x.data].of = x.name
        /\ Len(vm[p][x.data].cells) = x.size
        /\ ToSet(x.ranges) \subseteq 1 .. x.size \cup {Garbage}
    BY <1>0, <1>15, <2>1 DEF EntriesAgree
  <2>3. mapped'[p][j] = x /\ x.data \in Live(p)' /\ vm'[p][x.data] = vm[p][x.data]
    BY <1>10, <1>15, <2>1
  <2>. QED  BY <2>2, <2>3
<1>17. NothingTwice(p)'
  BY <1>0, <1>8, <1>15 DEF NothingTwice
<1>18. DeclaredLive(p)'
  <2> SUFFICES ASSUME NEW d \in trans[p].declared
               PROVE  /\ d[1] \in Live(p)'
                      /\ d[2] \in 1 .. Len(vm'[p][d[1]].cells)
                      /\ Contains(trans[p].bases, d[1])
    BY <1>2 DEF DeclaredLive
  <2>1. /\ d[1] \in Live(p) /\ d[2] \in 1 .. Len(vm[p][d[1]].cells)
        /\ Contains(trans[p].bases, d[1])
    BY <1>0 DEF DeclaredLive
  <2>2. d[1] \in Addrs \ {a}
    BY <1>2, <1>10, <2>1
  <2>. QED  BY <1>9, <1>10, <2>1, <2>2
<1>19. TodoKnown(p)'
  BY <1>2, IdleKnown
<1>. QED
  BY <1>12, <1>13, <1>14, <1>16, <1>17, <1>18, <1>19, StepOf DEF ProcessInv

(* rvm_unmap of a process without mappings: the table is no less empty. *)
LEMMA UnmapEmptyInv ==
  ASSUME TableInv, NEW p \in Procs, UnmapEmpty(p)
  PROVE  TableInv'
<1>0. /\ TypeOK /\ LiveFits(p) /\ DeclaredLive(p) /\ \A q \in Procs : LiveFits(q)
  BY CallTyped
<1>1. /\ num_mapped' = [num_mapped EXCEPT ![p] = num_mapped[p] - 1]
      /\ num_mapped[p] = 0 /\ call[p] = Idle
      /\ UNCHANGED <<dir, log_lock, status, mapped, vm, trans, call, undefined, promised, spoilt>>
  BY DEF UnmapEmpty, store, CanCall
<1>2. num_mapped \in [Procs -> -1 .. MAXSEGS]
  BY <1>0 DEF TypeOK
<1>3. num_mapped' \in [Procs -> -1 .. MAXSEGS] /\ num_mapped'[p] = -1
      /\ \A q \in Procs \ {p} : num_mapped'[q] = num_mapped[q]
  BY <1>1, <1>2
<1>4. TypeOK'
  BY <1>0, <1>1, <1>3 DEF TypeOK
<1>5. \A q \in Procs \ {p} : SameFor(q) /\ FilesKept(q)
  BY <1>0, <1>1, <1>3, FilesSame DEF SameFor
<1>6. Used(p)' = {}
  BY <1>3 DEF Used
<1>7. EntriesAgree(p)' /\ NothingTwice(p)'
  BY <1>6 DEF EntriesAgree, NothingTwice
<1>8. LiveFits(p)' /\ DeclaredLive(p)'
  BY <1>0, <1>1 DEF LiveFits, DeclaredLive, Live
<1>9. TodoKnown(p)'
  BY <1>1, IdleKnown
<1>. QED  BY <1>4, <1>5, <1>7, <1>8, <1>9, StepOf DEF ProcessInv

(* rvm_destroy: a file that nobody has mapped goes. *)
LEMMA DestroyInv ==
  ASSUME TableInv, NEW p \in Procs, NEW s \in Segs, Destroy(p, s)
  PROVE  TableInv'
<1>0. /\ TypeOK /\ LiveFits(p) /\ EntriesAgree(p) /\ NothingTwice(p) /\ DeclaredLive(p)
      /\ \A q \in Procs : LiveFits(q)
  BY CallTyped
<1>1. /\ dir' = [dir EXCEPT ![s] = <<>>] /\ promised' = [promised EXCEPT ![s] = {<<>>}]
      /\ call[p] = Idle
      /\ UNCHANGED <<log_lock, status, mapped, num_mapped, vm, trans, call, undefined>>
      /\ spoilt' = spoilt \ {s}
      /\ \A q \in Procs : \A a \in Live(q) : vm[q][a].of # s
  BY DEF Destroy, table, CanCall
<1>2. TypeOK'
  <2>1. <<>> \in Seq(Values)
    OBVIOUS
  <2>2. dir' \in [Segs -> Seq(Values)] /\ promised' \in [Segs -> SUBSET Seq(Values)]
    BY <1>1, <2>1, CallTyped
  <2>. QED  BY <1>0, <1>1, <2>2 DEF TypeOK
<1>3. \A t \in Segs \ {s} : dir'[t] = dir[t]
  BY <1>1, CallTyped
<1>4. ASSUME NEW q \in Procs PROVE FilesKept(q) /\ LiveFits(q)'
  <2>1. Live(q)' = Live(q)
    BY <1>1 DEF Live
  <2>2. ASSUME NEW a \in Live(q)
        PROVE  /\ vm[q][a].of \in Segs \ {s}
               /\ dir'[vm[q][a].of] = dir[vm[q][a].of]
               /\ Len(dir[vm[q][a].of]) \in Nat
               /\ Len(vm[q][a].cells) <= Len(dir[vm[q][a].of])
    BY <1>0, <1>1, <1>3, Typed DEF LiveFits
  <2>. QED  BY <1>1, <2>1, <2>2 DEF FilesKept, LiveFits
<1>5. \A q \in Procs \ {p} : SameFor(q)
  BY <1>1 DEF SameFor
<1>6. EntriesAgree(p)' /\ NothingTwice(p)' /\ DeclaredLive(p)'
  BY <1>0, <1>1 DEF EntriesAgree, NothingTwice, DeclaredLive, Live, Used
<1>7. TodoKnown(p)'
  BY <1>1, IdleKnown
<1>. QED  BY <1>2, <1>4, <1>5, <1>6, <1>7, StepOf DEF ProcessInv

(* A process starts with an empty table. *)
LEMMA StartInv ==
  ASSUME TableInv, NEW p \in Procs, Start(p)
  PROVE  TableInv'
<1>0. /\ TypeOK /\ LiveFits(p) /\ DeclaredLive(p) /\ TodoKnown(p)
      /\ \A q \in Procs : LiveFits(q)
  BY CallTyped
<1>1. /\ num_mapped' = [num_mapped EXCEPT ![p] = 0]
      /\ status' = [status EXCEPT ![p] = "up"] /\ status[p] = "down"
      /\ UNCHANGED <<dir, log_lock, mapped, vm, trans, call, undefined, promised, spoilt>>
  BY DEF Start, store
<1>2. num_mapped \in [Procs -> -1 .. MAXSEGS] /\ status \in [Procs -> {"down", "up"}]
  BY <1>0 DEF TypeOK
<1>3. /\ num_mapped' \in [Procs -> -1 .. MAXSEGS] /\ num_mapped'[p] = 0
      /\ status' \in [Procs -> {"down", "up"}]
      /\ \A q \in Procs \ {p} : num_mapped'[q] = num_mapped[q] /\ status'[q] = status[q]
  BY <1>1, <1>2
<1>4. TypeOK'
  BY <1>0, <1>1, <1>3 DEF TypeOK
<1>5. \A q \in Procs \ {p} : SameFor(q) /\ FilesKept(q)
  BY <1>0, <1>1, <1>3, FilesSame DEF SameFor
<1>6. Used(p)' = {}
  BY <1>3 DEF Used
<1>7. EntriesAgree(p)' /\ NothingTwice(p)'
  BY <1>6 DEF EntriesAgree, NothingTwice
<1>8. LiveFits(p)' /\ DeclaredLive(p)'
  BY <1>0, <1>1 DEF LiveFits, DeclaredLive, Live
<1>9. TodoKnown(p)'
  BY <1>0, <1>1, IdleKnown DEF TodoKnown
<1>. QED  BY <1>4, <1>5, <1>7, <1>8, <1>9, StepOf DEF ProcessInv

(* A process dies: its mappings, locks and table with it. *)
LEMMA CrashInv ==
  ASSUME TableInv, NEW p \in Procs, Crash(p)
  PROVE  TableInv'
<1>0. TypeOK /\ \A q \in Procs : LiveFits(q)
  BY CallTyped
<1>1. /\ status' = [status EXCEPT ![p] = "down"]
      /\ log_lock' = [s \in Segs |-> log_lock[s] \ {p}]
      /\ mapped' = [mapped EXCEPT ![p] = [i \in Slots |-> NoEntry]]
      /\ num_mapped' = [num_mapped EXCEPT ![p] = 0]
      /\ vm' = [vm EXCEPT ![p] = [a \in Addrs |-> Nowhere]]
      /\ trans' = [trans EXCEPT ![p] = NoTrans]
      /\ call' = [call EXCEPT ![p] = Idle]
      /\ UNCHANGED <<dir, undefined, promised, spoilt>>
  BY DEF Crash
<1>2. /\ Nowhere \in Mappings /\ NoEntry \in Entries /\ NoTrans \in Transactions
      /\ Idle \in Calls
  <2>1. <<>> \in Seq(Cells) /\ <<>> \in Seq(Nat \cup {Garbage})
    OBVIOUS
  <2>. QED  BY <2>1, CallTyped DEF Nowhere, NoEntry, Mappings, Entries
<1>3. /\ status \in [Procs -> {"down", "up"}] /\ num_mapped \in [Procs -> -1 .. MAXSEGS]
      /\ log_lock \in [Segs -> SUBSET Procs]
      /\ mapped \in [Procs -> [Slots -> Entries]]
      /\ vm \in [Procs -> [Addrs -> Mappings]]
      /\ trans \in [Procs -> Transactions] /\ call \in [Procs -> Calls]
  BY <1>0 DEF TypeOK, Entries, Mappings, Transactions, Calls, Writeables
<1>4. /\ status' \in [Procs -> {"down", "up"}] /\ num_mapped' \in [Procs -> -1 .. MAXSEGS]
      /\ log_lock' \in [Segs -> SUBSET Procs]
      /\ mapped' \in [Procs -> [Slots -> Entries]]
      /\ vm' \in [Procs -> [Addrs -> Mappings]]
      /\ trans' \in [Procs -> Transactions] /\ call' \in [Procs -> Calls]
  <2>1. [i \in Slots |-> NoEntry] \in [Slots -> Entries]
    BY <1>2
  <2>2. [a \in Addrs |-> Nowhere] \in [Addrs -> Mappings]
    BY <1>2
  <2>. QED  BY <1>1, <1>2, <1>3, <2>1, <2>2
<1>5. TypeOK'
  BY <1>0, <1>1, <1>4 DEF TypeOK, Entries, Mappings, Transactions, Calls, Writeables
<1>6. \A q \in Procs \ {p} : SameFor(q) /\ FilesKept(q)
  BY <1>0, <1>1, <1>3, FilesSame DEF SameFor
<1>7. Used(p)' = {} /\ Live(p)' = {} /\ trans'[p].declared = {} /\ call'[p] = Idle
  BY <1>1, <1>3 DEF Used, Live, NoTrans
<1>8. LiveFits(p)' /\ EntriesAgree(p)' /\ NothingTwice(p)' /\ DeclaredLive(p)'
  BY <1>7 DEF LiveFits, EntriesAgree, NothingTwice, DeclaredLive
<1>9. TodoKnown(p)'
  BY <1>7, IdleKnown
<1>. QED  BY <1>5, <1>6, <1>8, <1>9, StepOf DEF ProcessInv

-----------------------------------------------------------------------------
(* No process is up and nothing is mapped. *)
LEMMA InitInv == Init => TableInv
<1> SUFFICES ASSUME Init PROVE TableInv
  OBVIOUS
<1>1. /\ Nowhere \in Mappings /\ NoEntry \in Entries /\ NoTrans \in Transactions
      /\ Idle \in Calls
  <2>1. /\ <<>> \in Seq(Cells) /\ <<>> \in Seq(Nat \cup {Garbage}) /\ <<>> \in Seq(Addrs)
    OBVIOUS
  <2>. QED  BY <2>1 DEF Nowhere, NoEntry, NoTrans, Idle, Mappings, Entries, Transactions, Calls
<1>2. TypeOK
  <2>1. <<>> \in Seq(Values)
    OBVIOUS
  <2>2. [i \in Slots |-> NoEntry] \in [Slots -> Entries]
    BY <1>1
  <2>3. [a \in Addrs |-> Nowhere] \in [Addrs -> Mappings]
    BY <1>1
  <2>4. /\ mapped \in [Procs -> [Slots -> Entries]] /\ vm \in [Procs -> [Addrs -> Mappings]]
        /\ trans \in [Procs -> Transactions] /\ call \in [Procs -> Calls]
    BY <1>1, <2>2, <2>3 DEF Init
  <2>5. /\ dir \in [Segs -> Seq(Values)] /\ promised \in [Segs -> SUBSET Seq(Values)]
        /\ log_lock \in [Segs -> SUBSET Procs] /\ status \in [Procs -> {"down", "up"}]
        /\ num_mapped \in [Procs -> -1 .. MAXSEGS] /\ undefined \in BOOLEAN
        /\ spoilt \subseteq Segs
    <3>1. dir \in [Segs -> Seq(Values)] /\ promised \in [Segs -> SUBSET Seq(Values)]
      BY <2>1 DEF Init
    <3>2. num_mapped \in [Procs -> -1 .. MAXSEGS]
      BY DEF Init
    <3>3. log_lock \in [Segs -> SUBSET Procs] /\ status \in [Procs -> {"down", "up"}]
      BY DEF Init
    <3>4. undefined \in BOOLEAN /\ spoilt \subseteq Segs
      BY DEF Init
    <3>. QED  BY <3>1, <3>2, <3>3, <3>4
  <2>. QED  BY <2>4, <2>5 DEF TypeOK, Entries, Mappings, Transactions, Calls, Writeables
<1>3. ASSUME NEW p \in Procs PROVE ProcessInv(p)
  <2>1. Used(p) = {} /\ Live(p) = {} /\ trans[p].declared = {} /\ call[p] = Idle
    BY DEF Init, Used, Live, NoTrans
  <2>2. ToSet(Idle.todo) = {} /\ Idle.op # "logging"
    BY DEF Idle, ToSet
  <2>. QED
    BY <2>1, <2>2
       DEF ProcessInv, LiveFits, EntriesAgree, NothingTwice, DeclaredLive, TodoKnown
<1>. QED  BY <1>2, <1>3 DEF TableInv

(* No step, of any process, breaks the table invariant. *)
LEMMA StepInv == TableInv /\ [Next]_vars => TableInv'
<1> SUFFICES ASSUME TableInv, [Next]_vars PROVE TableInv'
  OBVIOUS
<1>1. ASSUME NEW p \in Procs, Mapping(p) PROVE TableInv'
  <2>1. ASSUME NEW s \in Segs, NEW n \in Sizes, NEW a \in Addrs, Map(p, s, n, a)
        PROVE  TableInv'
    BY <2>1, MapInv
  <2>2. ASSUME NEW a \in Addrs, Unmap(p, a) PROVE TableInv'
    BY <2>2, UnmapInv
  <2>3. CASE UnmapEmpty(p)
    BY <2>3, UnmapEmptyInv
  <2>4. ASSUME NEW s \in Segs, Destroy(p, s) PROVE TableInv'
    BY <2>4, DestroyInv
  <2>. QED  BY <1>1, <2>1, <2>2, <2>3, <2>4 DEF Mapping
<1>2. ASSUME NEW p \in Procs, Transaction(p) PROVE TableInv'
  <2>1. ASSUME NEW bases \in BaseLists(p), BeginTrans(p, bases) PROVE TableInv'
    BY <2>1, BeginTransInv
  <2>2. ASSUME NEW a \in Live(p), NEW k \in DOMAIN vm[p][a].cells, AboutToModify(p, a, k)
        PROVE  TableInv'
    BY <2>2, AboutToModifyInv
  <2>3. ASSUME NEW a \in Live(p), NEW k, NEW v \in Values, Store(p, a, k, v)
        PROVE  TableInv'
    BY <2>3, StoreInv
  <2>4. CASE LockSegment(p)
    BY <2>4, LockSegmentInv
  <2>5. CASE LogBegin(p)
    BY <2>5, LogBeginInv
  <2>6. CASE CommitTrans(p)
    BY <2>6, CommitTransInv
  <2>7. CASE WriteRange(p)
    BY <2>7, WriteRangeInv
  <2>8. CASE LogCommit(p)
    BY <2>8, LogCommitInv
  <2>9. CASE AbortTrans(p)
    BY <2>9, AbortTransInv
  <2>10. CASE AbortSegment(p)
    BY <2>10, AbortSegmentInv
  <2>11. CASE Return(p)
    BY <2>11, ReturnInv
  <2>. QED
    BY <1>2, <2>1, <2>2, <2>3, <2>4, <2>5, <2>6, <2>7, <2>8, <2>9, <2>10, <2>11
       DEF Transaction
<1>3. CASE UNCHANGED vars
  <2>1. UNCHANGED <<dir, log_lock, status, mapped, num_mapped, vm, trans, call,
                    undefined, promised, spoilt>>
    BY <1>3 DEF vars, store, table
  <2>2. TypeOK'
    BY <2>1 DEF TableInv, TypeOK
  <2>3. ASSUME NEW q \in Procs PROVE ProcessInv(q)'
    <3>1. SameFor(q)
      BY <2>1 DEF SameFor
    <3>2. FilesKept(q)
      BY <2>1, FilesSame DEF TableInv, ProcessInv
    <3>. QED  BY <2>2, <3>1, <3>2, OthersKeep DEF TableInv
  <2>. QED  BY <2>2, <2>3 DEF TableInv
<1>. QED  BY <1>1, <1>2, <1>3, StartInv, CrashInv DEF Next

(* The invariant the theorems below are read from. *)
LEMMA TableInvariant == Spec => []TableInv
<1>. QED  BY InitInv, StepInv, PTL DEF Spec

(* The state stays in its types: above all, what is written to a file, read back
   from one or promised is always a value. *)
THEOREM RvmTyped == Spec => []TypeOK
<1>1. TableInv => TypeOK
  BY DEF TableInv
<1>. QED  BY <1>1, TableInvariant, PTL

(* mapped[] describes what is mapped: each entry in use is of a live mapping, of
   its segment and its size, and no address or segment has two, for any number
   of processes, whatever is unmapped from the middle of the array and whether
   or not mmap returns an address again. *)
THEOREM RvmTableAgrees == Spec => []TableAgrees
<1>. QED  BY InvAgrees, TableInvariant, PTL
=============================================================================

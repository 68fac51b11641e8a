-------------------------------- MODULE Rvm --------------------------------
(***************************************************************************)
(* project4: recoverable virtual memory (rvm.c).  A segment is a file that *)
(* a process maps MAP_PRIVATE; transactions bracket changes to the mapped  *)
(* memory, commit writes the declared ranges to the file and abort reads   *)
(* the file back.                                                          *)
(*                                                                         *)
(* A call of the library is one step while it cannot be told apart from    *)
(* one: rvm_begin_trans takes a step for each lock and each log record,    *)
(* rvm_commit_trans one for each write, rvm_abort_trans one for each       *)
(* segment, so that other processes and crashes come in between.  A crash  *)
(* kills a process; what it wrote to a file stays there.                   *)
(*                                                                         *)
(* Data: a range is one cell, a cell is one page (a page is private to the *)
(* process once the process has stored to it, until then it shows the      *)
(* file).  The contents of the two logs are left out, their locks are not. *)
(*                                                                         *)
(* The caller keeps to the interface: one transaction at a time, stores    *)
(* only to ranges declared in it, destroys only segments nobody has        *)
(* mapped, unmaps nothing the open transaction is about.                   *)
(***************************************************************************)
EXTENDS Integers, FiniteSets, SequencesExt

CONSTANTS
  Procs,          (* the processes using one store                            *)
  Segs,           (* segment names                                            *)
  Addrs,          (* addresses mmap may return                                *)
  NULL,           (* no address, no name                                      *)
  Shared,         (* a page still backed by the file                          *)
  Garbage,        (* an element of a malloc'ed array never written            *)
  LogIt,          (* the log record after the last write of a segment         *)
  Values,         (* what a cell may hold; 0 is the padding of a new file     *)
  Sizes,          (* sizes a caller asks for, in cells                        *)
  MAXSEGS,        (* entries of mapped[]                                      *)
  MAXRANGES,      (* ranges malloc'ed with each entry: 10 in rvm_map          *)
  AddressReuse    (* may mmap return the address of an earlier mapping?       *)

ASSUME RvmAssumption ==
  /\ IsFiniteSet(Procs) /\ IsFiniteSet(Segs) /\ IsFiniteSet(Addrs)
  /\ NULL \notin Addrs \cup Segs
  /\ 0 \in Values /\ Shared \notin Values
  /\ Garbage \notin Nat /\ LogIt \notin Nat /\ Garbage # LogIt
  /\ Sizes \subseteq Nat \ {0}
  /\ MAXSEGS \in Nat \ {0}
  /\ MAXRANGES \in Nat
  /\ AddressReuse \in BOOLEAN

VARIABLES
  dir,            (* segment -> the cells of its file, <<>> when there is none *)
  log_lock,       (* segment -> owner of the lockf lock on its .log            *)
  status,         (* process -> "down" or "up" (rvm_init has returned)         *)
  mapped,         (* process -> the array mapped[], stale entries included     *)
  num_mapped,
  vm,             (* process -> address -> the mapping there, if any           *)
  trans,          (* process -> its transaction                                *)
  call,           (* process -> the library call it is inside of               *)
  undefined,      (* some process has met undefined behaviour: nothing follows *)
  promised,       (* history: what each file may hold by the commits so far    *)
  spoilt          (* history: segments mapped without an entry of their own,   *)
                  (* or by two processes at a time, until they are destroyed   *)

store == <<dir, log_lock>>
table == <<mapped, num_mapped, vm>>
vars == <<store, status, table, trans, call, undefined, promised, spoilt>>

Slots == 0 .. MAXSEGS - 1

Nowhere == [of |-> NULL, cells |-> <<>>]
NoEntry == [data |-> NULL, name |-> NULL, size |-> 0, ranges |-> <<>>]
NoTrans == [open |-> FALSE, bases |-> <<>>, declared |-> {}]
Idle == [op |-> "none", todo |-> <<>>]

Used(p) == 0 .. num_mapped[p] - 1
Registered(p, a) == \E i \in Used(p) : mapped[p][i].data = a
Slot(p, a) == CHOOSE i \in Used(p) : mapped[p][i].data = a
Entry(p, a) == mapped[p][Slot(p, a)]
Live(p) == {a \in Addrs : vm[p][a] # Nowhere}
Alive(p) == ~undefined /\ status[p] = "up"
CanCall(p) == Alive(p) /\ call[p] = Idle
Inside(p, op) == Alive(p) /\ call[p].op = op

(* What a process reads at cell k of the mapping at a. *)
Load(p, a, k) ==
  LET m == vm[p][a] IN
  IF m.cells[k] = Shared THEN dir[m.of][k] ELSE m.cells[k]

(* Mutant: the padding is not cleared. *)
Pad_Uninitialised(c, n) == c \o [i \in 1 .. n - Len(c) |-> Garbage]

(* memset(padding, 0) appended to a file shorter than size_to_create. *)
Pad(c, n) == c \o [i \in 1 .. n - Len(c) |-> 0]

(* Mutant: the descriptor on which lockf was called keeps the lock. *)
LogSegment_KeepsLock(p, s) == UNCHANGED log_lock

(* logSegment opens and closes the .log: close drops every lock the process
   has on that file, whichever descriptor took it. *)
LogSegment(p, s) == log_lock' = [log_lock EXCEPT ![s] = @ \ {p}]

Undefined ==
  /\ undefined' = TRUE
  /\ UNCHANGED <<store, status, table, trans, call, promised, spoilt>>

-----------------------------------------------------------------------------
Init ==
  /\ dir = [s \in Segs |-> <<>>]
  /\ log_lock = [s \in Segs |-> {}]
  /\ status = [p \in Procs |-> "down"]
  /\ mapped = [p \in Procs |-> [i \in Slots |-> NoEntry]]
  /\ num_mapped = [p \in Procs |-> 0]
  /\ vm = [p \in Procs |-> [a \in Addrs |-> Nowhere]]
  /\ trans = [p \in Procs |-> NoTrans]
  /\ call = [p \in Procs |-> Idle]
  /\ undefined = FALSE
  /\ promised = [s \in Segs |-> {<<>>}]
  /\ spoilt = {}

(* A new process calls rvm_init: mapped[] is all zeroes. *)
Start(p) ==
  /\ ~undefined
  /\ status[p] = "down"
  /\ status' = [status EXCEPT ![p] = "up"]
  /\ num_mapped' = [num_mapped EXCEPT ![p] = 0]
  /\ UNCHANGED <<store, mapped, vm, trans, call, undefined, promised, spoilt>>

(* The process dies, inside a library call or not: exit, abort, kill. *)
Crash(p) ==
  /\ Alive(p)
  /\ status' = [status EXCEPT ![p] = "down"]
  /\ log_lock' = [s \in Segs |-> log_lock[s] \ {p}]
  /\ mapped' = [mapped EXCEPT ![p] = [i \in Slots |-> NoEntry]]
  /\ num_mapped' = [num_mapped EXCEPT ![p] = 0]
  /\ vm' = [vm EXCEPT ![p] = [a \in Addrs |-> Nowhere]]
  /\ trans' = [trans EXCEPT ![p] = NoTrans]
  /\ call' = [call EXCEPT ![p] = Idle]
  /\ UNCHANGED <<dir, undefined, promised, spoilt>>

-----------------------------------------------------------------------------
MappedElsewhere(p, s) == \E q \in Procs \ {p} : \E b \in Live(q) : vm[q][b].of = s

(* Mutant: the address of a new file is searched for as well. *)
Map_AlwaysSearches(p, s, n, a) ==
  LET m == num_mapped[p]
      aliased == m \in Slots /\ mapped[p][m].data = a
      stale == [i \in DOMAIN mapped[p][m].ranges |-> Garbage]
      last == IF aliased THEN m - 1 ELSE m
  IN
  /\ CanCall(p)
  /\ m < MAXSEGS
  /\ \A i \in Used(p) : mapped[p][i].name # s
  /\ vm[p][a] = Nowhere
  /\ AddressReuse \/ \A i \in Slots : mapped[p][i].data # a
  /\ IF n < Len(dir[s]) \/ last < 0
     THEN Undefined      \* char padding[remains < 0], or mapped[-1].name
     ELSE /\ dir' = [dir EXCEPT ![s] = Pad(@, n)]
          /\ vm' = [vm EXCEPT ![p][a] =
                      [of |-> s, cells |-> [k \in 1 .. n |-> Shared]]]
          /\ IF aliased
             THEN /\ mapped' = [mapped EXCEPT ![p][m].size = n]
                  /\ LogSegment(p, mapped[p][last].name)
                  /\ UNCHANGED num_mapped
             ELSE /\ mapped' = [mapped EXCEPT ![p][m] =
                        [data |-> a, name |-> s, size |-> n, ranges |-> stale]]
                  /\ LogSegment(p, s)
                  /\ num_mapped' = [num_mapped EXCEPT ![p] = @ + 1]
          /\ promised' = [promised EXCEPT ![s] = {Pad(c, n) : c \in @}]
          /\ spoilt' = IF aliased \/ MappedElsewhere(p, s)
                       THEN spoilt \cup {s} ELSE spoilt
          /\ UNCHANGED <<status, trans, call, undefined>>

(* rvm_map.  A file with cells already takes the branch that searches mapped[]
   for the new address, one entry past the end included: found there, the
   mapping is not registered.  numRanges of the entry is not initialised. *)
Map(p, s, n, a) ==
  LET m == num_mapped[p]
      aliased == m \in Slots /\ dir[s] # <<>> /\ mapped[p][m].data = a
      stale == [i \in DOMAIN mapped[p][m].ranges |-> Garbage]
      last == IF aliased THEN m - 1 ELSE m
  IN
  /\ CanCall(p)
  /\ m < MAXSEGS
  /\ \A i \in Used(p) : mapped[p][i].name # s
  /\ vm[p][a] = Nowhere
  /\ AddressReuse \/ \A i \in Slots : mapped[p][i].data # a
  /\ IF n < Len(dir[s]) \/ last < 0
     THEN Undefined      \* char padding[remains < 0], or mapped[-1].name
     ELSE /\ dir' = [dir EXCEPT ![s] = Pad(@, n)]
          /\ vm' = [vm EXCEPT ![p][a] =
                      [of |-> s, cells |-> [k \in 1 .. n |-> Shared]]]
          /\ IF aliased
             THEN /\ mapped' = [mapped EXCEPT ![p][m].size = n]
                  /\ LogSegment(p, mapped[p][last].name)
                  /\ UNCHANGED num_mapped
             ELSE /\ mapped' = [mapped EXCEPT ![p][m] =
                        [data |-> a, name |-> s, size |-> n, ranges |-> stale]]
                  /\ LogSegment(p, s)
                  /\ num_mapped' = [num_mapped EXCEPT ![p] = @ + 1]
          /\ promised' = [promised EXCEPT ![s] = {Pad(c, n) : c \in @}]
          /\ spoilt' = IF aliased \/ MappedElsewhere(p, s)
                       THEN spoilt \cup {s} ELSE spoilt
          /\ UNCHANGED <<status, trans, call, undefined>>

(* Mutant: the entries after the unmapped one are not moved down. *)
Unmap_LeavesHole(p, a) ==
  /\ CanCall(p)
  /\ ~Contains(trans[p].bases, a)
  /\ Registered(p, a)
  /\ LogSegment(p, Entry(p, a).name)
  /\ num_mapped' = [num_mapped EXCEPT ![p] = @ - 1]
  /\ vm' = [vm EXCEPT ![p][a] = Nowhere]
  /\ UNCHANGED <<dir, status, mapped, trans, call, undefined, promised, spoilt>>

(* rvm_unmap of a registered address: the entries after it move down by one,
   the last stays behind in its old place too. *)
Unmap(p, a) ==
  /\ CanCall(p)
  /\ ~Contains(trans[p].bases, a)
  /\ Registered(p, a)
  /\ LogSegment(p, Entry(p, a).name)
  /\ mapped' = [mapped EXCEPT ![p] = [j \in Slots |->
                  IF j \in Slot(p, a) .. num_mapped[p] - 2
                  THEN mapped[p][j + 1] ELSE mapped[p][j]]]
  /\ num_mapped' = [num_mapped EXCEPT ![p] = @ - 1]
  /\ vm' = [vm EXCEPT ![p][a] = Nowhere]
  /\ UNCHANGED <<dir, status, trans, call, undefined, promised, spoilt>>

(* rvm_unmap with nothing mapped: the search loop, which would report the
   address as unknown, does not run.  Bound: once. *)
UnmapEmpty(p) ==
  /\ CanCall(p)
  /\ num_mapped[p] = 0
  /\ num_mapped' = [num_mapped EXCEPT ![p] = @ - 1]
  /\ UNCHANGED <<store, status, mapped, vm, trans, call, undefined, promised, spoilt>>

(* rvm_destroy of a segment that nobody has mapped. *)
Destroy(p, s) ==
  /\ CanCall(p)
  /\ \A q \in Procs : \A a \in Live(q) : vm[q][a].of # s
  /\ dir' = [dir EXCEPT ![s] = <<>>]
  /\ promised' = [promised EXCEPT ![s] = {<<>>}]
  /\ spoilt' = spoilt \ {s}
  /\ UNCHANGED <<log_lock, status, table, trans, call, undefined>>

-----------------------------------------------------------------------------
(* The segments of a call, in the order the caller lists their addresses; an
   address that is not in mapped[] is passed over. *)
Known(p, bases) ==
  FlattenSeq([i \in DOMAIN bases |->
                IF Registered(p, bases[i]) THEN <<bases[i]>> ELSE <<>>])

BeginTrans(p, bases) ==
  /\ CanCall(p)
  /\ ~trans[p].open
  /\ trans' = [trans EXCEPT ![p] = [NoTrans EXCEPT !.open = TRUE, !.bases = bases]]
  /\ call' = [call EXCEPT ![p] = [op |-> "begin", todo |-> Known(p, bases)]]
  /\ UNCHANGED <<store, status, table, undefined, promised, spoilt>>

(* lock_segment: lockf(fd, F_LOCK, ...) blocks while another process has it. *)
LockSegment(p) ==
  /\ Inside(p, "begin")
  /\ call[p].todo # <<>>
  /\ LET s == Entry(p, Head(call[p].todo)).name IN
       /\ log_lock[s] \subseteq {p}
       /\ log_lock' = [log_lock EXCEPT ![s] = {p}]
  /\ call' = [call EXCEPT ![p] = [op |-> "logging", todo |-> @.todo]]
  /\ UNCHANGED <<dir, status, table, trans, undefined, promised, spoilt>>

LogBegin(p) ==
  /\ Inside(p, "logging")
  /\ LogSegment(p, Entry(p, Head(call[p].todo)).name)
  /\ call' = [call EXCEPT ![p] = [op |-> "begin", todo |-> Tail(@.todo)]]
  /\ UNCHANGED <<dir, status, table, trans, undefined, promised, spoilt>>

(* rvm_about_to_modify: the range goes at index numRanges, whatever its bound;
   numRanges is never reset. *)
AboutToModify(p, a, k) ==
  /\ CanCall(p)
  /\ Contains(trans[p].bases, a)
  /\ k \in DOMAIN vm[p][a].cells
  /\ trans' = [trans EXCEPT ![p].declared = @ \cup {<<a, k>>}]
  /\ IF Registered(p, a)
     THEN /\ mapped' = [mapped EXCEPT ![p][Slot(p, a)].ranges = Append(@, k)]
          /\ undefined' = (Len(Entry(p, a).ranges) >= MAXRANGES)
          /\ LogSegment(p, Entry(p, a).name)
     ELSE UNCHANGED <<mapped, undefined, log_lock>>
  /\ UNCHANGED <<dir, status, num_mapped, vm, call, promised, spoilt>>

(* The caller stores to a cell it has declared. *)
Store(p, a, k, v) ==
  /\ CanCall(p)
  /\ <<a, k>> \in trans[p].declared
  /\ vm' = [vm EXCEPT ![p][a].cells[k] = v]
  /\ UNCHANGED <<store, status, mapped, num_mapped, trans, call, undefined, promised, spoilt>>

-----------------------------------------------------------------------------
(* c with the declared cells of the transaction of p as p has them in memory. *)
Promise(p, s, c) ==
  [k \in DOMAIN c |->
     LET at == {a \in Live(p) : <<a, k>> \in trans[p].declared /\ vm[p][a].of = s}
     IN IF at = {} THEN c[k] ELSE Load(p, CHOOSE a \in at : TRUE, k)]

(* Mutant: the loop over the ranges stops one short. *)
Writes_LastMissing(p, a) ==
  LET ranges == Entry(p, a).ranges IN
  [i \in 1 .. Len(ranges) - 1 |-> <<a, ranges[i]>>] \o << <<a, LogIt>> >>

(* What write_segment and the log record of each segment will do, in order. *)
Writes(p, a) ==
  LET ranges == Entry(p, a).ranges IN
  [i \in 1 .. Len(ranges) |-> <<a, ranges[i]>>] \o << <<a, LogIt>> >>

CommitTrans(p) ==
  /\ CanCall(p)
  /\ trans[p].open
  /\ LET known == Known(p, trans[p].bases) IN
     call' = [call EXCEPT ![p] = [op |-> "commit", todo |->
       FlattenSeq([i \in DOMAIN known |-> Writes(p, known[i])])]]
  /\ promised' = [s \in Segs |->
       promised[s] \cup {Promise(p, s, c) : c \in promised[s]}]
  /\ UNCHANGED <<store, status, table, trans, undefined, spoilt>>

(* Mutant: every range is taken from the start of the mapping. *)
WriteRange_FromStart(p) ==
  LET a == Head(call[p].todo)[1]
      k == Head(call[p].todo)[2]
      s == Entry(p, a).name
  IN
  /\ Inside(p, "commit")
  /\ call[p].todo # <<>>
  /\ k # LogIt
  /\ IF k = Garbage
     THEN Undefined
     ELSE /\ dir' = [dir EXCEPT ![s][Len(dir[s]) - Entry(p, a).size + k] =
                       Load(p, a, 1)]
          /\ call' = [call EXCEPT ![p].todo = Tail(@)]
          /\ UNCHANGED <<log_lock, status, table, trans, undefined, promised, spoilt>>

(* lseek(fd, -size + offset, SEEK_END) and write of one range. *)
WriteRange(p) ==
  LET a == Head(call[p].todo)[1]
      k == Head(call[p].todo)[2]
      s == Entry(p, a).name
  IN
  /\ Inside(p, "commit")
  /\ call[p].todo # <<>>
  /\ k # LogIt
  /\ IF k = Garbage
     THEN Undefined
     ELSE /\ dir' = [dir EXCEPT ![s][Len(dir[s]) - Entry(p, a).size + k] =
                       Load(p, a, k)]
          /\ call' = [call EXCEPT ![p].todo = Tail(@)]
          /\ UNCHANGED <<log_lock, status, table, trans, undefined, promised, spoilt>>

LogCommit(p) ==
  /\ Inside(p, "commit")
  /\ call[p].todo # <<>>
  /\ Head(call[p].todo)[2] = LogIt
  /\ LogSegment(p, Entry(p, Head(call[p].todo)[1]).name)
  /\ call' = [call EXCEPT ![p].todo = Tail(@)]
  /\ UNCHANGED <<dir, status, table, trans, undefined, promised, spoilt>>

AbortTrans(p) ==
  /\ CanCall(p)
  /\ trans[p].open
  /\ call' = [call EXCEPT ![p] =
                [op |-> "abort", todo |-> Known(p, trans[p].bases)]]
  /\ UNCHANGED <<store, status, table, trans, undefined, promised, spoilt>>

(* Mutant: the last cell is not read back. *)
AbortSegment_Short(p) ==
  LET a == Head(call[p].todo)
      s == Entry(p, a).name
  IN
  /\ Inside(p, "abort")
  /\ call[p].todo # <<>>
  /\ LogSegment(p, s)
  /\ vm' = [vm EXCEPT ![p][a].cells =
              [k \in DOMAIN @ |-> IF k < Entry(p, a).size THEN dir[s][k] ELSE @[k]]]
  /\ call' = [call EXCEPT ![p].todo = Tail(@)]
  /\ UNCHANGED <<dir, status, mapped, num_mapped, trans, undefined, promised, spoilt>>

(* The whole mapping of a segment is read back from the start of its file. *)
AbortSegment(p) ==
  LET a == Head(call[p].todo)
      s == Entry(p, a).name
  IN
  /\ Inside(p, "abort")
  /\ call[p].todo # <<>>
  /\ LogSegment(p, s)
  /\ vm' = [vm EXCEPT ![p][a].cells =
              [k \in DOMAIN @ |-> IF k <= Entry(p, a).size THEN dir[s][k] ELSE @[k]]]
  /\ call' = [call EXCEPT ![p].todo = Tail(@)]
  /\ UNCHANGED <<dir, status, mapped, num_mapped, trans, undefined, promised, spoilt>>

(* The call returns.  A commit that returns has replaced what it promised. *)
Return(p) ==
  /\ \E op \in {"begin", "commit", "abort"} : Inside(p, op)
  /\ call[p].todo = <<>>
  /\ call' = [call EXCEPT ![p] = Idle]
  /\ trans' = IF call[p].op = "begin" THEN trans ELSE [trans EXCEPT ![p] = NoTrans]
  /\ promised' = IF call[p].op = "commit"
                 THEN [s \in Segs |-> {Promise(p, s, c) : c \in promised[s]}]
                 ELSE promised
  /\ UNCHANGED <<store, status, table, undefined, spoilt>>

-----------------------------------------------------------------------------
(* The addresses of a transaction: some of the live ones, in either order. *)
BaseLists(p) == UNION {SetToSeqs(A) : A \in SUBSET Live(p) \ {{}}}

Mapping(p) ==
  \/ \E s \in Segs, n \in Sizes, a \in Addrs : Map(p, s, n, a)
  \/ \E a \in Addrs : Unmap(p, a)
  \/ UnmapEmpty(p)
  \/ \E s \in Segs : Destroy(p, s)

Transaction(p) ==
  \/ \E bases \in BaseLists(p) : BeginTrans(p, bases)
  \/ LockSegment(p) \/ LogBegin(p)
  \/ \E a \in Live(p) : \E k \in DOMAIN vm[p][a].cells :
       AboutToModify(p, a, k) \/ \E v \in Values : Store(p, a, k, v)
  \/ CommitTrans(p) \/ WriteRange(p) \/ LogCommit(p)
  \/ AbortTrans(p) \/ AbortSegment(p)
  \/ Return(p)

Next ==
  \E p \in Procs : Start(p) \/ Crash(p) \/ Mapping(p) \/ Transaction(p)

Spec == Init /\ [][Next]_vars

-----------------------------------------------------------------------------
Cells == Values \cup {Shared}

TypeOK ==
  /\ dir \in [Segs -> Seq(Values)]
  /\ log_lock \in [Segs -> SUBSET Procs]
  /\ status \in [Procs -> {"down", "up"}]
  /\ mapped \in [Procs -> [Slots -> [data : Addrs \cup {NULL},
                  name : Segs \cup {NULL}, size : Nat,
                  ranges : Seq(Nat \cup {Garbage})]]]
  /\ num_mapped \in [Procs -> -1 .. MAXSEGS]
  /\ vm \in [Procs -> [Addrs -> [of : Segs \cup {NULL}, cells : Seq(Cells)]]]
  /\ trans \in [Procs -> [open : BOOLEAN, bases : Seq(Addrs),
                          declared : SUBSET (Addrs \X Nat)]]
  /\ call \in [Procs ->
       [op : {"none", "begin", "logging", "abort"}, todo : Seq(Addrs)]
       \cup [op : {"commit"}, todo : Seq(Addrs \X (Nat \cup {Garbage, LogIt}))]]
  /\ undefined \in BOOLEAN
  /\ promised \in [Segs -> SUBSET Seq(Values)]
  /\ spoilt \subseteq Segs

(* Every entry in use describes a live mapping of the file of its name, of its
   size, and no address or name has two entries, whatever was unmapped from
   the middle of the array before. *)
TableAgrees ==
  \A p \in Procs : \A i \in Used(p) :
    LET e == mapped[p][i] IN
    /\ e.data \in Live(p)
    /\ vm[p][e.data].of = e.name
    /\ Len(vm[p][e.data].cells) = e.size
    /\ e.size <= Len(dir[e.name])
    /\ \A j \in Used(p) : (mapped[p][j].data = e.data \/ mapped[p][j].name = e.name)
                            => j = i

(* Each cell of a file is as the last commit that returned left it, or as a
   commit in progress, or one interrupted by a crash, means to have it.
   Nothing else ever reaches the file: no undeclared or aborted store.  This
   holds of a segment until a mapping of it is not registered, or a second
   process maps it; whatever happens to one segment then, the others keep it. *)
DiskAsPromised ==
  \A s \in Segs \ spoilt :
    /\ \A c \in promised[s] : Len(c) = Len(dir[s])
    /\ \A k \in DOMAIN dir[s] : \E c \in promised[s] : dir[s][k] = c[k]

(* Outside of transactions the mapped memory shows what is in the file: after
   a commit, after an abort, and after mapping what earlier processes left,
   in every segment that is not spoilt. *)
MemoryAgrees ==
  \A p \in Procs : ~trans[p].open =>
    \A a \in Live(p) : vm[p][a].of \notin spoilt =>
      \A k \in DOMAIN vm[p][a].cells : Load(p, a, k) = dir[vm[p][a].of][k]

(* A process that waits for the log of one segment holds the log of no other,
   so processes that name segments in different orders cannot deadlock. *)
WaiterHoldsNothing ==
  \A p \in Procs : call[p].op = "begin" => \A s \in Segs : p \notin log_lock[s]

-----------------------------------------------------------------------------
(* What p sees of segment s, wherever it has it mapped. *)
Image(p, s) ==
  LET at == {a \in Live(p) : vm[p][a].of = s}
      a == CHOOSE a \in at : TRUE
  IN IF at = {} THEN <<>> ELSE [k \in DOMAIN vm[p][a].cells |-> Load(p, a, k)]

Phase(p) ==
  IF call[p].op \in {"commit", "abort"} THEN call[p].op
  ELSE IF trans[p].open THEN "open" ELSE "idle"

(* A spoilt segment is lost to the store, with all that is seen of it. *)
Sound(s) == s \notin spoilt
Declared(p) ==
  {<<vm[p][d[1]].of, d[2]>> : d \in {e \in trans[p].declared : Sound(vm[p][e[1]].of)}}

Files == [s \in Segs |-> IF Sound(s) THEN dir[s] ELSE <<>>]
Images == [p \in Procs |-> [s \in Segs |-> IF Sound(s) THEN Image(p, s) ELSE <<>>]]
Phases == [p \in Procs |-> Phase(p)]
Declarations == [p \in Procs |-> Declared(p)]

(* The store is what RecoverableStore says: whatever the library keeps in     *)
(* mapped[], whichever ranges it writes twice or once more in a later commit, *)
(* no file changes but in a declared cell of a commit, and memory and file    *)
(* are the same when a commit or an abort returns.  A segment is lost to it   *)
(* when a second process maps it or mmap gives an address out again, and no   *)
(* other segment with it.                                                     *)
Recoverable == INSTANCE RecoverableStore WITH
  file <- Files, image <- Images, phase <- Phases, declared <- Declarations,
  lost <- spoilt

StoreSpec == Recoverable!Spec

-----------------------------------------------------------------------------
(* What the write-up of project4 says and the code does not do.             *)

Committing(s) ==
  \E p \in Procs : call[p].op = "commit"
    /\ \E i \in DOMAIN call[p].todo : Entry(p, call[p].todo[i][1]).name = s

(* "the ability to restore data to its previous state if the program errors
   out": unless a commit is in progress, a file is the whole result of commits
   and never a mixture of two. *)
CommitAtomic == \A s \in Segs : Committing(s) \/ dir[s] \in promised[s]

(* "test that basic persistency works", of which proc2 checks "first hello not
   present": when a commit returns, the file has what was stored. *)
CommittedIsInFile ==
  \A p \in Procs : call[p].op = "commit" /\ call[p].todo = <<>> =>
    \A d \in trans[p].declared :
      Load(p, d[1], d[2]) = dir[vm[p][d[1]].of][d[2]]

(* "locking the log file (which will lock out other processes from altering
   the data)": no two processes have transactions on one segment. *)
InTransaction(p, s) ==
  /\ trans[p].open
  /\ call[p].op \notin {"begin", "logging"}
  /\ \E i \in DOMAIN trans[p].bases : vm[p][trans[p].bases[i]].of = s

LockedOut ==
  \A p, q \in Procs : \A s \in Segs :
    InTransaction(p, s) /\ InTransaction(q, s) => p = q
=============================================================================

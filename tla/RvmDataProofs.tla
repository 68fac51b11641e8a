--------------------------- MODULE RvmDataProofs ---------------------------
(***************************************************************************)
(* Proofs about the data of Rvm: what is in the files and what processes   *)
(* see of them.  For any number of processes, whether or not they share    *)
(* segments and whatever address mmap returns: a segment that is spoilt by *)
(* that is out of what is claimed, until it is destroyed, and the proofs   *)
(* show that no other segment is affected.                                 *)
(***************************************************************************)
EXTENDS RvmProofs

(* The mappings of segments that are not spoilt. *)
Kept(p) == {a \in Live(p) : vm[p][a].of \notin spoilt}

(* No such segment is mapped by two processes at a time. *)
Exclusive ==
  \A p, q \in Procs : \A a \in Kept(p), b \in Kept(q) :
    vm[p][a].of = vm[q][b].of => p = q

(* Memory and file are the same at cell k of the mapping at a. *)
InFile(p, a, k) == Load(p, a, k) = dir[vm[p][a].of][k]

(* Every such mapping has an entry, and is of its whole file. *)
MappedWhole(p) ==
  /\ \A a \in Kept(p) :
       /\ Registered(p, a) /\ Len(dir[vm[p][a].of]) = Len(vm[p][a].cells)
       /\ Len(vm[p][a].cells) >= 1
  /\ status[p] = "down" => Live(p) = {}

(* What is declared is among the ranges that a commit would write, and nothing
   is declared outside of transactions. *)
DeclaredRanged(p) ==
  /\ \A d \in trans[p].declared : \A i \in Used(p) :
       mapped[p][i].data = d[1] => d[2] \in ToSet(mapped[p][i].ranges)
  /\ trans[p].open \/ trans[p] = NoTrans

(* Memory differs from the file where the transaction has declared it, only. *)
UndeclaredAgrees(p) ==
  \A a \in Kept(p) : \A k \in 1 .. Len(vm[p][a].cells) :
    <<a, k>> \in trans[p].declared \/ InFile(p, a, k)

(* And when a commit or an abort is through with a range or a segment, it does
   not differ there either. *)
LeftToDo(p) ==
  /\ call[p].op = "commit" => \A d \in trans[p].declared : d[1] \in Kept(p) =>
       d \in ToSet(call[p].todo) \/ InFile(p, d[1], d[2])
  /\ call[p].op = "abort" => \A d \in trans[p].declared : d[1] \in Kept(p) =>
       d[1] \in ToSet(call[p].todo) \/ InFile(p, d[1], d[2])

(* While a commit runs, what it promises is promised. *)
CommitPromised(p) ==
  call[p].op = "commit" =>
    \A s \in Segs \ spoilt : \A c \in promised[s] : Promise(p, s, c) \in promised[s]

DataOf(p) ==
  /\ MappedWhole(p) /\ DeclaredRanged(p) /\ UndeclaredAgrees(p) /\ LeftToDo(p)
  /\ CommitPromised(p)

(* A file is put together from what it may hold. *)
FilePromised(s) ==
  /\ promised[s] # {}
  /\ \A c \in promised[s] : Len(c) = Len(dir[s])
  /\ \A k \in 1 .. Len(dir[s]) : \E c \in promised[s] : dir[s][k] = c[k]

DataInv ==
  /\ Exclusive
  /\ \A p \in Procs : DataOf(p)
  /\ \A s \in Segs \ spoilt : FilePromised(s)

-----------------------------------------------------------------------------
(* The invariants of one process, in one place. *)
LEMMA DataTyped ==
  ASSUME TableInv, DataInv, NEW p \in Procs
  PROVE  /\ MappedWhole(p) /\ DeclaredRanged(p) /\ UndeclaredAgrees(p) /\ LeftToDo(p)
         /\ CommitPromised(p) /\ Exclusive
         /\ \A d \in trans[p].declared :
              /\ d = <<d[1], d[2]>> /\ d[2] \in Nat
              /\ d[1] \in Live(p) /\ d[1] \in Addrs
              /\ d[2] \in 1 .. Len(vm[p][d[1]].cells)
              /\ Contains(trans[p].bases, d[1])
<1>1. ASSUME NEW d \in trans[p].declared
      PROVE  /\ d = <<d[1], d[2]>> /\ d[2] \in Nat
             /\ d[1] \in Live(p) /\ d[1] \in Addrs
             /\ d[2] \in 1 .. Len(vm[p][d[1]].cells)
             /\ Contains(trans[p].bases, d[1])
  <2>1. d \in Addrs \X Nat
    BY CallTyped DEF Transactions
  <2>2. /\ d[1] \in Live(p)
        /\ d[2] \in 1 .. Len(vm[p][d[1]].cells)
        /\ Contains(trans[p].bases, d[1])
    BY CallTyped DEF DeclaredLive
  <2>. QED  BY <2>1, <2>2
<1>. QED  BY <1>1 DEF DataInv, DataOf

(* A mapping, its entry and its file. *)
LEMMA MappingIs ==
  ASSUME TableInv, NEW p \in Procs, MappedWhole(p), NEW a \in Kept(p)
  PROVE  /\ a \in Live(p) /\ a \in Addrs /\ vm[p][a].of \in Segs \ spoilt
         /\ vm[p][a].cells \in Seq(Cells) /\ Len(vm[p][a].cells) \in Nat
         /\ dir[vm[p][a].of] \in Seq(Values)
         /\ Len(dir[vm[p][a].of]) = Len(vm[p][a].cells)
         /\ Registered(p, a)
         /\ Entry(p, a).name = vm[p][a].of
         /\ Entry(p, a).size = Len(vm[p][a].cells)
         /\ \E i \in Used(p) : /\ i \in Slots /\ mapped[p][i] = Entry(p, a)
                               /\ mapped[p][i].data = a /\ mapped[p][i].name = vm[p][a].of
<1>1. a \in Live(p) /\ a \in Addrs /\ vm[p][a].of \in Segs \ spoilt
  BY CallTyped DEF Kept, Live, LiveFits
<1>2. Registered(p, a) /\ Len(dir[vm[p][a].of]) = Len(vm[p][a].cells)
  BY DEF MappedWhole
<1>3. vm[p][a].cells \in Seq(Cells) /\ Len(vm[p][a].cells) \in Nat
      /\ dir[vm[p][a].of] \in Seq(Values)
  BY <1>1, CallTyped, Typed
<1>4. /\ Slot(p, a) \in Used(p) /\ Slot(p, a) \in Slots
      /\ Entry(p, a) = mapped[p][Slot(p, a)] /\ Entry(p, a).data = a
      /\ Entry(p, a).name = vm[p][a].of
      /\ Entry(p, a).size = Len(vm[p][a].cells)
  BY <1>2, CallTyped, EntryIs
<1>. QED  BY <1>1, <1>2, <1>3, <1>4

(* A process maps a segment at one address. *)
LEMMA OneMapping ==
  ASSUME TableInv, NEW p \in Procs, MappedWhole(p), NEW a \in Kept(p), NEW b \in Live(p),
         vm[p][a].of = vm[p][b].of
  PROVE  a = b
<1>0. b \in Kept(p)
  BY DEF Kept
<1>1. PICK i \in Used(p) : mapped[p][i].data = a /\ mapped[p][i].name = vm[p][a].of
  BY MappingIs
<1>2. PICK j \in Used(p) : mapped[p][j].data = b /\ mapped[p][j].name = vm[p][b].of
  BY <1>0, MappingIs
<1>3. i = j
  BY <1>1, <1>2, CallTyped DEF NothingTwice
<1>. QED  BY <1>1, <1>2, <1>3

-----------------------------------------------------------------------------
(* Sequences are the same when their elements are. *)
LEMMA SameSequence ==
  ASSUME NEW S, NEW a \in Seq(S), NEW b \in Seq(S), Len(a) = Len(b),
         \A k \in 1 .. Len(a) : a[k] = b[k]
  PROVE  a = b
<1>1. a = [k \in 1 .. Len(a) |-> a[k]] /\ b = [k \in 1 .. Len(a) |-> b[k]]
  OBVIOUS
<1>. QED  BY <1>1

(* A promise, a cell at a time. *)
LEMMA PromiseIs ==
  ASSUME TableInv, NEW p \in Procs, MappedWhole(p), NEW s \in Segs, NEW c \in Seq(Values)
  PROVE  /\ Promise(p, s, c) \in Seq(Values)
         /\ Len(c) \in Nat /\ Len(Promise(p, s, c)) = Len(c)
         /\ \A a \in Kept(p) : \A k \in 1 .. Len(c) :
              vm[p][a].of = s /\ <<a, k>> \in trans[p].declared
                => Promise(p, s, c)[k] = Load(p, a, k)
         /\ \A k \in 1 .. Len(c) :
              (\A a \in Live(p) : vm[p][a].of = s => <<a, k>> \notin trans[p].declared)
                => Promise(p, s, c)[k] = c[k]
<1> DEFINE At(k) == {a \in Live(p) : <<a, k>> \in trans[p].declared /\ vm[p][a].of = s}
<1>0. Promise(p, s, c) \in Seq(Values) /\ Len(Promise(p, s, c)) = Len(c) /\ Len(c) \in Nat
  BY CallTyped, PromiseTyped
<1>1. PICK n \in Nat : n = Len(c) /\ DOMAIN c = 1 .. n
  OBVIOUS
<1>2. ASSUME NEW k \in 1 .. n
      PROVE  Promise(p, s, c)[k] =
               IF At(k) = {} THEN c[k] ELSE Load(p, CHOOSE a \in At(k) : TRUE, k)
  BY <1>1 DEF Promise
<1>3. ASSUME NEW a \in Kept(p), NEW k \in 1 .. n,
             vm[p][a].of = s, <<a, k>> \in trans[p].declared
      PROVE  Promise(p, s, c)[k] = Load(p, a, k)
  <2>1. a \in At(k) /\ \A b \in At(k) : b = a
    BY <1>3, OneMapping DEF Kept
  <2>2. PICK b : b = CHOOSE x \in At(k) : TRUE
    OBVIOUS
  <2>3. b = a
    BY <2>1, <2>2
  <2>4. At(k) # {}
    BY <2>1
  <2> HIDE DEF At
  <2>. QED  BY <1>2, <2>2, <2>3, <2>4, Zenon
<1>4. ASSUME NEW k \in 1 .. n,
             \A a \in Live(p) : vm[p][a].of = s => <<a, k>> \notin trans[p].declared
      PROVE  Promise(p, s, c)[k] = c[k]
  <2>1. At(k) = {}
    BY <1>4
  <2> HIDE DEF At
  <2>. QED  BY <1>2, <2>1, Zenon
<1>. QED  BY <1>0, <1>1, <1>3, <1>4

(* Nothing is promised of a segment that is not mapped. *)
LEMMA PromiseElsewhere ==
  ASSUME TableInv, NEW p \in Procs, MappedWhole(p), NEW s \in Segs, NEW c \in Seq(Values),
         \A a \in Live(p) : vm[p][a].of # s
  PROVE  Promise(p, s, c) = c
<1>1. /\ Promise(p, s, c) \in Seq(Values) /\ Len(Promise(p, s, c)) = Len(c)
      /\ \A k \in 1 .. Len(c) : Promise(p, s, c)[k] = c[k]
  BY PromiseIs
<1>. QED  BY <1>1, SameSequence

(* To promise twice is to promise once. *)
LEMMA PromiseTwice ==
  ASSUME TableInv, NEW p \in Procs, MappedWhole(p), NEW s \in Segs \ spoilt,
         NEW c \in Seq(Values)
  PROVE  Promise(p, s, Promise(p, s, c)) = Promise(p, s, c)
<1>1. PICK d \in Seq(Values) : d = Promise(p, s, c) /\ Len(d) = Len(c)
  BY PromiseIs
<1>2. PICK e \in Seq(Values) : e = Promise(p, s, d) /\ Len(e) = Len(d)
  BY PromiseIs
<1>3. ASSUME NEW k \in 1 .. Len(d) PROVE e[k] = d[k]
  <2>1. CASE \E a \in Live(p) : vm[p][a].of = s /\ <<a, k>> \in trans[p].declared
    <3>1. PICK a \in Kept(p) : vm[p][a].of = s /\ <<a, k>> \in trans[p].declared
      BY <2>1 DEF Kept
    <3>2. d[k] = Load(p, a, k)
      BY <1>1, <3>1, PromiseIs
    <3>3. e[k] = Load(p, a, k)
      BY <1>2, <3>1, PromiseIs
    <3>. QED  BY <3>2, <3>3
  <2>2. CASE ~ \E a \in Live(p) : vm[p][a].of = s /\ <<a, k>> \in trans[p].declared
    BY <1>2, <2>2, PromiseIs
  <2>. QED  BY <2>1, <2>2
<1>4. e = d
  BY <1>2, <1>3, SameSequence
<1>. QED  BY <1>1, <1>2, <1>4

(* What a process promises depends on what it has declared and reads there. *)
LEMMA PromiseSame ==
  ASSUME NEW p \in Procs, NEW s, NEW c, Live(p)' = Live(p),
         trans'[p].declared = trans[p].declared,
         \A a \in Live(p) : vm'[p][a].of = vm[p][a].of,
         \A a \in Live(p) : \A k : vm[p][a].of = s /\ <<a, k>> \in trans[p].declared
           => Load(p, a, k)' = Load(p, a, k)
  PROVE  Promise(p, s, c)' = Promise(p, s, c)
<1> DEFINE At(k) == {a \in Live(p) : <<a, k>> \in trans[p].declared /\ vm[p][a].of = s}
<1>1. ASSUME NEW k PROVE At(k)' = At(k)
  OBVIOUS
<1>2. ASSUME NEW k, At(k) # {}
      PROVE  Load(p, CHOOSE a \in At(k) : TRUE, k)' = Load(p, CHOOSE a \in At(k) : TRUE, k)
  <2>1. PICK b : b = CHOOSE a \in At(k) : TRUE
    OBVIOUS
  <2>2. b \in At(k) /\ b = (CHOOSE a \in At(k) : TRUE)'
    BY <1>1, <1>2, <2>1
  <2>3. Load(p, b, k)' = Load(p, b, k)
    BY <2>2
  <2>. QED  BY <1>1, <2>1, <2>2, <2>3 DEF Load
<1>3. ASSUME NEW k
      PROVE  (IF At(k)' = {} THEN c[k] ELSE Load(p, CHOOSE a \in At(k) : TRUE, k)')
               = IF At(k) = {} THEN c[k] ELSE Load(p, CHOOSE a \in At(k) : TRUE, k)
  BY <1>1, <1>2
<1>. QED  BY <1>3 DEF Promise

-----------------------------------------------------------------------------
(* What a step leaves alone of the files of the others, those it spoils apart. *)
SameFiles(q) ==
  \A a \in Live(q) : vm[q][a].of \notin spoilt' =>
    /\ vm[q][a].of \notin spoilt
    /\ dir'[vm[q][a].of] = dir[vm[q][a].of]
    /\ promised'[vm[q][a].of] = promised[vm[q][a].of]

(* Of a process that neither moves nor has its files touched nothing changes. *)
LEMMA OthersData ==
  ASSUME TableInv, TypeOK', DataInv, NEW q \in Procs, SameFor(q), SameFiles(q)
  PROVE  DataOf(q)'
<1>0. DataOf(q) /\ MappedWhole(q)
  BY DEF DataInv, DataOf
<1>1. Live(q)' = Live(q) /\ Used(q)' = Used(q)
  BY DEF Live, Used, SameFor
<1>2. /\ mapped'[q] = mapped[q] /\ vm'[q] = vm[q] /\ trans'[q] = trans[q]
      /\ call'[q] = call[q] /\ status'[q] = status[q]
  BY DEF SameFor
<1>3. \A a : Registered(q, a)' <=> Registered(q, a)
  BY <1>1, <1>2 DEF Registered
<1>4. ASSUME NEW a \in Kept(q)'
     PROVE  /\ a \in Kept(q) /\ a \in Live(q)
            /\ dir'[vm[q][a].of] = dir[vm[q][a].of]
  BY <1>1, <1>2 DEF Kept, SameFiles
<1>5. MappedWhole(q)'
  BY <1>0, <1>1, <1>2, <1>3, <1>4 DEF MappedWhole
<1>6. DeclaredRanged(q)'
  BY <1>0, <1>1, <1>2 DEF DataOf, DeclaredRanged
<1>7. ASSUME NEW a \in Kept(q)', NEW k
      PROVE  /\ Load(q, a, k)' = Load(q, a, k)
             /\ InFile(q, a, k)' <=> InFile(q, a, k)
  BY <1>2, <1>4 DEF Load, InFile
<1>8. UndeclaredAgrees(q)'
  BY <1>0, <1>2, <1>7, <1>4 DEF DataOf, UndeclaredAgrees
<1>9. LeftToDo(q)'
  BY <1>0, <1>2, <1>7, <1>4 DEF DataOf, LeftToDo
<1>10. CommitPromised(q)'
  <2> SUFFICES ASSUME call[q].op = "commit", NEW s \in Segs, s \notin spoilt',
                      NEW c \in promised'[s]
               PROVE  Promise(q, s, c)' \in promised'[s]
    BY <1>2 DEF CommitPromised
  <2>1. Promise(q, s, c)' = Promise(q, s, c)
    BY <1>1, <1>2, <1>7, PromiseSame DEF Kept
  <2>2. CASE \E a \in Live(q) : vm[q][a].of = s
    <3>1. promised'[s] = promised[s] /\ s \notin spoilt
      BY <2>2 DEF SameFiles
    <3>. QED  BY <1>0, <2>1, <3>1 DEF DataOf, CommitPromised
  <2>3. CASE ~ \E a \in Live(q) : vm[q][a].of = s
    <3>1. c \in Seq(Values)
      BY DEF TypeOK
    <3>2. Promise(q, s, c) = c
      BY <1>0, <2>3, <3>1, PromiseElsewhere
    <3>. QED  BY <2>1, <3>2
  <2>. QED  BY <2>2, <2>3
<1>. QED  BY <1>5, <1>6, <1>8, <1>9, <1>10 DEF DataOf

(* A step of p is only to be checked for p and the files. *)
LEMMA DataOfStep ==
  ASSUME TableInv, TypeOK', DataInv, NEW p \in Procs, DataOf(p)', Exclusive',
         \A q \in Procs \ {p} : SameFor(q) /\ SameFiles(q),
         \A s \in Segs \ spoilt' : FilePromised(s)'
  PROVE  DataInv'
<1>1. ASSUME NEW q \in Procs PROVE DataOf(q)'
  <2>1. CASE q = p
    BY <2>1
  <2>2. CASE q # p
    BY <2>2, OthersData
  <2>. QED  BY <2>1, <2>2
<1>. QED  BY <1>1 DEF DataInv

(* Without a new mapping no segment gets a second process. *)
LEMMA StillExclusive ==
  ASSUME DataInv, NEW p \in Procs,
         \A a \in Kept(p)' : a \in Kept(p) /\ vm'[p][a].of = vm[p][a].of,
         \A q \in Procs \ {p} : SameFor(q) /\ SameFiles(q)
  PROVE  Exclusive'
<1>1. ASSUME NEW q \in Procs, NEW a \in Kept(q)'
      PROVE  a \in Kept(q) /\ vm'[q][a].of = vm[q][a].of
  <2>1. CASE q = p
    BY <2>1
  <2>2. CASE q # p
    BY <2>2 DEF SameFor, SameFiles, Kept, Live
  <2>. QED  BY <2>1, <2>2
<1>. QED  BY <1>1 DEF DataInv, Exclusive

(* The files and promises untouched, they are as they were. *)
LEMMA FilesUntouched ==
  ASSUME DataInv, UNCHANGED <<dir, promised, spoilt>>
  PROVE  /\ \A s \in Segs \ spoilt' : FilePromised(s)'
         /\ \A q \in Procs : SameFiles(q)
<1>1. \A s \in Segs \ spoilt' : FilePromised(s)'
  BY DEF DataInv, FilePromised
<1>. QED  BY <1>1 DEF SameFiles

(* Outside of a commit or an abort, nothing is left to do. *)
LEMMA NothingLeft ==
  ASSUME NEW p \in Procs, call'[p].op \notin {"commit", "abort"}
  PROVE  LeftToDo(p)' /\ CommitPromised(p)'
  BY DEF LeftToDo, CommitPromised

(* The steps of a process are its own. *)
LEMMA OthersSame ==
  ASSUME TypeOK, NEW p \in Procs, ~Undefined,
         Start(p) \/ Crash(p) \/ Mapping(p) \/ Transaction(p)
  PROVE  \A q \in Procs \ {p} : SameFor(q)
<1> USE DEF SameFor, store, table
<1>0. /\ mapped = [q \in Procs |-> mapped[q]] /\ num_mapped = [q \in Procs |-> num_mapped[q]]
      /\ vm = [q \in Procs |-> vm[q]] /\ trans = [q \in Procs |-> trans[q]]
      /\ call = [q \in Procs |-> call[q]] /\ status = [q \in Procs |-> status[q]]
  BY DEF TypeOK
<1>1. CASE Start(p)
  BY <1>0, <1>1 DEF Start
<1>2. CASE Crash(p)
  BY <1>0, <1>2 DEF Crash
<1>3. CASE Mapping(p)
  <2>1. ASSUME NEW s, NEW n, NEW a, Map(p, s, n, a) PROVE \A q \in Procs \ {p} : SameFor(q)
    BY <1>0, <2>1 DEF Map
  <2>2. ASSUME NEW a, Unmap(p, a) PROVE \A q \in Procs \ {p} : SameFor(q)
    BY <1>0, <2>2 DEF Unmap
  <2>3. CASE UnmapEmpty(p)
    BY <1>0, <2>3 DEF UnmapEmpty
  <2>4. ASSUME NEW s, Destroy(p, s) PROVE \A q \in Procs \ {p} : SameFor(q)
    BY <1>0, <2>4 DEF Destroy
  <2>. QED  BY <1>3, <2>1, <2>2, <2>3, <2>4 DEF Mapping
<1>4. CASE Transaction(p)
  <2>1. ASSUME NEW bases, BeginTrans(p, bases) PROVE \A q \in Procs \ {p} : SameFor(q)
    BY <1>0, <2>1 DEF BeginTrans
  <2>2. ASSUME NEW a, NEW k, AboutToModify(p, a, k)
        PROVE  \A q \in Procs \ {p} : SameFor(q)
    BY <1>0, <2>2 DEF AboutToModify
  <2>3. ASSUME NEW a, NEW k, NEW v, Store(p, a, k, v)
        PROVE  \A q \in Procs \ {p} : SameFor(q)
    BY <1>0, <2>3 DEF Store
  <2>4. CASE LockSegment(p) \/ LogBegin(p)
    BY <1>0, <2>4 DEF LockSegment, LogBegin
  <2>5. CASE CommitTrans(p)
    BY <1>0, <2>5 DEF CommitTrans
  <2>6. CASE WriteRange(p)
    BY <1>0, <2>6 DEF WriteRange
  <2>7. CASE LogCommit(p) \/ AbortTrans(p)
    BY <1>0, <2>7 DEF LogCommit, AbortTrans
  <2>8. CASE AbortSegment(p)
    BY <1>0, <2>8 DEF AbortSegment
  <2>9. CASE Return(p)
    BY <1>0, <2>9 DEF Return
  <2>. QED
    BY <1>4, <2>1, <2>2, <2>3, <2>4, <2>5, <2>6, <2>7, <2>8, <2>9 DEF Transaction
<1>. QED  BY <1>1, <1>2, <1>3, <1>4

-----------------------------------------------------------------------------
(* A process starts: there is nothing it could have mapped. *)
LEMMA StartData ==
  ASSUME TableInv, TypeOK', DataInv, NEW p \in Procs, Start(p)
  PROVE  DataInv'
<1>1. /\ status[p] = "down" /\ status' = [status EXCEPT ![p] = "up"]
      /\ UNCHANGED <<dir, vm, trans, call, promised, spoilt>> /\ call[p] = Idle
  BY CallTyped DEF Start, store, TodoKnown
<1>2. Live(p) = {} /\ Live(p)' = Live(p) /\ trans[p].declared = {}
  <2>1. Live(p) = {}
    BY <1>1, DataTyped DEF MappedWhole
  <2>2. \A d \in trans[p].declared : d[1] \in Live(p)
    BY DataTyped
  <2>. QED  BY <1>1, <2>1, <2>2 DEF Live
<1>3. MappedWhole(p)' /\ UndeclaredAgrees(p)'
  BY <1>2 DEF MappedWhole, UndeclaredAgrees, Kept
<1>4. DeclaredRanged(p)'
  BY <1>1, <1>2, DataTyped DEF DeclaredRanged
<1>5. LeftToDo(p)' /\ CommitPromised(p)'
  BY <1>1, NothingLeft DEF Idle
<1>6. DataOf(p)'
  BY <1>3, <1>4, <1>5 DEF DataOf
<1>7. ~Undefined
  BY DEF Undefined, Start
<1>8. \A q \in Procs \ {p} : SameFor(q)
  BY <1>7, CallTyped, OthersSame
<1>9. Exclusive'
  BY <1>1, <1>2, <1>8, FilesUntouched, StillExclusive DEF Kept
<1>. QED  BY <1>1, <1>6, <1>8, <1>9, FilesUntouched, DataOfStep

(* A process dies: what it had promised may be in the files in part. *)
LEMMA CrashData ==
  ASSUME TableInv, TypeOK', DataInv, NEW p \in Procs, Crash(p)
  PROVE  DataInv'
<1>1. /\ UNCHANGED <<dir, promised, spoilt, undefined>> /\ ~undefined
      /\ vm'[p] = [a \in Addrs |-> Nowhere] /\ trans'[p] = NoTrans /\ call'[p] = Idle
  BY CallTyped DEF Crash, Alive, TypeOK
<1>2. Live(p)' = {} /\ trans'[p].declared = {}
  BY <1>1 DEF Live, NoTrans
<1>3. MappedWhole(p)' /\ UndeclaredAgrees(p)' /\ DeclaredRanged(p)'
  BY <1>1, <1>2 DEF MappedWhole, UndeclaredAgrees, DeclaredRanged, Kept
<1>4. LeftToDo(p)' /\ CommitPromised(p)'
  BY <1>1, NothingLeft DEF Idle
<1>5. DataOf(p)'
  BY <1>3, <1>4 DEF DataOf
<1>6. \A q \in Procs \ {p} : SameFor(q)
  BY <1>1, CallTyped, OthersSame DEF Undefined
<1>7. Exclusive'
  BY <1>1, <1>2, <1>6, FilesUntouched, StillExclusive DEF Kept
<1>. QED  BY <1>1, <1>5, <1>6, <1>7, FilesUntouched, DataOfStep

(* What mapping a segment does: the file has at least the size asked for, the new
   mapping has an entry behind the others, or else the segment is spoilt. *)
LEMMA MapDoes ==
  ASSUME TableInv, NEW p \in Procs, NEW s \in Segs, NEW n \in Sizes,
         NEW a \in Addrs, Map(p, s, n, a), ~Undefined
  PROVE  /\ call[p] = Idle /\ status[p] = "up" /\ UNCHANGED <<status, trans, call, undefined>>
         /\ n \in Nat /\ n >= 1 /\ Len(dir[s]) \in Nat /\ Len(dir[s]) <= n
         /\ dir' = [dir EXCEPT ![s] = Pad(dir[s], n)]
         /\ promised' = [promised EXCEPT ![s] = {Pad(c, n) : c \in promised[s]}]
         /\ Live(p)' = Live(p) \cup {a} /\ a \notin Live(p) /\ Live(p) \subseteq Addrs
         /\ vm'[p][a].of = s /\ vm'[p][a].cells \in Seq({Shared}) /\ Len(vm'[p][a].cells) = n
         /\ \A b \in Addrs \ {a} : vm'[p][b] = vm[p][b]
         /\ \E M \in SUBSET Slots :
              /\ Used(p)' = Used(p) \cup M /\ \A m \in M : mapped'[p][m].data = a
              /\ M # {} \/ s \in spoilt'
         /\ \A i \in Used(p) : mapped'[p][i] = mapped[p][i] /\ mapped[p][i].name # s
         /\ spoilt' = spoilt \/ spoilt' = spoilt \cup {s}
         /\ MappedElsewhere(p, s) => s \in spoilt'
         /\ spoilt' # spoilt /\ ~MappedElsewhere(p, s) => AddressReuse /\ dir[s] # <<>>
<1>1. PICK m : m = num_mapped[p]
  OBVIOUS
<1>2. PICK aliased \in BOOLEAN :
        aliased = (m \in Slots /\ dir[s] # <<>> /\ mapped[p][m].data = a)
  OBVIOUS
<1>3. PICK last : last = IF aliased THEN m - 1 ELSE m
  OBVIOUS
<1>4. ~(n < Len(dir[s]) \/ last < 0)
  BY <1>1, <1>2, <1>3, Zenon DEF Map
<1>5. PICK e : e = [data |-> a, name |-> s, size |-> n,
                    ranges |-> [i \in DOMAIN mapped[p][m].ranges |-> Garbage]]
  OBVIOUS
<1>6. /\ dir' = [dir EXCEPT ![s] = Pad(dir[s], n)]
      /\ vm' = [vm EXCEPT ![p][a] = [of |-> s, cells |-> [k \in 1 .. n |-> Shared]]]
      /\ promised' = [promised EXCEPT ![s] = {Pad(c, n) : c \in promised[s]}]
      /\ UNCHANGED <<status, trans, call, undefined>>
  BY <1>1, <1>2, <1>3, <1>4, Zenon DEF Map
<1>7. /\ aliased => mapped' = [mapped EXCEPT ![p][m].size = n] /\ num_mapped' = num_mapped
      /\ ~aliased => /\ mapped' = [mapped EXCEPT ![p][m] = e]
                     /\ num_mapped' = [num_mapped EXCEPT ![p] = num_mapped[p] + 1]
      /\ spoilt' = IF aliased \/ MappedElsewhere(p, s) THEN spoilt \cup {s} ELSE spoilt
  <2>1. CASE aliased
    BY <1>1, <1>2, <1>3, <1>4, <2>1, Zenon DEF Map
  <2>2. CASE ~aliased
    BY <1>1, <1>2, <1>3, <1>4, <1>5, <2>2, Zenon DEF Map
  <2>. QED  BY <2>1, <2>2
<1>8. /\ m < MAXSEGS /\ vm[p][a] = Nowhere /\ call[p] = Idle /\ status[p] = "up"
      /\ \A i \in Used(p) : mapped[p][i].name # s
  BY <1>1 DEF Map, CanCall, Alive
<1>9. n \in Nat /\ n >= 1 /\ Len(dir[s]) \in Nat /\ Len(dir[s]) <= n
  <2>1. n \in Nat /\ n >= 1
    BY RvmAssumption
  <2>2. PICK l : l = Len(dir[s])
    OBVIOUS
  <2>3. l \in Nat
    BY <2>2, CallTyped, Typed
  <2>4. ~(n < l)
    BY <1>4, <2>2
  <2>. QED  BY <2>1, <2>2, <2>3, <2>4
<1>10. m \in Slots /\ m \in Nat
  <2>1. m \in -1 .. MAXSEGS
    BY <1>1, CallTyped, Typed
  <2>2. ~(last < 0) /\ m < MAXSEGS
    BY <1>4, <1>8
  <2>3. m \in 0 .. MAXSEGS - 1
    BY <1>3, <2>1, <2>2, RvmAssumption
  <2>. QED  BY <2>3 DEF Slots
(* The mapping. *)
<1>11. PICK v : v = [of |-> s, cells |-> [k \in 1 .. n |-> Shared]]
  OBVIOUS
<1>12. v.of = s /\ v.cells \in Seq({Shared}) /\ Len(v.cells) = n /\ v # Nowhere
  <2>1. PICK z : z = [k \in 1 .. n |-> Shared]
    OBVIOUS
  <2>2. z \in Seq({Shared}) /\ Len(z) = n
    <3>1. z \in [1 .. n -> {Shared}]
      BY <2>1
    <3>. QED  BY <1>9, <2>1, <3>1
  <2>3. v = [of |-> s, cells |-> z]
    BY <1>11, <2>1, Zenon
  <2>4. v.of = s /\ v.cells = z
    BY <2>3
  <2>5. \A x : x = Nowhere => x.of = NULL
    BY DEF Nowhere
  <2>6. v # Nowhere
    BY <2>4, <2>5, RvmAssumption
  <2>. QED  BY <2>2, <2>4, <2>6
<1>13. vm'[p][a] = v /\ \A b \in Addrs \ {a} : vm'[p][b] = vm[p][b]
  <2>0. vm \in [Procs -> [Addrs -> Mappings]]
    BY CallTyped DEF TypeOK, Mappings
  <2>1. PICK w : w = [vm[p] EXCEPT ![a] = v]
    OBVIOUS
  <2>2. w[a] = v /\ \A b \in Addrs \ {a} : w[b] = vm[p][b]
    BY <2>0, <2>1
  <2>3. vm' = [vm EXCEPT ![p] = w]
    BY <1>6, <1>11, <2>1, Zenon
  <2>. QED  BY <2>0, <2>2, <2>3
<1>14. Live(p)' = Live(p) \cup {a} /\ a \notin Live(p) /\ Live(p) \subseteq Addrs
  BY <1>8, <1>12, <1>13 DEF Live
(* The entry. *)
<1>15. PICK x : x = IF aliased THEN [mapped[p][m] EXCEPT !.size = n] ELSE e
  OBVIOUS
<1>16. x.data = a
  <2>1. CASE aliased
    <3>1. mapped[p][m].data = a
      BY <1>2, <2>1, Zenon
    <3>2. mapped[p][m] \in Entries
      BY <1>10, CallTyped DEF TypeOK, Entries
    <3>3. x = [mapped[p][m] EXCEPT !.size = n]
      BY <1>15, <2>1, Zenon
    <3>. QED  BY <3>1, <3>2, <3>3 DEF Entries
  <2>2. CASE ~aliased
    BY <1>5, <1>15, <2>2
  <2>. QED  BY <2>1, <2>2
<1>17. mapped'[p][m] = x /\ \A i \in Slots \ {m} : mapped'[p][i] = mapped[p][i]
  <2>1. PICK w : w = [mapped[p] EXCEPT ![m] = x]
    OBVIOUS
  <2>2. mapped \in [Procs -> [Slots -> Entries]]
    BY CallTyped DEF TypeOK, Entries
  <2>3. w[m] = x /\ \A i \in Slots \ {m} : w[i] = mapped[p][i]
    BY <1>10, <2>1, <2>2
  <2>4. mapped' = [mapped EXCEPT ![p] = w]
    <3>1. CASE aliased
      <4>1. mapped' = [mapped EXCEPT ![p] =
                         [mapped[p] EXCEPT ![m] = [mapped[p][m] EXCEPT !.size = n]]]
        BY <1>7, <3>1, Zenon
      <4>2. x = [mapped[p][m] EXCEPT !.size = n]
        BY <1>15, <3>1, Zenon
      <4>. QED  BY <2>1, <4>1, <4>2, Zenon
    <3>2. CASE ~aliased
      BY <1>7, <1>15, <2>1, <3>2, Zenon
    <3>. QED  BY <3>1, <3>2
  <2>. QED  BY <2>2, <2>3, <2>4
<1>18. /\ Used(p)' = IF aliased THEN Used(p) ELSE Used(p) \cup {m}
       /\ Used(p) \subseteq Slots \ {m}
  <2>1. num_mapped'[p] = IF aliased THEN m ELSE m + 1
    BY <1>1, <1>7, CallTyped DEF TypeOK
  <2>2. Used(p) = 0 .. m - 1 /\ Used(p)' = IF aliased THEN 0 .. m - 1 ELSE 0 .. m
    BY <1>1, <1>10, <2>1 DEF Used
  <2>3. 0 .. m = (0 .. m - 1) \cup {m} /\ m \notin 0 .. m - 1
    BY <1>10
  <2>4. Used(p) \subseteq Slots
    BY CallTyped, Typed
  <2>. QED  BY <2>2, <2>3, <2>4
<1>19. \E M \in SUBSET Slots :
         /\ Used(p)' = Used(p) \cup M /\ \A i \in M : mapped'[p][i].data = a
         /\ M # {} \/ s \in spoilt'
  <2>1. CASE aliased
    <3>1. Used(p)' = Used(p) \cup {} /\ s \in spoilt' /\ {} \in SUBSET Slots
      BY <1>7, <1>18, <2>1
    <3>2. PICK M : M = {}
      OBVIOUS
    <3>3. /\ M \in SUBSET Slots /\ Used(p)' = Used(p) \cup M
          /\ \A i \in M : mapped'[p][i].data = a
      BY <3>1, <3>2
    <3>. QED  BY <3>1, <3>3, Zenon
  <2>2. CASE ~aliased
    <3>1. /\ {m} \in SUBSET Slots /\ Used(p)' = Used(p) \cup {m}
          /\ mapped'[p][m].data = a
      BY <1>10, <1>16, <1>17, <1>18, <2>2
    <3>. QED  BY <3>1
  <2>. QED  BY <2>1, <2>2
<1>20. \A i \in Used(p) : mapped'[p][i] = mapped[p][i] /\ mapped[p][i].name # s
  BY <1>8, <1>17, <1>18
<1>21. /\ vm'[p][a].of = s /\ vm'[p][a].cells \in Seq({Shared})
       /\ Len(vm'[p][a].cells) = n
  BY <1>12, <1>13
<1>22. /\ spoilt' = spoilt \/ spoilt' = spoilt \cup {s}
       /\ MappedElsewhere(p, s) => s \in spoilt'
  BY <1>7
<1>23. ASSUME spoilt' # spoilt, ~MappedElsewhere(p, s)
       PROVE  AddressReuse /\ dir[s] # <<>>
  <2>1. \A i \in Slots : mapped[p][i].data = a => AddressReuse
    BY DEF Map
  <2>2. CASE aliased
    <3>1. mapped[p][m].data = a
      BY <1>2, <2>2, Zenon
    <3>2. dir[s] # <<>>
      BY <1>2, <2>2, Zenon
    <3>3. AddressReuse
      BY <1>10, <2>1, <3>1
    <3>. QED  BY <3>2, <3>3
  <2>3. CASE ~aliased
    <3>1. spoilt' = spoilt
      BY <1>1, <1>2, <1>3, <1>4, <1>23, <2>3, Zenon DEF Map
    <3>. QED  BY <1>23, <3>1
  <2>. QED  BY <2>2, <2>3
<1>. QED  BY <1>6, <1>8, <1>9, <1>13, <1>14, <1>19, <1>20, <1>21, <1>22, <1>23

(* A segment is mapped: the file may grow, by zeroes that are promised too.
   When the segment is spoilt by it, nothing is claimed of its mappings. *)
LEMMA MapData ==
  ASSUME TableInv, TableInv', DataInv,
         NEW p \in Procs, NEW s \in Segs, NEW n \in Sizes, NEW a \in Addrs,
         Map(p, s, n, a), ~Undefined
  PROVE  DataInv'
<1>1. /\ call[p] = Idle /\ status[p] = "up" /\ UNCHANGED <<status, trans, call, undefined>>
      /\ n \in Nat /\ n >= 1 /\ Len(dir[s]) \in Nat /\ Len(dir[s]) <= n
      /\ dir' = [dir EXCEPT ![s] = Pad(dir[s], n)]
      /\ promised' = [promised EXCEPT ![s] = {Pad(c, n) : c \in promised[s]}]
      /\ Live(p)' = Live(p) \cup {a} /\ a \notin Live(p) /\ Live(p) \subseteq Addrs
      /\ \A b \in Addrs \ {a} : vm'[p][b] = vm[p][b]
  BY MapDoes
<1>2. /\ vm'[p][a].of = s /\ Len(vm'[p][a].cells) = n
      /\ \A k \in 1 .. n : vm'[p][a].cells[k] = Shared
  <2>1. /\ vm'[p][a].of = s /\ vm'[p][a].cells \in Seq({Shared})
        /\ Len(vm'[p][a].cells) = n
    BY MapDoes
  <2>2. PICK c \in Seq({Shared}) : c = vm'[p][a].cells
    BY <2>1
  <2>. QED  BY <2>1, <2>2
<1>3. PICK M \in SUBSET Slots :
        /\ Used(p)' = Used(p) \cup M /\ \A m \in M : mapped'[p][m].data = a
        /\ M # {} \/ s \in spoilt'
  BY MapDoes
<1>4. /\ \A i \in Used(p) : mapped'[p][i] = mapped[p][i] /\ mapped[p][i].name # s
      /\ spoilt' = spoilt \/ spoilt' = spoilt \cup {s}
      /\ MappedElsewhere(p, s) => s \in spoilt'
  BY MapDoes
(* The file. *)
<1>5. PICK f \in Seq(Values) : f = dir[s]
  BY CallTyped
<1>6. PICK g : g = Pad(f, n)
  OBVIOUS
<1>7. /\ n \in Nat /\ Len(f) \in Nat /\ Len(f) <= n
      /\ g \in Seq(Values) /\ Len(g) = n
      /\ \A k \in 1 .. Len(f) : g[k] = f[k]
      /\ \A k \in Len(f) + 1 .. n : g[k] = 0
  <2>1. n \in Nat /\ Len(f) \in Nat /\ Len(f) <= n
    BY <1>1, <1>5
  <2>. QED  BY <1>6, <2>1, PadIs
<1>8. dir'[s] = g /\ \A t \in Segs \ {s} : dir'[t] = dir[t] /\ promised'[t] = promised[t]
  <2>1. dir' = [dir EXCEPT ![s] = g]
    BY <1>1, <1>5, <1>6, Zenon
  <2>. QED  BY <1>1, <2>1, CallTyped
<1>9. promised'[s] = {Pad(c, n) : c \in promised[s]}
  BY <1>1, CallTyped
<1>10. ASSUME s \notin spoilt' PROVE FilePromised(s)'
  <2>0. /\ promised[s] # {} /\ promised[s] \subseteq Seq(Values)
        /\ \A c \in promised[s] : Len(c) = Len(f)
        /\ \A k \in 1 .. Len(f) : \E c \in promised[s] : f[k] = c[k]
    BY <1>5, <1>4, <1>10, CallTyped DEF DataInv, FilePromised
  <2>1. ASSUME NEW c \in promised[s]
        PROVE  /\ Pad(c, n) \in promised'[s] /\ Len(Pad(c, n)) = n
               /\ \A k \in 1 .. Len(f) : Pad(c, n)[k] = c[k]
               /\ \A k \in Len(f) + 1 .. n : Pad(c, n)[k] = 0
    <3>1. c \in Seq(Values) /\ Len(c) = Len(f)
      BY <2>0
    <3>2. /\ Len(Pad(c, n)) = n
          /\ \A k \in 1 .. Len(c) : Pad(c, n)[k] = c[k]
          /\ \A k \in Len(c) + 1 .. n : Pad(c, n)[k] = 0
      BY <1>7, <3>1, PadIs
    <3>. QED  BY <1>9, <3>1, <3>2
  <2>2. promised'[s] # {} /\ \A c \in promised'[s] : Len(c) = n
    BY <1>9, <2>0, <2>1
  <2>3. ASSUME NEW k \in 1 .. n PROVE \E c \in promised'[s] : g[k] = c[k]
    <3>1. CASE k \in 1 .. Len(f)
      BY <1>7, <2>0, <2>1, <3>1
    <3>2. CASE k \notin 1 .. Len(f)
      <4>1. k \in Len(f) + 1 .. n
        BY <1>7, <3>2
      <4>2. PICK c \in promised[s] : TRUE
        BY <2>0
      <4>. QED  BY <1>7, <2>1, <4>1, <4>2
    <3>. QED  BY <3>1, <3>2
  <2>. QED  BY <1>7, <1>8, <2>2, <2>3 DEF FilePromised
<1>11. \A t \in Segs \ spoilt' : FilePromised(t)'
  <2>1. ASSUME NEW t \in Segs \ spoilt', t # s PROVE FilePromised(t)'
    <3>1. FilePromised(t) /\ dir'[t] = dir[t] /\ promised'[t] = promised[t]
      BY <1>8, <1>4, <2>1 DEF DataInv
    <3>. QED  BY <3>1 DEF FilePromised
  <2>. QED  BY <1>10, <2>1
(* No older mapping of which anything is claimed is of this segment. *)
<1>12. ASSUME NEW b \in Live(p), vm[p][b].of \notin spoilt'
       PROVE  /\ b \in Kept(p) /\ b # a
              /\ vm[p][b].of \in Segs \ {s} /\ vm'[p][b] = vm[p][b]
              /\ dir'[vm[p][b].of] = dir[vm[p][b].of]
  <2>1. b \in Kept(p)
    BY <1>4, <1>12 DEF Kept
  <2>2. vm[p][b].of # s /\ vm[p][b].of \in Segs
    BY <1>4, <2>1, DataTyped, MappingIs
  <2>. QED  BY <1>1, <1>8, <2>1, <2>2
<1>13. ASSUME NEW b \in Kept(p)', b # a
      PROVE  b \in Live(p) /\ vm[p][b].of \notin spoilt'
  <2>1. b \in Live(p) /\ b \in Addrs /\ vm'[p][b].of \notin spoilt'
    BY <1>1, <1>13 DEF Kept
  <2>2. vm'[p][b] = vm[p][b]
    BY <1>1, <1>13, <2>1
  <2>. QED  BY <2>1, <2>2
<1>14. MappedWhole(p)'
  <2>1. ASSUME a \in Kept(p)'
        PROVE  /\ Registered(p, a)' /\ Len(dir'[vm'[p][a].of]) = Len(vm'[p][a].cells)
               /\ Len(vm'[p][a].cells) >= 1
    <3>1. s \notin spoilt'
      BY <1>2, <2>1 DEF Kept
    <3>. QED  BY <1>1, <1>2, <1>3, <1>7, <1>8, <3>1 DEF Registered
  <2>2. ASSUME NEW b \in Kept(p)', b # a
        PROVE  /\ Registered(p, b)' /\ Len(dir'[vm'[p][b].of]) = Len(vm'[p][b].cells)
               /\ Len(vm'[p][b].cells) >= 1
    <3>1. /\ Registered(p, b) /\ Len(dir[vm[p][b].of]) = Len(vm[p][b].cells)
          /\ Len(vm[p][b].cells) >= 1
      BY <1>12, <1>13, <2>2, DataTyped DEF MappedWhole
    <3>2. PICK i \in Used(p) : mapped[p][i].data = b
      BY <3>1 DEF Registered
    <3>3. i \in Used(p)' /\ mapped'[p][i].data = b
      BY <1>3, <1>4, <3>2
    <3>4. Registered(p, b)'
      BY <3>3 DEF Registered
    <3>. QED  BY <1>12, <1>13, <2>2, <3>1, <3>4
  <2>. QED  BY <1>1, <2>1, <2>2 DEF MappedWhole
<1>15. DeclaredRanged(p)'
  <2>1. ASSUME NEW d \in trans[p].declared, NEW i \in Used(p)', mapped'[p][i].data = d[1]
        PROVE  d[2] \in ToSet(mapped'[p][i].ranges)
    <3>1. d[1] # a
      BY <1>1, DataTyped
    <3>2. i \in Used(p) /\ mapped'[p][i] = mapped[p][i]
      BY <1>3, <1>4, <2>1, <3>1
    <3>. QED  BY <2>1, <3>2, DataTyped DEF DeclaredRanged
  <2>. QED  BY <1>1, <2>1, DataTyped DEF DeclaredRanged
<1>16. UndeclaredAgrees(p)'
  <2>1. ASSUME NEW k \in 1 .. Len(vm'[p][a].cells) PROVE InFile(p, a, k)'
    BY <1>1, <1>2, <2>1 DEF InFile, Load
  <2>2. ASSUME NEW b \in Kept(p)', b # a, NEW k \in 1 .. Len(vm'[p][b].cells)
        PROVE  <<b, k>> \in trans[p].declared \/ InFile(p, b, k)'
    <3>1. /\ b \in Kept(p) /\ vm'[p][b] = vm[p][b]
          /\ dir'[vm[p][b].of] = dir[vm[p][b].of]
      BY <1>12, <1>13, <2>2
    <3>2. InFile(p, b, k)' <=> InFile(p, b, k)
      BY <3>1 DEF InFile, Load
    <3>. QED  BY <3>1, <3>2, DataTyped DEF UndeclaredAgrees
  <2>. QED  BY <1>1, <2>1, <2>2 DEF UndeclaredAgrees
<1>17. LeftToDo(p)' /\ CommitPromised(p)'
  BY <1>1, NothingLeft DEF Idle
<1>18. DataOf(p)'
  BY <1>14, <1>15, <1>16, <1>17 DEF DataOf
<1>19. \A q \in Procs \ {p} : SameFor(q)
  BY CallTyped, OthersSame DEF Mapping
<1>20. ASSUME NEW q \in Procs \ {p}, NEW b \in Live(q), vm[q][b].of \notin spoilt'
       PROVE  vm[q][b].of \in Segs \ {s} /\ b \in Kept(q)
  <2>1. vm[q][b].of # s
    BY <1>4, <1>20 DEF MappedElsewhere
  <2>. QED  BY <1>4, <1>20, <2>1, CallTyped DEF Kept, LiveFits
<1>21. \A q \in Procs \ {p} : SameFiles(q)
  BY <1>8, <1>20 DEF SameFiles, Kept
<1>22. Exclusive'
  <2>1. ASSUME NEW q \in Procs \ {p}, NEW b \in Kept(q)'
        PROVE  b \in Kept(q) /\ vm'[q][b].of = vm[q][b].of /\ vm[q][b].of # s
    <3>1. vm'[q] = vm[q] /\ b \in Live(q) /\ vm[q][b].of \notin spoilt'
      BY <1>19, <2>1 DEF SameFor, Kept, Live
    <3>. QED  BY <1>20, <3>1
  <2>2. ASSUME NEW b \in Kept(p)'
        PROVE  \/ vm'[p][b].of = s
               \/ b \in Kept(p) /\ vm'[p][b].of = vm[p][b].of
    <3>1. CASE b = a
      BY <1>2, <3>1
    <3>2. CASE b # a
      BY <1>12, <1>13, <2>2, <3>2
    <3>. QED  BY <3>1, <3>2
  <2> SUFFICES ASSUME NEW q \in Procs, NEW r \in Procs, NEW b \in Kept(q)', NEW c \in Kept(r)',
                      vm'[q][b].of = vm'[r][c].of, q # r
               PROVE  FALSE
    BY DEF Exclusive
  <2>3. CASE q = p
    BY <2>1, <2>2, <2>3, DataTyped DEF Exclusive
  <2>4. CASE r = p
    BY <2>1, <2>2, <2>4, DataTyped DEF Exclusive
  <2>5. CASE q # p /\ r # p
    BY <2>1, <2>5, DataTyped DEF Exclusive
  <2>. QED  BY <2>3, <2>4, <2>5
<1>. QED  BY <1>11, <1>18, <1>19, <1>21, <1>22, DataOfStep DEF TableInv

-----------------------------------------------------------------------------
(* The steps that move the call of p on, and end its transaction at most. *)
LEMMA CallData ==
  ASSUME TableInv, TypeOK', DataInv, NEW p \in Procs,
         UNCHANGED <<dir, mapped, num_mapped, vm, status, spoilt>>,
         \A q \in Procs \ {p} : SameFor(q) /\ SameFiles(q),
         \A s \in Segs \ spoilt' : FilePromised(s)',
         trans'[p].declared \subseteq trans[p].declared,
         trans'[p].open \/ trans'[p] = NoTrans,
         \A d \in trans[p].declared : d[1] \in Kept(p) =>
           d \in trans'[p].declared \/ InFile(p, d[1], d[2]),
         LeftToDo(p)', CommitPromised(p)'
  PROVE  DataInv'
<1>1. Live(p)' = Live(p) /\ Used(p)' = Used(p) /\ Kept(p)' = Kept(p)
  BY DEF Live, Used, Kept
<1>2. \A a, k : InFile(p, a, k)' <=> InFile(p, a, k)
  BY DEF InFile, Load
<1>3. MappedWhole(p)'
  BY <1>1, DataTyped DEF MappedWhole, Registered
<1>4. DeclaredRanged(p)'
  BY <1>1, DataTyped DEF DeclaredRanged
<1>5. UndeclaredAgrees(p)'
  <2>1. ASSUME NEW a \in Kept(p), NEW k \in 1 .. Len(vm[p][a].cells)
        PROVE  <<a, k>> \in trans'[p].declared \/ InFile(p, a, k)
    <3>1. <<a, k>> \in trans[p].declared \/ InFile(p, a, k)
      BY DataTyped DEF UndeclaredAgrees
    <3>2. <<a, k>>[1] = a /\ <<a, k>>[2] = k
      OBVIOUS
    <3>. QED  BY <3>1, <3>2
  <2>. QED  BY <1>1, <1>2, <2>1 DEF UndeclaredAgrees
<1>6. Exclusive'
  BY <1>1, StillExclusive
<1>. QED  BY <1>3, <1>4, <1>5, <1>6, DataOfStep DEF DataOf

(* rvm_begin_trans: nothing is declared yet, as nothing was before. *)
LEMMA BeginTransData ==
  ASSUME TableInv, TypeOK', DataInv, NEW p \in Procs, NEW bases \in BaseLists(p),
         BeginTrans(p, bases)
  PROVE  DataInv'
<1>1. /\ UNCHANGED <<dir, mapped, num_mapped, vm, status, promised, spoilt,
                  undefined>>
      /\ ~undefined /\ ~trans[p].open
  BY DEF BeginTrans, CanCall, Alive, store, table
<1>2. call'[p] = [op |-> "begin", todo |-> Known(p, bases)]
  BY CallTyped DEF BeginTrans, TypeOK
<1>3. trans'[p].open /\ trans'[p].declared = {}
  <2>1. PICK t : t = [open |-> TRUE, bases |-> bases, declared |-> {}]
    OBVIOUS
  <2>2. trans' = [trans EXCEPT ![p] = t]
    BY <2>1, Opened DEF BeginTrans
  <2>3. t.open /\ t.declared = {}
    BY <2>1
  <2>. QED  BY <2>2, <2>3, CallTyped DEF TypeOK
<1>4. trans[p].declared = {}
  BY <1>1, DataTyped DEF DeclaredRanged, NoTrans
<1>5. LeftToDo(p)' /\ CommitPromised(p)'
  BY <1>2, NothingLeft
<1>6. \A q \in Procs \ {p} : SameFor(q)
  BY <1>1, CallTyped, OthersSame DEF Undefined, Transaction
<1>. QED  BY <1>1, <1>3, <1>4, <1>5, <1>6, FilesUntouched, CallData

(* The locks and the log records of rvm_begin_trans. *)
LEMMA LockLogData ==
  ASSUME TableInv, TypeOK', DataInv, NEW p \in Procs, LockSegment(p) \/ LogBegin(p)
  PROVE  DataInv'
<1>1. /\ UNCHANGED <<dir, mapped, num_mapped, vm, status, trans, promised,
                  spoilt, undefined>>
      /\ ~undefined
  BY DEF LockSegment, LogBegin, Inside, Alive, table
<1>2. call'[p].op \in {"begin", "logging"}
  BY CallTyped DEF LockSegment, LogBegin, TypeOK
<1>3. LeftToDo(p)' /\ CommitPromised(p)'
  BY <1>2, NothingLeft
<1>4. \A q \in Procs \ {p} : SameFor(q)
  BY <1>1, CallTyped, OthersSame DEF Undefined, Transaction
<1>5. trans'[p].open \/ trans'[p] = NoTrans
  BY <1>1, DataTyped DEF DeclaredRanged
<1>. QED  BY <1>1, <1>3, <1>4, <1>5, FilesUntouched, CallData

(* rvm_abort_trans has every declared range to do: all is registered. *)
LEMMA AbortTransData ==
  ASSUME TableInv, TypeOK', DataInv, NEW p \in Procs, AbortTrans(p)
  PROVE  DataInv'
<1>1. /\ UNCHANGED <<dir, mapped, num_mapped, vm, status, trans, promised,
                  spoilt, undefined>>
      /\ ~undefined
  BY DEF AbortTrans, CanCall, Alive, store, table
<1>2. PICK known : known = Known(p, trans[p].bases)
  OBVIOUS
<1>3. call'[p].op = "abort" /\ call'[p].todo = known
  <2>1. call'[p] = [op |-> "abort", todo |-> known]
    BY <1>2, CallTyped DEF AbortTrans, TypeOK
  <2>. QED  BY <2>1
<1>4. ASSUME NEW d \in trans[p].declared, d[1] \in Kept(p) PROVE d[1] \in ToSet(known)
  <2>1. Contains(trans[p].bases, d[1]) /\ d[1] \in Live(p)
    BY DataTyped
  <2>2. Registered(p, d[1])
    BY <1>4, DataTyped DEF MappedWhole
  <2>3. trans[p].bases \in Seq(Addrs)
    BY CallTyped DEF Transactions
  <2>. QED  BY <1>2, <2>1, <2>2, <2>3, KnownIs
<1>5. LeftToDo(p)' /\ CommitPromised(p)'
  BY <1>1, <1>3, <1>4 DEF LeftToDo, CommitPromised, Kept, Live
<1>6. \A q \in Procs \ {p} : SameFor(q)
  BY <1>1, CallTyped, OthersSame DEF Undefined, Transaction
<1>7. trans'[p].open \/ trans'[p] = NoTrans
  BY <1>1, DataTyped DEF DeclaredRanged
<1>. QED  BY <1>1, <1>5, <1>6, <1>7, FilesUntouched, CallData

(* The log record at the end of the writes of a segment is no write. *)
LEMMA LogCommitData ==
  ASSUME TableInv, TypeOK', DataInv, NEW p \in Procs, LogCommit(p)
  PROVE  DataInv'
<1>1. /\ UNCHANGED <<dir, mapped, num_mapped, vm, status, trans, promised,
                  spoilt, undefined>>
      /\ ~undefined /\ call[p].op = "commit" /\ call[p].todo # <<>>
      /\ Head(call[p].todo)[2] = LogIt
      /\ call' = [call EXCEPT ![p].todo = Tail(call[p].todo)]
  BY DEF LogCommit, Inside, Alive, store, table
<1>2. call'[p].op = "commit" /\ call'[p].todo = Tail(call[p].todo)
  <2>1. call' = [call EXCEPT ![p] = [op |-> call[p].op, todo |-> Tail(call[p].todo)]]
    BY <1>1, CallTyped, TodoNext
  <2>2. call'[p] = [op |-> call[p].op, todo |-> Tail(call[p].todo)]
    BY <2>1, CallTyped DEF TypeOK
  <2>. QED  BY <1>1, <2>2
<1>3. ASSUME NEW d \in trans[p].declared, d \in ToSet(call[p].todo)
      PROVE  d \in ToSet(call'[p].todo)
  <2>1. d # Head(call[p].todo)
    BY <1>1, DataTyped, RvmAssumption
  <2>2. PICK todo \in Seq(Writeables) : todo = call[p].todo
    BY <1>1, CallTyped DEF TypeOK, Writeables
  <2>. QED  BY <1>1, <1>2, <1>3, <2>1, <2>2, HeadAndTail
<1>4. LeftToDo(p)'
  <2>1. \A a, k : InFile(p, a, k)' <=> InFile(p, a, k)
    BY <1>1 DEF InFile, Load
  <2>. QED  BY <1>1, <1>2, <1>3, <2>1, DataTyped DEF LeftToDo, Kept, Live
<1>5. CommitPromised(p)'
  <2>1. Live(p)' = Live(p) /\ \A a, k : Load(p, a, k)' = Load(p, a, k)
    BY <1>1 DEF Live, Load
  <2>2. ASSUME NEW s, NEW c PROVE Promise(p, s, c)' = Promise(p, s, c)
    BY <1>1, <2>1, PromiseSame
  <2>. QED  BY <1>1, <2>2, DataTyped DEF CommitPromised
<1>6. \A q \in Procs \ {p} : SameFor(q)
  BY <1>1, CallTyped, OthersSame DEF Undefined, Transaction
<1>7. trans'[p].open \/ trans'[p] = NoTrans
  BY <1>1, DataTyped DEF DeclaredRanged
<1>. QED  BY <1>1, <1>4, <1>5, <1>6, <1>7, FilesUntouched, CallData

(* A process promises nothing of the files of the others. *)
LEMMA OthersPromises ==
  ASSUME TableInv, DataInv, NEW p \in Procs, NEW q \in Procs \ {p}, NEW a \in Kept(q)
  PROVE  /\ vm[q][a].of \in Segs
         /\ \A c \in promised[vm[q][a].of] : Promise(p, vm[q][a].of, c) = c
<1>1. PICK s : s = vm[q][a].of
  OBVIOUS
<1>2. s \in Segs
  BY <1>1, CallTyped DEF LiveFits, Kept
<1>3. \A b \in Live(p) : vm[p][b].of # s
  BY <1>1, DataTyped DEF Exclusive, Kept
<1>4. promised[s] \subseteq Seq(Values)
  BY <1>2, CallTyped
<1>5. MappedWhole(p)
  BY DataTyped
<1>. QED  BY <1>1, <1>2, <1>3, <1>4, <1>5, PromiseElsewhere

(* rvm_commit_trans has every declared range to write, and promises it. *)
LEMMA CommitTransData ==
  ASSUME TableInv, TypeOK', DataInv, NEW p \in Procs, CommitTrans(p)
  PROVE  DataInv'
<1>1. /\ UNCHANGED <<dir, mapped, num_mapped, vm, status, trans, undefined, spoilt>>
      /\ ~undefined
      /\ promised' = [s \in Segs |->
           promised[s] \cup {Promise(p, s, c) : c \in promised[s]}]
  BY DEF CommitTrans, CanCall, Alive, store, table
<1>2. PICK todo : todo = CommitTodo(p)
  OBVIOUS
<1>3. call'[p].op = "commit" /\ call'[p].todo = todo
  <2>1. call'[p] = [op |-> "commit", todo |-> todo]
    BY <1>2, CallTyped DEF CommitTrans, CommitTodo, TypeOK
  <2>. QED  BY <2>1
<1>4. ASSUME NEW d \in trans[p].declared, d[1] \in Kept(p) PROVE d \in ToSet(todo)
  <2>1. /\ Contains(trans[p].bases, d[1]) /\ d[1] \in Live(p) /\ d[1] \in Addrs
        /\ d = <<d[1], d[2]>>
    BY DataTyped
  <2>2. Registered(p, d[1])
    BY <1>4, DataTyped DEF MappedWhole
  <2>3. d[2] \in ToSet(Entry(p, d[1]).ranges)
    <3>1. /\ Slot(p, d[1]) \in Used(p) /\ Entry(p, d[1]) = mapped[p][Slot(p, d[1])]
          /\ Entry(p, d[1]).data = d[1]
      BY <2>2, CallTyped, EntryIs
    <3>. QED  BY <3>1, DataTyped DEF DeclaredRanged
  <2>4. \E a \in Addrs : /\ Contains(trans[p].bases, a) /\ Registered(p, a)
                         /\ \E k \in ToSet(Entry(p, a).ranges) \cup {LogIt} : d = <<a, k>>
    BY <2>1, <2>2, <2>3
  <2>. QED  BY <1>2, <2>4, CallTyped, CommitTodoIs
<1>5. LeftToDo(p)'
  BY <1>1, <1>3, <1>4 DEF LeftToDo, Kept, Live
<1>6. ASSUME NEW s \in Segs \ spoilt
      PROVE  /\ promised[s] \subseteq Seq(Values)
             /\ promised'[s] = promised[s] \cup {Promise(p, s, c) : c \in promised[s]}
             /\ \A c \in promised[s] : /\ Promise(p, s, c) \in Seq(Values)
                                       /\ Len(Promise(p, s, c)) = Len(c)
                                       /\ Promise(p, s, Promise(p, s, c)) = Promise(p, s, c)
  <2>1. promised[s] \subseteq Seq(Values)
    BY CallTyped
  <2>2. MappedWhole(p)
    BY DataTyped
  <2>. QED  BY <1>1, <2>1, <2>2, PromiseIs, PromiseTwice
<1>7. CommitPromised(p)'
  <2>1. Live(p)' = Live(p) /\ \A a, k : Load(p, a, k)' = Load(p, a, k)
    BY <1>1 DEF Live, Load
  <2>2. ASSUME NEW s, NEW c PROVE Promise(p, s, c)' = Promise(p, s, c)
    BY <1>1, <2>1, PromiseSame
  <2>3. ASSUME NEW s \in Segs \ spoilt, NEW c \in promised'[s]
        PROVE  Promise(p, s, c) \in promised'[s]
    BY <1>6
  <2>. QED  BY <1>1, <2>2, <2>3 DEF CommitPromised
<1>8. \A s \in Segs \ spoilt' : FilePromised(s)'
  BY <1>1, <1>6 DEF DataInv, FilePromised
<1>9. ASSUME NEW q \in Procs \ {p} PROVE SameFiles(q)
  <2> SUFFICES ASSUME NEW a \in Kept(q)
               PROVE  promised'[vm[q][a].of] = promised[vm[q][a].of]
    BY <1>1 DEF SameFiles, Kept
  <2>1. PICK s \in Segs : s = vm[q][a].of /\ \A c \in promised[s] : Promise(p, s, c) = c
    BY OthersPromises
  <2>2. promised'[s] = promised[s] \cup {Promise(p, s, c) : c \in promised[s]}
    BY <1>1
  <2>3. promised'[s] = promised[s]
    BY <2>1, <2>2
  <2>. QED  BY <2>1, <2>3
<1>10. \A q \in Procs \ {p} : SameFor(q)
  BY <1>1, CallTyped, OthersSame DEF Undefined, Transaction
<1>11. trans'[p].open \/ trans'[p] = NoTrans
  BY <1>1, DataTyped DEF DeclaredRanged
<1>. QED  BY <1>1, <1>5, <1>7, <1>8, <1>9, <1>10, <1>11, CallData

(* The call returns.  A commit has written all it promised, an abort has read
   everything back: nothing differs any more. *)
LEMMA ReturnData ==
  ASSUME TableInv, TypeOK', DataInv, NEW p \in Procs, Return(p)
  PROVE  DataInv'
<1>1. /\ UNCHANGED <<dir, mapped, num_mapped, vm, status, undefined, spoilt>> /\ ~undefined
      /\ call[p].op \in {"begin", "commit", "abort"} /\ call[p].todo = <<>>
      /\ call' = [call EXCEPT ![p] = Idle]
  BY DEF Return, Inside, Alive, store, table
<1>2. call'[p] = Idle
  BY <1>1, CallTyped DEF TypeOK
<1>3. LeftToDo(p)' /\ CommitPromised(p)'
  BY <1>2, NothingLeft DEF Idle
<1>4. \A q \in Procs \ {p} : SameFor(q)
  BY <1>1, CallTyped, OthersSame DEF Undefined, Transaction
<1>5. CASE call[p].op = "begin"
  <2>1. UNCHANGED <<trans, promised>>
    BY <1>5 DEF Return
  <2>2. trans'[p].open \/ trans'[p] = NoTrans
    BY <2>1, DataTyped DEF DeclaredRanged
  <2>. QED  BY <1>1, <1>3, <1>4, <2>1, <2>2, FilesUntouched, CallData
<1>6. CASE call[p].op \in {"commit", "abort"}
  <2>1. trans'[p] = NoTrans /\ trans'[p].declared = {}
    <3>1. trans' = [trans EXCEPT ![p] = NoTrans]
      BY <1>6 DEF Return
    <3>. QED  BY <3>1, CallTyped DEF TypeOK, NoTrans
  <2>2. ASSUME NEW d \in trans[p].declared, d[1] \in Kept(p) PROVE InFile(p, d[1], d[2])
    <3>1. ToSet(call[p].todo) = {}
      BY <1>1 DEF ToSet
    <3>. QED  BY <1>6, <2>2, <3>1, DataTyped DEF LeftToDo
  <2>3. (\A s \in Segs \ spoilt' : FilePromised(s)') /\ \A q \in Procs \ {p} : SameFiles(q)
    <3>1. CASE call[p].op = "abort"
      <4>1. UNCHANGED promised
        BY <3>1 DEF Return
      <4>. QED  BY <1>1, <4>1, FilesUntouched
    <3>2. CASE call[p].op = "commit"
      <4>1. promised' = [s \in Segs |-> {Promise(p, s, c) : c \in promised[s]}]
        BY <3>2 DEF Return
      <4>2. ASSUME NEW s \in Segs \ spoilt PROVE FilePromised(s)'
        <5>1. /\ promised[s] # {} /\ promised[s] \subseteq Seq(Values)
              /\ \A c \in promised[s] : Len(c) = Len(dir[s])
              /\ \A k \in 1 .. Len(dir[s]) : \E c \in promised[s] : dir[s][k] = c[k]
          BY CallTyped DEF DataInv, FilePromised
        <5>2. /\ promised'[s] = {Promise(p, s, c) : c \in promised[s]}
              /\ MappedWhole(p)
          BY <4>1, DataTyped
        <5>3. \A c \in promised[s] : Len(Promise(p, s, c)) = Len(c)
          BY <5>1, <5>2, PromiseIs
        <5>4. ASSUME NEW k \in 1 .. Len(dir[s])
              PROVE  \E c \in promised[s] : dir[s][k] = Promise(p, s, c)[k]
          <6>1. PICK c \in promised[s] : dir[s][k] = c[k]
            BY <5>1
          <6>2. c \in Seq(Values) /\ k \in 1 .. Len(c)
            BY <5>1
          <6>3. CASE \E a \in Live(p) : vm[p][a].of = s /\ <<a, k>> \in trans[p].declared
            <7>1. PICK a \in Kept(p) : vm[p][a].of = s /\ <<a, k>> \in trans[p].declared
              BY <6>3 DEF Kept
            <7>2. Promise(p, s, c)[k] = Load(p, a, k)
              BY <5>2, <6>2, <7>1, PromiseIs
            <7>3. InFile(p, a, k)
              <8>1. <<a, k>>[1] = a /\ <<a, k>>[2] = k
                OBVIOUS
              <8>. QED  BY <2>2, <7>1, <8>1
            <7>. QED  BY <7>1, <7>2, <7>3 DEF InFile
          <6>4. CASE ~ \E a \in Live(p) : vm[p][a].of = s /\ <<a, k>> \in trans[p].declared
            <7>1. \A a \in Live(p) : vm[p][a].of = s => <<a, k>> \notin trans[p].declared
              BY <6>4
            <7>2. Promise(p, s, c)[k] = c[k]
              BY <5>2, <6>2, <7>1, PromiseIs
            <7>. QED  BY <6>1, <7>2
          <6>. QED  BY <6>3, <6>4
        <5>. QED  BY <1>1, <5>1, <5>2, <5>3, <5>4 DEF FilePromised
      <4>3. ASSUME NEW q \in Procs \ {p}, NEW a \in Kept(q)
            PROVE  promised'[vm[q][a].of] = promised[vm[q][a].of]
        <5>1. PICK s \in Segs :
                s = vm[q][a].of /\ \A c \in promised[s] : Promise(p, s, c) = c
          BY OthersPromises
        <5>2. promised'[s] = {Promise(p, s, c) : c \in promised[s]}
          BY <4>1
        <5>3. promised'[s] = promised[s]
          BY <5>1, <5>2
        <5>. QED  BY <5>1, <5>3
      <4>. QED  BY <1>1, <4>2, <4>3 DEF SameFiles, Kept
    <3>. QED  BY <1>6, <3>1, <3>2
  <2>. QED  BY <1>1, <1>3, <1>4, <2>1, <2>2, <2>3, CallData
<1>. QED  BY <1>1, <1>5, <1>6

-----------------------------------------------------------------------------
(* rvm_unmap: what is left of the table are the entries of what is left of the
   mappings. *)
LEMMA UnmapData ==
  ASSUME TableInv, TypeOK', DataInv, NEW p \in Procs, NEW a \in Addrs, Unmap(p, a)
  PROVE  DataInv'
<1>1. /\ UNCHANGED <<dir, status, trans, call, promised, spoilt, undefined>> /\ ~undefined
      /\ call[p] = Idle /\ ~Contains(trans[p].bases, a) /\ Registered(p, a)
      /\ vm' = [vm EXCEPT ![p][a] = Nowhere] /\ status[p] = "up"
  BY DEF Unmap, CanCall, Alive
<1>2. PICK from \in [Used(p)' -> Used(p) \ {Slot(p, a)}] :
           /\ \A j \in Used(p)' : mapped'[p][j] = mapped[p][from[j]]
           /\ \A k \in Used(p) \ {Slot(p, a)} : \E j \in Used(p)' : from[j] = k
  <2>1. TypeOK /\ LiveFits(p) /\ EntriesAgree(p)
    BY CallTyped
  <2>2. \E from \in [Used(p)' -> Used(p) \ {Slot(p, a)}] :
          /\ \A j \in Used(p)' : mapped'[p][j] = mapped[p][from[j]]
          /\ \A j, k \in Used(p)' : from[j] = from[k] => j = k
          /\ \A k \in Used(p) \ {Slot(p, a)} : \E j \in Used(p)' : from[j] = k
    BY ONLY <2>1, p \in Procs, a \in Addrs, Unmap(p, a), UnmapMoves
  <2>. QED  BY <2>2, Zenon
<1>3. /\ Live(p)' = Live(p) \ {a} /\ Kept(p)' = Kept(p) \ {a}
      /\ \A b \in Live(p) \ {a} : vm'[p][b] = vm[p][b]
  <2>1. vm'[p][a] = Nowhere /\ \A b \in Addrs \ {a} : vm'[p][b] = vm[p][b]
    BY <1>1, CallTyped DEF TypeOK
  <2>. QED  BY <1>1, <2>1 DEF Live, Kept
<1>4. MappedWhole(p)'
  <2>1. ASSUME NEW b \in Kept(p) \ {a} PROVE Registered(p, b)'
    <3>1. PICK i \in Used(p) : mapped[p][i].data = b
      BY DataTyped DEF MappedWhole, Registered
    <3>2. mapped[p][Slot(p, a)].data = a
      BY <1>1, CallTyped, EntryIs
    <3>3. PICK j \in Used(p)' : from[j] = i
      BY <1>2, <3>1, <3>2
    <3>. QED  BY <1>2, <3>1, <3>3 DEF Registered
  <2>2. ASSUME NEW b \in Kept(p) \ {a}
        PROVE  Len(dir'[vm'[p][b].of]) = Len(vm'[p][b].cells) /\ Len(vm'[p][b].cells) >= 1
    BY <1>1, <1>3, DataTyped DEF MappedWhole, Kept
  <2>. QED  BY <1>1, <1>3, <2>1, <2>2 DEF MappedWhole
<1>5. DeclaredRanged(p)'
  <2>1. ASSUME NEW d \in trans[p].declared, NEW j \in Used(p)', mapped'[p][j].data = d[1]
        PROVE  d[2] \in ToSet(mapped'[p][j].ranges)
    <3>1. from[j] \in Used(p) /\ mapped'[p][j] = mapped[p][from[j]]
      BY <1>2
    <3>. QED  BY <2>1, <3>1, DataTyped DEF DeclaredRanged
  <2>. QED  BY <1>1, <2>1, DataTyped DEF DeclaredRanged
<1>6. UndeclaredAgrees(p)'
  <2>1. ASSUME NEW b \in Kept(p) \ {a}, NEW k
        PROVE  vm'[p][b] = vm[p][b] /\ (InFile(p, b, k)' <=> InFile(p, b, k))
    BY <1>1, <1>3 DEF InFile, Load, Kept
  <2>. QED  BY <1>1, <1>3, <2>1, DataTyped DEF UndeclaredAgrees
<1>7. LeftToDo(p)' /\ CommitPromised(p)'
  BY <1>1, NothingLeft DEF Idle
<1>8. DataOf(p)'
  BY <1>4, <1>5, <1>6, <1>7 DEF DataOf
<1>9. \A q \in Procs \ {p} : SameFor(q)
  BY <1>1, CallTyped, OthersSame DEF Undefined, Mapping
<1>10. Exclusive'
  <2>1. \A b \in Kept(p)' : b \in Kept(p) /\ vm'[p][b].of = vm[p][b].of
    BY <1>3 DEF Kept
  <2>. QED  BY <1>1, <1>9, <2>1, FilesUntouched, StillExclusive
<1>. QED  BY <1>1, <1>8, <1>9, <1>10, FilesUntouched, DataOfStep

(* With no entry in use only mappings of spoilt segments can be there. *)
LEMMA UnmapEmptyData ==
  ASSUME TableInv, TypeOK', DataInv, NEW p \in Procs, UnmapEmpty(p)
  PROVE  DataInv'
<1>1. /\ UNCHANGED <<dir, status, vm, trans, call, promised, spoilt, undefined>>
      /\ ~undefined /\ status[p] = "up"
      /\ call[p] = Idle /\ num_mapped[p] = 0
  BY DEF UnmapEmpty, CanCall, Alive, store
<1>2. Kept(p) = {} /\ Kept(p)' = {}
  <2>1. Used(p) = {}
    BY <1>1 DEF Used
  <2>. QED  BY <1>1, <2>1, DataTyped DEF MappedWhole, Registered, Kept, Live
<1>3. Used(p)' = {}
  <2>1. num_mapped'[p] = -1
    BY <1>1, CallTyped DEF UnmapEmpty, TypeOK
  <2>. QED  BY <2>1 DEF Used
<1>4. MappedWhole(p)' /\ DeclaredRanged(p)' /\ UndeclaredAgrees(p)'
  BY <1>1, <1>2, <1>3, DataTyped DEF MappedWhole, DeclaredRanged, UndeclaredAgrees
<1>5. LeftToDo(p)' /\ CommitPromised(p)'
  BY <1>1, NothingLeft DEF Idle
<1>6. \A q \in Procs \ {p} : SameFor(q)
  BY <1>1, CallTyped, OthersSame DEF Undefined, Mapping
<1>7. Exclusive'
  BY <1>1, <1>2, <1>6, FilesUntouched, StillExclusive
<1>. QED  BY <1>1, <1>4, <1>5, <1>6, <1>7, FilesUntouched, DataOfStep DEF DataOf

(* rvm_destroy: the file is empty, as promised. *)
LEMMA DestroyData ==
  ASSUME TableInv, TypeOK', DataInv, NEW p \in Procs, NEW s \in Segs, Destroy(p, s)
  PROVE  DataInv'
<1>1. /\ dir' = [dir EXCEPT ![s] = <<>>] /\ promised' = [promised EXCEPT ![s] = {<<>>}]
      /\ UNCHANGED <<status, mapped, num_mapped, vm, trans, call, undefined>>
      /\ ~undefined /\ call[p] = Idle /\ spoilt' = spoilt \ {s}
      /\ \A q \in Procs : \A a \in Live(q) : vm[q][a].of # s
  BY DEF Destroy, CanCall, Alive, table
<1>2. /\ dir'[s] = <<>> /\ promised'[s] = {<<>>}
      /\ \A t \in Segs \ {s} : dir'[t] = dir[t] /\ promised'[t] = promised[t]
  BY <1>1, CallTyped
<1>3. ASSUME NEW t \in Segs \ spoilt' PROVE FilePromised(t)'
  <2>1. CASE t = s
    <3>1. Len(<<>>) = 0 /\ 1 .. 0 = {}
      OBVIOUS
    <3>. QED  BY <1>2, <2>1, <3>1 DEF FilePromised
  <2>2. CASE t # s
    BY <1>1, <1>2, <2>2 DEF DataInv, FilePromised
  <2>. QED  BY <2>1, <2>2
<1>4. ASSUME NEW q \in Procs PROVE SameFor(q) /\ SameFiles(q)
  <2>1. \A a \in Live(q) : vm[q][a].of \in Segs \ {s}
    BY <1>1, CallTyped DEF LiveFits
  <2>. QED  BY <1>1, <1>2, <2>1 DEF SameFor, SameFiles
<1>5. DataOf(p)'
  BY <1>4, OthersData
<1>6. Exclusive'
  <2>1. \A a \in Kept(p)' : a \in Kept(p) /\ vm'[p][a].of = vm[p][a].of
    BY <1>1 DEF Kept, Live
  <2>. QED  BY <1>4, <2>1, StillExclusive
<1>. QED  BY <1>3, <1>4, <1>5, <1>6, DataOfStep

-----------------------------------------------------------------------------
(* rvm_about_to_modify declares a range and records it. *)
LEMMA AboutToModifyData ==
  ASSUME TableInv, TypeOK', DataInv, NEW p \in Procs, NEW a \in Live(p),
         NEW k \in DOMAIN vm[p][a].cells, AboutToModify(p, a, k)
  PROVE  DataInv'
<1>1. /\ UNCHANGED <<dir, status, num_mapped, vm, call, promised, spoilt>>
      /\ call[p] = Idle
      /\ Contains(trans[p].bases, a)
      /\ trans' = [trans EXCEPT ![p].declared = trans[p].declared \cup {<<a, k>>}]
  BY DEF AboutToModify, CanCall
<1>2. a \in Addrs /\ k \in Nat
  <2>1. a \in Addrs
    BY DEF Live
  <2>2. PICK c \in Seq(Cells) : c = vm[p][a].cells
    BY <2>1, CallTyped, Typed
  <2>3. k \in 1 .. Len(c) /\ Len(c) \in Nat
    BY <2>2
  <2>. QED  BY <2>1, <2>3
<1>3. /\ \A q \in Procs \ {p} : trans'[q] = trans[q]
      /\ trans'[p].open = trans[p].open
      /\ trans'[p].declared = trans[p].declared \cup {<<a, k>>}
  BY <1>1, <1>2, CallTyped, DeclaredMore
<1>4. /\ \A q \in Procs \ {p} : mapped'[q] = mapped[q]
      /\ \A j \in Used(p) : mapped'[p][j].data = mapped[p][j].data
      /\ \A j \in Used(p) : mapped[p][j].data # a => mapped'[p][j] = mapped[p][j]
      /\ \A j \in Used(p) : mapped[p][j].data = a =>
           ToSet(mapped'[p][j].ranges) = ToSet(mapped[p][j].ranges) \cup {k}
  <2>1. CASE Registered(p, a)
    <3>1. /\ TypeOK /\ LiveFits(p) /\ EntriesAgree(p) /\ Registered(p, a) /\ k \in Nat
          /\ NothingTwice(p) /\ Used(p) \subseteq Slots
      BY <1>2, <2>1, CallTyped, Typed DEF Used
    <3>2. RangeRecorded(p, a, k)
      BY <2>1, Zenon DEF AboutToModify, RangeRecorded
    <3>3. RangeHeld(p, a, k)
      BY ONLY <3>1, <3>2, p \in Procs, RangeAdded
    <3>4. Slot(p, a) \in Used(p) /\ mapped[p][Slot(p, a)].data = a
      BY <2>1, CallTyped, EntryIs
    <3>5. \A j \in Used(p) : mapped[p][j].data = a => j = Slot(p, a)
      BY <3>1, <3>4 DEF NothingTwice
    <3>. QED  BY <3>1, <3>3, <3>4, <3>5 DEF RangeHeld
  <2>2. CASE ~Registered(p, a)
    <3>1. mapped' = mapped
      BY <2>2 DEF AboutToModify
    <3>2. \A j \in Used(p) : mapped[p][j].data # a
      BY <2>2 DEF Registered
    <3>. QED  BY <3>1, <3>2
  <2>. QED  BY <2>1, <2>2
<1>5. Live(p)' = Live(p) /\ Kept(p)' = Kept(p) /\ Used(p)' = Used(p)
  BY <1>1 DEF Live, Kept, Used
<1>6. MappedWhole(p)'
  <2>1. \A b : Registered(p, b)' <=> Registered(p, b)
    BY <1>4, <1>5 DEF Registered
  <2>. QED  BY <1>1, <1>5, <2>1, DataTyped DEF MappedWhole
<1>7. DeclaredRanged(p)'
  <2>1. ASSUME NEW d \in trans'[p].declared, NEW i \in Used(p), mapped'[p][i].data = d[1]
        PROVE  d[2] \in ToSet(mapped'[p][i].ranges)
    <3>1. mapped[p][i].data = d[1]
      BY <1>4, <1>5, <2>1
    <3>2. CASE d \in trans[p].declared
      <4>1. d[2] \in ToSet(mapped[p][i].ranges)
        BY <3>1, <3>2, DataTyped DEF DeclaredRanged
      <4>2. CASE mapped[p][i].data = a
        BY <1>4, <4>1, <4>2
      <4>3. CASE mapped[p][i].data # a
        BY <1>4, <4>1, <4>3
      <4>. QED  BY <4>2, <4>3
    <3>3. CASE d \notin trans[p].declared
      <4>1. d[1] = a /\ d[2] = k
        BY <1>3, <3>3
      <4>. QED  BY <1>4, <3>1, <4>1
    <3>. QED  BY <3>2, <3>3
  <2>2. trans'[p].open
    <3>1. trans[p].bases # <<>>
      BY <1>1 DEF Contains
    <3>2. trans[p] # NoTrans
      BY <3>1 DEF NoTrans
    <3>. QED  BY <1>3, <3>2, DataTyped DEF DeclaredRanged
  <2>. QED  BY <1>5, <2>1, <2>2 DEF DeclaredRanged
<1>8. UndeclaredAgrees(p)'
  <2>1. \A b, j : InFile(p, b, j)' <=> InFile(p, b, j)
    BY <1>1 DEF InFile, Load
  <2>. QED  BY <1>1, <1>3, <1>5, <2>1, DataTyped DEF UndeclaredAgrees
<1>9. LeftToDo(p)' /\ CommitPromised(p)'
  BY <1>1, NothingLeft DEF Idle
<1>10. DataOf(p)'
  BY <1>6, <1>7, <1>8, <1>9 DEF DataOf
<1>11. \A q \in Procs \ {p} : SameFor(q)
  BY <1>1, <1>3, <1>4 DEF SameFor
<1>12. Exclusive'
  BY <1>1, <1>5, <1>11, FilesUntouched, StillExclusive
<1>. QED  BY <1>1, <1>10, <1>11, <1>12, FilesUntouched, DataOfStep

-----------------------------------------------------------------------------
(* The cells of one mapping change; files, tables and transactions do not. *)
LEMMA MemoryData ==
  ASSUME TableInv, TypeOK', DataInv, NEW p \in Procs, NEW a \in Live(p),
         NEW z \in Seq(Cells), Len(z) = Len(vm[p][a].cells),
         vm' = [vm EXCEPT ![p][a].cells = z],
         UNCHANGED <<dir, mapped, num_mapped, status, trans, promised, spoilt>>,
         \A q \in Procs \ {p} : SameFor(q),
         a \in Kept(p) => \A k \in 1 .. Len(z) :
           <<a, k>> \in trans[p].declared \/ InFile(p, a, k)',
         LeftToDo(p)', CommitPromised(p)'
  PROVE  DataInv'
<1>1. /\ Live(p)' = Live(p) /\ Live(p) \subseteq Addrs
      /\ \A b \in Addrs \ {a} : vm'[p][b] = vm[p][b]
      /\ \A b \in Addrs : /\ vm'[p][b].of = vm[p][b].of
                          /\ Len(vm'[p][b].cells) = Len(vm[p][b].cells)
  <2>1. TypeOK /\ LiveFits(p)
    BY CallTyped
  <2>2. /\ vm' \in [Procs -> [Addrs -> Mappings]]
        /\ \A q \in Procs \ {p} : vm'[q] = vm[q]
        /\ \A b \in Addrs \ {a} : vm'[p][b] = vm[p][b]
        /\ vm'[p][a].cells = z
        /\ \A b \in Addrs : /\ vm'[p][b].of = vm[p][b].of
                            /\ Len(vm'[p][b].cells) = Len(vm[p][b].cells)
        /\ Live(p)' = Live(p)
    BY ONLY <2>1, p \in Procs, a \in Live(p), z \in Seq(Cells),
            Len(z) = Len(vm[p][a].cells), vm' = [vm EXCEPT ![p][a].cells = z], MemoryIs
  <2>3. Live(p) \subseteq Addrs
    BY DEF Live
  <2>. QED  BY <2>2, <2>3
<1>2. Used(p)' = Used(p) /\ Kept(p)' = Kept(p)
  BY <1>1 DEF Used, Kept
<1>3. MappedWhole(p)'
  <2>1. \A b : Registered(p, b)' <=> Registered(p, b)
    BY <1>2 DEF Registered
  <2>. QED  BY <1>1, <1>2, <2>1, DataTyped DEF MappedWhole, Kept
<1>4. DeclaredRanged(p)'
  BY <1>2, DataTyped DEF DeclaredRanged
<1>5. UndeclaredAgrees(p)'
  <2>1. ASSUME NEW b \in Kept(p), NEW k \in 1 .. Len(vm[p][b].cells)
        PROVE  <<b, k>> \in trans[p].declared \/ InFile(p, b, k)'
    <3>1. CASE b = a
      BY <3>1
    <3>2. CASE b # a
      <4>1. InFile(p, b, k)' <=> InFile(p, b, k)
        BY <1>1, <3>2 DEF InFile, Load, Kept
      <4>. QED  BY <4>1, DataTyped DEF UndeclaredAgrees
    <3>. QED  BY <3>1, <3>2
  <2>. QED  BY <1>1, <1>2, <2>1 DEF UndeclaredAgrees, Kept
<1>6. DataOf(p)'
  BY <1>3, <1>4, <1>5 DEF DataOf
<1>7. Exclusive'
  <2>1. \A b \in Kept(p)' : b \in Kept(p) /\ vm'[p][b].of = vm[p][b].of
    BY <1>1, <1>2 DEF Kept
  <2>. QED  BY <2>1, FilesUntouched, StillExclusive
<1>. QED  BY <1>6, <1>7, FilesUntouched, DataOfStep

(* What a store does to the memory. *)
LEMMA StoreDoes ==
  ASSUME TableInv, NEW p \in Procs, NEW a \in Live(p), NEW k,
         NEW v \in Values, Store(p, a, k, v)
  PROVE  /\ Live(p)' = Live(p) /\ \A b \in Addrs \ {a} : vm'[p][b] = vm[p][b]
         /\ \E z \in Seq(Cells) :
              /\ vm' = [vm EXCEPT ![p][a].cells = z]
              /\ vm'[p][a].cells = z /\ vm'[p][a].of = vm[p][a].of
              /\ Len(z) = Len(vm[p][a].cells)
              /\ \A j \in 1 .. Len(z) : z[j] = IF j = k THEN v ELSE vm[p][a].cells[j]
<1>1. PICK z : z = [vm[p][a].cells EXCEPT ![k] = v]
  OBVIOUS
<1>2. PICK y \in Seq(Cells) : y = vm[p][a].cells
  BY CallTyped, Typed DEF Live
<1>3. /\ z \in Seq(Cells) /\ Len(z) = Len(y) /\ Len(y) \in Nat
      /\ \A j \in 1 .. Len(y) : z[j] = IF j = k THEN v ELSE y[j]
  <2>1. PICK n \in Nat : n = Len(y) /\ y \in [1 .. n -> Cells]
    BY <1>2
  <2>2. z \in [1 .. n -> Cells] /\ \A j \in 1 .. n : z[j] = IF j = k THEN v ELSE y[j]
    BY <1>1, <1>2, <2>1 DEF Cells
  <2>. QED  BY <2>1, <2>2
<1>4. vm' = [vm EXCEPT ![p][a].cells = z]
  <2>1. vm' = [vm EXCEPT ![p] = [vm[p] EXCEPT ![a] = [vm[p][a] EXCEPT !.cells =
                 [vm[p][a].cells EXCEPT ![k] = v]]]]
    BY Zenon DEF Store
  <2>. QED  BY <1>1, <2>1, Zenon
<1>5. a \in Addrs /\ TypeOK /\ LiveFits(p) /\ Len(z) = Len(vm[p][a].cells)
  BY <1>2, <1>3, CallTyped DEF Live
<1>6. /\ vm' \in [Procs -> [Addrs -> Mappings]]
      /\ \A q \in Procs \ {p} : vm'[q] = vm[q]
      /\ \A b \in Addrs \ {a} : vm'[p][b] = vm[p][b]
      /\ vm'[p][a].cells = z
      /\ \A b \in Addrs : /\ vm'[p][b].of = vm[p][b].of
                          /\ Len(vm'[p][b].cells) = Len(vm[p][b].cells)
      /\ Live(p)' = Live(p)
  BY ONLY <1>3, <1>4, <1>5, p \in Procs, a \in Live(p), MemoryIs
<1>. QED  BY <1>2, <1>3, <1>4, <1>5, <1>6

(* A store goes to a declared cell. *)
LEMMA StoreData ==
  ASSUME TableInv, TypeOK', DataInv, NEW p \in Procs, NEW a \in Live(p), NEW k,
         NEW v \in Values, Store(p, a, k, v)
  PROVE  DataInv'
<1>1. /\ UNCHANGED <<dir, mapped, num_mapped, status, trans, call, promised, spoilt,
                  undefined>>
      /\ ~undefined /\ call[p] = Idle /\ <<a, k>> \in trans[p].declared
  BY DEF Store, store, CanCall, Alive
<1>2. PICK z \in Seq(Cells) :
        /\ vm' = [vm EXCEPT ![p][a].cells = z]
        /\ vm'[p][a].cells = z /\ vm'[p][a].of = vm[p][a].of
        /\ Len(z) = Len(vm[p][a].cells)
        /\ \A j \in 1 .. Len(z) : z[j] = IF j = k THEN v ELSE vm[p][a].cells[j]
  BY StoreDoes
<1>3. ASSUME a \in Kept(p), NEW j \in 1 .. Len(z)
      PROVE  <<a, j>> \in trans[p].declared \/ InFile(p, a, j)'
  <2>1. CASE j = k
    BY <1>1, <2>1
  <2>2. CASE j # k
    <3>1. InFile(p, a, j)' <=> InFile(p, a, j)
      BY <1>1, <1>2, <2>2 DEF InFile, Load
    <3>. QED  BY <1>2, <1>3, <3>1, DataTyped DEF UndeclaredAgrees
  <2>. QED  BY <2>1, <2>2
<1>4. LeftToDo(p)' /\ CommitPromised(p)'
  BY <1>1, NothingLeft DEF Idle
<1>5. \A q \in Procs \ {p} : SameFor(q)
  <2>1. TypeOK /\ LiveFits(p)
    BY CallTyped
  <2>2. \A q \in Procs \ {p} : vm'[q] = vm[q]
    BY <1>2, <2>1, MemoryIs
  <2>. QED  BY <1>1, <2>2 DEF SameFor
<1>. QED  BY <1>1, <1>2, <1>3, <1>4, <1>5, MemoryData

(* What reading a segment back does to the memory. *)
LEMMA AbortSegmentDoes ==
  ASSUME TableInv, NEW p \in Procs, AbortSegment(p)
  PROVE  \E a \in Live(p), z \in Seq(Cells) :
           /\ call'[p].op = "abort"
           /\ ToSet(call[p].todo) = ToSet(call'[p].todo) \cup {a}
           /\ vm' = [vm EXCEPT ![p][a].cells = z]
           /\ vm'[p][a].cells = z /\ vm'[p][a].of = vm[p][a].of
           /\ Len(z) = Len(vm[p][a].cells)
           /\ \A k \in 1 .. Len(z) : z[k] = dir[vm[p][a].of][k] /\ z[k] # Shared
           /\ Live(p)' = Live(p) /\ \A b \in Addrs \ {a} : vm'[p][b] = vm[p][b]
<1>1. PICK a : a = Head(call[p].todo)
  OBVIOUS
<1>2. /\ call[p].op = "abort" /\ call[p].todo # <<>> /\ ~undefined
      /\ call' = [call EXCEPT ![p].todo = Tail(call[p].todo)]
      /\ UNCHANGED <<dir, mapped, num_mapped, status, trans, promised, spoilt, undefined>>
  BY DEF AbortSegment, Inside, Alive
<1>3. call'[p].op = "abort" /\ call'[p].todo = Tail(call[p].todo)
  <2>1. call' = [call EXCEPT ![p] = [op |-> call[p].op, todo |-> Tail(call[p].todo)]]
    BY <1>2, CallTyped, TodoNext
  <2>2. call'[p] = [op |-> call[p].op, todo |-> Tail(call[p].todo)]
    BY <2>1, CallTyped DEF TypeOK
  <2>. QED  BY <1>2, <2>2
<1>4. PICK todo \in Seq(Addrs) : todo = call[p].todo
  BY <1>2, CallTyped DEF TypeOK
<1>5. ToSet(call[p].todo) = ToSet(call'[p].todo) \cup {a}
  BY <1>1, <1>2, <1>3, <1>4, HeadAndTail
<1>6. Registered(p, a)
  BY <1>2, <1>5, CallTyped DEF TodoKnown, Doable
<1>7. PICK e : e = Entry(p, a)
  OBVIOUS
<1>8. /\ a \in Live(p) /\ a \in Addrs /\ e.name \in Segs /\ e.name = vm[p][a].of
      /\ e.size \in Nat /\ e.size = Len(vm[p][a].cells)
      /\ e.size <= Len(dir[e.name])
  <2>1. /\ a \in Live(p) /\ a \in Addrs /\ e.name \in Segs /\ e.name = vm[p][a].of
        /\ e.size \in Nat /\ e.size = Len(vm[p][a].cells)
    BY <1>6, <1>7, CallTyped, EntryIs
  <2>2. e.size <= Len(dir[e.name])
    BY <2>1, CallTyped DEF LiveFits
  <2>. QED  BY <2>1, <2>2
<1>9. PICK y \in Seq(Cells) : y = vm[p][a].cells
  BY <1>8, CallTyped, Typed
<1>10. PICK d \in Seq(Values) : d = dir[e.name]
  BY <1>8, CallTyped
<1>11. PICK z : z = [k \in DOMAIN y |-> IF k <= e.size THEN d[k] ELSE y[k]]
  OBVIOUS
<1>12. /\ z \in Seq(Cells) /\ Len(z) = Len(y)
       /\ \A k \in 1 .. Len(y) : z[k] = d[k] /\ z[k] # Shared
  <2>1. PICK n \in Nat : n = Len(y) /\ n = e.size /\ n <= Len(d) /\ DOMAIN y = 1 .. n
    <3>1. Len(y) = e.size /\ e.size <= Len(d)
      BY <1>8, <1>9, <1>10
    <3>2. DOMAIN y = 1 .. Len(y) /\ Len(y) \in Nat
      OBVIOUS
    <3>. QED  BY <3>1, <3>2
  <2>2. \A k \in 1 .. n : z[k] = d[k] /\ z[k] \in Values
    <3>1. \A k \in 1 .. n : z[k] = d[k]
      BY <1>11, <2>1
    <3>2. \A k \in 1 .. Len(d) : d[k] \in Values
      OBVIOUS
    <3>3. Len(d) \in Nat /\ \A k \in 1 .. n : k \in 1 .. Len(d)
      BY <2>1
    <3>. QED  BY <3>1, <3>2, <3>3
  <2>3. z \in [1 .. n -> Cells]
    BY <1>11, <2>1, <2>2 DEF Cells
  <2>4. z \in Seq(Cells) /\ Len(z) = n
    BY <2>1, <2>3
  <2>5. \A k \in 1 .. n : z[k] = d[k] /\ z[k] # Shared
    BY <2>2, RvmAssumption
  <2>. QED  BY <2>1, <2>4, <2>5
<1>13. vm' = [vm EXCEPT ![p][a].cells = z]
  <2>1. vm' = [vm EXCEPT ![p] = [vm[p] EXCEPT ![a] = [vm[p][a] EXCEPT !.cells =
                 [k \in DOMAIN vm[p][a].cells |->
                    IF k <= Entry(p, a).size THEN dir[Entry(p, a).name][k]
                    ELSE vm[p][a].cells[k]]]]]
    BY <1>1, Zenon DEF AbortSegment
  <2>2. z = [k \in DOMAIN vm[p][a].cells |->
               IF k <= Entry(p, a).size THEN dir[Entry(p, a).name][k]
               ELSE vm[p][a].cells[k]]
    BY <1>7, <1>9, <1>10, <1>11, Zenon
  <2>. QED  BY <2>1, <2>2, Zenon
<1>14. Len(z) = Len(vm[p][a].cells) /\ TypeOK /\ LiveFits(p)
  BY <1>9, <1>12, CallTyped
<1>15. /\ vm' \in [Procs -> [Addrs -> Mappings]]
       /\ \A q \in Procs \ {p} : vm'[q] = vm[q]
       /\ \A b \in Addrs \ {a} : vm'[p][b] = vm[p][b]
       /\ vm'[p][a].cells = z
       /\ \A b \in Addrs : /\ vm'[p][b].of = vm[p][b].of
                           /\ Len(vm'[p][b].cells) = Len(vm[p][b].cells)
       /\ Live(p)' = Live(p)
  BY ONLY p \in Procs, <1>8, <1>12, <1>13, <1>14, MemoryIs
<1>16. \A k \in 1 .. Len(z) : z[k] = dir[vm[p][a].of][k] /\ z[k] # Shared
  BY <1>8, <1>10, <1>12
<1>. QED  BY <1>3, <1>5, <1>8, <1>12, <1>13, <1>14, <1>15, <1>16

(* A segment read back is what is in the file. *)
LEMMA AbortSegmentData ==
  ASSUME TableInv, TypeOK', DataInv, NEW p \in Procs, AbortSegment(p)
  PROVE  DataInv'
<1>1. /\ call[p].op = "abort" /\ ~undefined
      /\ UNCHANGED <<dir, mapped, num_mapped, status, trans, promised, spoilt, undefined>>
  BY DEF AbortSegment, Inside, Alive
<1>2. PICK a \in Live(p), z \in Seq(Cells) :
        /\ call'[p].op = "abort"
        /\ ToSet(call[p].todo) = ToSet(call'[p].todo) \cup {a}
        /\ vm' = [vm EXCEPT ![p][a].cells = z]
        /\ vm'[p][a].cells = z /\ vm'[p][a].of = vm[p][a].of
        /\ Len(z) = Len(vm[p][a].cells)
        /\ \A k \in 1 .. Len(z) : z[k] = dir[vm[p][a].of][k] /\ z[k] # Shared
        /\ Live(p)' = Live(p) /\ \A b \in Addrs \ {a} : vm'[p][b] = vm[p][b]
  BY AbortSegmentDoes
<1>3. ASSUME NEW k \in 1 .. Len(z) PROVE InFile(p, a, k)'
  BY <1>1, <1>2 DEF InFile, Load
<1>4. LeftToDo(p)'
  <2>1. ASSUME NEW t \in trans[p].declared, t[1] \in Kept(p)
        PROVE  t[1] \in ToSet(call'[p].todo) \/ InFile(p, t[1], t[2])'
    <3>1. t[1] \in Live(p) /\ t[1] \in Addrs /\ t[2] \in 1 .. Len(vm[p][t[1]].cells)
      BY DataTyped
    <3>2. CASE t[1] = a
      BY <1>2, <1>3, <3>1, <3>2
    <3>3. CASE t[1] # a
      <4>1. t[1] \in ToSet(call'[p].todo) \/ InFile(p, t[1], t[2])
        BY <1>1, <1>2, <2>1, <3>3, DataTyped DEF LeftToDo
      <4>2. InFile(p, t[1], t[2])' <=> InFile(p, t[1], t[2])
        BY <1>1, <1>2, <3>1, <3>3 DEF InFile, Load
      <4>. QED  BY <4>1, <4>2
    <3>. QED  BY <3>2, <3>3
  <2>2. Kept(p)' = Kept(p)
    BY <1>1, <1>2 DEF Kept, Live
  <2>. QED  BY <1>1, <1>2, <2>1, <2>2 DEF LeftToDo
<1>5. CommitPromised(p)'
  BY <1>2 DEF CommitPromised
<1>6. \A q \in Procs \ {p} : SameFor(q)
  BY <1>1, CallTyped, OthersSame DEF Undefined, Transaction
<1>. QED  BY <1>1, <1>2, <1>3, <1>4, <1>5, <1>6, MemoryData

(* What writing a range does: the file gets what memory has there, at its place
   from the end, which is its place, and nothing that p reads changes. *)
Writing(p, a, k, s, v, f, g) ==
  /\ s = vm[p][a].of /\ k \in 1 .. Len(f) /\ v = Load(p, a, k)
  /\ \E h : /\ ToSet(call[p].todo) = ToSet(call'[p].todo) \cup {h}
           /\ a = h[1] /\ k = h[2]
  /\ f = dir[s] /\ Len(f) = Len(vm[p][a].cells)
  /\ g = [f EXCEPT ![k] = v] /\ Len(g) = Len(f)
  /\ g[k] = v /\ \A j \in 1 .. Len(f) : j # k => g[j] = f[j]
  /\ dir' = [dir EXCEPT ![s] = g]
  /\ dir'[s] = g /\ \A t \in Segs \ {s} : dir'[t] = dir[t]
  /\ \A b \in Live(p) : \A j \in 1 .. Len(vm[p][b].cells) :
       /\ Load(p, b, j)' = Load(p, b, j)
       /\ InFile(p, b, j) => InFile(p, b, j)'
       /\ b = a /\ j = k => InFile(p, b, j)'

(* The range is of a mapping that is registered, and its file is the only one to
   change. *)
WriteAt(p, h, a, k, s, n) ==
  /\ a = h[1] /\ k = h[2] /\ s = vm[p][a].of /\ n = Len(vm[p][a].cells)
  /\ a \in Live(p) /\ a \in Addrs /\ s \in Segs /\ n \in Nat /\ k \in 1 .. n
  /\ ToSet(call[p].todo) = ToSet(call'[p].todo) \cup {h}
  /\ dir' = [dir EXCEPT ![s] = [dir[s] EXCEPT ![Len(dir[s]) - n + k] = Load(p, a, k)]]
  /\ \A t \in Segs \ {s} : dir'[t] = dir[t]

LEMMA WriteRangeHead ==
  ASSUME TableInv, NEW p \in Procs, WriteRange(p), ~Undefined
  PROVE  /\ call[p].op = "commit" /\ call'[p].op = "commit"
         /\ UNCHANGED <<mapped, num_mapped, vm, status, undefined, promised, spoilt,
                       trans>>
         /\ Live(p)' = Live(p) /\ Kept(p)' = Kept(p) /\ Used(p)' = Used(p)
         /\ \E h, a, k, s, n : WriteAt(p, h, a, k, s, n)
<1>1. PICK h : h = Head(call[p].todo)
  OBVIOUS
<1>2. PICK a, k : a = h[1] /\ k = h[2]
  OBVIOUS
<1>3. /\ call[p].op = "commit" /\ call[p].todo # <<>> /\ k # LogIt
  BY <1>1, <1>2 DEF WriteRange, Inside
<1>4. /\ k # Garbage
      /\ dir' = [dir EXCEPT ![Entry(p, a).name]
                   [Len(dir[Entry(p, a).name]) - Entry(p, a).size + k] = Load(p, a, k)]
      /\ call' = [call EXCEPT ![p].todo = Tail(call[p].todo)]
      /\ UNCHANGED <<mapped, num_mapped, vm, status, undefined, promised, spoilt, trans>>
  BY <1>1, <1>2 DEF WriteRange, table
<1>5. call'[p].op = "commit" /\ call'[p].todo = Tail(call[p].todo)
  <2>1. call' = [call EXCEPT ![p] = [op |-> call[p].op, todo |-> Tail(call[p].todo)]]
    BY <1>4, CallTyped, TodoNext
  <2>2. call'[p] = [op |-> call[p].op, todo |-> Tail(call[p].todo)]
    BY <2>1, CallTyped DEF TypeOK
  <2>. QED  BY <1>3, <2>2
<1>6. ToSet(call[p].todo) = ToSet(call'[p].todo) \cup {h}
  <2>1. PICK todo \in Seq(Writeables) : todo = call[p].todo
    BY <1>3, CallTyped DEF TypeOK, Writeables
  <2>. QED  BY <1>1, <1>3, <1>5, <2>1, HeadAndTail
<1>7. Registered(p, a) /\ k \in 1 .. Entry(p, a).size
  BY <1>2, <1>3, <1>4, <1>6, CallTyped DEF TodoKnown, Doable
<1>8. PICK s, n : s = vm[p][a].of /\ n = Len(vm[p][a].cells)
  OBVIOUS
<1>9. /\ a \in Live(p) /\ a \in Addrs /\ s \in Segs /\ Entry(p, a).name = s
      /\ n \in Nat /\ Entry(p, a).size = n /\ k \in 1 .. n
  BY <1>7, <1>8, CallTyped, EntryIs
<1>10. dir' = [dir EXCEPT ![s] = [dir[s] EXCEPT ![Len(dir[s]) - n + k] = Load(p, a, k)]]
  BY <1>4, <1>9, Zenon
<1>11. \A t \in Segs \ {s} : dir'[t] = dir[t]
  <2>1. PICK g : dir' = [dir EXCEPT ![s] = g]
    BY <1>10
  <2>. QED  BY <1>9, <2>1, CallTyped
<1>12. WriteAt(p, h, a, k, s, n)
  BY <1>2, <1>6, <1>8, <1>9, <1>10, <1>11, Zenon DEF WriteAt
<1>13. Live(p)' = Live(p) /\ Kept(p)' = Kept(p) /\ Used(p)' = Used(p)
  BY <1>4 DEF Live, Kept, Used
<1>. QED  BY <1>3, <1>4, <1>5, <1>12, <1>13

LEMMA WriteRangeDoes ==
  ASSUME TableInv, DataInv, NEW p \in Procs, UNCHANGED <<vm, trans>>,
         NEW h, NEW a, NEW k, NEW s, NEW n, WriteAt(p, h, a, k, s, n), s \notin spoilt
  PROVE  \E v \in Values, f \in Seq(Values), g \in Seq(Values) :
           Writing(p, a, k, s, v, f, g)
<1>1. s = vm[p][a].of /\ n = Len(vm[p][a].cells)
  BY DEF WriteAt
<1>2. a \in Live(p) /\ a \in Addrs /\ s \in Segs /\ n \in Nat /\ k \in 1 .. n /\ a \in Kept(p)
  BY DEF WriteAt, Kept
<1>3. PICK f \in Seq(Values) : f = dir[s] /\ Len(f) = n
  BY <1>1, <1>2, CallTyped, DataTyped DEF MappedWhole
<1>4. PICK v \in Values : v = Load(p, a, k)
  BY <1>1, <1>2, CallTyped, LoadTyped
<1>5. PICK g : g = [f EXCEPT ![k] = v]
  OBVIOUS
<1>6. /\ g \in Seq(Values) /\ Len(g) = n /\ g[k] = v
      /\ \A j \in 1 .. n : j # k => g[j] = f[j]
  <2>1. f \in [1 .. n -> Values]
    BY <1>3
  <2>2. g \in [1 .. n -> Values] /\ g[k] = v /\ \A j \in 1 .. n : j # k => g[j] = f[j]
    BY <1>2, <1>5, <2>1
  <2>. QED  BY <1>2, <2>2
<1>7. /\ dir' = [dir EXCEPT ![s] = g] /\ dir'[s] = g
      /\ \A t \in Segs \ {s} : dir'[t] = dir[t]
  <2>1. Len(f) - n + k = k
    BY <1>2, <1>3
  <2>2. dir' = [dir EXCEPT ![s] = [dir[s] EXCEPT ![Len(dir[s]) - n + k] = v]]
    BY <1>4, Zenon DEF WriteAt
  <2>3. dir' = [dir EXCEPT ![s] = g]
    BY <1>3, <1>5, <2>1, <2>2, Zenon
  <2>. QED  BY <1>2, <2>3, CallTyped
(* What p reads stays the same, and there is one difference less to the file. *)
<1>8. ASSUME NEW b \in Live(p), NEW j \in 1 .. Len(vm[p][b].cells)
      PROVE  /\ Load(p, b, j)' = Load(p, b, j)
             /\ InFile(p, b, j) => InFile(p, b, j)'
             /\ b = a /\ j = k => InFile(p, b, j)'
  <2>1. CASE vm[p][b].of = s
    <3>1. b = a
      BY <1>1, <1>2, <2>1, DataTyped, OneMapping
    <3>2. CASE j = k
      <4>1. Load(p, a, k)' = v
        <5>1. CASE vm[p][a].cells[k] = Shared
          BY <1>1, <1>6, <1>7, <5>1 DEF Load
        <5>2. CASE vm[p][a].cells[k] # Shared
          BY <1>4, <5>2 DEF Load
        <5>. QED  BY <5>1, <5>2
      <4>2. dir'[vm'[p][a].of][k] = v
        BY <1>1, <1>6, <1>7
      <4>. QED  BY <1>4, <3>1, <3>2, <4>1, <4>2 DEF InFile
    <3>3. CASE j # k
      <4>1. g[j] = f[j]
        BY <1>1, <1>6, <3>1, <3>3
      <4>2. dir'[s][j] = dir[s][j]
        BY <1>3, <1>7, <4>1
      <4>. QED  BY <2>1, <3>3, <4>2 DEF InFile, Load
    <3>. QED  BY <3>2, <3>3
  <2>2. CASE vm[p][b].of # s
    <3>1. vm[p][b].of \in Segs \ {s} /\ b # a
      BY <1>1, <2>2, CallTyped DEF LiveFits
    <3>. QED  BY <1>7, <3>1 DEF InFile, Load
  <2>. QED  BY <2>1, <2>2
<1>9. \E x : /\ ToSet(call[p].todo) = ToSet(call'[p].todo) \cup {x}
             /\ a = x[1] /\ k = x[2]
  BY DEF WriteAt
<1>10. Len(f) = n /\ Len(g) = n /\ n = Len(vm[p][a].cells)
  BY <1>1, <1>3, <1>6
<1>11. Writing(p, a, k, s, v, f, g)
  BY <1>1, <1>2, <1>3, <1>4, <1>5, <1>6, <1>7, <1>8, <1>9, <1>10, Zenon DEF Writing
<1>. QED  BY <1>3, <1>4, <1>6, <1>11, Zenon

(* A write of rvm_commit_trans: the cell of the file is then the one in memory,
   which is what was promised of it, or what it was. *)
LEMMA WriteRangeKept ==
  ASSUME TableInv, TypeOK', DataInv, NEW p \in Procs, WriteRange(p), ~Undefined,
         NEW a, NEW k, NEW s, NEW h, NEW m, WriteAt(p, h, a, k, s, m), s \notin spoilt
  PROVE  DataInv'
<1>1. /\ call[p].op = "commit" /\ call'[p].op = "commit"
      /\ UNCHANGED <<mapped, num_mapped, vm, status, undefined, promised, spoilt, trans>>
      /\ Live(p)' = Live(p) /\ Kept(p)' = Kept(p) /\ Used(p)' = Used(p)
  BY WriteRangeHead
<1>2. PICK v \in Values, f \in Seq(Values), g \in Seq(Values) :
        Writing(p, a, k, s, v, f, g)
  BY <1>1, WriteRangeDoes
<1>3. PICK n \in Nat :
        /\ a \in Kept(p) /\ s \in Segs /\ s = vm[p][a].of /\ n = Len(vm[p][a].cells) /\ k \in 1 .. n
        /\ f = dir[s] /\ Len(f) = n /\ v = Load(p, a, k) /\ dir'[s] = g
        /\ Len(g) = n /\ g[k] = v /\ \A j \in 1 .. n : j # k => g[j] = f[j]
        /\ \A t \in Segs \ {s} : dir'[t] = dir[t]
  <2>1. /\ s = vm[p][a].of /\ k \in 1 .. Len(f) /\ v = Load(p, a, k)
        /\ f = dir[s] /\ Len(f) = Len(vm[p][a].cells)
        /\ Len(g) = Len(f) /\ g[k] = v /\ \A j \in 1 .. Len(f) : j # k => g[j] = f[j]
        /\ dir'[s] = g /\ \A t \in Segs \ {s} : dir'[t] = dir[t]
    BY <1>2, Zenon DEF Writing
  <2>2. a \in Kept(p) /\ s \in Segs
    BY DEF WriteAt, Kept
  <2>3. PICK n \in Nat : n = Len(f)
    OBVIOUS
  <2>. QED  BY <2>1, <2>2, <2>3
<1>4. /\ \E x : /\ ToSet(call[p].todo) = ToSet(call'[p].todo) \cup {x}
               /\ a = x[1] /\ k = x[2]
      /\ \A b \in Live(p) : \A j \in 1 .. Len(vm[p][b].cells) :
           /\ Load(p, b, j)' = Load(p, b, j)
           /\ InFile(p, b, j) => InFile(p, b, j)'
           /\ b = a /\ j = k => InFile(p, b, j)'
  BY <1>2 DEF Writing
<1>5. MappedWhole(p)'
  <2>1. \A b : Registered(p, b)' <=> Registered(p, b)
    BY <1>1 DEF Registered
  <2>2. ASSUME NEW b \in Kept(p) PROVE Len(dir'[vm[p][b].of]) = Len(vm[p][b].cells)
    <3>1. vm[p][b].of \in Segs /\ Len(dir[vm[p][b].of]) = Len(vm[p][b].cells)
      BY CallTyped, DataTyped DEF LiveFits, MappedWhole, Kept
    <3>. QED  BY <1>3, <3>1
  <2>. QED  BY <1>1, <2>1, <2>2, DataTyped DEF MappedWhole
<1>6. DeclaredRanged(p)'
  BY <1>1, DataTyped DEF DeclaredRanged
<1>7. UndeclaredAgrees(p)'
  BY <1>1, <1>4, DataTyped DEF UndeclaredAgrees, Kept
<1>8. LeftToDo(p)'
  <2>1. ASSUME NEW d \in trans[p].declared, d[1] \in Kept(p)
        PROVE  d \in ToSet(call'[p].todo) \/ InFile(p, d[1], d[2])'
    <3>1. /\ d[1] \in Live(p) /\ d[2] \in 1 .. Len(vm[p][d[1]].cells)
          /\ d \in ToSet(call[p].todo) \/ InFile(p, d[1], d[2])
      BY <1>1, <2>1, DataTyped DEF LeftToDo
    <3>. QED  BY <1>4, <3>1
  <2>. QED  BY <1>1, <2>1 DEF LeftToDo
<1>9. CommitPromised(p)'
  <2>1. ASSUME NEW b \in Live(p), NEW j, <<b, j>> \in trans[p].declared
        PROVE  Load(p, b, j)' = Load(p, b, j)
    <3>1. <<b, j>>[1] = b /\ <<b, j>>[2] = j
      OBVIOUS
    <3>2. j \in 1 .. Len(vm[p][b].cells)
      BY <2>1, <3>1, DataTyped
    <3>. QED  BY <1>4, <3>2
  <2>2. ASSUME NEW t, NEW c PROVE Promise(p, t, c)' = Promise(p, t, c)
    BY <1>1, <2>1, PromiseSame
  <2>. QED  BY <1>1, <2>2, DataTyped DEF CommitPromised
<1>10. FilePromised(s)'
  <2>0. /\ promised[s] # {} /\ promised[s] \subseteq Seq(Values)
        /\ \A c \in promised[s] : Len(c) = n
        /\ \A j \in 1 .. n : \E c \in promised[s] : f[j] = c[j]
    <3>1. s \in Segs \ spoilt /\ dir[s] = f /\ Len(f) = n
      BY <1>3
    <3>2. FilePromised(s) /\ promised[s] \subseteq Seq(Values)
      BY <3>1, CallTyped DEF DataInv, TypeOK
    <3>. QED  BY <3>1, <3>2 DEF FilePromised
  <2>1. \E c \in promised[s] : v = c[k]
    <3>1. CASE <<a, k>> \in trans[p].declared
      <4>1. PICK c \in promised[s] : TRUE
        BY <2>0
      <4>2. Promise(p, s, c) \in promised[s]
        BY <1>1, <1>3, DataTyped DEF CommitPromised
      <4>3. c \in Seq(Values) /\ k \in 1 .. Len(c) /\ MappedWhole(p)
        BY <1>3, <2>0, DataTyped
      <4>4. Promise(p, s, c)[k] = Load(p, a, k)
        BY <1>3, <3>1, <4>3, PromiseIs
      <4>. QED  BY <1>3, <4>2, <4>4
    <3>2. CASE <<a, k>> \notin trans[p].declared
      <4>1. InFile(p, a, k)
        BY <1>3, <3>2, DataTyped DEF UndeclaredAgrees
      <4>2. v = f[k]
        BY <1>3, <4>1 DEF InFile
      <4>. QED  BY <1>3, <2>0, <4>2
    <3>. QED  BY <3>1, <3>2
  <2>2. ASSUME NEW j \in 1 .. n PROVE \E c \in promised[s] : g[j] = c[j]
    <3>1. g[k] = v /\ \A i \in 1 .. n : i # k => g[i] = f[i]
      BY <1>3
    <3>. QED  BY <2>0, <2>1, <3>1
  <2>3. dir'[s] = g /\ Len(g) = n /\ promised' = promised
    BY <1>1, <1>3
  <2>. QED  BY <2>0, <2>2, <2>3 DEF FilePromised
<1>11. \A t \in Segs \ spoilt' : FilePromised(t)'
  <2>1. ASSUME NEW t \in Segs \ spoilt, t # s PROVE FilePromised(t)'
    <3>1. promised'[t] = promised[t] /\ dir'[t] = dir[t]
      BY <1>1, <1>3, <2>1
    <3>. QED  BY <3>1 DEF DataInv, FilePromised
  <2>. QED  BY <1>1, <1>10, <2>1
<1>12. ASSUME NEW q \in Procs \ {p} PROVE SameFiles(q)
  <2>1. ASSUME NEW b \in Live(q), vm[q][b].of \notin spoilt
        PROVE  vm[q][b].of \in Segs \ {s}
    BY <1>3, <2>1, CallTyped, DataTyped DEF Exclusive, LiveFits, Kept
  <2>. QED  BY <1>1, <1>3, <2>1 DEF SameFiles
<1>13. \A q \in Procs \ {p} : SameFor(q)
  BY CallTyped, OthersSame DEF Transaction
<1>14. DataOf(p)'
  BY <1>5, <1>6, <1>7, <1>8, <1>9 DEF DataOf
<1>15. Exclusive'
  <2>1. \A b \in Kept(p)' : b \in Kept(p) /\ vm'[p][b].of = vm[p][b].of
    BY <1>1
  <2>. QED  BY <1>12, <1>13, <2>1, StillExclusive
<1>. QED  BY <1>11, <1>12, <1>13, <1>14, <1>15, DataOfStep

(* A write to the file of a spoilt segment, wherever it goes, is to no other. *)
LEMMA WriteRangeLost ==
  ASSUME TableInv, TypeOK', DataInv, NEW p \in Procs, WriteRange(p), ~Undefined,
         NEW a, NEW k, NEW s, NEW h, NEW m, WriteAt(p, h, a, k, s, m), s \in spoilt
  PROVE  DataInv'
<1>1. /\ call[p].op = "commit" /\ call'[p].op = "commit"
      /\ UNCHANGED <<mapped, num_mapped, vm, status, undefined, promised, spoilt, trans>>
      /\ Live(p)' = Live(p) /\ Kept(p)' = Kept(p) /\ Used(p)' = Used(p)
  BY WriteRangeHead
<1>2. /\ a \in Live(p) /\ s = vm[p][a].of /\ a = h[1]
      /\ ToSet(call[p].todo) = ToSet(call'[p].todo) \cup {h}
      /\ \A t \in Segs \ {s} : dir'[t] = dir[t]
  BY DEF WriteAt
<1>3. \A q \in Procs : SameFiles(q)
  <2>1. ASSUME NEW q \in Procs, NEW b \in Live(q), vm[q][b].of \notin spoilt
        PROVE  vm[q][b].of \in Segs \ {s}
    BY <2>1, CallTyped DEF LiveFits
  <2>. QED  BY <1>1, <1>2, <2>1 DEF SameFiles
<1>4. ASSUME NEW b \in Kept(p)
      PROVE  /\ dir'[vm[p][b].of] = dir[vm[p][b].of] /\ b \in Live(p)
             /\ \A j : Load(p, b, j)' = Load(p, b, j)
             /\ \A j : InFile(p, b, j)' <=> InFile(p, b, j)
  <2>1. dir'[vm[p][b].of] = dir[vm[p][b].of] /\ b \in Live(p)
    BY <1>1, <1>3 DEF Kept, SameFiles
  <2>. QED  BY <1>1, <2>1 DEF Load, InFile
<1>5. MappedWhole(p)'
  <2>1. \A b : Registered(p, b)' <=> Registered(p, b)
    BY <1>1 DEF Registered
  <2>. QED  BY <1>1, <1>4, <2>1, DataTyped DEF MappedWhole
<1>6. DeclaredRanged(p)'
  BY <1>1, DataTyped DEF DeclaredRanged
<1>7. UndeclaredAgrees(p)'
  BY <1>1, <1>4, DataTyped DEF UndeclaredAgrees
<1>8. LeftToDo(p)'
  <2>1. ASSUME NEW d \in trans[p].declared, d[1] \in Kept(p)
        PROVE  d \in ToSet(call'[p].todo) \/ InFile(p, d[1], d[2])'
    <3>1. d \in ToSet(call[p].todo) \/ InFile(p, d[1], d[2])
      BY <1>1, <2>1, DataTyped DEF LeftToDo
    <3>2. d # h
      BY <1>2, <2>1 DEF Kept
    <3>. QED  BY <1>2, <1>4, <2>1, <3>1, <3>2
  <2>. QED  BY <1>1, <2>1 DEF LeftToDo
<1>9. CommitPromised(p)'
  <2>1. ASSUME NEW t \in Segs \ spoilt, NEW c PROVE Promise(p, t, c)' = Promise(p, t, c)
    <3>1. ASSUME NEW b \in Live(p), NEW j, vm[p][b].of = t
          PROVE  Load(p, b, j)' = Load(p, b, j)
      BY <1>4, <3>1 DEF Kept
    <3>. QED  BY <1>1, <3>1, PromiseSame
  <2>. QED  BY <1>1, <2>1, DataTyped DEF CommitPromised
<1>10. \A t \in Segs \ spoilt' : FilePromised(t)'
  <2>1. ASSUME NEW t \in Segs \ spoilt PROVE FilePromised(t)'
    <3>1. promised'[t] = promised[t] /\ dir'[t] = dir[t]
      BY <1>1, <1>2, <2>1
    <3>. QED  BY <2>1, <3>1 DEF DataInv, FilePromised
  <2>. QED  BY <1>1, <2>1
<1>11. \A q \in Procs \ {p} : SameFor(q)
  BY CallTyped, OthersSame DEF Transaction
<1>12. DataOf(p)'
  BY <1>5, <1>6, <1>7, <1>8, <1>9 DEF DataOf
<1>13. Exclusive'
  <2>1. \A b \in Kept(p)' : b \in Kept(p) /\ vm'[p][b].of = vm[p][b].of
    BY <1>1
  <2>. QED  BY <1>3, <1>11, <2>1, StillExclusive
<1>. QED  BY <1>3, <1>10, <1>11, <1>12, <1>13, DataOfStep

LEMMA WriteRangeData ==
  ASSUME TableInv, TypeOK', DataInv, NEW p \in Procs, WriteRange(p), ~Undefined
  PROVE  DataInv'
<1>1. PICK h, a, k, s, n : WriteAt(p, h, a, k, s, n)
  BY WriteRangeHead
<1>. QED  BY <1>1, WriteRangeKept, WriteRangeLost

-----------------------------------------------------------------------------
(* Undefined behaviour, and steps of nothing, leave the data as it is. *)
LEMMA NoStepData ==
  ASSUME TableInv, TypeOK', DataInv, Undefined \/ UNCHANGED vars
  PROVE  DataInv'
<1>1. UNCHANGED <<dir, status, mapped, num_mapped, vm, trans, call, promised, spoilt>>
  BY DEF Undefined, vars, store, table
<1>2. \A q \in Procs : SameFor(q) /\ SameFiles(q)
  BY <1>1, FilesUntouched DEF SameFor
<1>3. \A q \in Procs : DataOf(q)'
  BY <1>2, OthersData
<1>4. Exclusive'
  BY <1>1 DEF DataInv, Exclusive, Kept, Live
<1>. QED  BY <1>1, <1>3, <1>4, FilesUntouched DEF DataInv

(* Nothing is mapped, and every file may hold what it holds. *)
LEMMA InitData == Init => DataInv
<1> SUFFICES ASSUME Init PROVE DataInv
  OBVIOUS
<1>1. ASSUME NEW p \in Procs PROVE DataOf(p)
  <2>1. Live(p) = {} /\ trans[p] = NoTrans /\ trans[p].declared = {} /\ call[p].op = "none"
    BY DEF Init, Live, NoTrans, Idle
  <2>2. Kept(p) = {}
    BY <2>1 DEF Kept
  <2>. QED
    BY <2>1, <2>2
       DEF DataOf, MappedWhole, DeclaredRanged, UndeclaredAgrees, LeftToDo, CommitPromised
<1>2. ASSUME NEW s \in Segs PROVE FilePromised(s)
  <2>1. dir[s] = <<>> /\ promised[s] = {<<>>}
    BY DEF Init
  <2>2. Len(<<>>) = 0 /\ 1 .. 0 = {}
    OBVIOUS
  <2>. QED  BY <2>1, <2>2 DEF FilePromised
<1>3. Exclusive
  BY DEF Exclusive, Kept, Live, Init
<1>. QED  BY <1>1, <1>2, <1>3 DEF DataInv

(* No step breaks the data invariant. *)
LEMMA StepData ==
  TableInv /\ TableInv' /\ DataInv /\ [Next]_vars => DataInv'
<1> SUFFICES ASSUME TableInv, TableInv', DataInv, [Next]_vars
             PROVE  DataInv'
  OBVIOUS
<1>0. TypeOK'
  BY DEF TableInv
<1>1. ASSUME NEW p \in Procs, Mapping(p) PROVE DataInv'
  <2>1. ASSUME NEW s \in Segs, NEW n \in Sizes, NEW a \in Addrs, Map(p, s, n, a)
        PROVE  DataInv'
    <3>1. CASE Undefined
      BY <1>0, <3>1, NoStepData
    <3>2. CASE ~Undefined
      BY <2>1, <3>2, MapData
    <3>. QED  BY <3>1, <3>2
  <2>2. ASSUME NEW a \in Addrs, Unmap(p, a) PROVE DataInv'
    BY <1>0, <2>2, UnmapData
  <2>3. CASE UnmapEmpty(p)
    BY <1>0, <2>3, UnmapEmptyData
  <2>4. ASSUME NEW s \in Segs, Destroy(p, s) PROVE DataInv'
    BY <1>0, <2>4, DestroyData
  <2>. QED  BY <1>1, <2>1, <2>2, <2>3, <2>4 DEF Mapping
<1>2. ASSUME NEW p \in Procs, Transaction(p) PROVE DataInv'
  <2>1. ASSUME NEW bases \in BaseLists(p), BeginTrans(p, bases) PROVE DataInv'
    BY <1>0, <2>1, BeginTransData
  <2>2. ASSUME NEW a \in Live(p), NEW k \in DOMAIN vm[p][a].cells, AboutToModify(p, a, k)
        PROVE  DataInv'
    BY <1>0, <2>2, AboutToModifyData
  <2>3. ASSUME NEW a \in Live(p), NEW k, NEW v \in Values, Store(p, a, k, v)
        PROVE  DataInv'
    BY <1>0, <2>3, StoreData
  <2>4. CASE LockSegment(p) \/ LogBegin(p)
    BY <1>0, <2>4, LockLogData
  <2>5. CASE CommitTrans(p)
    BY <1>0, <2>5, CommitTransData
  <2>6. CASE WriteRange(p)
    BY <1>0, <2>6, WriteRangeData, NoStepData
  <2>7. CASE LogCommit(p)
    BY <1>0, <2>7, LogCommitData
  <2>8. CASE AbortTrans(p)
    BY <1>0, <2>8, AbortTransData
  <2>9. CASE AbortSegment(p)
    BY <1>0, <2>9, AbortSegmentData
  <2>10. CASE Return(p)
    BY <1>0, <2>10, ReturnData
  <2>. QED
    BY <1>2, <2>1, <2>2, <2>3, <2>4, <2>5, <2>6, <2>7, <2>8, <2>9, <2>10 DEF Transaction
<1>3. CASE UNCHANGED vars
  BY <1>0, <1>3, NoStepData
<1>. QED  BY <1>0, <1>1, <1>2, <1>3, StartData, CrashData DEF Next

(* The invariant the theorems below are read from. *)
LEMMA DataInvariant == Spec => []DataInv
<1>1. TableInv /\ TableInv' /\ DataInv /\ [Next]_vars => DataInv'
  BY StepData
<1>. QED  BY InitData, <1>1, TableInvariant, PTL DEF Spec

(* Each cell of a file is at all times, crashes included, as the last commit that
   returned left it or as a commit that has begun since means to have it: no
   undeclared store, no aborted one and no padding of another length gets there.
   For any number of processes, shared segments and addresses given out again:
   what goes wrong with the segments these spoil, the others keep it. *)
THEOREM RvmDiskAsPromised == Spec => []DiskAsPromised
<1>1. TableInv /\ DataInv => DiskAsPromised
  <2> SUFFICES ASSUME TableInv, DataInv, NEW s \in Segs \ spoilt
               PROVE  /\ \A c \in promised[s] : Len(c) = Len(dir[s])
                      /\ \A k \in DOMAIN dir[s] : \E c \in promised[s] : dir[s][k] = c[k]
    BY DEF DiskAsPromised
  <2>1. DOMAIN dir[s] = 1 .. Len(dir[s])
    <3>1. PICK f \in Seq(Values) : f = dir[s]
      BY DEF TableInv, TypeOK
    <3>. QED  BY <3>1
  <2>. QED  BY <2>1 DEF DataInv, FilePromised
<1>. QED  BY <1>1, DataInvariant, TableInvariant, PTL

(* Outside of transactions memory and file are the same: a commit has written,
   and an abort read back, every cell in which they differed, in every segment
   that is not spoilt. *)
THEOREM RvmMemoryAgrees == Spec => []MemoryAgrees
<1>1. TableInv /\ DataInv => MemoryAgrees
  <2> SUFFICES ASSUME TableInv, DataInv, NEW p \in Procs, ~trans[p].open,
                      NEW a \in Live(p), vm[p][a].of \notin spoilt,
                      NEW k \in DOMAIN vm[p][a].cells
               PROVE  Load(p, a, k) = dir[vm[p][a].of][k]
    BY DEF MemoryAgrees
  <2>1. k \in 1 .. Len(vm[p][a].cells)
    <3>1. PICK c \in Seq(Cells) : c = vm[p][a].cells
      BY CallTyped, Typed DEF Live
    <3>. QED  BY <3>1
  <2>2. trans[p].declared = {}
    BY DataTyped DEF DeclaredRanged, NoTrans
  <2>. QED  BY <2>1, <2>2, DataTyped DEF UndeclaredAgrees, InFile, Kept
<1>. QED  BY <1>1, DataInvariant, TableInvariant, PTL

-----------------------------------------------------------------------------
(* The store implements RecoverableStore.                                   *)

(* What a process sees of a segment, by the address it has it mapped at. *)
LEMMA ImageIs ==
  ASSUME TableInv, NEW p \in Procs, MappedWhole(p), NEW a \in Kept(p),
         NEW s \in Segs, vm[p][a].of = s
  PROVE  /\ Image(p, s) \in Seq(Values)
         /\ Len(Image(p, s)) = Len(vm[p][a].cells) /\ Len(vm[p][a].cells) \in Nat
         /\ DOMAIN Image(p, s) = 1 .. Len(vm[p][a].cells)
         /\ \A k \in 1 .. Len(vm[p][a].cells) : Image(p, s)[k] = Load(p, a, k)
<1> DEFINE at == {b \in Live(p) : vm[p][b].of = s}
<1>1. a \in at /\ \A b \in at : b = a
  BY OneMapping DEF Kept
<1>2. PICK b : b = CHOOSE x \in at : TRUE
  OBVIOUS
<1>3. b = a /\ at # {}
  BY <1>1, <1>2
<1>4. Image(p, s) = [k \in DOMAIN vm[p][a].cells |-> Load(p, a, k)]
  <2>1. Image(p, s) = IF at = {} THEN <<>>
                      ELSE [k \in DOMAIN vm[p][b].cells |-> Load(p, b, k)]
    BY <1>2 DEF Image
  <2> HIDE DEF at
  <2>. QED  BY <1>3, <2>1
<1>5. PICK n \in Nat : n = Len(vm[p][a].cells) /\ DOMAIN vm[p][a].cells = 1 .. n
  <2>1. PICK c \in Seq(Cells) : c = vm[p][a].cells
    BY MappingIs
  <2>. QED  BY <2>1
<1>6. \A k \in 1 .. n : Load(p, a, k) \in Values
  BY <1>5, MappingIs, CallTyped, LoadTyped
<1>7. PICK i : i = [k \in 1 .. n |-> Load(p, a, k)]
  OBVIOUS
<1>8. i \in [1 .. n -> Values] /\ \A k \in 1 .. n : i[k] = Load(p, a, k)
  BY <1>6, <1>7
<1>9. i \in Seq(Values) /\ Len(i) = n /\ DOMAIN i = 1 .. n
  BY <1>8
<1>10. Image(p, s) = i
  BY <1>4, <1>5, <1>7
<1>. QED  BY <1>5, <1>8, <1>9, <1>10

LEMMA ImageNone ==
  ASSUME NEW p, NEW s, \A a \in Live(p) : vm[p][a].of # s
  PROVE  Image(p, s) = <<>>
  BY DEF Image

(* It changes only with the mapping and what is loaded from it. *)
LEMMA ImageSame ==
  ASSUME NEW p, NEW s,
         \A a : a \in Live(p) /\ vm[p][a].of = s <=> a \in Live(p)' /\ vm'[p][a].of = s,
         \A a \in Live(p) : vm[p][a].of = s =>
           /\ DOMAIN vm'[p][a].cells = DOMAIN vm[p][a].cells
           /\ \A k \in DOMAIN vm[p][a].cells : Load(p, a, k)' = Load(p, a, k)
  PROVE  Image(p, s)' = Image(p, s)
<1> DEFINE at == {a \in Live(p) : vm[p][a].of = s}
<1>1. at' = at
  OBVIOUS
<1>2. CASE at = {}
  BY <1>1, <1>2 DEF Image
<1>3. CASE at # {}
  <2>1. PICK b : b = CHOOSE a \in at : TRUE
    OBVIOUS
  <2>2. b \in at /\ b = (CHOOSE a \in at : TRUE)'
    BY <1>1, <1>3, <2>1
  <2>3. /\ DOMAIN vm'[p][b].cells = DOMAIN vm[p][b].cells
        /\ \A k \in DOMAIN vm[p][b].cells : Load(p, b, k)' = Load(p, b, k)
    BY <2>2
  <2>4. Image(p, s) = [k \in DOMAIN vm[p][b].cells |-> Load(p, b, k)]
    BY <1>3, <2>1 DEF Image
  <2>5. Image(p, s)' = [k \in DOMAIN vm'[p][b].cells |-> Load(p, b, k)']
    BY <1>1, <1>3, <2>2 DEF Image, Load
  <2>. QED  BY <2>3, <2>4, <2>5
<1>. QED  BY <1>2, <1>3

(* What it has become, when one address is of the segment after the step. *)
LEMMA ImageBecomes ==
  ASSUME NEW p, NEW s, NEW a \in Live(p)', vm'[p][a].of = s,
         \A b \in Live(p)' : vm'[p][b].of = s => b = a
  PROVE  Image(p, s)' = [k \in DOMAIN vm'[p][a].cells |-> Load(p, a, k)']
<1> DEFINE at == {b \in Live(p) : vm[p][b].of = s}
<1>1. at' = {a}
  OBVIOUS
<1>2. a = (CHOOSE b \in at : TRUE)'
  BY <1>1
<1>. QED  BY <1>1, <1>2 DEF Image, Load

(* Of a spoilt segment nothing is seen. *)
Seen(p, s) == IF Sound(s) THEN Image(p, s) ELSE <<>>

(* What a step leaves as it is of what a process sees of the store. *)
Untouched(q) ==
  /\ Phase(q)' = Phase(q) /\ Declared(q)' = Declared(q)
  /\ \A s \in Segs : Seen(q, s)' = Seen(q, s)

(* Every mapping is of a segment that stays spoilt, or of one whose file stays. *)
SameSight(q) ==
  \A a \in Live(q) :
    /\ vm[q][a].of \in spoilt' <=> vm[q][a].of \in spoilt
    /\ vm[q][a].of \notin spoilt => dir'[vm[q][a].of] = dir[vm[q][a].of]

(* What a process has declared is what its transaction says of its mappings. *)
LEMMA DeclaredSame ==
  ASSUME TableInv, NEW q \in Procs, trans'[q].declared = trans[q].declared,
         \A d \in trans[q].declared :
           /\ vm'[q][d[1]].of = vm[q][d[1]].of
           /\ vm[q][d[1]].of \in spoilt' <=> vm[q][d[1]].of \in spoilt
  PROVE  Declared(q)' = Declared(q)
<1> DEFINE D == {e \in trans[q].declared : Sound(vm[q][e[1]].of)}
<1>1. D' = D
  BY DEF Sound
<1>2. \A d \in D : vm'[q][d[1]].of = vm[q][d[1]].of
  OBVIOUS
<1>3. Declared(q) = {<<vm[q][d[1]].of, d[2]>> : d \in D}
  BY DEF Declared
<1>4. Declared(q)' = {<<vm'[q][d[1]].of, d[2]>> : d \in D'}
  BY DEF Declared
<1> HIDE DEF D
<1>. QED  BY <1>1, <1>2, <1>3, <1>4

(* A process that does not move sees no change of the files of others. *)
LEMMA OthersSee ==
  ASSUME TableInv, NEW q \in Procs, SameFor(q), SameSight(q)
  PROVE  Untouched(q)
<1>1. vm'[q] = vm[q] /\ trans'[q] = trans[q] /\ call'[q] = call[q] /\ Live(q)' = Live(q)
  BY DEF SameFor, Live
<1>2. Phase(q)' = Phase(q)
  BY <1>1 DEF Phase
<1>3. Declared(q)' = Declared(q)
  <2>1. \A d \in trans[q].declared : d[1] \in Live(q)
    BY CallTyped DEF DeclaredLive
  <2>. QED  BY <1>1, <2>1, DeclaredSame DEF SameSight
<1>4. ASSUME NEW s \in Segs PROVE Seen(q, s)' = Seen(q, s)
  <2>1. CASE \A a \in Live(q) : vm[q][a].of # s
    <3>1. Image(q, s) = <<>>
      BY <2>1, ImageNone
    <3>2. Image(q, s)' = <<>>
      BY <1>1, <2>1 DEF Image
    <3>. QED  BY <3>1, <3>2 DEF Seen
  <2>2. CASE \E a \in Live(q) : vm[q][a].of = s
    <3>1. Sound(s)' <=> Sound(s)
      BY <2>2 DEF SameSight, Sound
    <3>2. CASE Sound(s)
      <4>1. dir'[s] = dir[s]
        BY <2>2, <3>2 DEF SameSight, Sound
      <4>2. \A a \in Live(q) : vm[q][a].of = s => \A k : Load(q, a, k)' = Load(q, a, k)
        BY <1>1, <4>1 DEF Load
      <4>3. Image(q, s)' = Image(q, s)
        BY <1>1, <4>2, ImageSame
      <4>. QED  BY <3>1, <4>3 DEF Seen
    <3>3. CASE ~Sound(s)
      BY <3>1, <3>3 DEF Seen
    <3>. QED  BY <3>2, <3>3
  <2>. QED  BY <2>1, <2>2
<1>. QED  BY <1>2, <1>3, <1>4 DEF Untouched

(* The state of RecoverableStore, and how it changes with one process. *)
LEMMA StoreState ==
  ASSUME NEW p \in Procs
  PROVE  /\ Phases[p] = Phase(p) /\ Declarations[p] = Declared(p)
         /\ \A s \in Segs : Images[p][s] = Seen(p, s)
  BY DEF Phases, Declarations, Images, Seen

LEMMA StoreMoves ==
  ASSUME NEW p \in Procs, \A q \in Procs \ {p} : Untouched(q)
  PROVE  /\ Phases' = [Phases EXCEPT ![p] = Phase(p)']
         /\ Declarations' = [Declarations EXCEPT ![p] = Declared(p)']
         /\ Images' = [Images EXCEPT ![p] = [s \in Segs |-> Seen(p, s)']]
<1>1. \A q \in Procs \ {p} : /\ Phase(q)' = Phase(q) /\ Declared(q)' = Declared(q)
                             /\ \A s \in Segs : Seen(q, s)' = Seen(q, s)
  BY DEF Untouched
<1>2. Phases' = [Phases EXCEPT ![p] = Phase(p)']
  BY <1>1 DEF Phases
<1>3. Declarations' = [Declarations EXCEPT ![p] = Declared(p)']
  BY <1>1 DEF Declarations
<1>4. \A q \in Procs \ {p} : [s \in Segs |-> Seen(q, s)'] = [s \in Segs |-> Seen(q, s)]
  BY <1>1
<1>5. Images' = [Images EXCEPT ![p] = [s \in Segs |-> Seen(p, s)']]
  BY <1>4 DEF Images, Seen
<1>. QED  BY <1>2, <1>3, <1>5

LEMMA StoreStays ==
  ASSUME NEW p \in Procs, \A q \in Procs \ {p} : Untouched(q)
  PROVE  /\ Phase(p)' = Phase(p) => Phases' = Phases
         /\ Declared(p)' = Declared(p) => Declarations' = Declarations
         /\ (\A s \in Segs : Seen(p, s)' = Seen(p, s)) => Images' = Images
<1>1. \A q \in Procs \ {p} : /\ Phase(q)' = Phase(q) /\ Declared(q)' = Declared(q)
                             /\ \A s \in Segs : Seen(q, s)' = Seen(q, s)
  BY DEF Untouched
<1>. QED  BY <1>1 DEF Phases, Declarations, Images, Seen

(* One image changes. *)
LEMMA ImageMoves ==
  ASSUME NEW p \in Procs, \A q \in Procs \ {p} : Untouched(q), NEW s \in Segs,
         \A t \in Segs \ {s} : Seen(p, t)' = Seen(p, t)
  PROVE  Images' = [Images EXCEPT ![p][s] = Seen(p, s)']
<1>1. Images[p] = [t \in Segs |-> Seen(p, t)]
  BY DEF Images, Seen
<1>2. [t \in Segs |-> Seen(p, t)'] = [Images[p] EXCEPT ![s] = Seen(p, s)']
  BY <1>1
<1>3. Images' = [Images EXCEPT ![p] = [t \in Segs |-> Seen(p, t)']]
  BY StoreMoves
<1>. QED  BY <1>2, <1>3, Zenon

(* Nobody sees a change, and no file changes: the store has not moved. *)
LEMMA StoreStutters ==
  ASSUME NEW p \in Procs, \A q \in Procs : Untouched(q), UNCHANGED <<Files, spoilt>>
  PROVE  UNCHANGED Recoverable!vars
<1>1. UNCHANGED <<Phases, Declarations, Images>>
  BY StoreStays DEF Untouched
<1>. QED  BY <1>1 DEF Recoverable!vars

-----------------------------------------------------------------------------
(* With memory and files as they were, so is what is seen. *)
LEMMA MemorySame ==
  ASSUME NEW p, vm'[p] = vm[p], UNCHANGED <<dir, spoilt>>
  PROVE  /\ \A s \in Segs : Seen(p, s)' = Seen(p, s)
         /\ trans'[p].declared = trans[p].declared => Declared(p)' = Declared(p)
         /\ UNCHANGED Files
<1>1. Live(p)' = Live(p) /\ \A a \in Live(p) : \A k : Load(p, a, k)' = Load(p, a, k)
  BY DEF Live, Load
<1>2. \A s \in Segs : Image(p, s)' = Image(p, s)
  BY <1>1, ImageSame
<1>3. \A s : Sound(s)' <=> Sound(s)
  BY DEF Sound
<1>4. \A s \in Segs : Seen(p, s)' = Seen(p, s)
  BY <1>2, <1>3 DEF Seen
<1>5. UNCHANGED Files
  BY <1>3 DEF Files
<1>6. trans'[p].declared = trans[p].declared => Declared(p)' = Declared(p)
  BY <1>3 DEF Declared
<1>. QED  BY <1>4, <1>5, <1>6

(* A step that touches no file leaves what the others see. *)
LEMMA OthersUntouched ==
  ASSUME TableInv, NEW p \in Procs, ~Undefined, UNCHANGED <<dir, spoilt>>,
         Start(p) \/ Crash(p) \/ Mapping(p) \/ Transaction(p)
  PROVE  \A q \in Procs \ {p} : Untouched(q)
<1>1. \A q \in Procs \ {p} : SameFor(q)
  BY CallTyped, OthersSame
<1>2. \A q \in Procs : SameSight(q)
  BY DEF SameSight
<1>. QED  BY <1>1, <1>2, OthersSee

(* The steps the store knows nothing of: a start, an unmap of nothing, the locks
   and log records. *)
LEMMA StoreSleeps ==
  ASSUME TableInv, NEW p \in Procs, ~Undefined,
         Start(p) \/ UnmapEmpty(p) \/ LockSegment(p) \/ LogBegin(p) \/ LogCommit(p)
  PROVE  UNCHANGED Recoverable!vars
<1>1. UNCHANGED <<dir, vm, trans, spoilt>> /\ Phase(p)' = Phase(p)
  <2>1. UNCHANGED <<dir, vm, trans, spoilt>>
    BY DEF Start, UnmapEmpty, LockSegment, LogBegin, LogCommit, table, store
  <2>2. CASE Start(p) \/ UnmapEmpty(p)
    BY <2>1, <2>2 DEF Start, UnmapEmpty, Phase
  <2>3. CASE LockSegment(p) \/ LogBegin(p)
    <3>1. call[p].op \in {"begin", "logging"}
      BY <2>3 DEF LockSegment, LogBegin, Inside
    <3>2. call'[p].op \in {"begin", "logging"}
      <4>1. CASE LockSegment(p)
        BY <4>1, CallTyped DEF LockSegment, TypeOK
      <4>2. CASE LogBegin(p)
        BY <4>2, CallTyped DEF LogBegin, TypeOK
      <4>. QED  BY <2>3, <4>1, <4>2
    <3>. QED  BY <2>1, <3>1, <3>2 DEF Phase
  <2>4. CASE LogCommit(p)
    <3>1. call' = [call EXCEPT ![p] = [op |-> call[p].op, todo |-> Tail(call[p].todo)]]
      BY <2>4, CallTyped, TodoNext DEF LogCommit
    <3>2. call'[p].op = call[p].op
      BY <3>1, CallTyped DEF TypeOK
    <3>. QED  BY <2>1, <3>2 DEF Phase
  <2>. QED  BY <2>1, <2>2, <2>3, <2>4
<1>2. \A q \in Procs \ {p} : Untouched(q)
  <2>1. Start(p) \/ Mapping(p) \/ Transaction(p)
    BY DEF Mapping, Transaction
  <2>. QED  BY <1>1, <2>1, OthersUntouched
<1>3. Untouched(p)
  BY <1>1, MemorySame DEF Untouched
<1>. QED  BY <1>1, <1>2, <1>3, MemorySame, StoreStutters

(* A process dies: its images and its transaction are gone. *)
LEMMA StoreCrashes ==
  ASSUME TableInv, NEW p \in Procs, Crash(p)
  PROVE  Recoverable!Crash(p)
<1>1. /\ UNCHANGED <<dir, undefined, spoilt>> /\ ~undefined
      /\ vm'[p] = [a \in Addrs |-> Nowhere] /\ trans'[p] = NoTrans /\ call'[p] = Idle
  BY CallTyped DEF Crash, Alive, TypeOK
<1>2. \A q \in Procs \ {p} : Untouched(q)
  BY <1>1, OthersUntouched DEF Undefined
<1>3. Live(p)' = {}
  BY <1>1 DEF Live
<1>4. \A s \in Segs : Seen(p, s)' = <<>>
  BY <1>3 DEF Image, Seen
<1>5. Phase(p)' = "idle" /\ Declared(p)' = {}
  BY <1>1 DEF Phase, Declared, NoTrans, Idle
<1>6. [s \in Segs |-> Seen(p, s)'] = [s \in Segs |-> <<>>]
  BY <1>4
<1>7. /\ Phases' = [Phases EXCEPT ![p] = "idle"]
      /\ Declarations' = [Declarations EXCEPT ![p] = {}]
      /\ Images' = [Images EXCEPT ![p] = [s \in Segs |-> <<>>]]
  BY <1>2, <1>5, <1>6, StoreMoves
<1>8. UNCHANGED Files
  BY <1>1 DEF Files, Sound
<1>. QED  BY <1>1, <1>7, <1>8 DEF Recoverable!Crash

(* rvm_begin_trans, when it has not locked anything yet. *)
LEMMA StoreBegins ==
  ASSUME TableInv, DataInv, NEW p \in Procs, NEW bases \in BaseLists(p), BeginTrans(p, bases)
  PROVE  Recoverable!Begin(p)
<1>1. /\ UNCHANGED <<dir, vm, undefined, spoilt>> /\ ~undefined /\ ~trans[p].open /\ call[p] = Idle
  BY DEF BeginTrans, CanCall, Alive, store, table
<1>2. call'[p].op = "begin"
  BY CallTyped DEF BeginTrans, TypeOK
<1>3. trans'[p].open /\ trans'[p].declared = {}
  <2>1. PICK t : t = [open |-> TRUE, bases |-> bases, declared |-> {}]
    OBVIOUS
  <2>2. trans' = [trans EXCEPT ![p] = t]
    BY <2>1, Opened DEF BeginTrans
  <2>3. t.open /\ t.declared = {}
    BY <2>1
  <2>. QED  BY <2>2, <2>3, CallTyped DEF TypeOK
<1>4. trans[p].declared = {}
  BY <1>1, DataTyped DEF DeclaredRanged, NoTrans
<1>5. Phase(p) = "idle" /\ Phase(p)' = "open" /\ Declared(p)' = Declared(p)
  BY <1>1, <1>2, <1>3, <1>4 DEF Phase, Declared, Idle
<1>6. \A q \in Procs \ {p} : Untouched(q)
  BY <1>1, OthersUntouched DEF Undefined, Transaction
<1>7. UNCHANGED <<Files, Declarations, Images>> /\ Phases' = [Phases EXCEPT ![p] = "open"]
  BY <1>1, <1>5, <1>6, MemorySame, StoreMoves, StoreStays
<1>. QED  BY <1>1, <1>5, <1>7, StoreState DEF Recoverable!Begin, Recoverable!Moves

(* rvm_commit_trans and rvm_abort_trans, before they have written or read. *)
LEMMA StoreEnds ==
  ASSUME TableInv, NEW p \in Procs, CommitTrans(p) \/ AbortTrans(p)
  PROVE  Recoverable!End(p)
<1>1. /\ UNCHANGED <<dir, vm, trans, undefined, spoilt>> /\ ~undefined /\ trans[p].open
      /\ call[p] = Idle
  BY DEF CommitTrans, AbortTrans, CanCall, Alive, store, table
<1>2. PICK op \in {"commit", "abort"} : call'[p].op = op
  BY CallTyped DEF CommitTrans, AbortTrans, TypeOK
<1>3. Phase(p) = "open" /\ Phase(p)' = op
  BY <1>1, <1>2 DEF Phase, Idle
<1>4. \A q \in Procs \ {p} : Untouched(q)
  BY <1>1, OthersUntouched DEF Undefined, Transaction
<1>5. UNCHANGED <<Files, Declarations, Images>> /\ Phases' = [Phases EXCEPT ![p] = op]
  BY <1>1, <1>3, <1>4, MemorySame, StoreMoves, StoreStays
<1>. QED  BY <1>1, <1>3, <1>5, StoreState DEF Recoverable!End, Recoverable!Moves

(* A call returns: a commit that has written all of its ranges, or an abort that
   has read every segment back, leaves no difference between image and file. *)
LEMMA StoreReturns ==
  ASSUME TableInv, DataInv, NEW p \in Procs, Return(p)
  PROVE  Recoverable!Return(p) \/ UNCHANGED Recoverable!vars
<1>1. /\ UNCHANGED <<dir, vm, undefined, spoilt>> /\ ~undefined
      /\ call[p].op \in {"begin", "commit", "abort"} /\ call[p].todo = <<>>
  BY DEF Return, Inside, Alive, store, table
<1>2. call'[p] = Idle /\ Idle.op = "none"
  BY CallTyped DEF Return, TypeOK, Idle
<1>3. \A q \in Procs \ {p} : Untouched(q)
  BY <1>1, OthersUntouched DEF Undefined, Transaction
<1>4. CASE call[p].op = "begin"
  <2>1. UNCHANGED trans
    BY <1>4 DEF Return
  <2>2. Phase(p)' = Phase(p)
    BY <1>2, <1>4, <2>1 DEF Phase
  <2>3. Untouched(p)
    BY <1>1, <2>1, <2>2, MemorySame DEF Untouched
  <2>. QED  BY <1>1, <1>3, <2>3, MemorySame, StoreStutters
<1>5. CASE call[p].op \in {"commit", "abort"}
  <2>1. trans'[p] = NoTrans /\ ~NoTrans.open /\ NoTrans.declared = {}
    <3>1. trans' = [trans EXCEPT ![p] = NoTrans]
      BY <1>5 DEF Return
    <3>. QED  BY <3>1, CallTyped DEF TypeOK, NoTrans
  <2>2. Phase(p) = call[p].op /\ Phase(p)' = "idle" /\ Declared(p)' = {}
    BY <1>2, <1>5, <2>1 DEF Phase, Declared
  <2>3. ASSUME NEW s \in Segs PROVE Seen(p, s) \in {<<>>, Files[s]}
    <3>0. CASE ~Sound(s)
      BY <3>0 DEF Seen
    <3>1. CASE Sound(s) /\ \E a \in Live(p) : vm[p][a].of = s
      <4>1. PICK a \in Kept(p) : vm[p][a].of = s
        BY <3>1 DEF Kept, Sound
      <4>2. MappedWhole(p)
        BY DataTyped
      <4>3. ASSUME NEW k \in 1 .. Len(vm[p][a].cells) PROVE Load(p, a, k) = dir[s][k]
        <5>1. CASE <<a, k>> \in trans[p].declared
          <6>1. ToSet(call[p].todo) = {} /\ <<a, k>>[1] = a /\ <<a, k>>[2] = k
            BY <1>1 DEF ToSet
          <6>2. InFile(p, <<a, k>>[1], <<a, k>>[2])
            BY <1>5, <5>1, <6>1, DataTyped DEF LeftToDo
          <6>. QED  BY <4>1, <6>1, <6>2 DEF InFile
        <5>2. CASE <<a, k>> \notin trans[p].declared
          BY <4>1, <5>2, DataTyped DEF UndeclaredAgrees, InFile
        <5>. QED  BY <5>1, <5>2
      <4>4. dir[s] \in Seq(Values) /\ Len(dir[s]) = Len(vm[p][a].cells)
        BY <4>1, <4>2, MappingIs
      <4>5. /\ Image(p, s) \in Seq(Values) /\ Len(Image(p, s)) = Len(vm[p][a].cells)
            /\ \A k \in 1 .. Len(vm[p][a].cells) : Image(p, s)[k] = Load(p, a, k)
        BY <4>1, <4>2, ImageIs
      <4>6. Image(p, s) = dir[s]
        BY <4>3, <4>4, <4>5, SameSequence
      <4>. QED  BY <3>1, <4>6 DEF Seen, Files
    <3>2. CASE ~ \E a \in Live(p) : vm[p][a].of = s
      BY <3>2, ImageNone DEF Seen
    <3>. QED  BY <3>0, <3>1, <3>2
  <2>4. /\ UNCHANGED <<Files, Images>> /\ Phases' = [Phases EXCEPT ![p] = "idle"]
        /\ Declarations' = [Declarations EXCEPT ![p] = {}]
    BY <1>1, <1>3, <2>2, MemorySame, StoreMoves, StoreStays
  <2>. QED
    BY <1>1, <1>5, <2>2, <2>3, <2>4, StoreState DEF Recoverable!Return, Recoverable!Moves
<1>. QED  BY <1>1, <1>4, <1>5

(* rvm_destroy takes the file of a segment that nobody sees. *)
LEMMA StoreDestroys ==
  ASSUME TableInv, NEW p \in Procs, NEW s \in Segs, Destroy(p, s)
  PROVE  Recoverable!Destroy(s)
<1>1. /\ dir' = [dir EXCEPT ![s] = <<>>]
      /\ UNCHANGED <<status, mapped, num_mapped, vm, trans, call>>
      /\ spoilt' = spoilt \ {s}
      /\ \A q \in Procs : \A a \in Live(q) : vm[q][a].of # s
  BY DEF Destroy, table
<1>2. \A t \in Segs \ {s} : dir'[t] = dir[t]
  BY <1>1, CallTyped
<1>3. ASSUME NEW q \in Procs PROVE Untouched(q)
  <2>1. \A a \in Live(q) : vm[q][a].of \in Segs \ {s}
    BY <1>1, CallTyped DEF LiveFits
  <2>2. SameFor(q)
    BY <1>1 DEF SameFor
  <2>3. SameSight(q)
    BY <1>1, <1>2, <2>1 DEF SameSight
  <2>. QED  BY <2>2, <2>3, OthersSee
<1>4. UNCHANGED <<Phases, Declarations, Images>>
  BY <1>3, StoreStays DEF Untouched
<1>5. \A q \in Procs : Images[q][s] = <<>>
  <2>1. \A q \in Procs : Image(q, s) = <<>>
    BY <1>1, ImageNone
  <2>. QED  BY <2>1, StoreState DEF Seen
<1>6. Files' = [Files EXCEPT ![s] = <<>>]
  <2>1. dir'[s] = <<>> /\ \A t \in Segs \ {s} : Sound(t)' <=> Sound(t)
    BY <1>1, CallTyped DEF Sound
  <2>. QED  BY <1>2, <2>1 DEF Files
<1>. QED  BY <1>1, <1>4, <1>5, <1>6 DEF Recoverable!Destroy, Recoverable!Unmapped

(* rvm_about_to_modify declares a cell of the image, or one of a
   segment that is lost to the store. *)
LEMMA StoreDeclares ==
  ASSUME TableInv, DataInv, NEW p \in Procs, ~Undefined, NEW a \in Live(p),
         NEW k \in DOMAIN vm[p][a].cells, AboutToModify(p, a, k)
  PROVE  \/ \E s \in Segs : k \in DOMAIN Images[p][s] /\ Recoverable!Declare(p, s, k)
         \/ UNCHANGED Recoverable!vars
<1>1. /\ UNCHANGED <<dir, vm, call, spoilt>> /\ call[p] = Idle /\ Contains(trans[p].bases, a)
      /\ trans' = [trans EXCEPT ![p].declared = trans[p].declared \cup {<<a, k>>}]
  BY DEF AboutToModify, CanCall
<1>2. PICK s \in Segs : s = vm[p][a].of
  BY CallTyped DEF LiveFits
<1>3. a \in Addrs /\ k \in 1 .. Len(vm[p][a].cells) /\ k \in Nat
  <2>1. a \in Addrs
    BY DEF Live
  <2>2. PICK c \in Seq(Cells) : c = vm[p][a].cells
    BY <2>1, CallTyped, Typed
  <2>. QED  BY <2>1, <2>2
<1>4. /\ trans'[p].open = trans[p].open
      /\ trans'[p].declared = trans[p].declared \cup {<<a, k>>}
  BY <1>1, <1>3, CallTyped, DeclaredMore
<1>5. trans[p].open
  <2>1. trans[p].bases # <<>>
    BY <1>1 DEF Contains
  <2>2. trans[p] # NoTrans
    BY <2>1 DEF NoTrans
  <2>. QED  BY <2>2, DataTyped DEF DeclaredRanged
<1>6. Phase(p) = "open" /\ Phase(p)' = "open"
  BY <1>1, <1>4, <1>5 DEF Phase, Idle
<1>7. Declared(p)' = Declared(p) \cup (IF Sound(s) THEN {<<s, k>>} ELSE {})
  <2>1. <<a, k>>[1] = a /\ <<a, k>>[2] = k
    OBVIOUS
  <2>2. \A t : Sound(t)' <=> Sound(t)
    BY <1>1 DEF Sound
  <2> DEFINE D == {e \in trans[p].declared : Sound(vm[p][e[1]].of)}
  <2>3. D' = D \cup (IF Sound(s) THEN {<<a, k>>} ELSE {})
    BY <1>1, <1>2, <1>4, <2>1, <2>2
  <2>4. Declared(p) = {<<vm[p][d[1]].of, d[2]>> : d \in D}
    BY DEF Declared
  <2>5. Declared(p)' = {<<vm[p][d[1]].of, d[2]>> : d \in D'}
    BY <1>1 DEF Declared
  <2> HIDE DEF D
  <2>. QED  BY <1>2, <2>1, <2>3, <2>4, <2>5
<1>8. \A q \in Procs \ {p} : Untouched(q)
  BY <1>1, OthersUntouched DEF Transaction
<1>9. UNCHANGED <<Files, Images, Phases>>
  BY <1>1, <1>6, <1>8, MemorySame, StoreStays
<1>10. CASE Sound(s)
  <2>1. Declarations' = [Declarations EXCEPT ![p] = Declared(p) \cup {<<s, k>>}]
    BY <1>7, <1>8, <1>10, StoreMoves
  <2>2. MappedWhole(p) /\ a \in Kept(p)
    BY <1>2, <1>10, DataTyped DEF Kept, Sound
  <2>3. k \in DOMAIN Images[p][s]
    BY <1>2, <1>3, <1>10, <2>2, ImageIs, StoreState DEF Seen
  <2>4. Recoverable!Declare(p, s, k)
    BY <1>1, <1>6, <1>9, <2>1, StoreState DEF Recoverable!Declare
  <2>. QED  BY <2>3, <2>4
<1>11. CASE ~Sound(s)
  <2>1. Declared(p)' = Declared(p)
    BY <1>7, <1>11
  <2>2. UNCHANGED Declarations
    BY <1>8, <2>1, StoreStays
  <2>. QED  BY <1>1, <1>9, <2>2 DEF Recoverable!vars
<1>. QED  BY <1>10, <1>11

(* rvm_unmap takes an image of which nothing is declared. *)
LEMMA StoreUnmaps ==
  ASSUME TableInv, DataInv, NEW p \in Procs, NEW a \in Addrs, Unmap(p, a)
  PROVE  vm[p][a].of \in Segs /\ Recoverable!Unmap(p, vm[p][a].of)
<1>1. /\ UNCHANGED <<dir, trans, call, undefined, spoilt>> /\ ~undefined
      /\ call[p] = Idle /\ ~Contains(trans[p].bases, a) /\ Registered(p, a)
      /\ vm' = [vm EXCEPT ![p][a] = Nowhere]
  BY DEF Unmap, CanCall, Alive
<1>2. a \in Live(p)
  BY <1>1, CallTyped, EntryIs
<1>3. PICK s \in Segs : s = vm[p][a].of
  BY <1>2, CallTyped DEF LiveFits
<1>4. Live(p)' = Live(p) \ {a} /\ \A b \in Live(p) \ {a} : vm'[p][b] = vm[p][b]
  <2>1. vm'[p][a] = Nowhere /\ \A b \in Addrs \ {a} : vm'[p][b] = vm[p][b]
    BY <1>1, CallTyped DEF TypeOK
  <2>. QED  BY <2>1 DEF Live
<1>5. \A b \in Live(p) : vm[p][b].of = s /\ Sound(s) => b = a
  BY <1>2, <1>3, DataTyped, OneMapping DEF Kept, Sound
<1>6. \A t : Sound(t)' <=> Sound(t)
  BY <1>1 DEF Sound
<1>7. Seen(p, s)' = <<>>
  <2>1. Sound(s) => \A b \in Live(p)' : vm'[p][b].of # s
    BY <1>4, <1>5
  <2>2. Sound(s) => Image(p, s)' = <<>>
    BY <2>1 DEF Image
  <2>. QED  BY <1>6, <2>2 DEF Seen
<1>8. ASSUME NEW t \in Segs \ {s} PROVE Seen(p, t)' = Seen(p, t)
  <2>1. \A b \in Live(p) \ {a} : \A k : Load(p, b, k)' = Load(p, b, k)
    BY <1>1, <1>4 DEF Load
  <2>2. Image(p, t)' = Image(p, t)
    BY <1>3, <1>4, <2>1, ImageSame
  <2>. QED  BY <1>6, <2>2 DEF Seen
<1>9. ASSUME NEW d \in trans[p].declared
      PROVE  /\ d[1] \in Live(p) \ {a}
             /\ Sound(vm[p][d[1]].of) => vm[p][d[1]].of # s
  <2>1. d[1] \in Live(p) /\ Contains(trans[p].bases, d[1])
    BY DataTyped
  <2>. QED  BY <1>1, <1>5, <2>1
<1>10. Phase(p)' = Phase(p) /\ Phase(p) \in {"idle", "open"}
  BY <1>1 DEF Phase, Idle
<1>11. Declared(p)' = Declared(p) /\ \A d \in Declared(p) : d[1] # s
  <2>1. \A d \in trans[p].declared :
          /\ vm'[p][d[1]].of = vm[p][d[1]].of
          /\ vm[p][d[1]].of \in spoilt' <=> vm[p][d[1]].of \in spoilt
    BY <1>1, <1>4, <1>9
  <2>2. \A d \in Declared(p) : d[1] # s
    BY <1>9 DEF Declared
  <2>. QED  BY <1>1, <2>1, <2>2, DeclaredSame
<1>12. \A q \in Procs \ {p} : Untouched(q)
  BY <1>1, OthersUntouched DEF Undefined, Mapping
<1>13. UNCHANGED <<Phases, Declarations>> /\ Images' = [Images EXCEPT ![p][s] = <<>>]
  BY <1>7, <1>8, <1>10, <1>11, <1>12, StoreStays, ImageMoves
<1>14. UNCHANGED Files
  BY <1>1 DEF Files, Sound
<1>. QED
  BY <1>14, <1>1, <1>3, <1>10, <1>11, <1>13, StoreState DEF Recoverable!Unmap, Recoverable!Outside

(* A step that changes the cells of one mapping changes one image, or none when
   the segment is spoilt. *)
LEMMA OneImage ==
  ASSUME TableInv, NEW p \in Procs, NEW a \in Live(p),
         UNCHANGED <<dir, spoilt>>, trans'[p].declared = trans[p].declared,
         Live(p)' = Live(p), vm'[p][a].of = vm[p][a].of,
         \A b \in Addrs \ {a} : vm'[p][b] = vm[p][b]
  PROVE  /\ Declared(p)' = Declared(p)
         /\ \A t \in Segs : t # vm[p][a].of => Seen(p, t)' = Seen(p, t)
         /\ ~Sound(vm[p][a].of) => \A t \in Segs : Seen(p, t)' = Seen(p, t)
<1>1. \A b \in Live(p) : b \in Addrs /\ vm'[p][b].of = vm[p][b].of
  BY DEF Live
<1>2. \A t : Sound(t)' <=> Sound(t)
  BY DEF Sound
<1>3. Declared(p)' = Declared(p)
  <2>1. \A d \in trans[p].declared : d[1] \in Live(p)
    BY CallTyped DEF DeclaredLive
  <2>. QED  BY <1>1, <2>1, DeclaredSame
<1>4. ASSUME NEW t \in Segs, t # vm[p][a].of PROVE Seen(p, t)' = Seen(p, t)
  <2>1. \A b \in Live(p) : vm[p][b].of = t => vm'[p][b] = vm[p][b]
    BY <1>1, <1>4
  <2>2. \A b \in Live(p) : vm[p][b].of = t => \A k : Load(p, b, k)' = Load(p, b, k)
    BY <2>1 DEF Load
  <2>3. Image(p, t)' = Image(p, t)
    BY <1>1, <2>1, <2>2, ImageSame
  <2>. QED  BY <1>2, <2>3 DEF Seen
<1>5. ASSUME ~Sound(vm[p][a].of), NEW t \in Segs PROVE Seen(p, t)' = Seen(p, t)
  <2>1. CASE t = vm[p][a].of
    BY <1>2, <1>5, <2>1 DEF Seen
  <2>. QED  BY <1>4, <2>1
<1>. QED  BY <1>3, <1>4, <1>5

(* A store goes to a declared cell of the image, or to a segment that is lost. *)
LEMMA StoreStores ==
  ASSUME TableInv, DataInv, NEW p \in Procs, NEW a \in Live(p), NEW k,
         NEW v \in Values, Store(p, a, k, v)
  PROVE  \/ \E s \in Segs : k \in DOMAIN Images[p][s] /\ Recoverable!Store(p, s, k, v)
         \/ UNCHANGED Recoverable!vars
<1>1. /\ UNCHANGED <<dir, trans, call, undefined, spoilt>> /\ ~undefined
      /\ call[p] = Idle /\ <<a, k>> \in trans[p].declared
  BY DEF Store, store, CanCall, Alive
<1>2. PICK z \in Seq(Cells) :
        /\ vm'[p][a].cells = z /\ vm'[p][a].of = vm[p][a].of
        /\ Len(z) = Len(vm[p][a].cells)
        /\ \A j \in 1 .. Len(z) : z[j] = IF j = k THEN v ELSE vm[p][a].cells[j]
  BY StoreDoes
<1>3. Live(p)' = Live(p) /\ \A b \in Addrs \ {a} : vm'[p][b] = vm[p][b]
  BY StoreDoes
<1>4. PICK s \in Segs : s = vm[p][a].of
  BY CallTyped DEF LiveFits
<1>5. /\ Declared(p)' = Declared(p) /\ \A u : Sound(u)' <=> Sound(u)
      /\ \A u \in Segs : u # s \/ ~Sound(s) => Seen(p, u)' = Seen(p, u)
  <2>1. \A u : Sound(u)' <=> Sound(u)
    BY <1>1 DEF Sound
  <2>. QED  BY <1>1, <1>2, <1>3, <1>4, <2>1, OneImage
<1>6. Phase(p)' = Phase(p) /\ Phase(p) = "open"
  <2>1. trans[p].open
    BY <1>1, DataTyped DEF DeclaredRanged, NoTrans
  <2>. QED  BY <1>1, <2>1 DEF Phase, Idle
<1>7. \A q \in Procs \ {p} : Untouched(q)
  <2>1. k \in DOMAIN vm[p][a].cells
    <3>1. <<a, k>>[1] = a /\ <<a, k>>[2] = k
      OBVIOUS
    <3>2. k \in 1 .. Len(vm[p][a].cells)
      BY <1>1, <3>1, DataTyped
    <3>3. PICK c \in Seq(Cells) : c = vm[p][a].cells
      BY CallTyped, Typed DEF Live
    <3>. QED  BY <3>2, <3>3
  <2>2. Transaction(p)
    BY <2>1 DEF Transaction
  <2>. QED  BY <1>1, <2>2, OthersUntouched DEF Undefined
<1>8. UNCHANGED <<Files, Phases, Declarations>>
  BY <1>1, <1>5, <1>6, <1>7, StoreStays DEF Files
<1>9. CASE ~Sound(s)
  <2>1. UNCHANGED Images
    BY <1>5, <1>7, <1>9, StoreStays
  <2>. QED  BY <1>1, <1>8, <2>1 DEF Recoverable!vars
<1>. SUFFICES ASSUME Sound(s)
              PROVE  k \in DOMAIN Images[p][s] /\ Recoverable!Store(p, s, k, v)
  BY <1>9
<1>10. a \in Kept(p) /\ MappedWhole(p) /\ \A b \in Live(p) : vm[p][b].of = s => b = a
  BY <1>4, DataTyped, OneMapping DEF Kept, Sound
<1>11. PICK n \in Nat : n = Len(z) /\ DOMAIN z = 1 .. n
  BY <1>2
<1>12. PICK i : i = Image(p, s)
  OBVIOUS
<1>13. i \in Seq(Values) /\ DOMAIN i = 1 .. n /\ \A j \in 1 .. n : i[j] = Load(p, a, j)
  BY <1>2, <1>4, <1>11, <1>12, <1>10, ImageIs
<1>14. Image(p, s)' = [i EXCEPT ![k] = v]
  <2>1. Image(p, s)' = [j \in 1 .. n |-> Load(p, a, j)']
    <3>1. \A b \in Live(p)' : vm'[p][b].of = s => b = a
      <4>1. \A b \in Live(p) : b \in Addrs
        BY DEF Live
      <4>. QED  BY <1>3, <1>10, <4>1
    <3>2. Image(p, s)' = [j \in DOMAIN vm'[p][a].cells |-> Load(p, a, j)']
      BY <1>2, <1>3, <1>4, <3>1, ImageBecomes
    <3>. QED  BY <1>2, <1>11, <3>2
  <2>2. ASSUME NEW j \in 1 .. n PROVE Load(p, a, j)' = IF j = k THEN v ELSE i[j]
    <3>1. CASE j = k
      <4>1. z[j] = v /\ v # Shared
        BY <1>2, <1>11, <3>1, RvmAssumption
      <4>. QED  BY <1>2, <3>1, <4>1 DEF Load
    <3>2. CASE j # k
      <4>1. z[j] = vm[p][a].cells[j]
        BY <1>2, <1>11, <3>2
      <4>. QED  BY <1>1, <1>2, <1>13, <3>2, <4>1 DEF Load
    <3>. QED  BY <3>1, <3>2
  <2>3. i = [j \in 1 .. n |-> i[j]]
    BY <1>13
  <2>4. [i EXCEPT ![k] = v] = [j \in 1 .. n |-> IF j = k THEN v ELSE i[j]]
    BY <1>13, <2>3
  <2>. QED  BY <2>1, <2>2, <2>4
<1>15. <<s, k>> \in Declared(p) /\ k \in 1 .. n
  <2>1. <<a, k>>[1] = a /\ <<a, k>>[2] = k
    OBVIOUS
  <2>2. <<s, k>> \in Declared(p)
    BY <1>1, <1>4, <2>1 DEF Declared
  <2>. QED  BY <1>1, <1>2, <1>11, <2>1, <2>2, DataTyped
<1>16. Images' = [Images EXCEPT ![p][s] = [i EXCEPT ![k] = v]]
  <2>1. Seen(p, s)' = [i EXCEPT ![k] = v]
    BY <1>5, <1>14 DEF Seen
  <2>. QED  BY <1>5, <1>7, <2>1, ImageMoves
<1>17. Images[p][s] = i
  BY <1>12, StoreState DEF Seen
<1>. QED
  BY <1>1, <1>13, <1>15, <1>6, <1>16, <1>8, <1>17, StoreState DEF Recoverable!Store

(* A segment read back becomes what is in its file, unless it is lost. *)
LEMMA StoreReadsBack ==
  ASSUME TableInv, DataInv, NEW p \in Procs, AbortSegment(p)
  PROVE  (\E s \in Segs : Recoverable!ReadBack(p, s)) \/ UNCHANGED Recoverable!vars
<1>1. UNCHANGED <<dir, trans, undefined, spoilt>> /\ ~undefined /\ call[p].op = "abort"
  BY DEF AbortSegment, Inside, Alive
<1>2. PICK a \in Live(p), z \in Seq(Cells) :
        /\ call'[p].op = "abort"
        /\ ToSet(call[p].todo) = ToSet(call'[p].todo) \cup {a}
        /\ vm' = [vm EXCEPT ![p][a].cells = z]
        /\ vm'[p][a].cells = z /\ vm'[p][a].of = vm[p][a].of
        /\ Len(z) = Len(vm[p][a].cells)
        /\ \A k \in 1 .. Len(z) : z[k] = dir[vm[p][a].of][k] /\ z[k] # Shared
        /\ Live(p)' = Live(p) /\ \A b \in Addrs \ {a} : vm'[p][b] = vm[p][b]
  BY AbortSegmentDoes
<1>3. PICK s \in Segs : s = vm[p][a].of
  BY CallTyped DEF LiveFits
<1>4. /\ Declared(p)' = Declared(p) /\ \A u : Sound(u)' <=> Sound(u)
      /\ \A u \in Segs : u # s \/ ~Sound(s) => Seen(p, u)' = Seen(p, u)
  <2>1. \A u : Sound(u)' <=> Sound(u)
    BY <1>1 DEF Sound
  <2>. QED  BY <1>1, <1>2, <1>3, <2>1, OneImage
<1>5. Phase(p)' = Phase(p) /\ Phase(p) = "abort"
  BY <1>1, <1>2 DEF Phase
<1>6. \A q \in Procs \ {p} : Untouched(q)
  BY <1>1, OthersUntouched DEF Undefined, Transaction
<1>7. UNCHANGED <<Files, Phases, Declarations>>
  BY <1>1, <1>4, <1>5, <1>6, StoreStays DEF Files
<1>8. CASE ~Sound(s)
  <2>1. UNCHANGED Images
    BY <1>4, <1>6, <1>8, StoreStays
  <2>. QED  BY <1>1, <1>7, <2>1 DEF Recoverable!vars
<1>. SUFFICES ASSUME Sound(s) PROVE Recoverable!ReadBack(p, s)
  BY <1>8
<1>9. a \in Kept(p) /\ MappedWhole(p) /\ \A b \in Live(p) : vm[p][b].of = s => b = a
  BY <1>3, DataTyped, OneMapping DEF Kept, Sound
<1>10. PICK n \in Nat : n = Len(z) /\ DOMAIN z = 1 .. n
  BY <1>2
<1>11. PICK f \in Seq(Values) : f = dir[s] /\ Len(f) = n
  <2>1. dir[s] \in Seq(Values) /\ Len(dir[s]) = Len(vm[p][a].cells)
    BY <1>3, <1>9, MappingIs
  <2>. QED  BY <1>2, <1>10, <2>1
<1>12. Image(p, s)' = f
  <2>1. \A b \in Live(p)' : vm'[p][b].of = s => b = a
    <3>1. \A b \in Live(p) : b \in Addrs
      BY DEF Live
    <3>. QED  BY <1>2, <1>9, <3>1
  <2>2. Image(p, s)' = [k \in DOMAIN vm'[p][a].cells |-> Load(p, a, k)']
    BY <1>2, <1>3, <2>1, ImageBecomes
  <2>3. \A k \in 1 .. n : Load(p, a, k)' = f[k]
    BY <1>2, <1>3, <1>10, <1>11 DEF Load
  <2>4. f = [k \in 1 .. n |-> f[k]]
    BY <1>11
  <2>. QED  BY <1>2, <1>10, <2>2, <2>3, <2>4
<1>13. Images' = [Images EXCEPT ![p][s] = f]
  <2>1. Seen(p, s)' = f
    BY <1>4, <1>12 DEF Seen
  <2>. QED  BY <1>4, <1>6, <2>1, ImageMoves
<1>14. Len(Images[p][s]) = n
  <2>1. Len(Image(p, s)) = n
    BY <1>2, <1>3, <1>10, <1>9, ImageIs
  <2>. QED  BY <2>1, StoreState DEF Seen
<1>15. Files[s] = f
  BY <1>11 DEF Files
<1>. QED
  BY <1>1, <1>11, <1>13, <1>5, <1>7, <1>14, <1>15, StoreState DEF Recoverable!ReadBack

(* A write of a commit is of a declared cell, or changes nothing that is seen. *)
LEMMA StoreWritesKept ==
  ASSUME TableInv, DataInv, NEW p \in Procs, WriteRange(p), ~Undefined,
         NEW h, NEW a, NEW k, NEW s, NEW m, WriteAt(p, h, a, k, s, m), Sound(s)
  PROVE  \/ \E t \in Segs : \E i \in DOMAIN Images[p][t] : Recoverable!Write(p, t, i)
         \/ UNCHANGED Recoverable!vars
<1>1. /\ call[p].op = "commit" /\ call'[p].op = "commit" /\ UNCHANGED <<vm, trans, spoilt>>
      /\ Live(p)' = Live(p)
  BY WriteRangeHead
<1>2. PICK v \in Values, f \in Seq(Values), g \in Seq(Values) :
        Writing(p, a, k, s, v, f, g)
  BY <1>1, WriteRangeDoes DEF Sound
<1>3. a \in Kept(p) /\ s \in Segs
  BY DEF WriteAt, Kept, Sound
<1>4. /\ s = vm[p][a].of /\ k \in 1 .. Len(f) /\ v = Load(p, a, k)
      /\ f = dir[s] /\ Len(f) = Len(vm[p][a].cells) /\ g = [f EXCEPT ![k] = v]
      /\ Len(g) = Len(f) /\ g[k] = v /\ \A j \in 1 .. Len(f) : j # k => g[j] = f[j]
      /\ dir' = [dir EXCEPT ![s] = g] /\ \A t \in Segs \ {s} : dir'[t] = dir[t]
  BY <1>2, Zenon DEF Writing
<1>5. \A b \in Live(p) : \A j \in 1 .. Len(vm[p][b].cells) : Load(p, b, j)' = Load(p, b, j)
  BY <1>2, Zenon DEF Writing
<1>6. \A t \in Segs : Seen(p, t)' = Seen(p, t)
  <2>1. ASSUME NEW b \in Live(p)
        PROVE  \A j \in DOMAIN vm[p][b].cells : Load(p, b, j)' = Load(p, b, j)
    <3>1. PICK c \in Seq(Cells) : c = vm[p][b].cells
      BY CallTyped, Typed DEF Live
    <3>2. DOMAIN c = 1 .. Len(c)
      OBVIOUS
    <3>. QED  BY <1>5, <3>1, <3>2
  <2>2. \A t \in Segs : Image(p, t)' = Image(p, t)
    BY <1>1, <2>1, ImageSame
  <2>. QED  BY <1>1, <2>2 DEF Seen, Sound
<1>7. Phase(p)' = Phase(p) /\ Declared(p)' = Declared(p) /\ Phase(p) = "commit"
  BY <1>1 DEF Phase, Declared, Sound
<1>8. ASSUME NEW q \in Procs \ {p} PROVE Untouched(q)
  <2>1. SameFor(q)
    BY CallTyped, OthersSame DEF Transaction
  <2>2. ASSUME NEW b \in Live(q), vm[q][b].of \notin spoilt
        PROVE  vm[q][b].of \in Segs \ {s}
    BY <1>4, <1>3, <2>2, CallTyped, DataTyped DEF Exclusive, LiveFits, Kept
  <2>3. SameSight(q)
    BY <1>1, <1>4, <2>2 DEF SameSight
  <2>. QED  BY <2>1, <2>3, OthersSee
<1>9. UNCHANGED <<Images, Phases, Declarations>>
  BY <1>6, <1>7, <1>8, StoreStays
<1>10. PICK i \in Seq(Values) : /\ i = Images[p][s] /\ Len(i) = Len(f)
                                /\ k \in DOMAIN i /\ i[k] = v
  <2>1. MappedWhole(p)
    BY DataTyped
  <2>2. /\ Image(p, s) \in Seq(Values) /\ Len(Image(p, s)) = Len(f)
        /\ DOMAIN Image(p, s) = 1 .. Len(f) /\ Image(p, s)[k] = v
    BY <1>4, <1>3, <2>1, ImageIs
  <2>. QED  BY <1>4, <1>3, <2>2, StoreState DEF Seen
<1>11. CASE <<a, k>> \in trans[p].declared
  <2>1. <<s, k>> \in Declared(p)
    <3>1. <<a, k>>[1] = a /\ <<a, k>>[2] = k
      OBVIOUS
    <3>. QED  BY <1>4, <1>11, <3>1 DEF Declared
  <2>2. Files' = [Files EXCEPT ![s] = g] /\ Files[s] = f
    <3>1. dir'[s] = g
      BY <1>4, <1>3, CallTyped
    <3>. QED  BY <1>1, <1>4, <1>3, <3>1 DEF Files, Sound
  <2>3. g = [Files[s] EXCEPT ![k] = Images[p][s][k]]
    BY <1>4, <1>10, <2>2, Zenon
  <2>4. Files' = [Files EXCEPT ![s] = [Files[s] EXCEPT ![k] = Images[p][s][k]]]
    BY <2>2, <2>3, Zenon
  <2>5. Recoverable!Write(p, s, k)
    BY <1>1, <1>7, <1>9, <1>10, <2>1, <2>2, <2>4, StoreState DEF Recoverable!Write
  <2>. QED  BY <1>10, <1>3, <2>5
<1>12. CASE <<a, k>> \notin trans[p].declared
  <2>1. InFile(p, a, k)
    <3>1. k \in 1 .. Len(vm[p][a].cells)
      BY <1>4
    <3>2. UndeclaredAgrees(p)
      BY DataTyped
    <3>. QED  BY <1>3, <1>12, <3>1, <3>2 DEF UndeclaredAgrees
  <2>2. v = f[k]
    BY <1>4, <2>1 DEF InFile
  <2>3. g = f
    <3>1. Len(g) = Len(f) /\ \A j \in 1 .. Len(g) : g[j] = f[j]
      BY <1>4, <2>2
    <3>. QED  BY <3>1, SameSequence
  <2>4. dir' = dir
    <3>1. dir' = [dir EXCEPT ![s] = dir[s]]
      BY <1>4, <2>3, Zenon
    <3>2. dir = [t \in Segs |-> dir[t]]
      BY CallTyped DEF TypeOK
    <3>. QED  BY <1>3, <3>1, <3>2
  <2>5. UNCHANGED Files
    BY <1>1, <2>4 DEF Files, Sound
  <2>. QED  BY <1>1, <1>9, <2>5 DEF Recoverable!vars
<1>. QED  BY <1>11, <1>12

LEMMA StoreWrites ==
  ASSUME TableInv, DataInv, NEW p \in Procs, WriteRange(p), ~Undefined
  PROVE  \/ \E s \in Segs : \E k \in DOMAIN Images[p][s] : Recoverable!Write(p, s, k)
         \/ UNCHANGED Recoverable!vars
<1>1. PICK h, a, k, s, n : WriteAt(p, h, a, k, s, n)
  BY WriteRangeHead
<1>2. CASE Sound(s)
  BY <1>1, <1>2, StoreWritesKept
<1>3. CASE ~Sound(s)
  <2>1. /\ call[p].op = "commit" /\ call'[p].op = "commit"
        /\ UNCHANGED <<vm, trans, spoilt>>
    BY WriteRangeHead
  <2>2. \A t \in Segs : t \notin spoilt => dir'[t] = dir[t]
    BY <1>1, <1>3 DEF WriteAt, Sound
  <2>3. ASSUME NEW q \in Procs PROVE SameSight(q)
    <3>1. \A b \in Live(q) : vm[q][b].of \in Segs
      BY CallTyped DEF LiveFits
    <3>. QED  BY <2>1, <2>2, <3>1 DEF SameSight
  <2>4. \A q \in Procs \ {p} : Untouched(q)
    <3>1. \A q \in Procs \ {p} : SameFor(q)
      BY CallTyped, OthersSame DEF Transaction
    <3>. QED  BY <2>3, <3>1, OthersSee
  <2>5. Untouched(p)
    <3>1. Phase(p)' = Phase(p) /\ Declared(p)' = Declared(p)
      BY <2>1 DEF Phase, Declared, Sound
    <3>2. ASSUME NEW t \in Segs, Sound(t) PROVE Image(p, t)' = Image(p, t)
      <4>1. \A b \in Live(p) : vm[p][b].of = t => \A j : Load(p, b, j)' = Load(p, b, j)
        BY <2>1, <2>2, <3>2 DEF Load, Sound
      <4>2. Live(p)' = Live(p)
        BY <2>1 DEF Live
      <4>. QED  BY <2>1, <4>1, <4>2, ImageSame
    <3>3. \A t \in Segs : Seen(p, t)' = Seen(p, t)
      BY <2>1, <3>2 DEF Seen, Sound
    <3>. QED  BY <3>1, <3>3 DEF Untouched
  <2>6. UNCHANGED Files
    BY <2>1, <2>2 DEF Files, Sound
  <2>. QED  BY <2>1, <2>4, <2>5, <2>6, StoreStutters
<1>. QED  BY <1>2, <1>3

(* What a new mapping leaves as it is: all but the segment it is of. *)
LEMMA MapElsewhere ==
  ASSUME TableInv, NEW p \in Procs, NEW s \in Segs, NEW n \in Sizes, NEW a \in Addrs,
         Map(p, s, n, a), ~Undefined
  PROVE  /\ UNCHANGED Phases
         /\ \A t \in Segs \ {s} : dir'[t] = dir[t] /\ (Sound(t)' <=> Sound(t))
         /\ \A q \in Procs : \A t \in Segs \ {s} : Seen(q, t)' = Seen(q, t)
         /\ \A q \in Procs : \A d \in trans[q].declared : vm'[q][d[1]].of = vm[q][d[1]].of
         /\ UNCHANGED <<trans, call>> /\ Phase(p) \in {"idle", "open"}
         /\ \A q \in Procs \ {p} : SameFor(q)
<1>1. /\ call[p] = Idle /\ UNCHANGED <<trans, call>>
      /\ dir' = [dir EXCEPT ![s] = Pad(dir[s], n)]
      /\ Live(p)' = Live(p) \cup {a} /\ a \notin Live(p) /\ Live(p) \subseteq Addrs
      /\ vm'[p][a].of = s /\ \A b \in Addrs \ {a} : vm'[p][b] = vm[p][b]
      /\ spoilt' = spoilt \/ spoilt' = spoilt \cup {s}
  BY MapDoes
<1>2. \A q \in Procs \ {p} : SameFor(q)
  <2>1. Mapping(p)
    BY DEF Mapping
  <2>. QED  BY <2>1, CallTyped, OthersSame
<1>3. \A t \in Segs \ {s} : dir'[t] = dir[t] /\ (Sound(t)' <=> Sound(t))
  BY <1>1, CallTyped DEF Sound
<1>4. \A q \in Procs : \A b \in Live(q) : b \in Live(q)' /\ vm'[q][b] = vm[q][b]
  BY <1>1, <1>2 DEF SameFor, Live
<1>5. \A q \in Procs : \A b \in Live(q)' : b \in Live(q) \/ vm'[q][b].of = s
  <2>1. \A q \in Procs \ {p} : Live(q)' = Live(q)
    BY <1>2 DEF SameFor, Live
  <2>. QED  BY <1>1, <2>1
<1>6. ASSUME NEW q \in Procs, NEW t \in Segs \ {s} PROVE Seen(q, t)' = Seen(q, t)
  <2>1. \A b \in Live(q) : vm[q][b].of = t => \A k : Load(q, b, k)' = Load(q, b, k)
    BY <1>3, <1>4 DEF Load
  <2>2. \A b : b \in Live(q) /\ vm[q][b].of = t <=> b \in Live(q)' /\ vm'[q][b].of = t
    BY <1>4, <1>5
  <2>3. Image(q, t)' = Image(q, t)
    BY <1>4, <2>1, <2>2, ImageSame
  <2>. QED  BY <1>3, <2>3 DEF Seen
<1>7. \A q \in Procs : \A d \in trans[q].declared : vm'[q][d[1]].of = vm[q][d[1]].of
  <2>1. \A q \in Procs : \A d \in trans[q].declared : d[1] \in Live(q)
    BY CallTyped DEF DeclaredLive
  <2>. QED  BY <1>4, <2>1
<1>8. Phase(p) \in {"idle", "open"} /\ UNCHANGED Phases
  BY <1>1 DEF Phases, Phase, Idle
<1>. QED  BY <1>1, <1>2, <1>3, <1>6, <1>7, <1>8

(* With no segment spoilt by it, nobody else notices. *)
LEMMA MapUnnoticed ==
  ASSUME TableInv, NEW p \in Procs, NEW s \in Segs, NEW n \in Sizes, NEW a \in Addrs,
         Map(p, s, n, a), ~Undefined, spoilt' = spoilt
  PROVE  /\ \A q \in Procs \ {p} : Untouched(q)
         /\ UNCHANGED Declarations
<1>1. MappedElsewhere(p, s) => s \in spoilt'
  BY MapDoes
<1>2. /\ \A t \in Segs \ {s} : dir'[t] = dir[t]
      /\ \A q \in Procs : \A d \in trans[q].declared : vm'[q][d[1]].of = vm[q][d[1]].of
      /\ UNCHANGED trans
      /\ \A q \in Procs \ {p} : SameFor(q)
  BY MapElsewhere
<1>3. ASSUME NEW q \in Procs \ {p} PROVE Untouched(q)
  <2>1. \A b \in Live(q) : vm[q][b].of \in Segs
    BY CallTyped DEF LiveFits
  <2>2. \A b \in Live(q) : vm[q][b].of = s => s \in spoilt
    BY <1>1 DEF MappedElsewhere
  <2>3. SameSight(q)
    BY <1>2, <2>1, <2>2 DEF SameSight
  <2>. QED  BY <1>2, <2>3, OthersSee
<1>4. \A q \in Procs : Declared(q)' = Declared(q)
  BY <1>2, DeclaredSame
<1>. QED  BY <1>3, <1>4 DEF Declarations

(* A new mapping shows the file, padded. *)
LEMMA StoreMapsSound ==
  ASSUME TableInv, DataInv, NEW p \in Procs, NEW s \in Segs, NEW n \in Sizes,
         NEW a \in Addrs, Map(p, s, n, a), ~Undefined, s \notin spoilt'
  PROVE  Recoverable!Map(p, s, n)
<1>1. /\ n \in Nat /\ Len(dir[s]) \in Nat /\ Len(dir[s]) <= n
      /\ dir' = [dir EXCEPT ![s] = Pad(dir[s], n)]
      /\ Live(p)' = Live(p) \cup {a} /\ a \notin Live(p) /\ Live(p) \subseteq Addrs
      /\ vm'[p][a].of = s /\ \A b \in Addrs \ {a} : vm'[p][b] = vm[p][b]
      /\ \A i \in Used(p) : mapped[p][i].name # s
      /\ spoilt' = spoilt /\ ~MappedElsewhere(p, s)
  BY MapDoes
<1>2. PICK z \in Seq({Shared}) : z = vm'[p][a].cells /\ Len(z) = n
  BY MapDoes
<1>3. PICK g : g = Pad(dir[s], n)
  OBVIOUS
<1>4. g \in Seq(Values) /\ Len(g) = n
  <2>1. dir[s] \in Seq(Values)
    BY CallTyped
  <2>. QED  BY <1>1, <1>3, <2>1, PadIs
<1>5. dir' = [dir EXCEPT ![s] = g] /\ dir'[s] = g /\ \A t \in Segs \ {s} : dir'[t] = dir[t]
  <2>1. dir' = [dir EXCEPT ![s] = g]
    BY <1>1, <1>3
  <2>. QED  BY <2>1, CallTyped
<1>6. \A b \in Live(p) : vm[p][b].of # s
  <2>1. \A b \in Live(p) : vm[p][b].of = s => b \in Kept(p)
    BY <1>1 DEF Kept
  <2>. QED  BY <1>1, <2>1, DataTyped, MappingIs
<1>7. \A q \in Procs \ {p} : \A b \in Live(q) : vm[q][b].of # s
  BY <1>1 DEF MappedElsewhere
<1>8. Image(p, s)' = g
  <2>1. \A b \in Live(p)' : vm'[p][b].of = s => b = a
    BY <1>1, <1>6
  <2>2. Image(p, s)' = [k \in DOMAIN vm'[p][a].cells |-> Load(p, a, k)']
    BY <1>1, <2>1, ImageBecomes
  <2>3. DOMAIN z = 1 .. n /\ \A k \in 1 .. n : z[k] = Shared
    BY <1>2
  <2>4. \A k \in 1 .. n : Load(p, a, k)' = g[k]
    BY <1>1, <1>2, <1>5, <2>3 DEF Load
  <2>5. g = [k \in 1 .. n |-> g[k]]
    BY <1>4
  <2>. QED  BY <1>2, <2>2, <2>3, <2>4, <2>5
<1>9. /\ UNCHANGED <<Phases, Declarations>> /\ Phase(p) \in {"idle", "open"}
      /\ \A t \in Segs \ {s} : Seen(p, t)' = Seen(p, t)
      /\ \A q \in Procs \ {p} : Untouched(q)
  BY <1>1, MapElsewhere, MapUnnoticed
<1>10. Images' = [Images EXCEPT ![p][s] = g]
  <2>1. Seen(p, s)' = g
    BY <1>8 DEF Seen, Sound
  <2>. QED  BY <1>9, <2>1, ImageMoves
<1>11. \A q \in Procs : Images[q][s] = <<>>
  <2>1. \A q \in Procs : Image(q, s) = <<>>
    BY <1>6, <1>7, ImageNone
  <2>. QED  BY <2>1, StoreState DEF Seen
<1>12. Files' = [Files EXCEPT ![s] = g] /\ Files[s] = dir[s]
  <2>1. \A t : Sound(t)' <=> Sound(t)
    BY <1>1 DEF Sound
  <2>2. Sound(s)
    BY <1>1 DEF Sound
  <2>. QED  BY <1>5, <2>1, <2>2 DEF Files
<1>13. Recoverable!Padded(dir[s], n) = g
  BY <1>3 DEF Pad, Recoverable!Padded
<1>. QED
  BY <1>1, <1>9, <1>10, <1>11, <1>12, <1>13, StoreState
     DEF Recoverable!Map, Recoverable!Outside, Recoverable!Unmapped

(* Another mapping of a lost segment changes nothing. *)
LEMMA StoreMapsLost ==
  ASSUME TableInv, NEW p \in Procs, NEW s \in Segs, NEW n \in Sizes,
         NEW a \in Addrs, Map(p, s, n, a), ~Undefined, s \in spoilt
  PROVE  UNCHANGED Recoverable!vars
<1>1. spoilt' = spoilt
  <2>1. spoilt' = spoilt \/ spoilt' = spoilt \cup {s}
    BY MapDoes
  <2>. QED  BY <2>1
<1>2. /\ UNCHANGED <<Phases, Declarations>>
      /\ \A t \in Segs \ {s} : dir'[t] = dir[t] /\ Seen(p, t)' = Seen(p, t)
      /\ \A q \in Procs \ {p} : Untouched(q)
  BY <1>1, MapElsewhere, MapUnnoticed
<1>3. \A t \in Segs : Seen(p, t)' = Seen(p, t)
  BY <1>1, <1>2 DEF Seen, Sound
<1>4. UNCHANGED Images
  BY <1>2, <1>3, StoreStays
<1>5. UNCHANGED Files
  BY <1>1, <1>2 DEF Files, Sound
<1>. QED  BY <1>1, <1>2, <1>4, <1>5 DEF Recoverable!vars

(* A mapping that spoils a segment loses it: another process has it mapped, or
   its address is in the entry past the last. *)
LEMMA StoreLoses ==
  ASSUME TableInv, DataInv, NEW p \in Procs, NEW s \in Segs, NEW n \in Sizes,
         NEW a \in Addrs, Map(p, s, n, a), ~Undefined, s \notin spoilt, s \in spoilt'
  PROVE  Recoverable!Lose(p, s)
<1>1. /\ spoilt' = spoilt \cup {s} /\ spoilt' # spoilt
      /\ ~MappedElsewhere(p, s) => AddressReuse /\ dir[s] # <<>>
  BY MapDoes
<1>2. /\ UNCHANGED <<Phases, trans>> /\ Phase(p) \in {"idle", "open"}
      /\ \A t \in Segs \ {s} : dir'[t] = dir[t] /\ (Sound(t)' <=> Sound(t))
      /\ \A q \in Procs : \A t \in Segs \ {s} : Seen(q, t)' = Seen(q, t)
      /\ \A q \in Procs : \A d \in trans[q].declared : vm'[q][d[1]].of = vm[q][d[1]].of
  BY MapElsewhere
<1>3. Sound(s) /\ ~Sound(s)'
  BY DEF Sound
<1>4. Files' = [Files EXCEPT ![s] = <<>>] /\ Files[s] = dir[s]
  BY <1>2, <1>3 DEF Files
<1>5. Images' = [q \in Procs |-> [Images[q] EXCEPT ![s] = <<>>]]
  <2>1. ASSUME NEW q \in Procs
        PROVE  [t \in Segs |-> Seen(q, t)'] = [[t \in Segs |-> Seen(q, t)] EXCEPT ![s] = <<>>]
    <3>1. Seen(q, s)' = <<>>
      BY <1>3 DEF Seen
    <3>. QED  BY <1>2, <3>1
  <2>. QED  BY <2>1 DEF Images, Seen
<1>6. Declarations' = [q \in Procs |-> {d \in Declarations[q] : d[1] # s}]
  <2>1. ASSUME NEW q \in Procs PROVE Declared(q)' = {d \in Declared(q) : d[1] # s}
    <3> DEFINE D == {e \in trans[q].declared : Sound(vm[q][e[1]].of)}
               E == {e \in D : vm[q][e[1]].of # s}
    <3>1. D' = E
      <4>1. \A d \in trans[q].declared : vm[q][d[1]].of \in Segs
        <5>1. \A d \in trans[q].declared : d[1] \in Live(q)
          BY CallTyped DEF DeclaredLive
        <5>. QED  BY <5>1, CallTyped DEF LiveFits
      <4>2. \A d \in trans[q].declared :
              vm'[q][d[1]].of \notin spoilt'
                <=> Sound(vm[q][d[1]].of) /\ vm[q][d[1]].of # s
        BY <1>1, <1>2, <4>1 DEF Sound
      <4>. QED  BY <1>2, <4>2 DEF Sound
    <3>2. \A d \in E : vm'[q][d[1]].of = vm[q][d[1]].of
      BY <1>2
    <3>3. Declared(q) = {<<vm[q][d[1]].of, d[2]>> : d \in D}
      BY DEF Declared
    <3>4. Declared(q)' = {<<vm'[q][d[1]].of, d[2]>> : d \in D'}
      BY DEF Declared
    <3>5. \A e \in D : e \in E <=> vm[q][e[1]].of # s
      OBVIOUS
    <3> HIDE DEF D, E
    <3>6. E \subseteq D
      BY DEF E
    <3>. QED  BY <3>1, <3>2, <3>3, <3>4, <3>5, <3>6
  <2>. QED  BY <2>1 DEF Declarations
<1>7. \/ \E q \in Procs \ {p} : Images[q][s] # <<>>
      \/ AddressReuse /\ Files[s] # <<>>
  <2>1. CASE MappedElsewhere(p, s)
    <3>1. PICK q \in Procs \ {p} : \E b \in Live(q) : vm[q][b].of = s
      BY <2>1 DEF MappedElsewhere
    <3>2. PICK b \in Live(q) : vm[q][b].of = s
      BY <3>1
    <3>3. b \in Kept(q) /\ MappedWhole(q)
      BY <3>2, DataTyped DEF Kept
    <3>4. Len(Image(q, s)) = Len(vm[q][b].cells) /\ Len(vm[q][b].cells) >= 1
      BY <3>2, <3>3, ImageIs DEF MappedWhole
    <3>5. Image(q, s) # <<>>
      BY <3>4
    <3>. QED  BY <1>3, <3>5, StoreState DEF Seen
  <2>. QED  BY <1>1, <1>4, <2>1
<1>. QED
  BY <1>1, <1>2, <1>4, <1>5, <1>6, <1>7, StoreState DEF Recoverable!Lose, Recoverable!Outside

LEMMA StoreMaps ==
  ASSUME TableInv, DataInv, NEW p \in Procs, NEW s \in Segs, NEW n \in Sizes,
         NEW a \in Addrs, Map(p, s, n, a), ~Undefined
  PROVE  \/ Recoverable!Map(p, s, n) \/ Recoverable!Lose(p, s)
         \/ UNCHANGED Recoverable!vars
<1>1. CASE s \notin spoilt'
  BY <1>1, StoreMapsSound
<1>2. CASE s \in spoilt
  BY <1>2, StoreMapsLost
<1>3. CASE s \notin spoilt /\ s \in spoilt'
  BY <1>3, StoreLoses
<1>. QED  BY <1>1, <1>2, <1>3

-----------------------------------------------------------------------------
(* Every step is a step of RecoverableStore, or none. *)
LEMMA StoreMappings ==
  ASSUME TableInv, DataInv, ~Undefined, NEW p \in Procs, Mapping(p)
  PROVE  Recoverable!Next \/ UNCHANGED Recoverable!vars
<1>1. ASSUME NEW s \in Segs, NEW n \in Sizes, NEW a \in Addrs, Map(p, s, n, a)
      PROVE  Recoverable!Next \/ UNCHANGED Recoverable!vars
  <2>1. \/ Recoverable!Map(p, s, n) \/ Recoverable!Lose(p, s)
        \/ UNCHANGED Recoverable!vars
    BY <1>1, StoreMaps
  <2>. QED  BY <2>1 DEF Recoverable!Next
<1>2. ASSUME NEW a \in Addrs, Unmap(p, a) PROVE Recoverable!Next
  <2>1. PICK s \in Segs : s = vm[p][a].of /\ Recoverable!Unmap(p, s)
    BY <1>2, StoreUnmaps
  <2>. QED  BY <2>1 DEF Recoverable!Next
<1>3. CASE UnmapEmpty(p)
  BY <1>3, StoreSleeps
<1>4. ASSUME NEW s \in Segs, Destroy(p, s) PROVE Recoverable!Next
  <2>1. Recoverable!Destroy(s)
    BY <1>4, StoreDestroys
  <2>. QED  BY <2>1 DEF Recoverable!Next
<1>. QED  BY <1>1, <1>2, <1>3, <1>4 DEF Mapping

LEMMA StoreTransactions ==
  ASSUME TableInv, DataInv, ~Undefined, NEW p \in Procs, Transaction(p)
  PROVE  Recoverable!Next \/ UNCHANGED Recoverable!vars
<1>1. Recoverable!Transaction(p) => Recoverable!Next
  BY DEF Recoverable!Next
<1>2. ASSUME NEW bases \in BaseLists(p), BeginTrans(p, bases) PROVE Recoverable!Transaction(p)
  BY <1>2, StoreBegins DEF Recoverable!Transaction
<1>3. CASE LockSegment(p) \/ LogBegin(p) \/ LogCommit(p)
  BY <1>3, StoreSleeps
<1>4. ASSUME NEW a \in Live(p), NEW k \in DOMAIN vm[p][a].cells, AboutToModify(p, a, k)
      PROVE  Recoverable!Transaction(p) \/ UNCHANGED Recoverable!vars
  <2>1. \/ \E s \in Segs : k \in DOMAIN Images[p][s] /\ Recoverable!Declare(p, s, k)
        \/ UNCHANGED Recoverable!vars
    BY <1>4, StoreDeclares
  <2>. QED  BY <2>1 DEF Recoverable!Transaction
<1>5. ASSUME NEW a \in Live(p), NEW k, NEW v \in Values, Store(p, a, k, v)
      PROVE  Recoverable!Transaction(p) \/ UNCHANGED Recoverable!vars
  <2>1. \/ \E s \in Segs : k \in DOMAIN Images[p][s] /\ Recoverable!Store(p, s, k, v)
        \/ UNCHANGED Recoverable!vars
    BY <1>5, StoreStores
  <2>. QED  BY <2>1 DEF Recoverable!Transaction
<1>6. CASE CommitTrans(p) \/ AbortTrans(p)
  BY <1>1, <1>6, StoreEnds DEF Recoverable!Transaction
<1>7. CASE WriteRange(p)
  <2>1. CASE \E s \in Segs : \E k \in DOMAIN Images[p][s] : Recoverable!Write(p, s, k)
    BY <1>1, <2>1 DEF Recoverable!Transaction
  <2>. QED  BY <1>7, <2>1, StoreWrites
<1>8. CASE AbortSegment(p)
  <2>1. CASE \E s \in Segs : Recoverable!ReadBack(p, s)
    BY <1>1, <2>1 DEF Recoverable!Transaction
  <2>. QED  BY <1>8, <2>1, StoreReadsBack
<1>9. CASE Return(p)
  BY <1>1, <1>9, StoreReturns DEF Recoverable!Transaction
<1>. QED  BY <1>1, <1>2, <1>3, <1>4, <1>5, <1>6, <1>7, <1>8, <1>9 DEF Transaction

LEMMA StoreStep ==
  TableInv /\ DataInv /\ [Next]_vars => [Recoverable!Next]_(Recoverable!vars)
<1> SUFFICES ASSUME TableInv, DataInv, [Next]_vars
             PROVE  Recoverable!Next \/ UNCHANGED Recoverable!vars
  OBVIOUS
<1>1. CASE Undefined \/ UNCHANGED vars
  <2>1. UNCHANGED <<dir, vm, trans, call, spoilt>>
    BY <1>1 DEF Undefined, vars, store, table
  <2>2. UNCHANGED <<Files, Images, Phases, Declarations>>
    BY <2>1 DEF Files, Images, Phases, Declarations, Image, Phase, Declared, Live, Load, Sound
  <2>. QED  BY <2>1, <2>2 DEF Recoverable!vars
<1>2. ASSUME ~Undefined, NEW p \in Procs, Start(p) \/ Crash(p) \/ Mapping(p) \/ Transaction(p)
      PROVE  Recoverable!Next \/ UNCHANGED Recoverable!vars
  <2>1. CASE Start(p)
    BY <1>2, <2>1, StoreSleeps
  <2>2. CASE Crash(p)
    BY <2>2, StoreCrashes DEF Recoverable!Next
  <2>3. CASE Mapping(p)
    BY <1>2, <2>3, StoreMappings
  <2>4. CASE Transaction(p)
    BY <1>2, <2>4, StoreTransactions
  <2>. QED  BY <1>2, <2>1, <2>2, <2>3, <2>4
<1>. QED  BY <1>1, <1>2 DEF Next

LEMMA StoreInit == Init => Recoverable!Init
<1> SUFFICES ASSUME Init PROVE Recoverable!Init
  OBVIOUS
<1>1. /\ dir = [s \in Segs |-> <<>>] /\ spoilt = {}
      /\ \A p \in Procs : Live(p) = {}
      /\ \A p \in Procs : trans[p] = NoTrans /\ call[p] = Idle
  BY DEF Init, Live
<1>2. ASSUME NEW p \in Procs PROVE Phase(p) = "idle" /\ Declared(p) = {}
  <2>1. call[p].op = "none" /\ ~trans[p].open /\ trans[p].declared = {}
    BY <1>1 DEF NoTrans, Idle
  <2>. QED  BY <2>1 DEF Phase, Declared
<1>3. \A p \in Procs : \A s \in Segs : Image(p, s) = <<>>
  BY <1>1, ImageNone
<1>. QED
  BY <1>1, <1>2, <1>3 DEF Recoverable!Init, Files, Images, Phases, Declarations, Sound

(* The library keeps the promise of RecoverableStore, step by step, crashes
   included, for every number of processes and wherever mmap puts a mapping:
   files change only in declared cells of commits, transactions end with memory
   and file the same, no process changes what another sees, and a segment is
   lost only when a second process maps it, or when it is mapped at an address
   given out before, and then no other with it. *)
THEOREM RvmImplements == Spec => StoreSpec
<1>1. TableInv /\ DataInv /\ [Next]_vars => [Recoverable!Next]_(Recoverable!vars)
  BY StoreStep
<1>. QED
  BY StoreInit, <1>1, DataInvariant, TableInvariant, PTL DEF Spec, StoreSpec, Recoverable!Spec
=============================================================================

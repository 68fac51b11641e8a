-------------------------- MODULE RecoverableStore --------------------------
(***************************************************************************)
(* What the recoverable memory of project4 promises.  There is no table of  *)
(* mappings, there are no ranges and no private pages: a process has an     *)
(* image of each segment it has mapped, and a transaction declares cells of *)
(* its images.  A segment is lost when a second process maps it, or when it *)
(* is mapped at an address in use before; until it is destroyed nothing is  *)
(* promised of it then, and no other segment suffers.                       *)
(* Only the commit of a transaction writes to a file, and only what it has  *)
(* declared, a cell at a time; a commit or an abort that returns leaves     *)
(* image and file the same.  Whoever crashes loses his images, and nobody   *)
(* anything else.                                                           *)
(***************************************************************************)
EXTENDS Integers, SequencesExt

CONSTANTS
  Procs, Segs, Values, Sizes,
  AddressReuse    (* may a mapping be where an earlier one was?               *)

VARIABLES
  file,       (* segment -> its cells, <<>> when there is no file             *)
  image,      (* process -> segment -> the cells it sees, <<>> when unmapped  *)
  phase,      (* process -> "idle", or where its transaction is               *)
  declared,   (* process -> the cells <<s, k>> its transaction may change     *)
  lost        (* the segments of which nothing is promised: they have no file *)

vars == <<file, image, phase, declared, lost>>

Unmapped(s) == \A p \in Procs : image[p][s] = <<>>
Padded(c, n) == c \o [i \in 1 .. n - Len(c) |-> 0]
Outside(p) == phase[p] \in {"idle", "open"}
Moves(p, from, to) == phase[p] = from /\ phase' = [phase EXCEPT ![p] = to]

Init ==
  /\ file = [s \in Segs |-> <<>>]
  /\ image = [p \in Procs |-> [s \in Segs |-> <<>>]]
  /\ phase = [p \in Procs |-> "idle"]
  /\ declared = [p \in Procs |-> {}]
  /\ lost = {}

(* A new mapping shows what the last process left, padded with zeroes. *)
Map(p, s, n) ==
  /\ Outside(p) /\ Unmapped(s) /\ s \notin lost /\ Len(file[s]) <= n
  /\ file' = [file EXCEPT ![s] = Padded(file[s], n)]
  /\ image' = [image EXCEPT ![p][s] = Padded(file[s], n)]
  /\ UNCHANGED <<phase, declared, lost>>

(* A process maps what another has mapped, or where it had something before:
   the segment is gone from the files, the images and the transactions. *)
Lose(p, s) ==
  /\ Outside(p) /\ s \notin lost
  /\ \/ \E q \in Procs \ {p} : image[q][s] # <<>>
     \/ AddressReuse /\ file[s] # <<>>
  /\ file' = [file EXCEPT ![s] = <<>>]
  /\ image' = [q \in Procs |-> [image[q] EXCEPT ![s] = <<>>]]
  /\ declared' = [q \in Procs |-> {d \in declared[q] : d[1] # s}]
  /\ lost' = lost \cup {s}
  /\ UNCHANGED phase

(* No segment is unmapped of which the transaction has declared a cell. *)
Unmap(p, s) ==
  /\ Outside(p) /\ \A d \in declared[p] : d[1] # s
  /\ image' = [image EXCEPT ![p][s] = <<>>]
  /\ UNCHANGED <<file, phase, declared, lost>>

Destroy(s) ==
  /\ Unmapped(s)
  /\ file' = [file EXCEPT ![s] = <<>>]
  /\ lost' = lost \ {s}
  /\ UNCHANGED <<image, phase, declared>>

Begin(p) ==
  /\ Moves(p, "idle", "open")
  /\ UNCHANGED <<file, image, declared, lost>>

Declare(p, s, k) ==
  /\ phase[p] = "open"
  /\ declared' = [declared EXCEPT ![p] = declared[p] \cup {<<s, k>>}]
  /\ UNCHANGED <<file, image, phase, lost>>

Store(p, s, k, v) ==
  /\ phase[p] = "open" /\ <<s, k>> \in declared[p]
  /\ image' = [image EXCEPT ![p][s] = [image[p][s] EXCEPT ![k] = v]]
  /\ UNCHANGED <<file, phase, declared, lost>>

(* A commit or an abort begins; it ends with Return. *)
End(p) ==
  /\ Moves(p, "open", "commit") \/ Moves(p, "open", "abort")
  /\ UNCHANGED <<file, image, declared, lost>>

(* The commit writes a cell, and only to a file that its process has mapped. *)
Write(p, s, k) ==
  /\ phase[p] = "commit" /\ <<s, k>> \in declared[p]
  /\ Len(file[s]) = Len(image[p][s])
  /\ file' = [file EXCEPT ![s] = [file[s] EXCEPT ![k] = image[p][s][k]]]
  /\ UNCHANGED <<image, phase, declared, lost>>

(* The abort takes a segment back to what is in its file. *)
ReadBack(p, s) ==
  /\ phase[p] = "abort" /\ Len(file[s]) = Len(image[p][s])
  /\ image' = [image EXCEPT ![p][s] = file[s]]
  /\ UNCHANGED <<file, phase, declared, lost>>

(* Of what was committed nothing is missing in the files, of what was aborted
   nothing is left in memory, and what was not declared never differed. *)
Return(p) ==
  /\ Moves(p, "commit", "idle") \/ Moves(p, "abort", "idle")
  /\ \A s \in Segs : image[p][s] \in {<<>>, file[s]}
  /\ declared' = [declared EXCEPT ![p] = {}]
  /\ UNCHANGED <<file, image, lost>>

Crash(p) ==
  /\ image' = [image EXCEPT ![p] = [s \in Segs |-> <<>>]]
  /\ phase' = [phase EXCEPT ![p] = "idle"]
  /\ declared' = [declared EXCEPT ![p] = {}]
  /\ UNCHANGED <<file, lost>>

Transaction(p) ==
  \/ Begin(p) \/ End(p) \/ Return(p)
  \/ \E s \in Segs : \/ ReadBack(p, s)
                     \/ \E k \in DOMAIN image[p][s] :
                          \/ Declare(p, s, k) \/ Write(p, s, k)
                          \/ \E v \in Values : Store(p, s, k, v)

Next ==
  \E p \in Procs :
    \/ Transaction(p) \/ Crash(p)
    \/ \E s \in Segs : \/ Unmap(p, s) \/ Destroy(s) \/ Lose(p, s)
                       \/ \E n \in Sizes : Map(p, s, n)

Spec == Init /\ [][Next]_vars
=============================================================================

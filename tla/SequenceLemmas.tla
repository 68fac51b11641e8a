--------------------------- MODULE SequenceLemmas ---------------------------
(***************************************************************************)
(* Sequences in which nothing is twice, as the list of connections of      *)
(* AbyssServer, its backlog and the message queue of ClientTransport are:  *)
(* what the operators these modules use on them keep.  And FlattenSeq, by  *)
(* which HttpConnection and Rvm put sequences together.                    *)
(***************************************************************************)
EXTENDS Integers, SequencesExt, FiniteSetTheorems, SequenceTheorems,
        WellFoundedInduction, TLAPS

(* What is appended to a sequence without repetition must be new. *)
LEMMA AppendNew ==
  ASSUME NEW S, NEW s \in Seq(S), IsInjective(s), NEW e \in S, e \notin ToSet(s)
  PROVE  /\ Append(s, e) \in Seq(S)
         /\ IsInjective(Append(s, e))
         /\ ToSet(Append(s, e)) = ToSet(s) \cup {e}
<1>1. /\ Append(s, e) \in Seq(S)
      /\ Len(Append(s, e)) = Len(s) + 1
      /\ \A i \in 1 .. Len(s) : Append(s, e)[i] = s[i]
      /\ Append(s, e)[Len(s) + 1] = e
      /\ DOMAIN s = 1 .. Len(s)
      /\ DOMAIN Append(s, e) = 1 .. (Len(s) + 1)
      /\ Len(s) \in Nat
  OBVIOUS
<1>2. IsInjective(Append(s, e))
  BY <1>1 DEF IsInjective, ToSet
<1>3. ToSet(Append(s, e)) = ToSet(s) \cup {e}
  BY <1>1 DEF ToSet
<1>. QED  BY <1>1, <1>2, <1>3

(* The head of such a sequence is not in its tail. *)
LEMMA TailLoses ==
  ASSUME NEW S, NEW s \in Seq(S), IsInjective(s), s # <<>>
  PROVE  /\ Head(s) \in S /\ Head(s) \in ToSet(s)
         /\ Tail(s) \in Seq(S)
         /\ IsInjective(Tail(s))
         /\ ToSet(Tail(s)) = ToSet(s) \ {Head(s)}
<1>1. /\ Tail(s) \in Seq(S)
      /\ Len(s) \in Nat /\ Len(s) > 0
      /\ Head(s) = s[1] /\ Head(s) \in S
      /\ DOMAIN s = 1 .. Len(s)
      /\ DOMAIN Tail(s) = 1 .. (Len(s) - 1)
      /\ \A i \in 1 .. (Len(s) - 1) : Tail(s)[i] = s[i + 1]
  OBVIOUS
<1>2. IsInjective(Tail(s))
  BY <1>1 DEF IsInjective
<1>3. Head(s) \in ToSet(s)
  BY <1>1 DEF ToSet
<1>4. ToSet(Tail(s)) \subseteq ToSet(s) \ {Head(s)}
  BY <1>1 DEF ToSet, IsInjective
<1>5. ASSUME NEW e \in ToSet(s), e # Head(s) PROVE e \in ToSet(Tail(s))
  <2>1. PICK i \in 1 .. Len(s) : e = s[i]
    BY <1>1 DEF ToSet
  <2>2. i - 1 \in 1 .. (Len(s) - 1) /\ Tail(s)[i - 1] = e
    BY <1>1, <1>5, <2>1
  <2>. QED  BY <1>1, <2>2 DEF ToSet
<1>. QED  BY <1>1, <1>2, <1>3, <1>4, <1>5

(* What is removed from such a sequence is no longer in it. *)
LEMMA RemoveLoses ==
  ASSUME NEW S, NEW s \in Seq(S), IsInjective(s), NEW n \in 1 .. Len(s)
  PROVE  /\ RemoveAt(s, n) \in Seq(S)
         /\ IsInjective(RemoveAt(s, n))
         /\ s[n] \in S /\ s[n] \in ToSet(s)
         /\ ToSet(RemoveAt(s, n)) = ToSet(s) \ {s[n]}
         /\ Len(RemoveAt(s, n)) = Len(s) - 1
<1> DEFINE r == RemoveAt(s, n)
<1>1. Len(s) \in Nat /\ DOMAIN s = 1 .. Len(s) /\ n \in Nat /\ s[n] \in S
  OBVIOUS
<1>2. /\ r \in Seq(S)
      /\ Len(r) = Len(s) - 1
      /\ DOMAIN r = 1 .. (Len(s) - 1)
      /\ \A i \in 1 .. (Len(s) - 1) : r[i] = IF i < n THEN s[i] ELSE s[i + 1]
  <2> DEFINE a == SubSeq(s, 1, n - 1)
             b == SubSeq(s, n + 1, Len(s))
  <2>1. /\ a \in Seq(S) /\ Len(a) = n - 1
        /\ \A i \in 1 .. (n - 1) : a[i] = s[i]
    BY <1>1
  <2>2. /\ b \in Seq(S) /\ Len(b) = Len(s) - n
        /\ \A i \in 1 .. (Len(s) - n) : b[i] = s[n + i]
    <3>1. PICK m \in Int : m = n + 1
      BY <1>1
    <3>2. \A i \in m .. Len(s) : s[i] \in S
      BY <1>1, <3>1
    <3>3. b = SubSeq(s, m, Len(s))
      BY <3>1
    <3> HIDE DEF b
    <3>4. /\ b \in Seq(S)
          /\ Len(b) = IF m <= Len(s) THEN Len(s) - m + 1 ELSE 0
          /\ \A i \in 1 .. Len(s) - m + 1 : b[i] = s[m + i - 1]
      BY <1>1, <3>2, <3>3, SubSeqProperties
    <3>5. Len(b) = Len(s) - n
      <4>1. CASE m <= Len(s)
        <5>1. Len(b) = Len(s) - m + 1
          BY <3>4, <4>1, Zenon
        <5>. QED  BY <1>1, <3>1, <5>1
      <4>2. CASE ~(m <= Len(s))
        <5>1. Len(b) = 0
          BY <3>4, <4>2, Zenon
        <5>2. Len(s) \in Nat /\ n \in Nat /\ n <= Len(s)
          BY <1>1
        <5>3. ~(n + 1 <= Len(s))
          BY <3>1, <4>2
        <5>4. n = Len(s)
          BY <5>2, <5>3
        <5>. QED  BY <5>1, <5>2, <5>4
      <4>. QED  BY <4>1, <4>2, Zenon
    <3>6. ASSUME NEW i \in 1 .. (Len(s) - n) PROVE b[i] = s[n + i]
      <4>1. i \in 1 .. Len(s) - m + 1 /\ m + i - 1 = n + i
        BY <1>1, <3>1
      <4>2. b[i] = s[m + i - 1]
        BY <3>4, <4>1
      <4>. QED  BY <4>1, <4>2, Zenon
    <3>. QED  BY <3>4, <3>5, <3>6
  <2>3. r = a \o b
    BY DEF RemoveAt
  <2> HIDE DEF a, b, r
  <2>4. /\ r \in Seq(S) /\ Len(r) = Len(s) - 1
        /\ \A i \in 1 .. (Len(s) - 1) :
             r[i] = IF i <= n - 1 THEN a[i] ELSE b[i - (n - 1)]
    <3>0. /\ a \in Seq(S) /\ b \in Seq(S)
      BY <2>1, <2>2
    <3>1. /\ r \in Seq(S)
          /\ Len(r) = Len(a) + Len(b)
          /\ \A i \in 1 .. Len(a) + Len(b) :
               r[i] = IF i <= Len(a) THEN a[i] ELSE b[i - Len(a)]
      BY <2>3, <3>0, ConcatProperties, Zenon
    <3>. QED  BY <1>1, <2>1, <2>2, <3>1
  <2>5. DOMAIN r = 1 .. (Len(s) - 1)
    BY <2>4
  <2>6. ASSUME NEW i \in 1 .. (Len(s) - 1)
        PROVE  r[i] = IF i < n THEN s[i] ELSE s[i + 1]
    <3>1. CASE i < n
      <4>1. i \in 1 .. (n - 1) /\ i <= n - 1
        BY <1>1, <3>1
      <4>2. r[i] = a[i] /\ a[i] = s[i]
        BY <2>1, <2>4, <4>1
      <4>. QED  BY <3>1, <4>2
    <3>2. CASE ~(i < n)
      <4>1. /\ i - (n - 1) \in 1 .. (Len(s) - n) /\ ~(i <= n - 1)
            /\ n + (i - (n - 1)) = i + 1
        BY <1>1, <3>2
      <4>2. r[i] = b[i - (n - 1)] /\ b[i - (n - 1)] = s[n + (i - (n - 1))]
        BY <2>2, <2>4, <4>1
      <4>. QED  BY <3>2, <4>1, <4>2
    <3>. QED  BY <3>1, <3>2
  <2>. QED  BY <2>4, <2>5, <2>6
<1> HIDE DEF r
<1>3. IsInjective(r)
  <2> DEFINE at(i) == IF i < n THEN i ELSE i + 1
  <2>1. \A i \in DOMAIN r : at(i) \in DOMAIN s /\ r[i] = s[at(i)]
    BY <1>1, <1>2
  <2>2. \A i, j \in DOMAIN r : at(i) = at(j) => i = j
    BY <1>1, <1>2
  <2> HIDE DEF at
  <2>. QED  BY <2>1, <2>2 DEF IsInjective
<1>4. ToSet(r) \subseteq ToSet(s) \ {s[n]}
  BY <1>1, <1>2 DEF ToSet, IsInjective
<1>5. ASSUME NEW e \in ToSet(s), e # s[n] PROVE e \in ToSet(r)
  <2>1. PICK i \in 1 .. Len(s) : e = s[i]
    BY <1>1 DEF ToSet
  <2>2. CASE i < n
    BY <1>1, <1>2, <2>1, <2>2 DEF ToSet
  <2>3. CASE i > n
    <3>1. i - 1 \in 1 .. (Len(s) - 1) /\ r[i - 1] = e
      BY <1>1, <1>2, <2>1, <2>3
    <3>. QED  BY <1>2, <3>1 DEF ToSet
  <2>. QED  BY <1>1, <1>5, <2>1, <2>2, <2>3
<1>6. s[n] \in ToSet(s)
  BY <1>1 DEF ToSet
<1>. QED  BY <1>1, <1>2, <1>3, <1>4, <1>5, <1>6 DEF r

(* A new element in front of such a sequence. *)
LEMMA PrependNew ==
  ASSUME NEW S, NEW s \in Seq(S), IsInjective(s), NEW e \in S, e \notin ToSet(s)
  PROVE  LET r == SetToSeq({e}) \o s IN
           /\ r \in Seq(S)
           /\ IsInjective(r)
           /\ ToSet(r) = ToSet(s) \cup {e}
           /\ Len(r) = Len(s) + 1
<1> DEFINE r == SetToSeq({e}) \o s
<1>1. SetToSeq({e}) = <<e>>
  <2>1. Cardinality({e}) = 1
    BY FS_Singleton
  <2>2. [i \in 1 .. 1 |-> e] \in [1 .. 1 -> {e}] /\ IsInjective([i \in 1 .. 1 |-> e])
    BY DEF IsInjective
  <2>3. SetToSeq({e}) \in [1 .. 1 -> {e}]
    BY <2>1, <2>2 DEF SetToSeq
  <2>. QED  BY <2>3
<1>2. /\ Len(s) \in Nat /\ DOMAIN s = 1 .. Len(s)
      /\ r \in Seq(S) /\ Len(r) = Len(s) + 1
      /\ DOMAIN r = 1 .. (Len(s) + 1)
      /\ r[1] = e
      /\ \A i \in 1 .. Len(s) : r[i + 1] = s[i]
  <2>1. /\ <<e>> \in Seq(S) /\ Len(<<e>>) = 1 /\ <<e>>[1] = e
        /\ Len(s) \in Nat /\ DOMAIN s = 1 .. Len(s)
    OBVIOUS
  <2>0. r = <<e>> \o s
    BY <1>1
  <2> HIDE DEF r
  <2>2. /\ r \in Seq(S)
        /\ Len(r) = Len(<<e>>) + Len(s)
        /\ \A i \in 1 .. Len(<<e>>) + Len(s) :
             r[i] = IF i <= Len(<<e>>) THEN <<e>>[i] ELSE s[i - Len(<<e>>)]
    BY <2>1, <2>0, ConcatProperties
  <2>3. DOMAIN r = 1 .. Len(r) /\ Len(r) = Len(s) + 1
    BY <2>1, <2>2
  <2>4. 1 \in 1 .. Len(<<e>>) + Len(s) /\ 1 <= Len(<<e>>)
    BY <2>1
  <2>5. r[1] = e
    BY <2>1, <2>2, <2>4, Zenon
  <2>6. ASSUME NEW i \in 1 .. Len(s) PROVE r[i + 1] = s[i]
    <3>1. /\ i + 1 \in 1 .. Len(<<e>>) + Len(s)
          /\ ~(i + 1 <= Len(<<e>>))
          /\ (i + 1) - Len(<<e>>) = i
      BY <2>1
    <3>. QED  BY <2>2, <3>1, Zenon
  <2>. QED  BY <2>1, <2>2, <2>3, <2>5, <2>6
<1> HIDE DEF r
<1>3. \A i \in 2 .. (Len(s) + 1) : r[i] = s[i - 1] /\ i - 1 \in 1 .. Len(s)
  BY <1>2
<1>4. IsInjective(r)
  <2>1. \A i \in 2 .. (Len(s) + 1) : r[i] # e
    BY <1>2, <1>3 DEF ToSet
  <2>2. ASSUME NEW i \in DOMAIN r, NEW j \in DOMAIN r, r[i] = r[j] PROVE i = j
    <3>1. CASE i = 1 \/ j = 1
      BY <1>2, <2>1, <2>2, <3>1
    <3>2. CASE i # 1 /\ j # 1
      <4>1. /\ i - 1 \in DOMAIN s /\ j - 1 \in DOMAIN s
            /\ s[i - 1] = s[j - 1]
        BY <1>2, <1>3, <2>2, <3>2
      <4>. QED  BY <1>2, <4>1, <2>2 DEF IsInjective
    <3>. QED  BY <3>1, <3>2
  <2>. QED  BY <2>2 DEF IsInjective
<1>5. ToSet(r) \subseteq ToSet(s) \cup {e}
  <2> SUFFICES ASSUME NEW i \in 1 .. (Len(s) + 1), i # 1 PROVE r[i] \in ToSet(s)
    BY <1>2 DEF ToSet
  <2>1. i \in 2 .. (Len(s) + 1)
    BY <1>2
  <2>2. r[i] = s[i - 1] /\ i - 1 \in 1 .. Len(s)
    BY <1>3, <2>1
  <2>. QED  BY <1>2, <2>2 DEF ToSet
<1>6. ASSUME NEW x \in ToSet(s) PROVE x \in ToSet(r)
  <2>1. PICK i \in 1 .. Len(s) : x = s[i]
    BY <1>2 DEF ToSet
  <2>2. i + 1 \in DOMAIN r /\ r[i + 1] = x
    BY <1>2, <2>1
  <2>. QED  BY <2>2 DEF ToSet
<1>7. e \in ToSet(r)
  BY <1>2 DEF ToSet
<1>. QED  BY <1>2, <1>4, <1>5, <1>6, <1>7 DEF r

(* A sequence has at least as many places as elements. *)
LEMMA NoMoreElements ==
  ASSUME NEW S, NEW s \in Seq(S)
  PROVE  /\ IsFiniteSet(ToSet(s))
         /\ Cardinality(ToSet(s)) \in Nat
         /\ Cardinality(ToSet(s)) <= Len(s)
<1>1. /\ Len(s) \in Nat /\ 1 .. Len(s) = DOMAIN s
      /\ s \in [1 .. Len(s) -> ToSet(s)]
  BY DEF ToSet
<1>2. IsFiniteSet(1 .. Len(s)) /\ Cardinality(1 .. Len(s)) = Len(s)
  BY <1>1, FS_Interval
<1>3. \A t \in ToSet(s) : \E i \in 1 .. Len(s) : s[i] = t
  BY <1>1 DEF ToSet
<1>4. s \in Surjection(1 .. Len(s), ToSet(s))
  BY <1>1, <1>3 DEF Surjection
<1>5. IsFiniteSet(ToSet(s)) /\ Cardinality(ToSet(s)) <= Cardinality(1 .. Len(s))
  BY <1>2, <1>4, FS_Surjection
<1>. QED  BY <1>2, <1>5, FS_CardinalityType

(* An element is once in a sequence without repetition, or not at all. *)
LEMMA PlacesInQueue ==
  ASSUME NEW S, NEW s \in Seq(S), IsInjective(s), NEW e
  PROVE  Cardinality({n \in DOMAIN s : s[n] = e}) = IF e \in ToSet(s) THEN 1 ELSE 0
<1>1. CASE e \in ToSet(s)
  <2>1. PICK n \in DOMAIN s : s[n] = e
    BY <1>1 DEF ToSet
  <2>2. {m \in DOMAIN s : s[m] = e} = {n}
    BY <2>1 DEF IsInjective
  <2>. QED  BY <1>1, <2>2, FS_Singleton
<1>2. CASE e \notin ToSet(s)
  <2>1. {m \in DOMAIN s : s[m] = e} = {}
    BY <1>2 DEF ToSet
  <2>. QED  BY <1>2, <2>1, FS_EmptySet
<1>. QED  BY <1>1, <1>2

-----------------------------------------------------------------------------
(* Induction up to a bound, over a set: what holds of 1 and goes from n to  *)
(* n + 1 holds of all.                                                      *)
LEMMA CountingUp ==
  ASSUME NEW L \in Nat, NEW G, 1 \in G,
         \A n \in 1 .. L : n \in G /\ n < L => n + 1 \in G
  PROVE  \A n \in 1 .. L : n \in G
<1> DEFINE Bad == {n \in 1 .. L : n \notin G}
<1>1. ASSUME Bad # {} PROVE FALSE
  <2>1. Bad \in SUBSET Nat
    OBVIOUS
  <2> HIDE DEF Bad
  <2>2. PICK n \in Bad : \A m \in Bad : ~ (<<m, n>> \in OpToRel(<, Nat))
    BY <1>1, <2>1, NatLessThanWellFounded, WFMin
  <2>3. \A m \in Bad : ~ (m < n)
    BY <2>1, <2>2 DEF OpToRel
  <2> USE DEF Bad
  <2>4. n \in 1 .. L /\ n \notin G /\ n # 1
    OBVIOUS
  <2>5. PICK k \in 1 .. L : k = n - 1
    BY <2>4
  <2>6. k \in G
    BY <2>3, <2>4, <2>5
  <2>7. k + 1 \in G
    BY <2>4, <2>5, <2>6
  <2>. QED  BY <2>4, <2>5, <2>7
<1>. QED  BY <1>1

-----------------------------------------------------------------------------
(* FlattenSeq is the last of the functions that its definition chooses: the *)
(* parts up to i, from those up to i - 1.                                   *)
Flattens(f, seqs, n) ==
  f = [i \in 1 .. n |-> IF i = 1 THEN seqs[i] ELSE f[i - 1] \o seqs[i]]

(* There is such a function. *)
LEMMA FlattenExists ==
  ASSUME NEW S, NEW seqs \in Seq(Seq(S)), NEW n \in 1 .. Len(seqs)
  PROVE  \E f : Flattens(f, seqs, n)
<1> DEFINE Good == {m \in 1 .. Len(seqs) : \E f : Flattens(f, seqs, m)}
<1>0. Len(seqs) \in Nat /\ Len(seqs) >= 1 /\ 1 \in 1 .. Len(seqs)
  OBVIOUS
<1>1. 1 \in Good
  <2>1. PICK f : f = [i \in 1 .. 1 |-> seqs[1]]
    OBVIOUS
  <2>2. Flattens(f, seqs, 1)
    BY <2>1 DEF Flattens
  <2>. QED  BY <1>0, <2>2
<1>2. ASSUME NEW m \in 1 .. Len(seqs), m \in Good, m < Len(seqs) PROVE m + 1 \in Good
  <2>1. PICK f : Flattens(f, seqs, m)
    BY <1>2
  <2>2. PICK g : g = [i \in 1 .. m + 1 |-> IF i = m + 1 THEN f[m] \o seqs[m + 1] ELSE f[i]]
    OBVIOUS
  <2>3. ASSUME NEW i \in 1 .. m + 1
        PROVE  g[i] = IF i = 1 THEN seqs[i] ELSE g[i - 1] \o seqs[i]
    <3>0. g[i] = IF i = m + 1 THEN f[m] \o seqs[m + 1] ELSE f[i]
      BY <2>2
    <3>1. CASE i = m + 1
      <4>1. g[i] = f[m] \o seqs[i] /\ i # 1
        <5>1. g[i] = f[m] \o seqs[m + 1]
          BY <3>0, <3>1, Zenon
        <5>. QED  BY <3>1, <5>1
      <4>2. i - 1 = m /\ g[m] = f[m] /\ g[i - 1] = f[m]
        BY <2>2, <3>1
      <4>. QED  BY <4>1, <4>2, Zenon
    <3>2. CASE i \in 1 .. m
      <4>1. g[i] = f[i] /\ f[i] = IF i = 1 THEN seqs[i] ELSE f[i - 1] \o seqs[i]
        <5>1. i # m + 1
          BY <3>2
        <5>2. g[i] = f[i]
          BY <3>0, <5>1, Zenon
        <5>3. f[i] = IF i = 1 THEN seqs[i] ELSE f[i - 1] \o seqs[i]
          BY <2>1, <3>2, Zenon DEF Flattens
        <5>. QED  BY <5>2, <5>3, Zenon
      <4>2. i # 1 => g[i - 1] = f[i - 1]
        BY <2>2, <3>2
      <4>. QED  BY <4>1, <4>2, Zenon
    <3>. QED  BY <3>1, <3>2
  <2>4. g = [i \in 1 .. m + 1 |-> g[i]]
    BY <2>2
  <2>5. Flattens(g, seqs, m + 1)
    BY <2>3, <2>4 DEF Flattens
  <2>6. m + 1 \in 1 .. Len(seqs)
    BY <1>0, <1>2
  <2>. QED  BY <2>5, <2>6
<1> HIDE DEF Good
<1>3. n \in Good
  BY <1>0, <1>1, <1>2, CountingUp
<1>. QED  BY <1>3 DEF Good

(* FlattenSeq is its last value. *)
LEMMA FlattenUnfolds ==
  ASSUME NEW S, NEW seqs \in Seq(Seq(S)), seqs # <<>>
  PROVE  \E f : Flattens(f, seqs, Len(seqs)) /\ FlattenSeq(seqs) = f[Len(seqs)]
<1>1. Len(seqs) \in Nat \ {0}
  OBVIOUS
<1>2. \E f : Flattens(f, seqs, Len(seqs))
  BY <1>1, FlattenExists
<1>3. PICK f : Flattens(f, seqs, Len(seqs)) /\ f = CHOOSE g : Flattens(g, seqs, Len(seqs))
  BY <1>2
<1>4. FlattenSeq(seqs) = f[Len(seqs)]
  BY <1>1, <1>3 DEF FlattenSeq, Flattens
<1>. QED  BY <1>3, <1>4

(* All its values have the elements of the parts. *)
LEMMA FlattenedTyped ==
  ASSUME NEW S, NEW seqs \in Seq(Seq(S)), NEW n \in 1 .. Len(seqs),
         NEW f, Flattens(f, seqs, n)
  PROVE  \A i \in 1 .. n : f[i] \in Seq(S)
<1> DEFINE Good == {i \in 1 .. n : f[i] \in Seq(S)}
<1>0. n \in Nat /\ 1 \in 1 .. n /\ n <= Len(seqs) /\ Len(seqs) \in Nat
      /\ \A i \in 1 .. n : seqs[i] \in Seq(S)
  OBVIOUS
<1>1. \A i \in 1 .. n : f[i] = IF i = 1 THEN seqs[i] ELSE f[i - 1] \o seqs[i]
  BY Zenon DEF Flattens
<1>2. 1 \in Good
  BY <1>0, <1>1
<1>3. ASSUME NEW i \in 1 .. n, i \in Good, i < n PROVE i + 1 \in Good
  <2>1. i + 1 \in 1 .. n /\ i + 1 # 1 /\ (i + 1) - 1 = i
    BY <1>0, <1>3
  <2>2. f[i + 1] = f[i] \o seqs[i + 1]
    BY <1>1, <2>1, Zenon
  <2>3. f[i] \in Seq(S) /\ seqs[i + 1] \in Seq(S)
    BY <1>0, <1>3, <2>1
  <2>4. f[i] \o seqs[i + 1] \in Seq(S)
    BY <2>3
  <2>. QED  BY <2>1, <2>2, <2>4
<1> HIDE DEF Good
<1>4. \A i \in 1 .. n : i \in Good
  BY <1>0, <1>2, <1>3, CountingUp
<1>. QED  BY <1>4 DEF Good

(* FlattenSeq of sequences over S is a sequence over S. *)
LEMMA FlattenTyped ==
  ASSUME NEW S, NEW seqs \in Seq(Seq(S))
  PROVE  FlattenSeq(seqs) \in Seq(S)
<1>1. CASE seqs = <<>>
  BY <1>1 DEF FlattenSeq
<1>2. CASE seqs # <<>>
  <2>1. PICK f : Flattens(f, seqs, Len(seqs)) /\ FlattenSeq(seqs) = f[Len(seqs)]
    BY <1>2, FlattenUnfolds
  <2>2. Len(seqs) \in 1 .. Len(seqs)
    BY <1>2
  <2>. QED  BY <2>1, <2>2, FlattenedTyped
<1>. QED  BY <1>1, <1>2

(* What is appended comes last. *)
LEMMA FlattenAppend ==
  ASSUME NEW S, NEW seqs \in Seq(Seq(S)), NEW s \in Seq(S)
  PROVE  FlattenSeq(Append(seqs, s)) = FlattenSeq(seqs) \o s
<1> DEFINE more == Append(seqs, s)
<1>1. /\ more \in Seq(Seq(S)) /\ more # <<>>
      /\ Len(more) = Len(seqs) + 1
      /\ \A i \in 1 .. Len(seqs) : more[i] = seqs[i]
      /\ more[Len(seqs) + 1] = s
      /\ Len(seqs) \in Nat
  <2>1. PICK T : T = Seq(S)
    OBVIOUS
  <2>2. seqs \in Seq(T) /\ s \in T
    BY <2>1
  <2>3. /\ more \in Seq(T) /\ more # <<>>
        /\ Len(more) = Len(seqs) + 1
        /\ \A i \in 1 .. Len(seqs) : more[i] = seqs[i]
        /\ more[Len(seqs) + 1] = s
        /\ Len(seqs) \in Nat
    BY ONLY <2>2
  <2>. QED  BY <2>1, <2>3
<1> HIDE DEF more
<1>2. PICK g : Flattens(g, more, Len(more)) /\ FlattenSeq(more) = g[Len(more)]
  BY <1>1, FlattenUnfolds
<1>3. \A i \in 1 .. Len(more) : g[i] = IF i = 1 THEN more[i] ELSE g[i - 1] \o more[i]
  BY <1>2, Zenon DEF Flattens
<1>4. CASE seqs = <<>>
  <2>1. Len(more) = 1 /\ more[1] = s /\ 1 \in 1 .. Len(more)
    BY <1>1, <1>4
  <2>2. FlattenSeq(more) = s
    BY <1>2, <1>3, <2>1, Zenon
  <2>3. FlattenSeq(seqs) = <<>>
    BY <1>4 DEF FlattenSeq
  <2>. QED  BY <2>2, <2>3 DEF more
<1>5. CASE seqs # <<>>
  <2>0. Len(seqs) \in 1 .. Len(seqs) /\ 1 \in 1 .. Len(seqs)
    BY <1>5
  <2>1. PICK f : Flattens(f, seqs, Len(seqs)) /\ FlattenSeq(seqs) = f[Len(seqs)]
    BY <1>5, FlattenUnfolds
  <2>2. \A i \in 1 .. Len(seqs) : f[i] = IF i = 1 THEN seqs[i] ELSE f[i - 1] \o seqs[i]
    BY <2>1, Zenon DEF Flattens
  <2> DEFINE Good == {i \in 1 .. Len(seqs) : f[i] = g[i]}
  <2>3. 1 \in Good
    <3>1. 1 \in 1 .. Len(more)
      BY <1>1
    <3>2. f[1] = seqs[1] /\ g[1] = more[1]
      BY <1>3, <2>0, <2>2, <3>1, Zenon
    <3>. QED  BY <1>1, <2>0, <3>2
  <2>4. ASSUME NEW i \in 1 .. Len(seqs), i \in Good, i < Len(seqs) PROVE i + 1 \in Good
    <3>1. /\ i + 1 \in 1 .. Len(seqs) /\ i + 1 \in 1 .. Len(more)
          /\ i + 1 # 1 /\ (i + 1) - 1 = i
      BY <1>1, <2>4
    <3>2. f[i + 1] = f[i] \o seqs[i + 1] /\ g[i + 1] = g[i] \o more[i + 1]
      BY <1>3, <2>2, <3>1, Zenon
    <3>. QED  BY <1>1, <2>4, <3>1, <3>2
  <2> HIDE DEF Good
  <2>5. Len(seqs) \in Good
    BY <1>1, <2>0, <2>3, <2>4, CountingUp
  <2>6. f[Len(seqs)] = g[Len(seqs)]
    BY <2>5 DEF Good
  <2>7. /\ Len(more) \in 1 .. Len(more) /\ Len(more) # 1 /\ Len(more) - 1 = Len(seqs)
        /\ more[Len(more)] = s
    BY <1>1, <2>0
  <2>8. g[Len(more)] = g[Len(seqs)] \o s
    BY <1>3, <2>7, Zenon
  <2>. QED  BY <1>2, <2>1, <2>6, <2>8 DEF more
<1>. QED  BY <1>4, <1>5

-----------------------------------------------------------------------------
(* Concatenation and SubSeq, an element at a time.                          *)
LEMMA Joined ==
  ASSUME NEW S, NEW a \in Seq(S), NEW b \in Seq(S)
  PROVE  /\ (a \o b) \in Seq(S)
         /\ Len(a) \in Nat /\ Len(b) \in Nat
         /\ Len(a \o b) = Len(a) + Len(b)
         /\ \A k \in 1 .. Len(a) : (a \o b)[k] = a[k]
         /\ \A k \in 1 .. Len(b) : (a \o b)[Len(a) + k] = b[k]
<1>1. Len(a) \in Nat /\ Len(b) \in Nat
  OBVIOUS
<1>2. /\ (a \o b) \in Seq(S) /\ Len(a \o b) = Len(a) + Len(b)
      /\ \A k \in 1 .. Len(a) + Len(b) :
           (a \o b)[k] = IF k <= Len(a) THEN a[k] ELSE b[k - Len(a)]
  BY ConcatProperties
<1>3. ASSUME NEW k \in 1 .. Len(a) PROVE (a \o b)[k] = a[k]
  <2>1. k \in 1 .. Len(a) + Len(b) /\ k <= Len(a)
    BY <1>1
  <2>. QED  BY <1>2, <2>1, Zenon
<1>4. ASSUME NEW k \in 1 .. Len(b) PROVE (a \o b)[Len(a) + k] = b[k]
  <2>1. /\ Len(a) + k \in 1 .. Len(a) + Len(b) /\ ~(Len(a) + k <= Len(a))
        /\ (Len(a) + k) - Len(a) = k
    BY <1>1
  <2>. QED  BY <1>2, <2>1, Zenon
<1>. QED  BY <1>1, <1>2, <1>3, <1>4

(* What SubSeq cuts out of a sequence. *)
LEMMA Cut ==
  ASSUME NEW S, NEW s \in Seq(S), NEW m \in Nat, NEW n \in Nat,
         1 <= m, m <= n + 1, n <= Len(s)
  PROVE  /\ SubSeq(s, m, n) \in Seq(S)
         /\ Len(s) \in Nat
         /\ Len(SubSeq(s, m, n)) = n - m + 1
         /\ \A k \in 1 .. n - m + 1 : SubSeq(s, m, n)[k] = s[m + k - 1]
<1>1. Len(s) \in Nat /\ \A i \in m .. n : s[i] \in S
  OBVIOUS
<1>2. /\ SubSeq(s, m, n) \in Seq(S)
      /\ Len(SubSeq(s, m, n)) = IF m <= n THEN n - m + 1 ELSE 0
      /\ \A k \in 1 .. n - m + 1 : SubSeq(s, m, n)[k] = s[m + k - 1]
  BY <1>1, SubSeqProperties
<1>3. Len(SubSeq(s, m, n)) = n - m + 1
  <2>1. CASE m <= n
    BY <1>2, <2>1, Zenon
  <2>2. CASE ~(m <= n)
    <3>1. Len(SubSeq(s, m, n)) = 0
      BY <1>2, <2>2, Zenon
    <3>. QED  BY <2>2, <3>1
  <2>. QED  BY <2>1, <2>2
<1>. QED  BY <1>1, <1>2, <1>3

-----------------------------------------------------------------------------
(* The elements of a sequence as a set, repetitions included.               *)
(* The elements of a sequence, its head taken off. *)
LEMMA HeadAndTail ==
  ASSUME NEW S, NEW s \in Seq(S), s # <<>>
  PROVE  /\ Head(s) \in S /\ Head(s) \in ToSet(s)
         /\ Tail(s) \in Seq(S)
         /\ ToSet(s) = ToSet(Tail(s)) \cup {Head(s)}
<1>1. /\ Tail(s) \in Seq(S)
      /\ Len(s) \in Nat /\ Len(s) > 0
      /\ Head(s) = s[1] /\ Head(s) \in S
      /\ DOMAIN s = 1 .. Len(s)
      /\ DOMAIN Tail(s) = 1 .. (Len(s) - 1)
      /\ \A i \in 1 .. (Len(s) - 1) : Tail(s)[i] = s[i + 1]
  OBVIOUS
<1>2. Head(s) \in ToSet(s)
  BY <1>1 DEF ToSet
<1>3. ToSet(Tail(s)) \subseteq ToSet(s)
  BY <1>1 DEF ToSet
<1>4. ASSUME NEW e \in ToSet(s), e # Head(s) PROVE e \in ToSet(Tail(s))
  <2>1. PICK i \in 1 .. Len(s) : e = s[i]
    BY <1>1 DEF ToSet
  <2>2. i - 1 \in 1 .. (Len(s) - 1) /\ Tail(s)[i - 1] = e
    BY <1>1, <1>4, <2>1
  <2>. QED  BY <1>1, <2>2 DEF ToSet
<1>. QED  BY <1>1, <1>2, <1>3, <1>4

(* The elements of a sequence, one appended. *)
LEMMA Appended ==
  ASSUME NEW S, NEW s \in Seq(S), NEW e \in S
  PROVE  /\ Append(s, e) \in Seq(S)
         /\ ToSet(Append(s, e)) = ToSet(s) \cup {e}
<1>1. /\ Append(s, e) \in Seq(S)
      /\ \A i \in 1 .. Len(s) : Append(s, e)[i] = s[i]
      /\ Append(s, e)[Len(s) + 1] = e
      /\ DOMAIN s = 1 .. Len(s)
      /\ DOMAIN Append(s, e) = 1 .. (Len(s) + 1)
      /\ Len(s) \in Nat
  OBVIOUS
<1>. QED  BY <1>1 DEF ToSet

(* The elements of a concatenation are those of its halves. *)
LEMMA JoinedElements ==
  ASSUME NEW S, NEW a \in Seq(S), NEW b \in Seq(S)
  PROVE  ToSet(a \o b) = ToSet(a) \cup ToSet(b)
<1> DEFINE r == a \o b
<1>1. /\ Len(a) \in Nat /\ Len(b) \in Nat
      /\ DOMAIN a = 1 .. Len(a) /\ DOMAIN b = 1 .. Len(b)
      /\ DOMAIN r = 1 .. (Len(a) + Len(b))
      /\ \A k \in 1 .. Len(a) : r[k] = a[k]
      /\ \A k \in 1 .. Len(b) : r[Len(a) + k] = b[k]
  <2>1. r \in Seq(S) /\ Len(r) = Len(a) + Len(b)
    BY Joined
  <2>2. DOMAIN r = 1 .. Len(r)
    BY <2>1
  <2>. QED  BY <2>1, <2>2, Joined
<1> HIDE DEF r
<1>2. ASSUME NEW i \in DOMAIN r PROVE r[i] \in ToSet(a) \cup ToSet(b)
  <2>1. CASE i <= Len(a)
    BY <1>1, <2>1 DEF ToSet
  <2>2. CASE ~(i <= Len(a))
    <3>1. PICK k \in 1 .. Len(b) : i = Len(a) + k
      <4>1. i - Len(a) \in 1 .. Len(b) /\ i = Len(a) + (i - Len(a))
        BY <1>1, <2>2
      <4>. QED  BY <4>1
    <3>. QED  BY <1>1, <3>1 DEF ToSet
  <2>. QED  BY <2>1, <2>2
<1>3. ASSUME NEW i \in DOMAIN a PROVE a[i] \in ToSet(r)
  <2>1. i \in DOMAIN r /\ r[i] = a[i]
    BY <1>1
  <2>. QED  BY <2>1 DEF ToSet
<1>4. ASSUME NEW i \in DOMAIN b PROVE b[i] \in ToSet(r)
  <2>1. Len(a) + i \in DOMAIN r /\ r[Len(a) + i] = b[i]
    BY <1>1
  <2>. QED  BY <2>1 DEF ToSet
<1>. QED  BY <1>2, <1>3, <1>4 DEF r, ToSet

(* What is put together from parts holds the elements of the parts. *)
LEMMA FlattenElements ==
  ASSUME NEW S, NEW seqs \in Seq(Seq(S))
  PROVE  ToSet(FlattenSeq(seqs)) = UNION {ToSet(seqs[i]) : i \in DOMAIN seqs}
<1>1. CASE seqs = <<>>
  <2>1. FlattenSeq(seqs) = <<>> /\ DOMAIN seqs = {}
    BY <1>1 DEF FlattenSeq
  <2>2. ToSet(<<>>) = {}
    BY DEF ToSet
  <2>. QED  BY <2>1, <2>2
<1>2. CASE seqs # <<>>
  <2>1. PICK f : Flattens(f, seqs, Len(seqs)) /\ FlattenSeq(seqs) = f[Len(seqs)]
    BY <1>2, FlattenUnfolds
  <2>2. PICK L : L = Len(seqs)
    OBVIOUS
  <2>3. /\ L \in Nat /\ L >= 1 /\ DOMAIN seqs = 1 .. L /\ 1 \in 1 .. L /\ L \in 1 .. L
        /\ \A i \in 1 .. L : seqs[i] \in Seq(S)
    BY <1>2, <2>2
  <2>4. \A i \in 1 .. L : f[i] = IF i = 1 THEN seqs[i] ELSE f[i - 1] \o seqs[i]
    BY <2>1, <2>2 DEF Flattens
  <2>5. \A i \in 1 .. L : f[i] \in Seq(S)
    BY <2>1, <2>2, <2>3, FlattenedTyped
  <2> DEFINE Upto(i) == UNION {ToSet(seqs[j]) : j \in 1 .. i}
             Good == {i \in 1 .. L : ToSet(f[i]) = Upto(i)}
  <2>6. 1 \in Good
    <3>1. f[1] = seqs[1]
      BY <2>3, <2>4, Zenon
    <3>. QED  BY <2>3, <3>1
  <2>7. ASSUME NEW i \in 1 .. L, i \in Good, i < L PROVE i + 1 \in Good
    <3>1. PICK m \in Int : m = i + 1
      BY <2>3
    <3>2. m \in 1 .. L /\ m # 1 /\ m - 1 = i /\ 1 .. m = (1 .. i) \cup {m}
      BY <2>3, <2>7, <3>1
    <3>3. f[m] = f[i] \o seqs[m]
      BY <2>4, <3>2, Zenon
    <3>4. ToSet(f[m]) = ToSet(f[i]) \cup ToSet(seqs[m])
      BY <2>3, <2>5, <3>2, <3>3, JoinedElements
    <3>5. Upto(m) = Upto(i) \cup ToSet(seqs[m])
      BY <3>2
    <3>6. m \in Good
      BY <2>7, <3>2, <3>4, <3>5
    <3>. QED  BY <3>1, <3>6
  <2> HIDE DEF Good, Upto
  <2>8. L \in Good
    BY <2>3, <2>6, <2>7, CountingUp
  <2>9. ToSet(f[L]) = Upto(L)
    BY <2>8 DEF Good
  <2>. QED  BY <2>1, <2>2, <2>3, <2>9 DEF Upto
<1>. QED  BY <1>1, <1>2
=============================================================================

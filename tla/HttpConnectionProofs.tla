------------------------ MODULE HttpConnectionProofs ------------------------
(***************************************************************************)
(* Proofs about HttpConnection, for any script of requests, size of the    *)
(* connection's buffer and limits.  They follow the stream: how it is put  *)
(* together, that the buffer and the socket always hold a piece of it, and *)
(* where in it the server is at each point of serverFunc.                  *)
(***************************************************************************)
EXTENDS HttpConnection, SequenceLemmas

USE ConnectionAssumption

-----------------------------------------------------------------------------
(*                     How the stream is put together                      *)

Pieces == [of : Nat, what : Headers \cup {"line", "blank", "body"}]

Whole(r) == Header(r, script[r]) \o Body(r, script[r])

(* A request, piece by piece. *)
LEMMA RequestParts ==
  ASSUME NEW q \in Requests
  PROVE  /\ q.before \in Seq({"blank", "part"}) /\ Len(q.before) \in Nat
         /\ q.body \in Nat
         /\ q.headers \in Seq(Headers) /\ Len(q.headers) \in Nat
         /\ q.version \in {"none", "1.0", "1.1", "2.0", "bad"}
         /\ q.method \in {"post", "get"} 
         /\ q.target \in {"rpc", "elsewhere", "invalid"}
  BY DEF Requests

(* The lines of a header, after its request line. *)
LEMMA LinesOf ==
  ASSUME NEW r \in Nat, NEW q \in Requests, NEW t,
         t = [n \in DOMAIN q.headers |-> Piece(r, q.headers[n])] \o <<Piece(r, "blank")>>
  PROVE  /\ t \in Seq(Pieces)
         /\ Len(t) = Len(q.headers) + 1
         /\ \A k \in 1 .. Len(q.headers) : t[k] = Piece(r, q.headers[k])
         /\ t[Len(q.headers) + 1] = Piece(r, "blank")
<1>1. PICK h : h = q.headers
  OBVIOUS
<1>2. h \in Seq(Headers) /\ Len(h) \in Nat /\ DOMAIN h = 1 .. Len(h)
      /\ \A n \in 1 .. Len(h) : h[n] \in Headers
  BY <1>1, RequestParts
<1>3. PICK a : a = [n \in 1 .. Len(h) |-> Piece(r, h[n])]
  OBVIOUS
<1>4. a \in Seq(Pieces) /\ Len(a) = Len(h)
  <2>1. \A n \in 1 .. Len(h) : Piece(r, h[n]) \in Pieces
    BY <1>2 DEF Pieces, Piece
  <2>2. PICK l \in Nat : l = Len(h)
    BY <1>2
  <2>3. a \in [1 .. l -> Pieces]
    BY <1>3, <2>1, <2>2
  <2>4. a \in Seq(Pieces) /\ Len(a) = l
    BY ONLY <2>3, l \in Nat
  <2>. QED  BY <2>2, <2>4
<1>5. PICK b : b = <<Piece(r, "blank")>>
  OBVIOUS
<1>6. b \in Seq(Pieces) /\ Len(b) = 1 /\ b[1] = Piece(r, "blank")
  BY <1>5 DEF Pieces, Piece
<1>7. t = a \o b
  BY <1>1, <1>2, <1>3, <1>5
<1>8. /\ t \in Seq(Pieces) /\ Len(t) = Len(a) + Len(b)
      /\ \A k \in 1 .. Len(a) : t[k] = a[k]
      /\ \A k \in 1 .. Len(b) : t[Len(a) + k] = b[k]
  <2>1. a \in Seq(Pieces) /\ b \in Seq(Pieces)
    BY <1>4, <1>6
  <2>. QED  BY ONLY <1>7, <2>1, Joined
<1>9. t[Len(a) + 1] = b[1]
  BY ONLY <1>6, <1>8
<1>10. \A n \in 1 .. Len(h) : a[n] = Piece(r, h[n])
  BY <1>3
<1>. QED  BY ONLY <1>1, <1>4, <1>6, <1>8, <1>9, <1>10

(* A header: blank lines, the request line, and header lines up to a blank  *)
(* one unless the request line has no version.                              *)
LEMMA HeaderParts ==
  ASSUME NEW r \in Nat, NEW q \in Requests, NEW t, t = Header(r, q)
  PROVE  /\ t \in Seq(Pieces)
         /\ q.version = "none" => Len(t) = Len(q.before) + 1
         /\ q.version # "none" => Len(t) = Len(q.before) + Len(q.headers) + 2
         /\ \A k \in 1 .. Len(q.before) : t[k] = Piece(r, q.before[k])
         /\ t[Len(q.before) + 1] = Piece(r, "line")
         /\ q.version # "none" =>
              /\ \A k \in 1 .. Len(q.headers) :
                   t[Len(q.before) + 1 + k] = Piece(r, q.headers[k])
              /\ t[Len(q.before) + Len(q.headers) + 2] = Piece(r, "blank")
<1>0. PICK m \in Nat, l \in Nat : m = Len(q.before) /\ l = Len(q.headers)
  BY RequestParts
<1>1. PICK a : a = [n \in 1 .. m |-> Piece(r, q.before[n])]
  OBVIOUS
<1>2. a \in Seq(Pieces) /\ Len(a) = m
  <2>1. \A n \in 1 .. m : Piece(r, q.before[n]) \in Pieces
    <3>1. \A n \in 1 .. m : q.before[n] \in {"blank", "part"}
      BY <1>0, RequestParts
    <3>. QED  BY <3>1 DEF Pieces, Piece, Headers
  <2>2. a \in [1 .. m -> Pieces]
    BY <1>1, <2>1
  <2>. QED  BY <1>1, <2>2
<1>3. PICK b : b = <<Piece(r, "line")>>
  OBVIOUS
<1>4. b \in Seq(Pieces) /\ Len(b) = 1
  BY <1>3 DEF Pieces, Piece
<1>5. PICK c : c = a \o b
  OBVIOUS
<1>6. /\ c \in Seq(Pieces) /\ Len(c) = Len(a) + Len(b)
      /\ \A k \in 1 .. Len(a) : c[k] = a[k]
      /\ \A k \in 1 .. Len(b) : c[Len(a) + k] = b[k]
  <2>1. a \in Seq(Pieces) /\ b \in Seq(Pieces)
    BY <1>2, <1>4
  <2>. QED  BY ONLY <1>5, <2>1, Joined
<1>7. Len(c) = m + 1
  BY ONLY <1>2, <1>4, <1>6
<1>8. /\ \A k \in 1 .. m : c[k] = Piece(r, q.before[k])
      /\ c[m + 1] = Piece(r, "line")
  <2>1. b[1] = Piece(r, "line") /\ \A k \in 1 .. m : a[k] = Piece(r, q.before[k])
    BY <1>1, <1>3
  <2>2. c[m + 1] = b[1]
    BY ONLY <1>2, <1>4, <1>6
  <2>3. \A k \in 1 .. m : c[k] = a[k]
    BY ONLY <1>2, <1>6
  <2>. QED  BY <2>1, <2>2, <2>3
<1>9. PICK d : d = IF q.version = "none" THEN <<>>
                   ELSE [n \in DOMAIN q.headers |-> Piece(r, q.headers[n])]
                          \o <<Piece(r, "blank")>>
  OBVIOUS
<1>10. t = c \o d
  <2>1. t = a \o b \o d
    <3>1. DOMAIN q.before = 1 .. m
      BY <1>0, RequestParts
    <3>. QED  BY ONLY <3>1, <1>1, <1>3, <1>9, t = Header(r, q) DEF Header
  <2>. QED  BY <1>5, <2>1
<1>11. CASE q.version = "none"
  <2>1. d = <<>>
    BY <1>9, <1>11, Zenon
  <2>2. t = c
    BY ONLY <1>6, <1>10, <2>1
  <2>. QED  BY ONLY <1>0, <1>6, <1>7, <1>8, <1>11, <2>2
<1>12. CASE q.version # "none"
  <2>1. d = [n \in DOMAIN q.headers |-> Piece(r, q.headers[n])] \o <<Piece(r, "blank")>>
    BY <1>9, <1>12, Zenon
  <2>2. /\ d \in Seq(Pieces)
        /\ Len(d) = Len(q.headers) + 1
        /\ \A k \in 1 .. Len(q.headers) : d[k] = Piece(r, q.headers[k])
        /\ d[Len(q.headers) + 1] = Piece(r, "blank")
    BY ONLY <2>1, r \in Nat, q \in Requests, LinesOf, Zenon
  <2>3. d \in Seq(Pieces) /\ Len(d) = l + 1
    BY <1>0, <2>2
  <2>4. /\ t \in Seq(Pieces) /\ Len(t) = Len(c) + Len(d)
        /\ \A k \in 1 .. Len(c) : t[k] = c[k]
        /\ \A k \in 1 .. Len(d) : t[Len(c) + k] = d[k]
    <3>1. c \in Seq(Pieces) /\ d \in Seq(Pieces)
      BY <1>6, <2>3
    <3>. QED  BY ONLY <1>10, <3>1, Joined
  <2>5. Len(t) = m + l + 2
    BY ONLY <1>7, <2>3, <2>4
  <2>6. \A k \in 1 .. m + 1 : t[k] = c[k]
    BY ONLY <1>7, <2>4
  <2>7. \A k \in 1 .. l + 1 : t[m + 1 + k] = d[k]
    BY ONLY <1>7, <2>3, <2>4
  <2>8. \A k \in 1 .. l : t[m + 1 + k] = Piece(r, q.headers[k])
    BY <1>0, <2>2, <2>7
  <2>9. t[m + l + 2] = Piece(r, "blank")
    <3>1. m + 1 + (l + 1) = m + l + 2 /\ l + 1 \in 1 .. l + 1
      OBVIOUS
    <3>2. t[m + 1 + (l + 1)] = d[l + 1]
      BY <2>7, <3>1
    <3>. QED  BY <1>0, <2>2, <3>1, <3>2
  <2>10. /\ \A k \in 1 .. m : t[k] = Piece(r, q.before[k])
         /\ t[m + 1] = Piece(r, "line")
    BY <1>8, <2>6
  <2>11. t \in Seq(Pieces)
    BY <2>4
  <2>. QED  BY ONLY <1>0, <1>12, <2>5, <2>8, <2>9, <2>10, <2>11
<1>. QED  BY <1>11, <1>12

(* A request: its header, then its body. *)
LEMMA WholeParts ==
  ASSUME NEW r \in DOMAIN script, script \in Seq(Requests)
  PROVE  /\ r \in Nat
         /\ script[r] \in Requests
         /\ Whole(r) \in Seq(Pieces)
         /\ Header(r, script[r]) \in Seq(Pieces)
         /\ Len(Header(r, script[r])) \in Nat
         /\ Len(Whole(r)) = Len(Header(r, script[r])) + script[r].body
         /\ \A k \in 1 .. Len(Header(r, script[r])) :
              Whole(r)[k] = Header(r, script[r])[k]
         /\ \A k \in 1 .. script[r].body :
              Whole(r)[Len(Header(r, script[r])) + k] = Piece(r, "body")
<1>1. r \in Nat /\ script[r] \in Requests
  OBVIOUS
<1>2. PICK q \in Requests : q = script[r]
  BY <1>1
<1>3. PICK h : h = Header(r, q)
  OBVIOUS
<1>4. PICK b : b = Body(r, q)
  OBVIOUS
<1>5. h \in Seq(Pieces) /\ Len(h) \in Nat
  <2>1. r \in Nat
    BY <1>1
  <2>2. h \in Seq(Pieces)
    BY ONLY <1>3, <2>1, q \in Requests, HeaderParts
  <2>. QED  BY ONLY <2>2
<1>6. /\ b \in Seq(Pieces) /\ Len(b) = q.body
      /\ \A k \in 1 .. q.body : b[k] = Piece(r, "body")
  <2>0. q.body \in Nat
    BY RequestParts
  <2>1. Piece(r, "body") \in Pieces
    BY <1>1 DEF Pieces, Piece
  <2>2. b = [n \in 1 .. q.body |-> Piece(r, "body")]
    BY <1>4 DEF Body
  <2>3. b \in [1 .. q.body -> Pieces]
    BY <2>1, <2>2
  <2>. QED  BY <2>0, <2>2, <2>3
<1>7. Whole(r) = h \o b
  BY <1>2, <1>3, <1>4 DEF Whole
<1>8. /\ Whole(r) \in Seq(Pieces) /\ Len(Whole(r)) = Len(h) + Len(b)
      /\ \A k \in 1 .. Len(h) : Whole(r)[k] = h[k]
      /\ \A k \in 1 .. Len(b) : Whole(r)[Len(h) + k] = b[k]
  <2>1. h \in Seq(Pieces) /\ b \in Seq(Pieces)
    BY <1>5, <1>6
  <2>. QED  BY ONLY <1>7, <2>1, Joined
<1>. QED  BY <1>1, <1>2, <1>3, <1>5, <1>6, <1>8

(* All its pieces are of that request. *)
LEMMA PiecesOf ==
  ASSUME NEW r \in DOMAIN script, script \in Seq(Requests),
         NEW k \in 1 .. Len(Whole(r))
  PROVE  Whole(r)[k].of = r
<1>0. PICK q \in Requests : q = script[r]
  BY WholeParts
<1>1. PICK m \in Nat, l \in Nat, b \in Nat :
        m = Len(q.before) /\ l = Len(q.headers) /\ b = q.body
  BY RequestParts
<1>10. PICK h : h = Header(r, q)
  OBVIOUS
<1>11. PICK e \in Nat : e = Len(h)
  BY <1>0, <1>10, WholeParts
<1>2. /\ \A i \in 1 .. e : Whole(r)[i] = h[i]
      /\ \A i \in 1 .. b : Whole(r)[e + i] = Piece(r, "body")
      /\ Len(Whole(r)) = e + b
  BY <1>0, <1>1, <1>10, <1>11, WholeParts
<1>3. /\ q.version = "none" => e = m + 1
      /\ q.version # "none" => e = m + l + 2
      /\ \A i \in 1 .. m : h[i] = Piece(r, q.before[i])
      /\ h[m + 1] = Piece(r, "line")
      /\ q.version # "none" => /\ \A i \in 1 .. l : h[m + 1 + i] = Piece(r, q.headers[i])
                               /\ h[m + l + 2] = Piece(r, "blank")
  <2>1. r \in Nat
    BY WholeParts
  <2>2. /\ q.version = "none" => Len(h) = Len(q.before) + 1
        /\ q.version # "none" => Len(h) = Len(q.before) + Len(q.headers) + 2
    BY ONLY q \in Requests, <2>1, <1>10, HeaderParts
  <2>3. /\ \A i \in 1 .. Len(q.before) : h[i] = Piece(r, q.before[i])
        /\ h[Len(q.before) + 1] = Piece(r, "line")
    BY ONLY q \in Requests, <2>1, <1>10, HeaderParts
  <2>4. q.version # "none" =>
          /\ \A i \in 1 .. Len(q.headers) :
               h[Len(q.before) + 1 + i] = Piece(r, q.headers[i])
          /\ h[Len(q.before) + Len(q.headers) + 2] = Piece(r, "blank")
    BY ONLY q \in Requests, <2>1, <1>10, HeaderParts
  <2>. QED  BY ONLY <1>1, <1>11, <2>2, <2>3, <2>4
<1>4. \A what : Piece(r, what).of = r
  BY DEF Piece
<1>5. CASE k > e
  <2>1. PICK i \in 1 .. b : k = e + i
    <3>1. k - e \in 1 .. b /\ k = e + (k - e)
      BY ONLY k \in 1 .. Len(Whole(r)), e \in Nat, b \in Nat, <1>2, <1>5
    <3>. QED  BY <3>1
  <2>. QED  BY <1>2, <1>4, <2>1
<1>6. CASE k <= e
  <2>1. Whole(r)[k] = h[k] /\ k \in 1 .. e
    BY <1>2, <1>6
  <2>2. CASE k <= m
    BY <1>3, <1>4, <2>1, <2>2
  <2>3. CASE k = m + 1
    BY <1>3, <1>4, <2>1, <2>3
  <2>4. CASE k > m + 1
    <3>1. q.version # "none" /\ e = m + l + 2
      BY ONLY <1>3, <2>1, <2>4, e \in Nat, m \in Nat
    <3>2. CASE k = m + l + 2
      BY <1>3, <1>4, <2>1, <3>1, <3>2
    <3>3. CASE k # m + l + 2
      <4>0. k \in Nat /\ k <= e
        BY <2>1
      <4>1. k - (m + 1) \in 1 .. l /\ m + 1 + (k - (m + 1)) = k
        BY ONLY <2>4, <3>1, <3>3, <4>0, e \in Nat, m \in Nat, l \in Nat
      <4>2. PICK i \in 1 .. l : k = m + 1 + i
        BY <4>1
      <4>. QED  BY <1>3, <1>4, <2>1, <3>1, <4>2
    <3>. QED  BY <3>2, <3>3
  <2>. QED  BY <2>1, <2>2, <2>3, <2>4
<1>. QED  BY <1>2, <1>5, <1>6

(* The stream up to the end of a request. *)
Upto(r) == FlattenSeq([n \in 1 .. r |-> Whole(n)])

(* What the client sends is the stream up to its last request. *)
LEMMA UptoIs ==
  ASSUME script \in Seq(Requests)
  PROVE  /\ Stream = Upto(Len(script))
         /\ \A r \in Nat : EndOf(r) = Len(Upto(r))
<1>1. DOMAIN script = 1 .. Len(script)
  OBVIOUS
<1>2. Stream = Upto(Len(script))
  BY <1>1, Zenon DEF Stream, Upto, Whole
<1>3. \A r \in Nat : EndOf(r) = Len(Upto(r))
  BY Zenon DEF EndOf, Upto, Whole
<1>. QED  BY <1>2, <1>3

(* A request more. *)
LEMMA UptoNext ==
  ASSUME script \in Seq(Requests), NEW r \in Nat, r <= Len(script)
  PROVE  /\ Upto(r) \in Seq(Pieces)
         /\ r = 0 => Upto(r) = <<>>
         /\ r < Len(script) => Upto(r + 1) = Upto(r) \o Whole(r + 1)
<1>0. Len(script) \in Nat
  OBVIOUS
<1>1. ASSUME NEW s \in Nat, s <= Len(script)
      PROVE  [n \in 1 .. s |-> Whole(n)] \in Seq(Seq(Pieces))
  <2>1. \A n \in 1 .. s : Whole(n) \in Seq(Pieces)
    <3>1. \A n \in 1 .. s : n \in DOMAIN script
      BY <1>0, <1>1
    <3>. QED  BY <3>1, WholeParts
  <2>2. PICK w : w = [n \in 1 .. s |-> Whole(n)]
    OBVIOUS
  <2>3. w \in [1 .. s -> Seq(Pieces)]
    BY <2>1, <2>2
  <2>4. w \in Seq(Seq(Pieces))
    BY ONLY s \in Nat, <2>3
  <2>. QED  BY <2>2, <2>4
<1>2. Upto(r) \in Seq(Pieces)
  BY <1>1, FlattenTyped DEF Upto
<1>3. ASSUME r = 0 PROVE Upto(r) = <<>>
  <2>1. [n \in 1 .. r |-> Whole(n)] = <<>>
    BY <1>3
  <2>. QED  BY <2>1 DEF Upto, FlattenSeq
<1>4. ASSUME r < Len(script) PROVE Upto(r + 1) = Upto(r) \o Whole(r + 1)
  <2>1. PICK w, v : /\ w = [n \in 1 .. r |-> Whole(n)]
                    /\ v = [n \in 1 .. r + 1 |-> Whole(n)]
    OBVIOUS
  <2>2. w \in Seq(Seq(Pieces))
    BY <1>1, <2>1
  <2>3. r + 1 \in DOMAIN script
    BY <1>0, <1>4
  <2>4. Whole(r + 1) \in Seq(Pieces)
    BY <2>3, WholeParts
  <2>5. v = Append(w, Whole(r + 1))
    <3>1. PICK T : T = Seq(Pieces)
      OBVIOUS
    <3>2. PICK e : e = Whole(r + 1)
      OBVIOUS
    <3>3. w \in Seq(T) /\ e \in T /\ Len(w) = r
      BY <2>1, <2>2, <2>4, <3>1, <3>2
    <3>4. /\ Append(w, e) \in Seq(T)
          /\ Len(Append(w, e)) = r + 1
          /\ \A i \in 1 .. r : Append(w, e)[i] = w[i]
          /\ Append(w, e)[r + 1] = e
      BY ONLY <3>3
    <3>5. v \in Seq(T) /\ Len(v) = r + 1
      <4>1. r + 1 \in Nat /\ r + 1 <= Len(script)
        BY <1>0, <1>4
      <4>2. v \in Seq(T)
        BY <1>1, <2>1, <3>1, <4>1
      <4>3. DOMAIN v = 1 .. r + 1
        BY <2>1
      <4>. QED  BY ONLY <4>1, <4>2, <4>3
    <3>6. \A i \in 1 .. r + 1 : v[i] = Append(w, e)[i]
      <4>1. ASSUME NEW i \in 1 .. r + 1 PROVE v[i] = Append(w, e)[i]
        <5>1. CASE i = r + 1
          BY <2>1, <3>2, <3>4, <5>1
        <5>2. CASE i \in 1 .. r
          BY <2>1, <3>4, <5>2
        <5>3. i = r + 1 \/ i \in 1 .. r
          BY r \in Nat
        <5>. QED  BY <5>1, <5>2, <5>3
      <4>. QED  BY <4>1
    <3>7. v = Append(w, e)
      BY ONLY <3>4, <3>5, <3>6, SeqEqual
    <3>. QED  BY <3>2, <3>7
  <2>6. FlattenSeq(v) = FlattenSeq(w) \o Whole(r + 1)
    BY <2>2, <2>4, <2>5, FlattenAppend
  <2>. QED  BY <2>1, <2>6 DEF Upto
<1>. QED  BY <1>2, <1>3, <1>4
(* The stream is one request after another: request s takes the place from  *)
(* EndOf(s - 1) to EndOf(s), and every piece is in the place of some request. *)
OneAfterAnother(r) ==
  \A s \in 1 .. r :
    /\ EndOf(s) <= EndOf(r)
    /\ EndOf(s) = EndOf(s - 1) + Len(Whole(s))
    /\ \A k \in 1 .. Len(Whole(s)) : Upto(r)[EndOf(s - 1) + k] = Whole(s)[k]

Located(r) ==
  \A i \in 1 .. EndOf(r) :
    \E s \in 1 .. r : \E k \in 1 .. Len(Whole(s)) : i = EndOf(s - 1) + k

(* The ends of the requests are places in the stream. *)
LEMMA EndsTyped ==
  ASSUME script \in Seq(Requests), NEW r \in 0 .. Len(script)
  PROVE  /\ EndOf(r) \in Nat
         /\ Upto(r) \in Seq(Pieces) /\ Len(Upto(r)) = EndOf(r)
         /\ r = 0 => EndOf(r) = 0
<1>1. Upto(r) \in Seq(Pieces) /\ Len(Upto(r)) = EndOf(r)
  BY UptoIs, UptoNext
<1>2. Len(Upto(r)) \in Nat
  BY <1>1
<1>3. ASSUME r = 0 PROVE EndOf(r) = 0
  <2>1. Upto(r) = <<>>
    BY <1>3, UptoNext
  <2>. QED  BY <1>1, <2>1
<1>. QED  BY <1>1, <1>2, <1>3

(* One more request comes after those before it. *)
LEMMA OneMore ==
  ASSUME script \in Seq(Requests), NEW r \in Nat, r < Len(script)
  PROVE  /\ r + 1 \in DOMAIN script
         /\ Len(Whole(r + 1)) \in Nat
         /\ EndOf(r) \in Nat /\ EndOf(r + 1) \in Nat
         /\ EndOf(r + 1) = EndOf(r) + Len(Whole(r + 1))
         /\ \A k \in 1 .. EndOf(r) : Upto(r + 1)[k] = Upto(r)[k]
         /\ \A k \in 1 .. Len(Whole(r + 1)) : Upto(r + 1)[EndOf(r) + k] = Whole(r + 1)[k]
<1>1. Len(script) \in Nat /\ r + 1 \in DOMAIN script /\ r + 1 <= Len(script)
      /\ r \in 0 .. Len(script) /\ r + 1 \in 0 .. Len(script)
  OBVIOUS
<1>2. Whole(r + 1) \in Seq(Pieces)
  BY <1>1, WholeParts
<1>3. Upto(r + 1) = Upto(r) \o Whole(r + 1)
  BY <1>1, UptoNext
<1>4. /\ Upto(r) \in Seq(Pieces) /\ Len(Upto(r)) = EndOf(r) /\ EndOf(r) \in Nat
      /\ Len(Upto(r + 1)) = EndOf(r + 1) /\ EndOf(r + 1) \in Nat
  BY <1>1, EndsTyped
<1>5. PICK a, b : a = Upto(r) /\ b = Whole(r + 1)
  OBVIOUS
<1>6. /\ Len(b) \in Nat
      /\ Len(a \o b) = Len(a) + Len(b)
      /\ \A k \in 1 .. Len(a) : (a \o b)[k] = a[k]
      /\ \A k \in 1 .. Len(b) : (a \o b)[Len(a) + k] = b[k]
  <2>1. a \in Seq(Pieces) /\ b \in Seq(Pieces)
    BY <1>2, <1>4, <1>5
  <2>. QED  BY ONLY <2>1, Joined
<1>. QED  BY <1>1, <1>3, <1>4, <1>5, <1>6, Zenon

(* So they all do. *)
LEMMA AllInPlace ==
  ASSUME script \in Seq(Requests), NEW r \in 0 .. Len(script)
  PROVE  OneAfterAnother(r) /\ Located(r)
<1>0. Len(script) \in Nat /\ r \in Nat
  OBVIOUS
<1>1. CASE r = 0
  <2>1. EndOf(r) = 0
    BY <1>1, EndsTyped
  <2>. QED  BY <1>1, <2>1 DEF OneAfterAnother, Located
<1>2. CASE r # 0
  <2> DEFINE G == {s \in 1 .. Len(script) : OneAfterAnother(s) /\ Located(s)}
  <2>1. ASSUME NEW s \in Nat, s < Len(script), OneAfterAnother(s), Located(s)
        PROVE  OneAfterAnother(s + 1) /\ Located(s + 1)
    <3>1. /\ Len(Whole(s + 1)) \in Nat
          /\ EndOf(s) \in Nat /\ EndOf(s + 1) \in Nat
          /\ EndOf(s + 1) = EndOf(s) + Len(Whole(s + 1))
          /\ \A k \in 1 .. EndOf(s) : Upto(s + 1)[k] = Upto(s)[k]
          /\ \A k \in 1 .. Len(Whole(s + 1)) : Upto(s + 1)[EndOf(s) + k] = Whole(s + 1)[k]
      BY <2>1, OneMore
    <3>2. ASSUME NEW t \in 1 .. s + 1
          PROVE  /\ EndOf(t) <= EndOf(s + 1)
                 /\ EndOf(t) = EndOf(t - 1) + Len(Whole(t))
                 /\ \A k \in 1 .. Len(Whole(t)) :
                      Upto(s + 1)[EndOf(t - 1) + k] = Whole(t)[k]
      <4>1. CASE t = s + 1
        <5>1. t - 1 = s
          BY <4>1
        <5>. QED  BY <3>1, <4>1, <5>1
      <4>2. CASE t \in 1 .. s
        <5>1. /\ EndOf(t) <= EndOf(s)
              /\ EndOf(t) = EndOf(t - 1) + Len(Whole(t))
              /\ \A k \in 1 .. Len(Whole(t)) : Upto(s)[EndOf(t - 1) + k] = Whole(t)[k]
          BY <2>1, <4>2, Zenon DEF OneAfterAnother
        <5>2. /\ t \in 0 .. Len(script) /\ t - 1 \in 0 .. Len(script)
              /\ t \in DOMAIN script
          BY <1>0, <2>1, <4>2
        <5>3. EndOf(t) \in Nat /\ EndOf(t - 1) \in Nat
          BY <5>2, EndsTyped
        <5>4. PICK f \in Nat, g \in Nat, d \in {Len(Whole(t))} : f = EndOf(t) /\ g = EndOf(t - 1)
          BY <5>3
        <5>5. Whole(t) \in Seq(Pieces)
          BY <5>2, WholeParts
        <5>6. d \in Nat
          BY <5>4, <5>5
        <5>7. \A k \in 1 .. d : g + k \in 1 .. EndOf(s)
          <6>1. PICK n \in Nat : n = EndOf(s)
            BY <3>1
          <6>2. f = g + d /\ f <= n
            BY <5>1, <5>4, <6>1
          <6>3. \A k \in 1 .. d : g + k \in 1 .. n
            BY ONLY f \in Nat, g \in Nat, n \in Nat, <5>6, <6>2
          <6>. QED  BY <6>1, <6>3
        <5>8. EndOf(t) <= EndOf(s + 1)
          BY ONLY f \in Nat, <5>1, <5>4, <3>1
        <5>. QED  BY <3>1, <5>1, <5>4, <5>7, <5>8
      <4>. QED  BY <4>1, <4>2, <2>1
    <3>3. ASSUME NEW i \in 1 .. EndOf(s + 1)
          PROVE  \E t \in 1 .. s + 1 : \E k \in 1 .. Len(Whole(t)) : i = EndOf(t - 1) + k
      <4>1. CASE i <= EndOf(s)
        <5>1. i \in 1 .. EndOf(s)
          BY <3>1, <4>1
        <5>2. PICK t \in 1 .. s : \E k \in 1 .. Len(Whole(t)) : i = EndOf(t - 1) + k
          BY <2>1, <5>1, Zenon DEF Located
        <5>. QED  BY <2>1, <5>2
      <4>2. CASE i > EndOf(s)
        <5>1. PICK e \in Nat, d \in Nat : e = EndOf(s) /\ d = Len(Whole(s + 1))
          BY <3>1
        <5>2. i - e \in 1 .. d /\ i = e + (i - e)
          BY ONLY i \in 1 .. EndOf(s + 1), <3>1, <4>2, <5>1, e \in Nat, d \in Nat
        <5>3. PICK k \in 1 .. d : i = e + k
          BY <5>2
        <5>4. s + 1 \in 1 .. s + 1 /\ (s + 1) - 1 = s
          BY <2>1
        <5>5. \E k_1 \in 1 .. Len(Whole(s + 1)) : i = EndOf((s + 1) - 1) + k_1
          BY <5>1, <5>3, <5>4
        <5>. QED  BY <5>4, <5>5, Zenon
      <4>. QED  BY <3>1, <4>1, <4>2
    <3>. QED  BY <3>2, <3>3, Zenon DEF OneAfterAnother, Located
  <2>2. 1 \in 1 .. Len(script) /\ r \in 1 .. Len(script)
    BY <1>0, <1>2
  <2>3. 1 \in G
    <3>1. EndOf(0) = 0
      BY <1>0, EndsTyped
    <3>2. OneAfterAnother(0) /\ Located(0)
      BY <3>1 DEF OneAfterAnother, Located
    <3>3. OneAfterAnother(0 + 1) /\ Located(0 + 1)
      BY <2>1, <2>2, <3>2
    <3>. QED  BY <2>2, <3>3
  <2>4. ASSUME NEW s \in 1 .. Len(script), s \in G, s < Len(script) PROVE s + 1 \in G
    <3>1. s + 1 \in 1 .. Len(script) /\ s \in Nat
      BY <1>0, <2>4
    <3>. QED  BY <2>1, <2>4, <3>1
  <2> HIDE DEF G
  <2>5. r \in G
    BY <1>0, <2>2, <2>3, <2>4, CountingUp
  <2>. QED  BY <2>5 DEF G
<1>. QED  BY <1>1, <1>2

(* So it is for the whole stream; the ends come in order, and beyond the    *)
(* end of a request is a later one.                                         *)
LEMMA StreamOf ==
  ASSUME script \in Seq(Requests)
  PROVE  /\ Stream \in Seq(Pieces) /\ Len(Stream) \in Nat
         /\ Len(script) \in Nat
         /\ EndOf(0) = 0 /\ EndOf(Len(script)) = Len(Stream)
         /\ \A r \in 0 .. Len(script) : EndOf(r) \in 0 .. Len(Stream)
         /\ \A r \in DOMAIN script : 
              /\ EndOf(r) = EndOf(r - 1) + Len(Whole(r))
              /\ \A k \in 1 .. Len(Whole(r)) : Stream[EndOf(r - 1) + k] = Whole(r)[k]
         /\ \A i \in 1 .. Len(Stream) : \A r \in 0 .. Len(script) :
              i > EndOf(r) => Stream[i].of \in Nat /\ Stream[i].of > r
<1>0. Len(script) \in Nat /\ DOMAIN script = 1 .. Len(script)
      /\ Len(script) \in 0 .. Len(script) /\ 0 \in 0 .. Len(script)
  OBVIOUS
<1>1. /\ EndOf(Len(script)) \in Nat
      /\ Upto(Len(script)) \in Seq(Pieces)
      /\ Len(Upto(Len(script))) = EndOf(Len(script))
      /\ Stream = Upto(Len(script))
      /\ EndOf(0) = 0
  BY <1>0, EndsTyped, UptoIs
<1>2. /\ Stream \in Seq(Pieces)
      /\ EndOf(Len(script)) = Len(Stream) /\ Len(Stream) \in Nat
  BY <1>1
<1>3. ASSUME NEW r \in DOMAIN script
      PROVE  /\ EndOf(r) = EndOf(r - 1) + Len(Whole(r))
             /\ \A k \in 1 .. Len(Whole(r)) : Stream[EndOf(r - 1) + k] = Whole(r)[k]
             /\ EndOf(r) <= Len(Stream)
  <2>1. OneAfterAnother(Len(script))
    BY <1>0, AllInPlace
  <2>. QED  BY <1>0, <1>1, <1>2, <2>1, Zenon DEF OneAfterAnother
<1>4. ASSUME NEW r \in 0 .. Len(script) PROVE EndOf(r) \in 0 .. Len(Stream)
  <2>1. EndOf(r) \in Nat
    BY EndsTyped
  <2>2. CASE r = 0
    BY <1>1, <1>2, <2>2
  <2>3. CASE r # 0
    BY <1>0, <1>2, <1>3, <2>1, <2>3
  <2>. QED  BY <2>2, <2>3
<1>5. ASSUME NEW i \in 1 .. Len(Stream), NEW r \in 0 .. Len(script), i > EndOf(r)
      PROVE  Stream[i].of \in Nat /\ Stream[i].of > r
  <2>1. PICK s \in 1 .. Len(script) : \E k \in 1 .. Len(Whole(s)) : i = EndOf(s - 1) + k
    <3>1. Located(Len(script))
      BY <1>0, AllInPlace
    <3>2. i \in 1 .. EndOf(Len(script))
      BY <1>2
    <3>. QED  BY <3>1, <3>2, Zenon DEF Located
  <2>2. PICK k \in 1 .. Len(Whole(s)) : i = EndOf(s - 1) + k
    BY <2>1
  <2>3. Stream[i] = Whole(s)[k] /\ Whole(s)[k].of = s /\ EndOf(s) = EndOf(s - 1) + Len(Whole(s))
    <3>1. s \in DOMAIN script
      BY <1>0
    <3>. QED  BY <1>3, <2>2, <3>1, PiecesOf, Zenon
  <2>4. EndOf(s) \in Nat /\ EndOf(s - 1) \in Nat /\ EndOf(r) \in Nat
    <3>1. s \in 0 .. Len(script) /\ s - 1 \in 0 .. Len(script)
      BY <1>0
    <3>. QED  BY <3>1, EndsTyped
  <2>5. i <= EndOf(s)
    <3>1. PICK d : d = Len(Whole(s))
      OBVIOUS
    <3>2. d \in Nat
      <4>1. Whole(s) \in Seq(Pieces)
        BY <1>0, WholeParts
      <4>. QED  BY <3>1, <4>1
    <3>. QED  BY <2>2, <2>3, <2>4, <3>1, <3>2
  <2>6. ~(s <= r)
    <3>1. SUFFICES ASSUME s <= r PROVE FALSE
      OBVIOUS
    <3>2. OneAfterAnother(r) /\ s \in 1 .. r
      BY <1>0, <3>1, AllInPlace
    <3>3. EndOf(s) <= EndOf(r)
      BY <3>2, Zenon DEF OneAfterAnother
    <3>4. PICK a \in Nat, b \in Nat : a = EndOf(s) /\ b = EndOf(r)
      BY <2>4
    <3>. QED  BY ONLY a \in Nat, b \in Nat, i \in 1 .. Len(Stream), <1>2, <1>5, <2>5, <3>3, <3>4
  <2>. QED  BY <2>3, <2>6
<1>. QED  BY <1>0, <1>1, <1>2, <1>3, <1>4, <1>5
-----------------------------------------------------------------------------
(*                        The inductive invariant                           *)

Clients == {"sending", "late", "waiting", "gone"}

Sessions ==
  [of : Nat, version : {"none", "1.0", "1.1", "2.0"}, said : Seq(Headers),
   status : {0, 200, 400, 404, 405, 408, 411, 500, 505},
   serverDeniesKeepalive : {"no", "yes"}, continueRequired : {"no", "yes"},
   body : Seq(Pieces), fault : {"no", "yes"}, clientIs : Clients]

Answers ==
  [of : Nat, status : {0, 200, 400, 404, 405, 408, 411, 500, 505},
   keepalive : {"no", "yes"}, clientIs : Clients]

(* How many pieces of the stream are consumed; the present request, and how *)
(* many of them are of it.                                                  *)
Pos == sent - Len(wire) - (Len(buffer) - bufferpos)
R == requestCount + 1
Q == script[R]
Into == Pos - EndOf(requestCount)
HeadLen == IF Q.version = "none" THEN Len(Q.before) + 1 ELSE Len(Q.before) + Len(Q.headers) + 2

(* The buffer and the socket hold the last pieces of what was sent.         *)
StreamInv ==
  /\ script \in Seq(Requests)
  /\ buffer \in Seq(Pieces) /\ wire \in Seq(Pieces)
  /\ sent \in 0 .. Len(Stream)
  /\ bufferpos \in 0 .. Len(buffer)
  /\ Len(buffer) < BUFFER_SIZE
  /\ Len(buffer) + Len(wire) <= sent
  /\ \A i \in 1 .. Len(buffer) : buffer[i] = Stream[sent - Len(wire) - Len(buffer) + i]
  /\ \A i \in 1 .. Len(wire) : wire[i] = Stream[sent - Len(wire) + i]

Waiting == pc \in {"wait", "closed"}

(* Where serverFunc's loop is: the count of requests, and of responses.     *)
LoopInv ==
  /\ script \in Scripts
  /\ pipelines \in {"no", "yes"}
  /\ session \in Sessions /\ session.of <= Len(script)
  /\ pc \in {"wait", "line", "headers", "dispatch", "body", "refill", "reading",
             "call", "respond", "finish", "closed"}
  /\ requestCount \in 0 .. Len(script)
  /\ requestCount <= keepalivemaxconn
  /\ pc # "closed" => requestCount < keepalivemaxconn
  /\ ~Waiting =>
       /\ R \in DOMAIN script
       /\ session.of \in {0, R}
       /\ session.serverDeniesKeepalive = "no" => R < keepalivemaxconn
  /\ responses \in Seq(Answers)
  /\ Len(responses) = IF pc = "finish" THEN R ELSE requestCount
  /\ continued \subseteq DOMAIN script

(* The header lines that were read are the first of the request's.          *)
HeardSome ==
  /\ Len(session.said) <= Len(Q.headers)
  /\ \A i \in 1 .. Len(session.said) :
       /\ session.said[i] = Q.headers[i]
       /\ session.said[i] # "bad"
       /\ session.said[i] = "expect" => session.continueRequired = "yes"

(* What a body that waits to be asked for needs.                            *)
WillAsk ==
  Contains(Q.headers, "expect") => session.continueRequired = "yes" \/ R \in continued

InBody ==
  /\ session.of = R
  /\ IsRpc(Q)
  /\ Into = HeadLen + Len(session.body)
  /\ Len(session.body) <= Q.body
  /\ \A i \in 1 .. Len(session.body) : session.body[i] = Piece(R, "body")

(* What is known of a request that has a status.                            *)
Judged(of, status, clientIs, r) ==
  /\ of \in {0, r}
  /\ status # 0
  /\ status = 200 => of = r /\ IsRpc(script[r])
  /\ status = 500 => of = r /\ IsCall(script[r])
  /\ status \notin {200, 408, 500} => ~IsRpc(script[r])
  /\ status = 408 /\ clientIs = "waiting" /\ pipelines = "no" =>
       script[r].version = "none" \/ ~HeaderFits(script[r])

(* Where in the request the server is, and what it knows of it.             *)
PlaceInv ==
  /\ pc = "wait" => Into = 0 /\ bufferpos = 0
  /\ pc = "line" =>
       /\ Into \in 0 .. Len(Q.before) /\ bufferpos = Into
       /\ session.of = 0 /\ session.said = <<>> /\ session.body = <<>>
  /\ pc = "headers" =>
       /\ session.of = R /\ session.body = <<>>
       /\ Q.version \notin {"none", "bad"} /\ session.version = Q.version
       /\ HeardSome
       /\ Into = Len(Q.before) + 1 + Len(session.said) /\ bufferpos = Into
  /\ pc = "dispatch" =>
       /\ session.of = R /\ session.body = <<>>
       /\ Into = HeadLen
       /\ \/ Q.version = "none" /\ session.said = <<>>
          \/ /\ Q.version \notin {"none", "bad"} /\ session.version = Q.version
             /\ HeardSome
             /\ Len(session.said) = Len(Q.headers)
  /\ pc \in {"body", "refill", "reading", "call"} => InBody
  /\ pc \in {"body", "refill", "reading"} => WillAsk
  /\ pc \in {"refill", "reading"} => Len(session.body) < Q.body
  /\ pc = "refill" => bufferpos = Len(buffer)
  /\ pc = "reading" =>
       /\ Len(buffer) = 0
       /\ Contains(Q.headers, "expect") => R \in continued
  /\ pc = "call" => Len(session.body) = Q.body
  /\ pc \in {"respond", "finish"} =>
       /\ Judged(session.of, session.status, session.clientIs, R)
       /\ session.status = 200 => Into = HeadLen + Q.body
       /\ session.status # 200 => session.status >= 400

(* What the client was told of the connection, and of each request.         *)
AnswerInv ==
  /\ \A n \in DOMAIN responses :
       /\ responses[n].keepalive = "no" => n = Len(responses) /\ pc \in {"finish", "closed"}
       /\ Judged(responses[n].of, responses[n].status, responses[n].clientIs, n)
  /\ pc = "finish" => responses[R].keepalive = HTTPKeepalive

(* What it sent knowing it, if it waits for the responses, and how much of  *)
(* that was read; what is in the socket when the connection is closed.      *)
ClientInv ==
  pipelines = "no" =>
    /\ \A i \in 1 .. sent : Stream[i].of <= Len(responses) + 1
    /\ \A i \in 1 .. sent - Len(wire) :
         Stream[i].of <= IF Waiting THEN requestCount ELSE R
    /\ pc = "closed" /\ wire # <<>> =>
         requestCount > 0 /\ responses[requestCount].keepalive = "no"

CallRecords == [of : Nat, body : Seq(Pieces)]

(* What the registry was given, before this request or for it.              *)
CallsInv ==
  /\ calls \in Seq(CallRecords)
  /\ \A n \in DOMAIN calls :
       /\ calls[n].of \in DOMAIN script
       /\ calls[n].of <= IF pc \in {"respond", "finish"} THEN R ELSE requestCount
       /\ IsRpc(script[calls[n].of])
       /\ calls[n].body = Body(calls[n].of, script[calls[n].of])
       /\ n > 1 => calls[n - 1].of < calls[n].of

ConnInv == StreamInv /\ LoopInv /\ PlaceInv /\ AnswerInv /\ ClientInv /\ CallsInv

(* A session is the record of its fields. *)
LEMMA SessionFields ==
  ASSUME NEW s \in Sessions
  PROVE  \E o, v, a, st, d, c, b, u, w :
           s = [of |-> o, version |-> v, said |-> a, status |-> st,
                serverDeniesKeepalive |-> d, continueRequired |-> c, body |-> b,
                fault |-> u, clientIs |-> w]
<1>1. s = [of |-> s.of, version |-> s.version, said |-> s.said, status |-> s.status,
           serverDeniesKeepalive |-> s.serverDeniesKeepalive,
           continueRequired |-> s.continueRequired, body |-> s.body,
           fault |-> s.fault, clientIs |-> s.clientIs]
  BY DEF Sessions
<1>. QED  BY <1>1, Zenon

-----------------------------------------------------------------------------
(*                What the steps do to the stream's pieces                  *)

(* The requests stay what they are, and so do the places they take.         *)
LEMMA SameScript ==
  ASSUME script' = script
  PROVE  /\ Stream' = Stream
         /\ EndOf(requestCount)' = EndOf(requestCount')
         /\ \A r \in 0 .. Len(script) : EndOf(r)' = EndOf(r)
<1>1. Stream' = Stream
  BY DEF Stream, Header, Body
<1>2. EndOf(requestCount)' = EndOf(requestCount')
  BY DEF EndOf, Header, Body
<1>3. \A r \in 0 .. Len(script) : EndOf(r)' = EndOf(r)
  BY DEF EndOf, Header, Body
<1>. QED  BY <1>1, <1>2, <1>3
(* The least of two numbers. *)
LEMMA LeastOfTwo ==
  ASSUME NEW a \in Int, NEW b \in Int
  PROVE  Min({a, b}) \in {a, b} /\ Min({a, b}) <= a /\ Min({a, b}) <= b
<1>1. \E x \in {a, b} : \A y \in {a, b} : x <= y
  OBVIOUS
<1>2. Min({a, b}) \in {a, b} /\ \A y \in {a, b} : Min({a, b}) <= y
  BY <1>1, Zenon DEF Min
<1>. QED  BY <1>2

(* What is left of the buffer is what follows in the stream. *)
LEMMA BufferHolds ==
  ASSUME StreamInv, NEW i \in 1 .. Len(buffer) - bufferpos
  PROVE  /\ bufferpos + i \in 1 .. Len(buffer)
         /\ buffer[bufferpos + i] = Stream[Pos + i]
<1>1. PICK lb \in Nat, lw \in Nat : lb = Len(buffer) /\ lw = Len(wire)
  BY DEF StreamInv
<1>2. sent \in Int /\ bufferpos \in Int /\ bufferpos >= 0 /\ bufferpos <= lb
  BY <1>1 DEF StreamInv
<1>3. bufferpos + i \in 1 .. lb /\ sent - lw - lb + (bufferpos + i) = Pos + i
  BY <1>1, <1>2 DEF Pos
<1>4. \A k \in 1 .. lb : buffer[k] = Stream[sent - lw - lb + k]
  BY <1>1 DEF StreamInv
<1>5. buffer[bufferpos + i] = Stream[sent - lw - lb + (bufferpos + i)]
  BY <1>3, <1>4
<1>. QED  BY <1>1, <1>3, <1>5

(* A read moves pieces from the socket to the end of the buffer. *)
LEMMA ReadKeeps ==
  ASSUME StreamInv, ConnRead, UNCHANGED <<client, bufferpos>>
  PROVE  /\ StreamInv'
         /\ Pos' = Pos
         /\ Len(wire) > 0
         /\ Len(buffer') > bufferpos
         /\ sent - Len(wire') \in 0 .. sent
<1>1. PICK lb \in Nat, lw \in Nat : lb = Len(buffer) /\ lw = Len(wire)
  BY DEF StreamInv
<1>2. PICK n : n = Min({lw, Space})
  OBVIOUS
<1>3. n \in Nat /\ n > 0 /\ n <= lw /\ n <= BUFFER_SIZE - lb - 1
  <2>1. Space \in Int /\ Space = BUFFER_SIZE - lb - 1
    BY <1>1 DEF Space
  <2>2. n > 0
    BY <1>1, <1>2 DEF ConnRead
  <2>3. n \in {lw, Space} /\ n <= lw /\ n <= Space
    BY <1>2, <2>1, LeastOfTwo
  <2>. QED  BY ONLY <2>1, <2>2, <2>3, lw \in Nat
<1>4. /\ buffer' = buffer \o SubSeq(wire, 1, n)
      /\ wire' = SubSeq(wire, n + 1, lw)
  BY <1>1, <1>2 DEF ConnRead
<1>5. PICK a, w : a = SubSeq(wire, 1, n) /\ w = SubSeq(wire, n + 1, lw)
  OBVIOUS
<1>6. wire \in Seq(Pieces) /\ buffer \in Seq(Pieces)
  BY DEF StreamInv
<1>7. /\ a \in Seq(Pieces) /\ Len(a) = n
      /\ \A k \in 1 .. n : a[k] = wire[k]
  <2>1. /\ a \in Seq(Pieces) /\ Len(a) = n - 1 + 1
        /\ \A k \in 1 .. n - 1 + 1 : a[k] = wire[1 + k - 1]
    <3>1. 1 \in Nat /\ 1 <= 1 /\ 1 <= n + 1 /\ n <= Len(wire)
      BY <1>1, <1>3
    <3>. QED  BY ONLY <1>3, <1>5, <1>6, <3>1, Cut
  <2>2. n - 1 + 1 = n /\ \A k \in 1 .. n : 1 + k - 1 = k
    BY <1>3
  <2>. QED  BY <2>1, <2>2
<1>8. /\ w \in Seq(Pieces) /\ Len(w) = lw - n
      /\ \A k \in 1 .. lw - n : w[k] = wire[n + k]
  <2>1. /\ w \in Seq(Pieces) /\ Len(w) = lw - (n + 1) + 1
        /\ \A k \in 1 .. lw - (n + 1) + 1 : w[k] = wire[(n + 1) + k - 1]
    <3>1. n + 1 \in Nat /\ 1 <= n + 1 /\ n + 1 <= lw + 1 /\ lw <= Len(wire)
      BY <1>1, <1>3
    <3>. QED  BY ONLY lw \in Nat, <1>5, <1>6, <3>1, Cut
  <2>2. /\ lw - (n + 1) + 1 = lw - n
        /\ \A k \in 1 .. lw - n : (n + 1) + k - 1 = n + k
    BY <1>3
  <2>. QED  BY <2>1, <2>2
<1>9. /\ buffer' \in Seq(Pieces) /\ Len(buffer') = lb + n
      /\ \A k \in 1 .. lb : buffer'[k] = buffer[k]
      /\ \A k \in 1 .. n : buffer'[lb + k] = wire[k]
  <2>1. PICK b : b = buffer'
    OBVIOUS
  <2>2. b = buffer \o a
    BY <1>4, <1>5, <2>1
  <2>3. /\ b \in Seq(Pieces) /\ Len(b) = Len(buffer) + Len(a)
        /\ \A k \in 1 .. Len(buffer) : b[k] = buffer[k]
        /\ \A k \in 1 .. Len(a) : b[Len(buffer) + k] = a[k]
    <3>1. a \in Seq(Pieces)
      BY <1>7
    <3>. QED  BY ONLY <1>6, <2>2, <3>1, Joined
  <2>. QED  BY <1>1, <1>7, <2>1, <2>3
<1>10. /\ wire' \in Seq(Pieces) /\ Len(wire') = lw - n
       /\ \A k \in 1 .. lw - n : wire'[k] = wire[n + k]
  BY <1>4, <1>5, <1>8
<1>11. sent \in Int /\ bufferpos \in Int /\ bufferpos >= 0 /\ bufferpos <= lb
       /\ lb + lw <= sent /\ sent \in 0 .. Len(Stream) /\ BUFFER_SIZE \in Int
  BY <1>1 DEF StreamInv
<1>12. sent' = sent /\ bufferpos' = bufferpos /\ script' = script /\ Stream' = Stream
  BY SameScript DEF client
<1>13. \A i \in 1 .. Len(buffer') :
         buffer'[i] = Stream[sent - Len(wire') - Len(buffer') + i]
  <2>1. ASSUME NEW i \in 1 .. lb + n PROVE buffer'[i] = Stream[sent - (lw - n) - (lb + n) + i]
    <3>0. sent - (lw - n) - (lb + n) + i = sent - lw - lb + i
      BY <1>3, <1>11
    <3>1. CASE i <= lb
      <4>1. i \in 1 .. lb
        BY <3>1
      <4>2. buffer'[i] = buffer[i]
        BY <1>9, <4>1
      <4>3. buffer[i] = Stream[sent - lw - lb + i]
        BY <1>1, <4>1 DEF StreamInv
      <4>. QED  BY <3>0, <4>2, <4>3
    <3>2. CASE i > lb
      <4>1. i - lb \in 1 .. n
        BY <1>3, <3>2
      <4>2. PICK k \in 1 .. n : k = i - lb
        BY <4>1
      <4>3. i = lb + k /\ k \in 1 .. lw
        BY <1>3, <4>2
      <4>4. buffer'[i] = wire[k]
        BY <1>9, <4>3
      <4>5. wire[k] = Stream[sent - lw + k]
        BY <1>1, <4>3 DEF StreamInv
      <4>6. sent - lw + k = sent - lw - lb + i
        BY <1>11, <4>3
      <4>. QED  BY <3>0, <4>4, <4>5, <4>6
    <3>. QED  BY <3>1, <3>2, <1>3
  <2>. QED  BY <1>9, <1>10, <2>1
<1>14. \A i \in 1 .. Len(wire') : wire'[i] = Stream[sent - Len(wire') + i]
  <2>1. ASSUME NEW i \in 1 .. lw - n PROVE wire'[i] = Stream[sent - (lw - n) + i]
    <3>1. n + i \in 1 .. lw /\ sent - (lw - n) + i = sent - lw + (n + i)
      BY <1>3, <1>11
    <3>2. wire[n + i] = Stream[sent - lw + (n + i)]
      BY <1>1, <3>1 DEF StreamInv
    <3>. QED  BY <1>10, <3>1, <3>2
  <2>. QED  BY <1>10, <2>1
<1>15. /\ Len(buffer') < BUFFER_SIZE
       /\ bufferpos \in 0 .. Len(buffer')
       /\ Len(buffer') > bufferpos
       /\ Len(buffer') + Len(wire') <= sent
       /\ sent - Len(wire') \in 0 .. sent
  BY <1>3, <1>9, <1>10, <1>11
<1>16. Pos' = Pos
  BY <1>1, <1>3, <1>9, <1>10, <1>11, <1>12 DEF Pos
<1>17. StreamInv'
  <2>1. script \in Seq(Requests)
    BY DEF StreamInv
  <2>. QED  BY <1>9, <1>10, <1>11, <1>12, <1>13, <1>14, <1>15, <2>1 DEF StreamInv
<1>. QED  BY <1>1, <1>3, <1>15, <1>16, <1>17

(* What is consumed leaves the front of the buffer. *)
LEMMA SlideKeeps ==
  ASSUME StreamInv, ConnReadInit, UNCHANGED <<client, wire>>
  PROVE  /\ StreamInv'
         /\ Pos' = Pos
         /\ bufferpos' = 0
         /\ Len(buffer') = Len(buffer) - bufferpos
<1>1. PICK lb \in Nat, lw \in Nat : lb = Len(buffer) /\ lw = Len(wire)
  BY DEF StreamInv
<1>2. PICK p \in Nat : p = bufferpos
  BY DEF StreamInv
<1>3. p <= lb /\ lb + lw <= sent /\ sent \in 0 .. Len(Stream) /\ sent \in Int
      /\ lb < BUFFER_SIZE /\ BUFFER_SIZE \in Int /\ buffer \in Seq(Pieces)
      /\ wire \in Seq(Pieces)
  BY <1>1, <1>2 DEF StreamInv
<1>4. buffer' = SubSeq(buffer, p + 1, lb) /\ bufferpos' = 0
  BY <1>1, <1>2 DEF ConnReadInit
<1>5. /\ buffer' \in Seq(Pieces) /\ Len(buffer') = lb - p
      /\ \A k \in 1 .. lb - p : buffer'[k] = buffer[p + k]
  <2>0. PICK b : b = buffer'
    OBVIOUS
  <2>1. /\ b \in Seq(Pieces) /\ Len(b) = lb - (p + 1) + 1
        /\ \A k \in 1 .. lb - (p + 1) + 1 : b[k] = buffer[(p + 1) + k - 1]
    <3>1. p + 1 \in Nat /\ 1 <= p + 1 /\ p + 1 <= lb + 1 /\ lb <= Len(buffer)
      BY <1>1, <1>3
    <3>2. b = SubSeq(buffer, p + 1, lb)
      BY <1>4, <2>0
    <3>. QED  BY ONLY lb \in Nat, <1>3, <3>1, <3>2, Cut
  <2>2. /\ lb - (p + 1) + 1 = lb - p
        /\ \A k \in 1 .. lb - p : (p + 1) + k - 1 = p + k
    OBVIOUS
  <2>. QED  BY <2>0, <2>1, <2>2
<1>6. sent' = sent /\ wire' = wire /\ script' = script /\ Stream' = Stream
  BY SameScript DEF client
<1>7. \A i \in 1 .. Len(buffer') :
        buffer'[i] = Stream[sent - Len(wire) - Len(buffer') + i]
  <2>1. ASSUME NEW i \in 1 .. lb - p PROVE buffer'[i] = Stream[sent - lw - (lb - p) + i]
    <3>1. p + i \in 1 .. lb /\ sent - lw - (lb - p) + i = sent - lw - lb + (p + i)
      BY <1>3
    <3>2. buffer[p + i] = Stream[sent - lw - lb + (p + i)]
      BY <1>1, <3>1 DEF StreamInv
    <3>. QED  BY <1>5, <3>1, <3>2
  <2>. QED  BY <1>1, <1>5, <2>1
<1>8. /\ Len(buffer') < BUFFER_SIZE
      /\ Len(buffer') \in Nat
      /\ Len(buffer') + Len(wire) <= sent
  BY <1>1, <1>3, <1>5
<1>9. Pos' = Pos
  <2>1. Len(buffer') = lb - p /\ Len(wire') = lw /\ Len(wire) = lw /\ sent \in Int
    BY <1>1, <1>3, <1>5, <1>6
  <2>2. Pos' = sent - lw - (lb - p - 0)
    BY <1>4, <1>6, <2>1 DEF Pos
  <2>3. Pos = sent - lw - (lb - p)
    BY <1>1, <1>2 DEF Pos
  <2>. QED  BY <2>1, <2>2, <2>3
<1>10. StreamInv'
  <2>1. script \in Seq(Requests)
        /\ \A i \in 1 .. Len(wire) : wire[i] = Stream[sent - Len(wire) + i]
    BY DEF StreamInv
  <2>2. bufferpos' \in 0 .. Len(buffer')
    BY <1>4, <1>8
  <2>. QED  BY <1>3, <1>5, <1>6, <1>7, <1>8, <2>1, <2>2 DEF StreamInv
<1>. QED  BY <1>1, <1>2, <1>4, <1>5, <1>9, <1>10

(* A piece of the buffer is consumed, or more, or none. *)
LEMMA TakeKeeps ==
  ASSUME StreamInv, NEW n \in Nat, n <= Len(buffer) - bufferpos,
         bufferpos' = bufferpos + n, UNCHANGED <<client, buffer, wire>>
  PROVE  StreamInv' /\ Pos' = Pos + n
<1>1. PICK lb \in Nat, lw \in Nat, p \in Nat :
        lb = Len(buffer) /\ lw = Len(wire) /\ p = bufferpos
  BY DEF StreamInv
<1>2. sent \in Int /\ p + n \in 0 .. lb
  BY <1>1 DEF StreamInv
<1>3. /\ sent' = sent /\ wire' = wire /\ buffer' = buffer /\ script' = script
      /\ Stream' = Stream
  BY SameScript DEF client
<1>4. StreamInv'
  BY <1>1, <1>2, <1>3 DEF StreamInv
<1>5. Pos' = Pos + n
  BY <1>1, <1>2, <1>3 DEF Pos
<1>. QED  BY <1>4, <1>5

(* The client sends the next piece. *)
LEMMA SendKeeps ==
  ASSUME StreamInv, Send
  PROVE  StreamInv' /\ Pos' = Pos
<1>1. PICK lb \in Nat, lw \in Nat, p \in Nat :
        lb = Len(buffer) /\ lw = Len(wire) /\ p = bufferpos
  BY DEF StreamInv
<1>2. /\ script \in Seq(Requests) /\ wire \in Seq(Pieces)
      /\ sent \in Int /\ sent >= 0 /\ lb + lw <= sent
  BY <1>1 DEF StreamInv
<1>3. /\ sent < Len(Stream) /\ sent' = sent + 1
      /\ wire' = Append(wire, Stream[sent + 1])
      /\ buffer' = buffer /\ bufferpos' = bufferpos /\ script' = script
      /\ Stream' = Stream
  BY SameScript DEF Send, MaySend
<1>4. Stream \in Seq(Pieces) /\ Len(Stream) \in Nat
  BY <1>2, StreamOf
<1>5. Stream[sent + 1] \in Pieces /\ sent + 1 \in 0 .. Len(Stream)
  <2>1. sent + 1 \in 1 .. Len(Stream)
    BY <1>2, <1>3, <1>4
  <2>. QED  BY <1>4, <2>1
<1>6. /\ wire' \in Seq(Pieces) /\ Len(wire') = lw + 1
      /\ \A k \in 1 .. lw : wire'[k] = wire[k]
      /\ wire'[lw + 1] = Stream[sent + 1]
  <2>1. PICK w, e : w = wire' /\ e = Stream[sent + 1]
    OBVIOUS
  <2>2. e \in Pieces /\ w = Append(wire, e)
    BY <1>3, <1>5, <2>1
  <2>3. /\ w \in Seq(Pieces) /\ Len(w) = lw + 1
        /\ \A k \in 1 .. lw : w[k] = wire[k]
        /\ w[lw + 1] = e
    BY ONLY <1>1, <1>2, <2>2
  <2>. QED  BY <2>1, <2>3
<1>7. \A i \in 1 .. Len(wire') : wire'[i] = Stream[(sent + 1) - Len(wire') + i]
  <2>1. ASSUME NEW i \in 1 .. lw + 1 PROVE wire'[i] = Stream[(sent + 1) - (lw + 1) + i]
    <3>0. (sent + 1) - (lw + 1) + i = sent - lw + i
      BY <1>2
    <3>1. CASE i = lw + 1
      <4>1. sent - lw + i = sent + 1
        BY <1>2, <3>1
      <4>. QED  BY <1>6, <3>0, <3>1, <4>1
    <3>2. CASE i # lw + 1
      <4>1. i \in 1 .. lw
        BY <3>2
      <4>2. wire[i] = Stream[sent - lw + i]
        BY <1>1, <4>1 DEF StreamInv
      <4>. QED  BY <1>6, <3>0, <4>1, <4>2
    <3>. QED  BY <3>1, <3>2
  <2>. QED  BY <1>6, <2>1
<1>8. \A i \in 1 .. lb : buffer[i] = Stream[(sent + 1) - (lw + 1) - lb + i]
  <2>1. ASSUME NEW i \in 1 .. lb PROVE buffer[i] = Stream[(sent + 1) - (lw + 1) - lb + i]
    <3>1. (sent + 1) - (lw + 1) - lb + i = sent - lw - lb + i
      BY <1>2
    <3>2. buffer[i] = Stream[sent - lw - lb + i]
      BY <1>1 DEF StreamInv
    <3>. QED  BY <3>1, <3>2
  <2>. QED  BY <2>1
<1>9. Pos' = Pos
  BY <1>1, <1>2, <1>3, <1>6 DEF Pos
<1>10. StreamInv'
  <2>1. /\ buffer' \in Seq(Pieces)
        /\ bufferpos' \in 0 .. Len(buffer')
        /\ Len(buffer') < BUFFER_SIZE
    BY <1>3 DEF StreamInv
  <2>2. Len(buffer') + Len(wire') <= sent'
    BY <1>1, <1>2, <1>3, <1>6
  <2>3. /\ sent' \in 0 .. Len(Stream')
        /\ \A i \in 1 .. Len(buffer') :
             buffer'[i] = Stream'[sent' - Len(wire') - Len(buffer') + i]
        /\ \A i \in 1 .. Len(wire') : wire'[i] = Stream'[sent' - Len(wire') + i]
    BY <1>1, <1>3, <1>5, <1>6, <1>7, <1>8
  <2>4. script' \in Seq(Requests) /\ wire' \in Seq(Pieces)
    BY <1>2, <1>3, <1>6
  <2>. QED  BY <2>1, <2>2, <2>3, <2>4 DEF StreamInv
<1>. QED  BY <1>9, <1>10
-----------------------------------------------------------------------------
(*                        The present request                               *)

(* Where its pieces are in the stream, and what they are. *)
LEMMA Present ==
  ASSUME script \in Seq(Requests), requestCount \in 0 .. Len(script), R \in DOMAIN script
  PROVE  /\ Q \in Requests /\ Len(Q.before) \in Nat /\ Q.body \in Nat
         /\ Len(Q.headers) \in Nat /\ HeadLen \in Nat /\ HeadLen > Len(Q.before)
         /\ R \in Nat
         /\ EndOf(requestCount) \in Nat
         /\ EndOf(R) = EndOf(requestCount) + HeadLen + Q.body
         /\ EndOf(requestCount) + HeadLen + Q.body <= Len(Stream)
         /\ \A k \in 1 .. Len(Q.before) : Stream[EndOf(requestCount) + k] = Piece(R, Q.before[k])
         /\ Stream[EndOf(requestCount) + Len(Q.before) + 1] = Piece(R, "line")
         /\ Q.version # "none" =>
              /\ \A k \in 1 .. Len(Q.headers) :
                   Stream[EndOf(requestCount) + Len(Q.before) + 1 + k] = Piece(R, Q.headers[k])
              /\ Stream[EndOf(requestCount) + HeadLen] = Piece(R, "blank")
         /\ \A k \in 1 .. Q.body :
              Stream[EndOf(requestCount) + HeadLen + k] = Piece(R, "body")
<1>1. PICK q \in Requests : q = Q
  BY DEF Q
<1>2. PICK m \in Nat, l \in Nat, b \in Nat :
        m = Len(q.before) /\ l = Len(q.headers) /\ b = q.body
  BY RequestParts
<1>3. R \in Nat /\ R - 1 = requestCount
  BY DEF R
<1>4. PICK h : h = Header(R, q)
  OBVIOUS
<1>5. /\ q.version = "none" => Len(h) = m + 1
      /\ q.version # "none" => Len(h) = m + l + 2
      /\ \A k \in 1 .. m : h[k] = Piece(R, q.before[k])
      /\ h[m + 1] = Piece(R, "line")
      /\ q.version # "none" => /\ \A k \in 1 .. l : h[m + 1 + k] = Piece(R, q.headers[k])
                               /\ h[m + l + 2] = Piece(R, "blank")
  <2>1. /\ q.version = "none" => Len(h) = Len(q.before) + 1
        /\ q.version # "none" => Len(h) = Len(q.before) + Len(q.headers) + 2
        /\ \A k \in 1 .. Len(q.before) : h[k] = Piece(R, q.before[k])
        /\ h[Len(q.before) + 1] = Piece(R, "line")
        /\ q.version # "none" =>
             /\ \A k \in 1 .. Len(q.headers) :
                  h[Len(q.before) + 1 + k] = Piece(R, q.headers[k])
             /\ h[Len(q.before) + Len(q.headers) + 2] = Piece(R, "blank")
    <3>1. /\ q.version = "none" => Len(h) = Len(q.before) + 1
          /\ q.version # "none" => Len(h) = Len(q.before) + Len(q.headers) + 2
      BY ONLY q \in Requests, <1>3, <1>4, HeaderParts
    <3>2. /\ \A k \in 1 .. Len(q.before) : h[k] = Piece(R, q.before[k])
          /\ h[Len(q.before) + 1] = Piece(R, "line")
      BY ONLY q \in Requests, <1>3, <1>4, HeaderParts
    <3>3. q.version # "none" =>
            /\ \A k \in 1 .. Len(q.headers) :
                 h[Len(q.before) + 1 + k] = Piece(R, q.headers[k])
            /\ h[Len(q.before) + Len(q.headers) + 2] = Piece(R, "blank")
      BY ONLY q \in Requests, <1>3, <1>4, HeaderParts
    <3>. QED  BY ONLY <3>1, <3>2, <3>3
  <2>. QED  BY ONLY <1>2, <2>1
<1>6. PICK e \in Nat : e = HeadLen /\ e = Len(h) /\ e > m
               /\ (q.version # "none" => e = m + l + 2)
  <2>1. HeadLen = IF q.version = "none" THEN m + 1 ELSE m + l + 2
    BY <1>1, <1>2 DEF HeadLen
  <2>2. HeadLen = Len(h)
    BY <1>5, <2>1
  <2>. QED  BY <2>1, <2>2
<1>7. /\ Len(Whole(R)) = e + b
      /\ \A k \in 1 .. e : Whole(R)[k] = h[k]
      /\ \A k \in 1 .. b : Whole(R)[e + k] = Piece(R, "body")
  <2>1. /\ Len(Whole(R)) = Len(Header(R, script[R])) + script[R].body
        /\ \A k \in 1 .. Len(Header(R, script[R])) :
             Whole(R)[k] = Header(R, script[R])[k]
        /\ \A k \in 1 .. script[R].body :
             Whole(R)[Len(Header(R, script[R])) + k] = Piece(R, "body")
    BY WholeParts, Zenon
  <2>2. script[R] = q
    BY <1>1 DEF Q
  <2>. QED  BY <1>2, <1>4, <1>6, <2>1, <2>2
<1>8. PICK w : w = Whole(R)
  OBVIOUS
<1>9. PICK f \in Nat : f = EndOf(requestCount)
  BY EndsTyped
<1>10. /\ EndOf(R) = f + e + b
       /\ f + e + b <= Len(Stream)
       /\ \A k \in 1 .. e + b : Stream[f + k] = w[k]
  <2>1. /\ EndOf(R) = EndOf(R - 1) + Len(Whole(R))
        /\ \A k \in 1 .. Len(Whole(R)) : Stream[EndOf(R - 1) + k] = Whole(R)[k]
    BY StreamOf, Zenon
  <2>2. EndOf(R) <= Len(Stream)
    <3>1. R \in 0 .. Len(script) /\ Len(script) \in Nat
      OBVIOUS
    <3>2. EndOf(R) \in 0 .. Len(Stream) /\ Len(Stream) \in Nat
      BY <3>1, StreamOf
    <3>. QED  BY <3>2
  <2>3. /\ EndOf(R) = f + Len(w)
        /\ \A k \in 1 .. Len(w) : Stream[f + k] = w[k]
    BY <1>3, <1>8, <1>9, <2>1
  <2>4. Len(w) = e + b
    BY <1>7, <1>8
  <2>5. \A k \in 1 .. e + b : Stream[f + k] = w[k]
    BY ONLY <2>3, <2>4
  <2>6. EndOf(R) = f + e + b
    <3>1. f + (e + b) = f + e + b
      OBVIOUS
    <3>. QED  BY ONLY <2>3, <2>4, <3>1
  <2>. QED  BY ONLY <2>2, <2>5, <2>6
<1>11. /\ \A k \in 1 .. m : Stream[f + k] = Piece(R, q.before[k])
       /\ Stream[f + m + 1] = Piece(R, "line")
       /\ q.version # "none" =>
            /\ \A k \in 1 .. l : Stream[f + m + 1 + k] = Piece(R, q.headers[k])
            /\ Stream[f + e] = Piece(R, "blank")
       /\ \A k \in 1 .. b : Stream[f + e + k] = Piece(R, "body")
  <2>1. \A k \in 1 .. e : Stream[f + k] = h[k]
    BY <1>7, <1>8, <1>10
  <2>2. \A k \in 1 .. m : Stream[f + k] = Piece(R, q.before[k])
    <3>1. \A k \in 1 .. m : k \in 1 .. e
      BY ONLY m \in Nat, e \in Nat, <1>6
    <3>. QED  BY ONLY <1>5, <2>1, <3>1
  <2>3. Stream[f + m + 1] = Piece(R, "line")
    <3>1. m + 1 \in 1 .. e /\ f + (m + 1) = f + m + 1
      BY <1>6
    <3>. QED  BY <1>5, <2>1, <3>1
  <2>4. ASSUME q.version # "none"
        PROVE  /\ \A k \in 1 .. l : Stream[f + m + 1 + k] = Piece(R, q.headers[k])
               /\ Stream[f + e] = Piece(R, "blank")
    <3>1. e = m + l + 2 /\ e \in 1 .. e
      BY <1>6, <2>4
    <3>2. ASSUME NEW k \in 1 .. l PROVE Stream[f + m + 1 + k] = Piece(R, q.headers[k])
      <4>1. m + 1 + k \in 1 .. e /\ f + (m + 1 + k) = f + m + 1 + k
        BY <3>1
      <4>2. Stream[f + (m + 1 + k)] = h[m + 1 + k]
        BY <2>1, <4>1
      <4>. QED  BY <1>5, <2>4, <4>1, <4>2
    <3>. QED  BY <1>5, <2>1, <2>4, <3>1, <3>2
  <2>5. ASSUME NEW k \in 1 .. b PROVE Stream[f + e + k] = Piece(R, "body")
    <3>1. e + k \in 1 .. e + b /\ f + (e + k) = f + e + k
      OBVIOUS
    <3>. QED  BY <1>7, <1>8, <1>10, <3>1
  <2>. QED  BY <2>2, <2>3, <2>4, <2>5
<1>12. HeadLen = e /\ Len(Q.before) = m /\ Q.body = b /\ Len(Q.headers) = l
       /\ EndOf(requestCount) = f /\ Q \in Requests
  BY <1>1, <1>2, <1>6, <1>9
<1>. QED  BY <1>1, <1>3, <1>6, <1>10, <1>11, <1>12

(* The buffer, the socket and the position count pieces. *)
LEMMA Lengths ==
  ASSUME StreamInv
  PROVE  Len(buffer) \in Nat /\ Len(wire) \in Nat /\ bufferpos \in Nat
<1>1. PICK b, w : b = buffer /\ w = wire
  OBVIOUS
<1>2. b \in Seq(Pieces) /\ w \in Seq(Pieces) /\ bufferpos \in 0 .. Len(b)
  BY <1>1 DEF StreamInv
<1>3. Len(b) \in Nat /\ Len(w) \in Nat /\ bufferpos \in Nat
  BY ONLY <1>2
<1>. QED  BY <1>1, <1>3

(* Pos and Into count pieces. *)
LEMMA PosTyped ==
  ASSUME StreamInv, requestCount \in 0 .. Len(script)
  PROVE  /\ Pos \in Nat /\ Into \in Int
         /\ EndOf(requestCount) \in Nat
         /\ Pos = EndOf(requestCount) + Into
         /\ Pos + (Len(buffer) - bufferpos) + Len(wire) = sent
         /\ sent \in Nat /\ sent <= Len(Stream) /\ Len(Stream) \in Nat
         /\ bufferpos \in Nat /\ Len(buffer) \in Nat /\ bufferpos <= Len(buffer)
         /\ Len(wire) \in Nat
<1>1. PICK lb \in Nat, lw \in Nat, p \in Nat, f \in Nat :
        lb = Len(buffer) /\ lw = Len(wire) /\ p = bufferpos /\ f = EndOf(requestCount)
  <2>1. EndOf(requestCount) \in Nat
    BY EndsTyped DEF StreamInv
  <2>. QED  BY <2>1, Lengths
<1>2. p <= lb /\ lb + lw <= sent /\ sent \in 0 .. Len(Stream)
  BY <1>1 DEF StreamInv
<1>3. Len(Stream) \in Nat
  BY StreamOf DEF StreamInv
<1>. QED  BY <1>1, <1>2, <1>3 DEF Pos, Into

(* Within a request, what is consumed of the stream is consumed of it. *)
LEMMA IntoMoves ==
  ASSUME StreamInv, requestCount \in 0 .. Len(script), NEW n \in Nat,
         Pos' = Pos + n, UNCHANGED <<script, requestCount>>
  PROVE  Into' = Into + n
<1>1. EndOf(requestCount)' = EndOf(requestCount)
  BY SameScript
<1>2. PICK f \in Nat, p \in Nat : f = EndOf(requestCount) /\ p = Pos
  BY PosTyped
<1>. QED  BY <1>1, <1>2 DEF Into

(* The keepalive that a response says. *)
LEMMA KeepaliveSaid ==
  /\ HTTPKeepalive \in {"no", "yes"}
  /\ HTTPKeepalive = "yes" => session.serverDeniesKeepalive = "no" /\ session.status < 400
  /\ session' = session => HTTPKeepalive' = HTTPKeepalive
<1>1. /\ HTTPKeepalive \in {"no", "yes"}
      /\ HTTPKeepalive = "yes" => session.serverDeniesKeepalive = "no" /\ session.status < 400
  BY Zenon DEF HTTPKeepalive
<1>2. session' = session => HTTPKeepalive' = HTTPKeepalive
  BY DEF HTTPKeepalive, WantsKeepalive
<1>. QED  BY <1>1, <1>2
-----------------------------------------------------------------------------
(*                     What the steps leave as it is                        *)

(* The session of a new request has no fields but the default ones. *)
LEMMA NewSessionTyped ==
  ASSUME NEW last \in {"no", "yes"}
  PROVE  /\ NewSession(last) \in Sessions
         /\ NewSession(last).of = 0
         /\ NewSession(last).said = <<>> /\ NewSession(last).body = <<>>
         /\ NewSession(last).serverDeniesKeepalive = last
  BY DEF NewSession, Sessions, Clients

(* Within a request nothing is said to the client: the answers stay what    *)
(* they are ...                                                             *)
LEMMA AnswersStay ==
  ASSUME AnswerInv, pc \notin {"finish", "closed"}, pc' # "finish",
         UNCHANGED <<script, pipelines, responses>>
  PROVE  AnswerInv'
  BY DEF AnswerInv, Judged

(* ... what the client sent was allowed by them, whatever of it is read ... *)
LEMMA ClientStays ==
  ASSUME StreamInv', LoopInv, ClientInv, pc # "finish",
         pc' \notin {"wait", "closed"}, sent - Len(wire') \in 0 .. sent,
         UNCHANGED <<client, responses, requestCount>>
  PROVE  ClientInv'
<1>1. Stream' = Stream /\ sent' = sent /\ pipelines' = pipelines
      /\ responses' = responses /\ requestCount' = requestCount
  BY SameScript DEF client
<1>2. Len(responses) + 1 = R /\ R' = R
  BY <1>1 DEF LoopInv, R
<1>3. PICK n \in 0 .. sent : n = sent - Len(wire')
  OBVIOUS
<1>4. \A i \in 1 .. n : i \in 1 .. sent
  <2>1. sent \in Int
    BY <1>1 DEF StreamInv
  <2>. QED  BY <2>1
<1>. QED  BY <1>1, <1>2, <1>3, <1>4 DEF ClientInv, Waiting

(* ... and so do the calls, but for the one that is made. *)
LEMMA CallsStay ==
  ASSUME CallsInv, requestCount \in Nat,
         pc \in {"respond", "finish"} => pc' \in {"respond", "finish"},
         UNCHANGED <<script, calls, requestCount>>
  PROVE  CallsInv'
<1>1. \A n \in DOMAIN calls : calls[n].of \in Nat
  <2>1. \A n \in DOMAIN calls : calls[n] \in CallRecords
    BY DEF CallsInv
  <2>. QED  BY <2>1 DEF CallRecords
<1>. QED  BY <1>1 DEF CallsInv, R

(* Where the server is depends on nothing else. *)
LEMMA PlaceStays ==
  ASSUME PlaceInv, Into' = Into,
         UNCHANGED <<script, pipelines, pc, requestCount, session, continued, buffer, bufferpos>>
  PROVE  PlaceInv'
<1>1. Q' = Q /\ R' = R /\ HeadLen' = HeadLen
  BY DEF Q, R, HeadLen
<1>2. InBody => InBody'
  BY <1>1 DEF InBody
<1>3. (HeardSome => HeardSome') /\ (WillAsk => WillAsk')
  BY <1>1 DEF HeardSome, WillAsk
<1>4. Judged(session.of, session.status, session.clientIs, R)
        => Judged(session.of, session.status, session.clientIs, R)'
  BY <1>1 DEF Judged
<1>5. CASE pc \in {"respond", "finish"}
  <2>1. /\ Judged(session.of, session.status, session.clientIs, R)'
        /\ session'.status = 200 => Into' = HeadLen' + Q'.body
        /\ session'.status # 200 => session'.status >= 400
    BY <1>1, <1>4, <1>5 DEF PlaceInv
  <2>. QED  BY <1>5, <2>1 DEF PlaceInv
<1>6. CASE pc \in {"body", "refill", "reading", "call"}
  <2>1. InBody' /\ (pc # "call" => WillAsk')
    BY <1>2, <1>3, <1>6 DEF PlaceInv
  <2>2. /\ pc \in {"refill", "reading"} => Len(session'.body) < Q'.body
        /\ pc = "refill" => bufferpos' = Len(buffer')
        /\ pc = "reading" =>
             /\ Len(buffer') = 0
             /\ Contains(Q'.headers, "expect") => R' \in continued'
        /\ pc = "call" => Len(session'.body) = Q'.body
    BY <1>1, <1>6 DEF PlaceInv
  <2>3. pc' = pc
    OBVIOUS
  <2>. QED  BY ONLY <1>6, <2>1, <2>2, <2>3 DEF PlaceInv
<1>7. CASE pc \in {"headers", "dispatch"}
  <2>1. pc = "headers" =>
          /\ session'.of = R' /\ session'.body = <<>>
          /\ Q'.version \notin {"none", "bad"} /\ session'.version = Q'.version
          /\ HeardSome'
          /\ Into' = Len(Q'.before) + 1 + Len(session'.said) /\ bufferpos' = Into'
    BY <1>1, <1>3, <1>7 DEF PlaceInv
  <2>2. pc = "dispatch" =>
          /\ session'.of = R' /\ session'.body = <<>>
          /\ Into' = HeadLen'
          /\ \/ Q'.version = "none" /\ session'.said = <<>>
             \/ /\ Q'.version \notin {"none", "bad"} /\ session'.version = Q'.version
                /\ HeardSome'
                /\ Len(session'.said) = Len(Q'.headers)
    BY <1>1, <1>3, <1>7 DEF PlaceInv
  <2>3. pc' = pc
    OBVIOUS
  <2>. QED  BY ONLY <1>7, <2>1, <2>2, <2>3 DEF PlaceInv
<1>8. CASE pc \notin {"headers", "dispatch", "body", "refill", "reading", "call", "respond",
                      "finish"}
  BY <1>1, <1>8 DEF PlaceInv
<1>. QED  BY <1>5, <1>6, <1>7, <1>8

(* The client sends. *)
LEMMA SendInv ==
  ASSUME ConnInv, Send
  PROVE  ConnInv'
<1>1. StreamInv' /\ Pos' = Pos
  BY SendKeeps DEF ConnInv
<1>2. /\ UNCHANGED <<script, pipelines, buffer, bufferpos, pc, requestCount, session,
                     continued, calls, responses>>
      /\ sent' = sent + 1 /\ MaySend /\ pc # "closed"
      /\ Stream' = Stream
  BY SameScript DEF Send
<1>3. /\ LoopInv /\ PlaceInv /\ AnswerInv /\ ClientInv /\ CallsInv /\ StreamInv
      /\ requestCount \in 0 .. Len(script)
  BY DEF ConnInv, LoopInv
<1>4. Into' = Into
  <2>1. Pos' = Pos + 0 /\ Into \in Int
    BY <1>1, <1>3, PosTyped
  <2>2. Into' = Into + 0
    BY <1>2, <1>3, <2>1, IntoMoves
  <2>. QED  BY <2>1, <2>2
<1>5. LoopInv'
  BY <1>2, <1>3 DEF LoopInv, Waiting, R
<1>6. PlaceInv'
  BY <1>1, <1>2, <1>3, <1>4, PlaceStays
<1>7. AnswerInv'
  <2>1. HTTPKeepalive' = HTTPKeepalive
    BY <1>2, KeepaliveSaid
  <2>. QED  BY <1>2, <1>3, <2>1 DEF AnswerInv, Judged, R
<1>8. ClientInv'
  <2>1. SUFFICES ASSUME pipelines = "no"
                 PROVE  /\ \A i \in 1 .. sent + 1 : Stream[i].of <= Len(responses) + 1
                        /\ \A i \in 1 .. sent' - Len(wire') :
                             Stream[i].of <= IF Waiting THEN requestCount ELSE R
    BY <1>2 DEF ClientInv, Waiting, R
  <2>2. sent' - Len(wire') = sent - Len(wire) /\ sent \in Nat
    <3>1. /\ Pos + (Len(buffer) - bufferpos) + Len(wire) = sent
          /\ Len(wire) \in Nat /\ bufferpos \in Nat /\ Len(buffer) \in Nat /\ Pos \in Nat
          /\ sent \in Nat
      BY <1>3, PosTyped
    <3>2. /\ wire' \in Seq(Pieces)
      BY <1>1 DEF StreamInv
    <3>3. Len(wire') \in Nat
      BY <3>2
    <3>4. Pos' = sent' - Len(wire') - (Len(buffer) - bufferpos)
      BY <1>2 DEF Pos
    <3>. QED  BY <1>1, <1>2, <3>1, <3>3, <3>4
  <2>3. Stream[sent + 1].of <= Len(responses) + 1
    <3>1. PICK o \in Nat : o = Stream[sent + 1].of
      <4>1. sent + 1 \in 1 .. Len(Stream) /\ Stream \in Seq(Pieces)
        BY <1>2, <1>3, <2>2, StreamOf DEF MaySend, StreamInv
      <4>2. Stream[sent + 1] \in Pieces
        BY <4>1
      <4>. QED  BY <4>2 DEF Pieces
    <3>2. Len(responses) \in Nat
      BY <1>3 DEF LoopInv
    <3>3. o > 1 => Len(responses) >= o - 1
      BY <1>2, <2>1, <3>1 DEF MaySend, ToldToGoOn, Answered
    <3>. QED  BY <3>1, <3>2, <3>3
  <2>4. \A i \in 1 .. sent : Stream[i].of <= Len(responses) + 1
    BY <1>3, <2>1 DEF ClientInv
  <2>5. \A i \in 1 .. sent + 1 : i \in 1 .. sent \/ i = sent + 1
    BY <2>2
  <2>6. \A i \in 1 .. sent - Len(wire) : Stream[i].of <= IF Waiting THEN requestCount ELSE R
    BY <1>3, <2>1 DEF ClientInv
  <2>. QED  BY <2>2, <2>3, <2>4, <2>5, <2>6
<1>9. CallsInv'
  BY <1>2, <1>3, CallsStay
<1>. QED  BY <1>1, <1>5, <1>6, <1>7, <1>8, <1>9 DEF ConnInv
(* A connection begins. *)
LEMMA InitInv ==
  Init => ConnInv
<1> SUFFICES ASSUME Init PROVE ConnInv
  OBVIOUS
<1>1. script \in Seq(Requests) /\ Len(script) \in Nat
  BY DEF Init
<1>2. EndOf(0) = 0 /\ Len(Stream) \in Nat
  BY <1>1, StreamOf
<1>3. StreamInv
  BY <1>1, <1>2 DEF Init, StreamInv
<1>4. LoopInv
  BY <1>1, NewSessionTyped DEF Init, LoopInv, Waiting
<1>5. PlaceInv
  <2>1. Into = 0
    BY <1>2 DEF Init, Into, Pos
  <2>. QED  BY <2>1 DEF Init, PlaceInv
<1>6. AnswerInv /\ ClientInv /\ CallsInv
  BY DEF Init, AnswerInv, ClientInv, CallsInv
<1>. QED  BY <1>3, <1>4, <1>5, <1>6 DEF ConnInv

(* What a step of the server may use: it leaves the client's part alone. *)
LEMMA Kept ==
  ASSUME ConnInv
  PROVE  /\ StreamInv /\ LoopInv /\ PlaceInv /\ AnswerInv /\ ClientInv /\ CallsInv
         /\ script \in Seq(Requests)
         /\ requestCount \in 0 .. Len(script) /\ requestCount \in Nat
         /\ session \in Sessions
  BY DEF ConnInv, LoopInv, StreamInv

(* The connection's part stays as it is too. *)
LEMMA ConnStays ==
  ASSUME StreamInv, UNCHANGED <<client, conn>>
  PROVE  StreamInv' /\ Pos' = Pos /\ sent - Len(wire') \in 0 .. sent
<1>0. PICK lb \in Nat, p \in Nat, lw \in Nat :
        lb = Len(buffer) /\ p = bufferpos /\ lw = Len(wire)
  BY Lengths
<1>1. lb = Len(buffer) /\ p = bufferpos /\ p <= lb /\ lw = Len(wire) /\ lb + lw <= sent
  BY <1>0 DEF StreamInv
<1>2. bufferpos' = bufferpos + 0 /\ 0 <= Len(buffer) - bufferpos
      /\ UNCHANGED <<client, buffer, wire>>
  BY <1>1 DEF conn
<1>3. StreamInv' /\ Pos' = Pos + 0
  BY <1>2, TakeKeeps
<1>4. Pos \in Int /\ sent \in Nat
  BY <1>1 DEF Pos, StreamInv
<1>. QED  BY <1>1, <1>2, <1>3, <1>4

(* The next request is begun: there is one, for something arrived. *)
LEMMA AwaitRequestInv ==
  ASSUME ConnInv, AwaitRequest
  PROVE  ConnInv'
<1>1. /\ StreamInv /\ LoopInv /\ PlaceInv /\ AnswerInv /\ ClientInv /\ CallsInv
      /\ script \in Seq(Requests)
      /\ requestCount \in 0 .. Len(script) /\ requestCount \in Nat
  BY Kept
<1>2. /\ pc = "wait" /\ pc' = "line" /\ ConnRead
      /\ UNCHANGED <<client, bufferpos, requestCount, continued, calls, responses>>
      /\ UNCHANGED <<script, pipelines>>
  BY DEF AwaitRequest, client
<1>3. StreamInv' /\ Pos' = Pos /\ Len(wire) > 0 /\ sent - Len(wire') \in 0 .. sent
  BY <1>1, <1>2, ReadKeeps
<1>4. Into = 0 /\ Into' = 0
  <2>1. Into = 0 /\ Pos' = Pos + 0
    BY <1>1, <1>2, <1>3, PosTyped DEF PlaceInv
  <2>2. Into' = Into + 0
    BY <1>1, <1>2, <2>1, IntoMoves
  <2>. QED  BY <2>1, <2>2
<1>5. R \in DOMAIN script /\ R' = R
  <2>1. EndOf(requestCount) < Len(Stream)
    <3>1. PICK f \in Nat, lw \in Nat, k \in Nat :
            f = EndOf(requestCount) /\ lw = Len(wire) /\ k = Len(buffer) - bufferpos
      BY <1>1, PosTyped
    <3>2. Pos = f + Into /\ Pos + k + lw = sent /\ sent <= Len(Stream)
          /\ Len(Stream) \in Nat /\ sent \in Nat /\ Pos \in Nat
      BY <1>1, <3>1, PosTyped
    <3>. QED  BY <1>3, <1>4, <3>1, <3>2
  <2>2. requestCount # Len(script)
    BY <1>1, <2>1, StreamOf
  <2>. QED  BY <1>1, <1>2, <2>2 DEF R
<1>6. PICK last \in {"no", "yes"} :
        /\ session' = NewSession(last)
        /\ last = "no" => R < keepalivemaxconn
  <2>1. ~(requestCount + 1 >= keepalivemaxconn) => R < keepalivemaxconn
    BY <1>1 DEF R
  <2>. QED  BY <2>1 DEF AwaitRequest
<1>7. /\ session' \in Sessions /\ session'.of = 0 /\ session'.said = <<>>
      /\ session'.body = <<>> /\ session'.serverDeniesKeepalive = last
  BY <1>6, NewSessionTyped
<1>8. LoopInv'
  <2>1. session'.of <= Len(script)
    BY <1>1, <1>7
  <2>. QED  BY <1>1, <1>2, <1>5, <1>6, <1>7, <2>1 DEF LoopInv, Waiting
<1>9. PlaceInv'
  <2>1. Q' = Q /\ Len(Q.before) \in Nat
    BY <1>1, <1>2, <1>5, Present DEF Q
  <2>2. Into' \in 0 .. Len(Q'.before) /\ bufferpos' = Into'
    <3>1. bufferpos = 0 /\ UNCHANGED bufferpos
      BY <1>1, <1>2 DEF PlaceInv
    <3>. QED  BY <1>4, <2>1, <3>1
  <2>3. pc' = "line" /\ session'.of = 0 /\ session'.said = <<>> /\ session'.body = <<>>
    BY <1>2, <1>7
  <2>. QED  BY ONLY <2>2, <2>3 DEF PlaceInv
<1>10. AnswerInv' /\ ClientInv' /\ CallsInv'
  BY <1>1, <1>2, <1>3, AnswersStay, ClientStays, CallsStay
<1>. QED  BY <1>3, <1>8, <1>9, <1>10 DEF ConnInv

(* No request comes.  What is in the socket of a client that waits for its  *)
(* responses fits in the buffer, which is empty: it would have been read.   *)
LEMMA AwaitTimesOutInv ==
  ASSUME ConnInv, AwaitTimesOut
  PROVE  ConnInv'
<1>1. /\ StreamInv /\ LoopInv /\ PlaceInv /\ AnswerInv /\ ClientInv /\ CallsInv
      /\ script \in Seq(Requests)
      /\ requestCount \in 0 .. Len(script) /\ requestCount \in Nat
  BY Kept
<1>2. /\ pc = "wait" /\ pc' = "closed" /\ CantRead
      /\ UNCHANGED <<client, conn, requestCount, session, continued, calls, responses>>
      /\ UNCHANGED <<script, pipelines, sent, wire, buffer, bufferpos>>
  BY DEF AwaitTimesOut, client, conn
<1>3. StreamInv' /\ Stream' = Stream
  BY <1>1, <1>2, ConnStays, SameScript
<1>4. LoopInv'
  BY <1>1, <1>2 DEF LoopInv, Waiting
<1>5. PlaceInv'
  BY <1>2 DEF PlaceInv
<1>6. AnswerInv'
  BY <1>1, <1>2, AnswersStay
<1>7. ClientInv'
  <2>1. ASSUME pipelines = "no", wire # <<>> PROVE FALSE
    <3>1. Space <= 0 /\ Len(buffer) \in Nat /\ BUFFER_SIZE \in Nat \ {0, 1}
      BY <1>1, <1>2, <2>1, PosTyped DEF CantRead
    <3>2. Len(buffer) >= 1 /\ bufferpos = 0 /\ Into = 0
      BY <1>1, <1>2, <3>1 DEF Space, PlaceInv
    <3>3. /\ Pos = EndOf(requestCount) /\ EndOf(requestCount) \in Nat
          /\ Pos + Len(buffer) + Len(wire) = sent /\ Len(wire) \in Nat
          /\ sent <= Len(Stream) /\ Len(Stream) \in Nat
      BY <1>1, <3>2, PosTyped
    <3>4. Pos + 1 \in 1 .. Len(Stream) /\ Pos + 1 > EndOf(requestCount)
      BY <3>1, <3>2, <3>3
    <3>5. Stream[Pos + 1].of \in Nat /\ Stream[Pos + 1].of > requestCount
      BY <1>1, <3>4, StreamOf
    <3>6. Pos + 1 \in 1 .. sent - Len(wire)
      BY <3>1, <3>2, <3>3
    <3>7. Stream[Pos + 1].of <= requestCount
      BY <1>1, <1>2, <2>1, <3>6 DEF ClientInv, Waiting
    <3>. QED  BY <1>1, <3>5, <3>7
  <2>. QED  BY <1>1, <1>2, <1>3, <2>1 DEF ClientInv, Waiting
<1>8. CallsInv'
  BY <1>1, <1>2, CallsStay
<1>. QED  BY <1>3, <1>4, <1>5, <1>6, <1>7, <1>8 DEF ConnInv

(* More of a header is read. *)
LEMMA ReadMoreInv ==
  ASSUME ConnInv, ReadMore
  PROVE  ConnInv'
<1>1. /\ StreamInv /\ LoopInv /\ PlaceInv /\ AnswerInv /\ ClientInv /\ CallsInv
      /\ script \in Seq(Requests)
      /\ requestCount \in 0 .. Len(script) /\ requestCount \in Nat
  BY Kept
<1>2. /\ pc \in {"line", "headers"} /\ ConnRead
      /\ UNCHANGED <<client, bufferpos, pc, requestCount, session, continued, calls,
                     responses>>
      /\ UNCHANGED <<script, pipelines>>
  BY DEF ReadMore, InHeader, client
<1>3. StreamInv' /\ Pos' = Pos /\ sent - Len(wire') \in 0 .. sent
  BY <1>1, <1>2, ReadKeeps
<1>4. Into' = Into
  <2>1. Pos' = Pos + 0 /\ Into \in Int
    BY <1>1, <1>3, PosTyped
  <2>2. Into' = Into + 0
    BY <1>1, <1>2, <2>1, IntoMoves
  <2>. QED  BY <2>1, <2>2
<1>5. LoopInv'
  BY <1>1, <1>2 DEF LoopInv, Waiting, R
<1>6. PlaceInv'
  BY <1>1, <1>2, <1>4 DEF PlaceInv, HeardSome, Q, R
<1>7. AnswerInv' /\ ClientInv' /\ CallsInv'
  BY <1>1, <1>2, <1>3, AnswersStay, ClientStays, CallsStay
<1>. QED  BY <1>3, <1>5, <1>6, <1>7 DEF ConnInv

RefusedWith(status, w) ==
  /\ session' = [session EXCEPT !.status = status, !.clientIs = w]
  /\ pc' = "respond"

(* A request ends with an error that it deserves. *)
LEMMA RefusedInv ==
  ASSUME ConnInv, StreamInv', CallsInv',
         pc \in {"line", "headers", "dispatch", "body", "refill", "reading", "call"},
         NEW status \in {400, 404, 405, 408, 411, 500, 505}, NEW w \in Clients,
         RefusedWith(status, w),
         UNCHANGED <<client, wire, requestCount, continued, responses>>,
         status = 500 => session.of = R /\ IsCall(Q),
         status \notin {408, 500} => ~IsRpc(Q),
         status = 408 /\ w = "waiting" /\ pipelines = "no" =>
           Q.version = "none" \/ ~HeaderFits(Q)
  PROVE  ConnInv'
<1>1. /\ StreamInv /\ LoopInv /\ PlaceInv /\ AnswerInv /\ ClientInv
      /\ script \in Seq(Requests)
      /\ requestCount \in 0 .. Len(script) /\ requestCount \in Nat
      /\ session \in Sessions
  BY Kept
<1>2. /\ UNCHANGED <<script, pipelines>>
      /\ session' = [session EXCEPT !.status = status, !.clientIs = w]
      /\ pc' = "respond"
  BY DEF client, RefusedWith
<1>3. /\ session' \in Sessions
      /\ session'.of = session.of /\ session'.status = status
      /\ session'.serverDeniesKeepalive = session.serverDeniesKeepalive
      /\ session'.clientIs = w
  <2>1. PICK s : s = session
    OBVIOUS
  <2>2. PICK z : z = [s EXCEPT !.status = status, !.clientIs = w]
    OBVIOUS
  <2>3. s \in Sessions
    BY <1>1, <2>1
  <2>4. /\ z.of = s.of /\ z.status = status /\ z.clientIs = w /\ z.fault = s.fault
        /\ z.serverDeniesKeepalive = s.serverDeniesKeepalive
        /\ z.version = s.version /\ z.said = s.said /\ z.body = s.body
        /\ z.continueRequired = s.continueRequired
    BY ONLY <2>2, <2>3 DEF Sessions
  <2>5. z = [of |-> z.of, version |-> z.version, said |-> z.said, status |-> z.status,
             serverDeniesKeepalive |-> z.serverDeniesKeepalive,
             continueRequired |-> z.continueRequired, body |-> z.body,
             fault |-> z.fault, clientIs |-> z.clientIs]
    <3>1. PICK o, v0, a0, st, d0, c0, b0, u0, w0 :
            s = [of |-> o, version |-> v0, said |-> a0, status |-> st,
                 serverDeniesKeepalive |-> d0, continueRequired |-> c0, body |-> b0,
                 fault |-> u0, clientIs |-> w0]
      BY ONLY <2>3, SessionFields
    <3>. QED  BY ONLY <2>2, <3>1
  <2>6. /\ z.of \in Nat /\ z.version \in {"none", "1.0", "1.1", "2.0"}
        /\ z.said \in Seq(Headers) /\ z.body \in Seq(Pieces)
        /\ z.serverDeniesKeepalive \in {"no", "yes"}
        /\ z.continueRequired \in {"no", "yes"} /\ z.fault \in {"no", "yes"}
        /\ z.clientIs \in Clients
    BY ONLY <2>3, <2>4, w \in Clients DEF Sessions
  <2>7. z.status \in {0, 200, 400, 404, 405, 408, 411, 500, 505}
    BY ONLY <2>4, status \in {400, 404, 405, 408, 411, 500, 505}
  <2>8. z \in Sessions
    BY ONLY <2>5, <2>6, <2>7 DEF Sessions
  <2>. QED  BY <1>2, <2>1, <2>2, <2>4, <2>8
<1>4. LoopInv'
  BY <1>1, <1>2, <1>3 DEF LoopInv, Waiting, R
<1>5. PlaceInv'
  <2>1. Q' = Q /\ R' = R /\ session.of \in {0, R}
    BY <1>1, <1>2 DEF LoopInv, Waiting, Q, R
  <2>2. Judged(session'.of, session'.status, session'.clientIs, R)
    <3>1. status # 0 /\ status # 200
      OBVIOUS
    <3>2. Q = script[R]
      BY DEF Q
    <3>. QED  BY <1>3, <2>1, <3>1, <3>2 DEF Judged
  <2>3. Judged(session.of, session.status, session.clientIs, R)'
    BY <1>2, <2>1, <2>2 DEF Judged
  <2>4. session'.status # 200 /\ session'.status >= 400
    BY <1>3
  <2>. QED  BY <1>2, <2>3, <2>4 DEF PlaceInv
<1>6. AnswerInv'
  BY <1>1, <1>2, AnswersStay
<1>7. ClientInv'
  <2>1. sent - Len(wire') \in 0 .. sent
    <3>1. PICK lb \in Nat, lw \in Nat : lb = Len(buffer) /\ lw = Len(wire)
      BY <1>1, Lengths
    <3>2. lb + lw <= sent /\ sent \in Nat
      BY <1>1, <3>1 DEF StreamInv
    <3>. QED  BY <3>1, <3>2
  <2>. QED  BY <1>1, <1>2, <2>1, ClientStays
<1>. QED  BY <1>4, <1>5, <1>6, <1>7 DEF ConnInv

(* It is so with an error of Fails, when nothing was given to the registry. *)
LEMMA FailsInv ==
  ASSUME ConnInv, StreamInv',
         pc \in {"line", "headers", "dispatch", "body", "refill", "reading", "call"},
         NEW status \in {400, 404, 405, 408, 411, 500, 505}, Fails(status),
         UNCHANGED <<client, wire, requestCount, continued, calls, responses>>,
         status = 500 => session.of = R /\ IsCall(Q),
         status \notin {408, 500} => ~IsRpc(Q),
         status = 408 /\ ClientIs = "waiting" /\ pipelines = "no" =>
           Q.version = "none" \/ ~HeaderFits(Q)
  PROVE  ConnInv'
<1>1. PICK w \in Clients : w = ClientIs
  BY DEF ClientIs, Clients
<1>2. /\ session' = [session EXCEPT !.status = status, !.clientIs = w]
      /\ pc' = "respond"
  BY <1>1 DEF Fails
<1>3. CallsInv'
  <2>1. CallsInv /\ requestCount \in Nat /\ UNCHANGED script
    BY Kept DEF client
  <2>. QED  BY <1>2, <2>1, CallsStay
<1>4. RefusedWith(status, w)
  BY <1>2 DEF RefusedWith
<1>5. /\ status = 500 => session.of = R /\ IsCall(Q)
      /\ status \notin {408, 500} => ~IsRpc(Q)
      /\ status = 408 /\ w = "waiting" /\ pipelines = "no" =>
           Q.version = "none" \/ ~HeaderFits(Q)
  BY <1>1
<1>6. /\ pc \in {"line", "headers", "dispatch", "body", "refill", "reading", "call"}
      /\ UNCHANGED <<client, wire, requestCount, continued, responses>>
  OBVIOUS
<1>. QED
  BY ONLY ConnInv, StreamInv', <1>3, <1>4, <1>5, <1>6, w \in Clients,
          status \in {400, 404, 405, 408, 411, 500, 505}, RefusedInv

(* A client that waits for its responses was told to go on by all of them,  *)
(* if the server is in a request: so it may send what it has not sent of    *)
(* this one, but a body that is to be asked for.                            *)
LEMMA MayGoOn ==
  ASSUME ConnInv, ~Waiting, pc # "finish", sent < Len(Stream),
         Stream[sent + 1].of = R,
         Stream[sent + 1].what = "body" /\ Contains(Q.headers, "expect") => R \in continued
  PROVE  MaySend
<1>1. /\ LoopInv /\ AnswerInv /\ requestCount \in Nat
  BY Kept
<1>2. PICK piece : piece = Stream[sent + 1]
  OBVIOUS
<1>3. ASSUME piece.of > 1 PROVE ToldToGoOn(piece.of - 1)
  <2>1. piece.of - 1 = requestCount /\ requestCount \in DOMAIN responses
    <3>1. requestCount >= 1 /\ R - 1 = requestCount
      BY <1>1, <1>2, <1>3 DEF R
    <3>2. Len(responses) = requestCount /\ responses \in Seq(Answers)
      BY <1>1 DEF LoopInv
    <3>. QED  BY <1>1, <1>2, <3>1, <3>2
  <2>2. responses[requestCount] \in Answers /\ Len(responses) = requestCount
    BY <1>1, <2>1 DEF LoopInv
  <2>3. responses[requestCount].keepalive # "no"
    BY <1>1, <2>1 DEF AnswerInv, Waiting
  <2>. QED  BY <1>1, <2>1, <2>2, <2>3 DEF ToldToGoOn, Answered, Answers
<1>4. piece.of = R /\ script[piece.of] = Q
  BY <1>2 DEF Q
<1>. QED  BY <1>2, <1>3, <1>4 DEF MaySend

(* The length of a header, whichever request it is of. *)
LEMMA HeaderLength ==
  ASSUME Q \in Requests
  PROVE  Len(Header(1, Q)) = HeadLen
<1>0. PICK q \in Requests : q = Q
  OBVIOUS
<1>1. PICK t : t = Header(1, q)
  OBVIOUS
<1>2. /\ q.version = "none" => Len(t) = Len(q.before) + 1
      /\ q.version # "none" => Len(t) = Len(q.before) + Len(q.headers) + 2
  <2>1. 1 \in Nat
    OBVIOUS
  <2>. QED  BY ONLY <1>1, <2>1, q \in Requests, HeaderParts
<1>. QED  BY <1>0, <1>1, <1>2 DEF HeadLen

(* A header is not read in time: the client may send more of it, or has     *)
(* just done so, or it has no version, or there is no space for all of it.  *)
LEMMA HeaderTimesOutInv ==
  ASSUME ConnInv, HeaderTimesOut
  PROVE  ConnInv'
<1>1. /\ StreamInv /\ LoopInv /\ PlaceInv /\ AnswerInv /\ ClientInv /\ CallsInv
      /\ script \in Seq(Requests)
      /\ requestCount \in 0 .. Len(script) /\ requestCount \in Nat
  BY Kept
<1>2. /\ pc \in {"line", "headers"} /\ ~HasLine /\ Fails(408)
      /\ UNCHANGED <<client, conn, requestCount, continued, calls, responses>>
      /\ UNCHANGED wire
  BY DEF HeaderTimesOut, InHeader, conn
<1>3. StreamInv'
  BY <1>1, <1>2, ConnStays, PosTyped
<1>4. R \in DOMAIN script
  BY <1>1, <1>2 DEF LoopInv, Waiting
<1>5. ASSUME ClientIs = "waiting", HeaderFits(Q), Q.version # "none" PROVE FALSE
  <2>1. PICK f \in Nat, m \in Nat, l \in Nat, e \in Nat, b \in Nat :
          /\ f = EndOf(requestCount) /\ m = Len(Q.before) /\ l = Len(Q.headers)
          /\ e = HeadLen /\ b = Q.body
    BY <1>1, <1>4, Present
  <2>2. /\ e = m + l + 2
        /\ f + e + b <= Len(Stream)
        /\ \A k \in 1 .. m : Stream[f + k] = Piece(R, Q.before[k])
        /\ Stream[f + m + 1] = Piece(R, "line")
        /\ \A k \in 1 .. l : Stream[f + m + 1 + k] = Piece(R, Q.headers[k])
        /\ Stream[f + e] = Piece(R, "blank")
    <3>1. /\ f + e + b <= Len(Stream)
          /\ \A k \in 1 .. m : Stream[f + k] = Piece(R, Q.before[k])
          /\ Stream[f + m + 1] = Piece(R, "line")
          /\ Q.version # "none" =>
               /\ \A k \in 1 .. l : Stream[f + m + 1 + k] = Piece(R, Q.headers[k])
               /\ Stream[f + e] = Piece(R, "blank")
      BY <1>1, <1>4, <2>1, Present
    <3>2. e = m + l + 2
      BY <1>5, <2>1 DEF HeadLen
    <3>. QED  BY <1>5, <3>1, <3>2
  <2>3. \A k \in 1 .. l : Q.headers[k] \in Headers
    <3>1. Q.headers \in Seq(Headers)
      BY <1>1, <1>4, Present, RequestParts
    <3>. QED  BY <2>1, <3>1
  <2>4. ASSUME NEW k \in 1 .. e
        PROVE  Stream[f + k].of = R /\ Stream[f + k].what # "body"
    <3>1. CASE k <= m
      <4>1. k \in 1 .. m
        BY <3>1
      <4>2. Stream[f + k] = Piece(R, Q.before[k])
        BY ONLY <2>2, <4>1
      <4>3. Q.before[k] \in {"blank", "part"}
        <5>1. Q.before \in Seq({"blank", "part"})
          BY <1>1, <1>4, Present, RequestParts
        <5>. QED  BY <2>1, <4>1, <5>1
      <4>. QED  BY ONLY <4>2, <4>3 DEF Piece
    <3>2. CASE k = m + 1
      <4>1. f + (m + 1) = f + m + 1 /\ Stream[f + m + 1] = Piece(R, "line")
        BY <2>2
      <4>2. Stream[f + k] = Piece(R, "line")
        BY ONLY <3>2, <4>1
      <4>. QED  BY ONLY <4>2 DEF Piece
    <3>3. CASE k = e
      BY <2>2, <3>3 DEF Piece
    <3>4. CASE k > m + 1 /\ k < e
      <4>1. k - (m + 1) \in 1 .. l /\ f + m + 1 + (k - (m + 1)) = f + k
        BY <2>2, <3>4
      <4>2. PICK j \in 1 .. l : f + m + 1 + j = f + k
        BY <4>1
      <4>3. Stream[f + k] = Piece(R, Q.headers[j])
        BY <2>2, <4>2
      <4>. QED  BY <2>3, <4>3 DEF Piece, Headers
    <3>. QED  BY <3>1, <3>2, <3>3, <3>4
  <2>5. PICK i \in Nat : i = Into /\ i < e
    <3>1. pc = "line" => Into \in 0 .. m
      BY <1>1, <2>1 DEF PlaceInv
    <3>2. pc = "headers" => /\ Into = m + 1 + Len(session.said) /\ Len(session.said) <= l
                            /\ Len(session.said) \in Nat
      BY <1>1, <2>1 DEF PlaceInv, HeardSome, LoopInv, Sessions
    <3>3. Into \in Int /\ e = m + l + 2
      BY <1>1, <2>2, PosTyped
    <3>4. Into \in Nat /\ Into < e
      <4>1. CASE pc = "line"
        BY ONLY m \in Nat, l \in Nat, <3>1, <3>3, <4>1
      <4>2. CASE pc = "headers"
        <5>1. PICK j \in Nat : j = Len(session.said) /\ j <= l /\ Into = m + 1 + j
          BY ONLY <3>2, <4>2
        <5>2. m + 1 + j \in Nat /\ m + 1 + j < m + l + 2
          <6>1. j <= l
            BY <5>1
          <6>. QED  BY ONLY m \in Nat, l \in Nat, j \in Nat, <6>1
        <5>3. Into = m + 1 + j /\ e = m + l + 2
          BY <3>3, <5>1
        <5>. QED  BY <5>2, <5>3, Zenon
      <4>. QED  BY <1>2, <4>1, <4>2
    <3>. QED  BY <3>4
  <2>6. PICK u \in Nat, w \in Nat :
          u = Len(buffer) - bufferpos /\ w = Len(wire) /\ sent = f + i + u + w
    <3>1. /\ Pos = f + i /\ Pos + (Len(buffer) - bufferpos) + Len(wire) = sent
          /\ bufferpos \in Nat /\ Len(buffer) \in Nat /\ bufferpos <= Len(buffer)
          /\ Len(wire) \in Nat /\ sent \in Nat
      BY <1>1, <2>1, <2>5, PosTyped
    <3>2. PICK d, w : d = Len(buffer) - bufferpos /\ w = Len(wire)
      OBVIOUS
    <3>3. d \in Nat /\ w \in Nat /\ sent = f + i + d + w
      BY <3>1, <3>2
    <3>. QED  BY <3>2, <3>3
  <2>7. i + u < e
    <3>1. SUFFICES ASSUME i + u >= e PROVE FALSE
      BY <2>6
    <3>2. bufferpos \in Nat /\ Len(buffer) \in Nat
      BY <1>1, PosTyped
    <3>3. PICK d \in 1 .. Len(buffer) - bufferpos : i + d = e
      <4>1. e - i \in 1 .. u /\ i + (e - i) = e
        BY ONLY <2>5, <3>1, i \in Nat, u \in Nat, e \in Nat
      <4>. QED  BY <2>6, <4>1
    <3>4. bufferpos + d \in 1 .. Len(buffer) /\ buffer[bufferpos + d] = Stream[Pos + d]
      BY <1>1, BufferHolds
    <3>5. Pos = f + i
      BY <1>1, <2>1, <2>5, PosTyped
    <3>6. Pos + d = f + e
      BY ONLY <3>3, <3>5, f \in Nat, i \in Nat, e \in Nat, d \in Int
    <3>7. buffer[bufferpos + d] = Piece(R, "blank")
      BY <2>2, <3>4, <3>6
    <3>8. bufferpos + d \in bufferpos + 1 .. Len(buffer)
      BY ONLY <3>2, <3>4, d \in 1 .. Len(buffer) - bufferpos
    <3>9. buffer[bufferpos + d].what = "blank"
      BY ONLY <3>7 DEF Piece
    <3>. QED  BY <1>2, <3>8, <3>9 DEF HasLine
  <2>8. w = 0
    <3>1. SUFFICES ASSUME w # 0 PROVE FALSE
      OBVIOUS
    <3>2. wire # <<>>
      BY <2>6, <3>1
    <3>3. Space <= 0
      <4>1. ~(Space > 0)
        BY <1>5, <3>2 DEF ClientIs
      <4>2. Space \in Int
        BY <1>1, PosTyped DEF Space
      <4>. QED  BY <4>1, <4>2
    <3>4. bufferpos = i
      BY <1>1, <1>2, <2>5 DEF PlaceInv
    <3>5. PICK lb \in Nat : lb = Len(buffer) /\ lb = i + u
      <4>1. PICK lb \in Nat : lb = Len(buffer)
        BY <1>1, Lengths
      <4>. QED  BY <2>6, <3>4, <4>1
    <3>6. BUFFER_SIZE - lb - 1 <= 0
      BY <3>3, <3>5 DEF Space
    <3>7. e < BUFFER_SIZE
      <4>1. Q \in Requests
        BY <1>1, <1>4, Present
      <4>. QED  BY <1>5, <2>1, <4>1, HeaderLength DEF HeaderFits
    <3>. QED  BY ONLY <2>7, <3>5, <3>6, <3>7, BUFFER_SIZE \in Nat \ {0, 1}, e \in Nat,
                     lb \in Nat
  <2>9. PICK k \in 1 .. e : sent + 1 = f + k
    <3>1. i + u + 1 \in 1 .. e /\ sent + 1 = f + (i + u + 1)
      BY ONLY <2>6, <2>7, <2>8, f \in Nat, i \in Nat, u \in Nat, e \in Nat
    <3>. QED  BY <3>1
  <2>10. Stream[sent + 1].of = R /\ Stream[sent + 1].what # "body"
    BY <2>4, <2>9
  <2>11. sent < Len(Stream)
    <3>1. Len(Stream) \in Nat
      BY <1>1, StreamOf
    <3>2. PICK n \in Nat, x \in Nat : n = Len(Stream) /\ x = sent
      BY <2>6, <3>1
    <3>3. x + 1 = f + k /\ f + e <= n
      BY <2>2, <2>9, <3>2
    <3>4. x < n
      BY ONLY f \in Nat, e \in Nat, k \in 1 .. e, n \in Nat, x \in Nat, <3>3
    <3>. QED  BY <3>2, <3>4
  <2>12. ~Waiting /\ pc # "finish"
    BY <1>2 DEF Waiting
  <2>13. ~MaySend
    BY <1>5 DEF ClientIs
  <2>. QED  BY <2>10, <2>11, <2>12, <2>13, MayGoOn
<1>. QED  BY <1>2, <1>3, <1>5, FailsInv
(* Within a request: what the server knows of it is all that has changed.   *)
LEMMA WithinRequest ==
  ASSUME ConnInv, StreamInv', PlaceInv', CallsInv', sent - Len(wire') \in 0 .. sent,
         pc \notin {"wait", "finish", "closed"},
         pc' \in {"line", "headers", "dispatch", "body", "refill", "reading", "call",
                  "respond"},
         session' \in Sessions, session'.of \in {0, R},
         session'.serverDeniesKeepalive = session.serverDeniesKeepalive,
         continued' \subseteq DOMAIN script,
         UNCHANGED <<client, requestCount, responses>>
  PROVE  ConnInv'
<1>1. /\ LoopInv /\ AnswerInv /\ ClientInv
      /\ requestCount \in 0 .. Len(script) /\ requestCount \in Nat
  BY Kept
<1>2. UNCHANGED <<script, pipelines>>
  BY DEF client
<1>3. LoopInv'
  <2>1. R' = R /\ R \in 1 .. Len(script)
    BY <1>1, <1>2 DEF LoopInv, Waiting, R
  <2>2. session'.of <= Len(script)
    <3>1. 0 <= Len(script)
      BY <1>1
    <3>. QED  BY <2>1, <3>1
  <2>. QED  BY <1>1, <1>2, <2>1, <2>2 DEF LoopInv, Waiting
<1>4. AnswerInv' /\ ClientInv'
  BY <1>1, <1>2, AnswersStay, ClientStays
<1>. QED  BY <1>3, <1>4 DEF ConnInv

(* A line of the header is the next piece of the request. *)
LEMMA LineIs ==
  ASSUME ConnInv, InHeader, HasLine
  PROVE  /\ R \in DOMAIN script
         /\ Line = Stream[EndOf(requestCount) + Into + 1]
         /\ bufferpos' = bufferpos + 1 /\ UNCHANGED <<client, buffer, wire, requestCount>> =>
              /\ StreamInv' /\ sent - Len(wire') \in 0 .. sent
              /\ Into' = Into + 1 /\ Pos' \in Nat
              /\ Q' = Q /\ R' = R
<1>1. /\ StreamInv /\ LoopInv
      /\ script \in Seq(Requests)
      /\ requestCount \in 0 .. Len(script) /\ requestCount \in Nat
  BY Kept
<1>2. R \in DOMAIN script
  BY <1>1 DEF InHeader, LoopInv, Waiting
<1>3. bufferpos \in Nat /\ Len(buffer) \in Nat /\ bufferpos < Len(buffer)
      /\ Pos \in Nat /\ Pos = EndOf(requestCount) + Into
      /\ EndOf(requestCount) \in Nat /\ Into \in Int
      /\ Pos + (Len(buffer) - bufferpos) + Len(wire) = sent
      /\ Len(wire) \in Nat /\ sent \in Nat
  BY <1>1, PosTyped DEF HasLine
<1>4. Line = Stream[EndOf(requestCount) + Into + 1]
  <2>1. 1 \in 1 .. Len(buffer) - bufferpos
    BY <1>3
  <2>2. buffer[bufferpos + 1] = Stream[Pos + 1]
    BY <1>1, <2>1, BufferHolds
  <2>. QED  BY <1>3, <2>2 DEF Line
<1>5. ASSUME bufferpos' = bufferpos + 1, UNCHANGED <<client, buffer, wire, requestCount>>
      PROVE  /\ StreamInv' /\ sent - Len(wire') \in 0 .. sent
             /\ Into' = Into + 1 /\ Pos' \in Nat
             /\ Q' = Q /\ R' = R
  <2>1. script' = script /\ wire' = wire
    BY <1>5 DEF client
  <2>2. 1 \in Nat /\ 1 <= Len(buffer) - bufferpos
    BY <1>3
  <2>3. StreamInv' /\ Pos' = Pos + 1
    BY <1>1, <1>5, <2>2, TakeKeeps
  <2>4. Into' = Into + 1
    BY <1>1, <1>5, <2>1, <2>3, IntoMoves
  <2>5. sent - Len(wire) \in 0 .. sent
    <3>1. PICK d : d = Len(buffer) - bufferpos
      OBVIOUS
    <3>2. d \in Nat /\ Pos + d + Len(wire) = sent
      BY <1>3, <3>1
    <3>3. PICK a \in Nat, b \in Nat, c \in Nat : a = Pos /\ b = Len(wire) /\ c = sent
      BY <1>3
    <3>4. a + d + b = c
      BY <3>2, <3>3
    <3>5. c - b \in 0 .. c
      BY ONLY a \in Nat, b \in Nat, c \in Nat, <3>2, <3>4
    <3>. QED  BY <3>3, <3>5
  <2>6. Q' = Q /\ R' = R
    BY <1>5, <2>1 DEF Q, R
  <2>7. Pos' \in Nat
    <3>1. PICK n \in Nat : n = Pos
      BY <1>3
    <3>2. Pos' = n + 1
      BY <2>3, <3>1
    <3>. QED  BY ONLY n \in Nat, <3>2
  <2>8. sent - Len(wire') \in 0 .. sent
    BY <2>1, <2>5, Zenon
  <2>. QED  BY <2>3, <2>4, <2>6, <2>7, <2>8, Zenon
<1>. QED  BY <1>2, <1>4, <1>5

(* The request line is read, or a blank line before it. *)
LEMMA ReadRequestLineInv ==
  ASSUME ConnInv, ReadRequestLine
  PROVE  ConnInv'
<1>1. /\ StreamInv /\ LoopInv /\ PlaceInv /\ CallsInv
      /\ script \in Seq(Requests)
      /\ requestCount \in 0 .. Len(script) /\ requestCount \in Nat
      /\ session \in Sessions
  BY Kept
<1>2. /\ pc = "line" /\ InHeader /\ HasLine
      /\ bufferpos' = bufferpos + 1
      /\ UNCHANGED <<client, buffer, wire, requestCount, continued, calls, responses>>
      /\ UNCHANGED <<script, pipelines>>
  BY DEF ReadRequestLine, InHeader, client
<1>3. /\ R \in DOMAIN script
      /\ Line = Stream[EndOf(requestCount) + Into + 1]
      /\ StreamInv' /\ sent - Len(wire') \in 0 .. sent
      /\ Into' = Into + 1 /\ Pos' \in Nat
      /\ Q' = Q /\ R' = R
  BY <1>2, LineIs
<1>4. PICK f \in Nat, m \in Nat, i \in Nat :
        /\ f = EndOf(requestCount) /\ m = Len(Q.before) /\ i = Into /\ i <= m
  <2>1. Into \in 0 .. Len(Q.before) /\ Len(Q.before) \in Nat /\ EndOf(requestCount) \in Nat
    BY <1>1, <1>2, <1>3, Present DEF PlaceInv
  <2>. QED  BY <2>1
<1>5. Q \in Requests /\ R \in Nat
  BY <1>1, <1>3, Present
<1>6. /\ session.of = 0 /\ session.said = <<>> /\ session.body = <<>>
      /\ bufferpos = Into
      /\ continued \subseteq DOMAIN script
  BY <1>1, <1>2 DEF PlaceInv, LoopInv
<1>7. CASE i < m
  <2>1. Line = Piece(R, Q.before[i + 1])
    <3>1. i + 1 \in 1 .. m /\ f + (i + 1) = f + i + 1
      BY <1>7
    <3>2. \A k \in 1 .. m : Stream[f + k] = Piece(R, Q.before[k])
      BY <1>1, <1>3, <1>4, Present
    <3>. QED  BY <1>3, <1>4, <3>1, <3>2
  <2>2. Line.what \in {"blank", "part"}
    <3>1. Q.before \in Seq({"blank", "part"}) /\ i + 1 \in 1 .. m
      BY <1>4, <1>5, <1>7, RequestParts
    <3>2. Q.before[i + 1] \in {"blank", "part"}
      BY <1>4, <3>1
    <3>. QED  BY <2>1, <3>2 DEF Piece
  <2>3. UNCHANGED <<session, pc>>
    BY <2>2 DEF ReadRequestLine
  <2>4. PlaceInv'
    <3>1. Into' \in 0 .. Len(Q'.before) /\ bufferpos' = Into'
      BY <1>2, <1>3, <1>4, <1>6, <1>7
    <3>2. pc' = "line" /\ session'.of = 0 /\ session'.said = <<>> /\ session'.body = <<>>
      BY <1>2, <1>6, <2>3
    <3>. QED  BY ONLY <3>1, <3>2 DEF PlaceInv
  <2>5. CallsInv'
    BY <1>1, <1>2, <2>3, CallsStay
  <2>. QED  BY <1>1, <1>2, <1>3, <1>6, <2>3, <2>4, <2>5, WithinRequest
<1>8. CASE i = m
  <2>1. Line = Piece(R, "line")
    <3>1. Stream[f + m + 1] = Piece(R, "line")
      BY <1>1, <1>3, <1>4, Present
    <3>. QED  BY <1>3, <1>4, <1>8, <3>1
  <2>2. Line.what = "line" /\ Line.of = R /\ script[Line.of] = Q
    BY <2>1 DEF Piece, Q
  <2>3. CASE Q.version = "bad"
    <3>1. Fails(400)
      BY <2>2, <2>3 DEF ReadRequestLine
    <3>2. ~IsRpc(Q)
      BY <2>3 DEF IsRpc, IsCall
    <3>. QED  BY <1>2, <1>3, <3>1, <3>2, FailsInv
  <2>4. CASE Q.version # "bad"
    <3>1. PICK v \in IF Q.version = "none" THEN {"1.0", "1.1", "2.0"} ELSE {Q.version} :
            session' = [session EXCEPT !.of = R, !.version = v]
      BY <2>2, <2>4 DEF ReadRequestLine
    <3>2. pc' = IF Q.version = "none" THEN "dispatch" ELSE "headers"
      BY <2>2, <2>4 DEF ReadRequestLine
    <3>3. /\ v \in {"1.0", "1.1", "2.0"}
          /\ Q.version # "none" => v = Q.version
      <4>1. Q.version \in {"none", "1.0", "1.1", "2.0", "bad"}
        BY <1>5, RequestParts
      <4>. QED  BY <2>4, <4>1
    <3>4. /\ session' \in Sessions
          /\ session'.of = R /\ session'.version = v
          /\ session'.said = <<>> /\ session'.body = <<>>
          /\ session'.serverDeniesKeepalive = session.serverDeniesKeepalive
      <4>1. PICK s, z : s = session /\ z = session'
        OBVIOUS
      <4>2. z = [s EXCEPT !.of = R, !.version = v] /\ s \in Sessions
        BY <1>1, <3>1, <4>1
      <4>3. /\ z = [of |-> z.of, version |-> z.version, said |-> z.said,
                   status |-> z.status,
                   serverDeniesKeepalive |-> z.serverDeniesKeepalive,
                   continueRequired |-> z.continueRequired, body |-> z.body,
                   fault |-> z.fault, clientIs |-> z.clientIs]
            /\ z.of = R /\ z.version = v /\ z.said = s.said /\ z.body = s.body
            /\ z.status = s.status /\ z.continueRequired = s.continueRequired
            /\ z.serverDeniesKeepalive = s.serverDeniesKeepalive
            /\ z.fault = s.fault /\ z.clientIs = s.clientIs
        <5>1. PICK o, v0, a0, st, d0, c0, b0, u0, w0 :
                s = [of |-> o, version |-> v0, said |-> a0, status |-> st,
                     serverDeniesKeepalive |-> d0, continueRequired |-> c0, body |-> b0,
                     fault |-> u0, clientIs |-> w0]
          BY ONLY <4>2, SessionFields
        <5>. QED  BY ONLY <4>2, <5>1
      <4>4. z \in Sessions
        BY ONLY <1>5, <3>3, <4>2, <4>3 DEF Sessions
      <4>. QED  BY <1>6, <4>1, <4>3, <4>4
    <3>5. Into' = m + 1
      BY <1>3, <1>4, <1>8
    <3>6. PlaceInv'
      <4>1. CASE Q.version = "none"
        <5>1. HeadLen' = m + 1 /\ pc' = "dispatch"
          BY <1>3, <1>4, <3>2, <4>1 DEF HeadLen
        <5>. QED  BY <1>3, <3>4, <3>5, <4>1, <5>1 DEF PlaceInv
      <4>2. CASE Q.version # "none"
        <5>1. pc' = "headers" /\ Len(session'.said) = 0
          BY <3>2, <3>4, <4>2
        <5>2. Len(Q.headers) \in Nat
          BY <1>5, RequestParts
        <5>3. HeardSome'
          BY <1>3, <5>1, <5>2 DEF HeardSome
        <5>4. bufferpos' = Into'
          BY <1>2, <1>3, <1>6
        <5>5. /\ session'.of = R' /\ session'.body = <<>>
              /\ Q'.version \notin {"none", "bad"} /\ session'.version = Q'.version
              /\ Into' = Len(Q'.before) + 1 + Len(session'.said)
          BY <1>3, <1>4, <2>4, <3>3, <3>4, <3>5, <4>2, <5>1
        <5>. QED  BY ONLY <5>1, <5>3, <5>4, <5>5 DEF PlaceInv
      <4>. QED  BY <4>1, <4>2
    <3>7. pc' \in {"dispatch", "headers"}
      BY <3>2
    <3>8. CallsInv'
      BY <1>1, <1>2, <3>7, CallsStay
    <3>. QED  BY <1>1, <1>2, <1>3, <1>6, <3>4, <3>6, <3>7, <3>8, WithinRequest
  <2>. QED  BY <2>3, <2>4
<1>. QED  BY <1>4, <1>7, <1>8
(* A header line is read, or the blank line after the last. *)
LEMMA ReadHeaderInv ==
  ASSUME ConnInv, ReadHeader
  PROVE  ConnInv'
<1>1. /\ StreamInv /\ LoopInv /\ PlaceInv /\ CallsInv
      /\ script \in Seq(Requests)
      /\ requestCount \in 0 .. Len(script) /\ requestCount \in Nat
      /\ session \in Sessions
  BY Kept
<1>2. /\ pc = "headers" /\ InHeader /\ HasLine
      /\ bufferpos' = bufferpos + 1
      /\ UNCHANGED <<client, buffer, wire, requestCount, continued, calls, responses>>
      /\ UNCHANGED <<script, pipelines>>
  BY DEF ReadHeader, InHeader, client
<1>3. /\ R \in DOMAIN script
      /\ Line = Stream[EndOf(requestCount) + Into + 1]
      /\ StreamInv' /\ sent - Len(wire') \in 0 .. sent
      /\ Into' = Into + 1 /\ Pos' \in Nat
      /\ Q' = Q /\ R' = R
  BY <1>2, LineIs
<1>4. /\ session.of = R /\ session.body = <<>>
      /\ Q.version \notin {"none", "bad"} /\ session.version = Q.version
      /\ HeardSome
      /\ Into = Len(Q.before) + 1 + Len(session.said)
      /\ continued \subseteq DOMAIN script
  BY <1>1, <1>2 DEF PlaceInv, LoopInv
<1>5. Q \in Requests /\ R \in Nat
  BY <1>1, <1>3, Present
<1>6. PICK f \in Nat, m \in Nat, l \in Nat :
        f = EndOf(requestCount) /\ m = Len(Q.before) /\ l = Len(Q.headers)
  BY <1>1, <1>3, Present
<1>7. session.said \in Seq(Headers) /\ Q.headers \in Seq(Headers)
  BY <1>1, <1>5, RequestParts DEF Sessions
<1>8. PICK j \in Nat : j = Len(session.said) /\ j <= l /\ Into = m + 1 + j
  <2>1. Len(session.said) \in Nat /\ Len(session.said) <= Len(Q.headers)
    BY <1>4, <1>7 DEF HeardSome
  <2>. QED  BY <1>4, <1>6, <2>1
<1>9. /\ HeadLen = m + l + 2 /\ HeadLen' = m + l + 2
      /\ Stream[f + HeadLen] = Piece(R, "blank")
      /\ \A k \in 1 .. l : Stream[f + m + 1 + k] = Piece(R, Q.headers[k])
  <2>1. HeadLen = m + l + 2 /\ HeadLen' = m + l + 2
    BY <1>3, <1>4, <1>6 DEF HeadLen
  <2>2. Q.version # "none" =>
          /\ \A k \in 1 .. l : Stream[f + m + 1 + k] = Piece(R, Q.headers[k])
          /\ Stream[f + HeadLen] = Piece(R, "blank")
    BY <1>1, <1>3, <1>6, Present
  <2>. QED  BY <1>4, <2>1, <2>2
<1>10. CASE j = l
  <2>1. Line = Piece(R, "blank")
    <3>1. f + (m + 1 + j) + 1 = f + (m + l + 2)
      BY <1>10
    <3>. QED  BY <1>3, <1>6, <1>8, <1>9, <3>1
  <2>2. Line.what = "blank"
    BY <2>1 DEF Piece
  <2>3. pc' = "dispatch" /\ UNCHANGED session
    BY <2>2 DEF ReadHeader, Headers
  <2>4. Into' = HeadLen'
    BY <1>3, <1>8, <1>9, <1>10
  <2>5. HeardSome'
    BY <1>3, <1>4, <2>3 DEF HeardSome
  <2>6. PlaceInv'
    BY <1>3, <1>4, <1>6, <1>8, <1>10, <2>3, <2>4, <2>5 DEF PlaceInv
  <2>7. CallsInv'
    BY <1>1, <1>2, <2>3, CallsStay
  <2>. QED  BY <1>1, <1>2, <1>3, <1>4, <2>3, <2>6, <2>7, WithinRequest
<1>11. CASE j < l
  <2>0. j + 1 \in 1 .. l
    BY <1>11
  <2>1. PICK h \in Headers : h = Q.headers[j + 1]
    BY <1>6, <1>7, <2>0
  <2>2. Line.what = h
    <3>1. f + (m + 1 + j) + 1 = f + m + 1 + (j + 1)
      OBVIOUS
    <3>2. Line = Piece(R, h)
      BY <1>3, <1>6, <1>8, <1>9, <2>0, <2>1, <3>1
    <3>. QED  BY <3>2 DEF Piece
  <2>3. CASE h = "bad"
    <3>1. Fails(400)
      BY <2>2, <2>3 DEF ReadHeader, Headers
    <3>2. ~IsRpc(Q)
      BY <1>6, <2>0, <2>1, <2>3 DEF IsRpc, IsCall, Contains
    <3>. QED  BY <1>2, <1>3, <3>1, <3>2, FailsInv
  <2>4. CASE h # "bad"
    <3>1. /\ session' = [session EXCEPT
               !.said = Append(@, h),
               !.continueRequired = IF h = "expect" THEN "yes" ELSE @]
          /\ UNCHANGED pc
      BY <2>1, <2>2, <2>4 DEF ReadHeader, Headers
    <3>2. PICK s, z, c, a :
            /\ s = session /\ z = session'
            /\ c = IF h = "expect" THEN "yes" ELSE s.continueRequired
            /\ a = Append(s.said, h)
      OBVIOUS
    <3>3. z = [s EXCEPT !.said = a, !.continueRequired = c] /\ s \in Sessions
      BY <1>1, <3>1, <3>2
    <3>4. /\ z = [of |-> z.of, version |-> z.version, said |-> z.said,
                  status |-> z.status,
                  serverDeniesKeepalive |-> z.serverDeniesKeepalive,
                  continueRequired |-> z.continueRequired, body |-> z.body,
                  fault |-> z.fault, clientIs |-> z.clientIs]
          /\ z.of = s.of /\ z.version = s.version /\ z.said = a /\ z.body = s.body
          /\ z.status = s.status /\ z.continueRequired = c
          /\ z.serverDeniesKeepalive = s.serverDeniesKeepalive
          /\ z.fault = s.fault /\ z.clientIs = s.clientIs
      <4>1. PICK o, v0, a0, st, d0, c0, b0, u0, w0 :
              s = [of |-> o, version |-> v0, said |-> a0, status |-> st,
                   serverDeniesKeepalive |-> d0, continueRequired |-> c0, body |-> b0,
                   fault |-> u0, clientIs |-> w0]
        BY ONLY <3>3, SessionFields
      <4>. QED  BY ONLY <3>3, <4>1
    <3>5. /\ c \in {"no", "yes"}
          /\ h = "expect" => c = "yes"
          /\ s.continueRequired = "yes" => c = "yes"
      BY <3>2, <3>3 DEF Sessions
    <3>6. /\ a \in Seq(Headers) /\ Len(a) = j + 1
          /\ \A i \in 1 .. j : a[i] = session.said[i]
          /\ a[j + 1] = h
      <4>1. PICK t : t = session.said
        OBVIOUS
      <4>2. t \in Seq(Headers) /\ j = Len(t) /\ a = Append(t, h) /\ h \in Headers
        BY <1>7, <1>8, <3>2, <4>1
      <4>3. /\ a \in Seq(Headers) /\ Len(a) = j + 1
            /\ \A i \in 1 .. j : a[i] = t[i]
            /\ a[j + 1] = h
        BY ONLY <4>2
      <4>. QED  BY <4>1, <4>3
    <3>7. z \in Sessions
      BY ONLY <3>3, <3>4, <3>5, <3>6 DEF Sessions
    <3>8. HeardSome'
      <4>1. ASSUME NEW i \in 1 .. j + 1
            PROVE  /\ a[i] = Q.headers[i] /\ a[i] # "bad"
                   /\ a[i] = "expect" => c = "yes"
        <5>1. CASE i = j + 1
          BY <2>1, <2>4, <3>5, <3>6, <5>1
        <5>2. CASE i # j + 1
          <6>1. i \in 1 .. j
            BY <5>2
          <6>2. /\ session.said[i] = Q.headers[i] /\ session.said[i] # "bad"
                /\ session.said[i] = "expect" => session.continueRequired = "yes"
            BY <1>4, <1>8, <6>1 DEF HeardSome
          <6>. QED  BY <3>2, <3>5, <3>6, <6>1, <6>2
        <5>. QED  BY <5>1, <5>2
      <4>2. j + 1 <= Len(Q.headers)
        BY <1>6, <1>11
      <4>3. session'.said = a /\ session'.continueRequired = c
        BY <3>2, <3>4
      <4>. QED  BY <1>3, <3>6, <4>1, <4>2, <4>3 DEF HeardSome
    <3>9. Into' = m + 1 + Len(session'.said)
      <4>1. Len(session'.said) = j + 1
        BY <3>2, <3>4, <3>6
      <4>2. (m + 1 + j) + 1 = m + 1 + (j + 1)
        OBVIOUS
      <4>. QED  BY <1>3, <1>8, <4>1, <4>2
    <3>10. PlaceInv'
      <4>1. bufferpos' = Into' /\ Into' = Len(Q'.before) + 1 + Len(session'.said)
        <5>1. bufferpos = Into
          BY <1>1, <1>2 DEF PlaceInv
        <5>. QED  BY <1>2, <1>3, <1>6, <3>9, <5>1
      <4>2. /\ session'.of = R' /\ session'.body = <<>>
            /\ Q'.version \notin {"none", "bad"} /\ session'.version = Q'.version
        BY <1>3, <1>4, <3>2, <3>4
      <4>3. pc' = "headers"
        BY <1>2, <3>1
      <4>. QED  BY ONLY <3>8, <4>1, <4>2, <4>3 DEF PlaceInv
    <3>11. CallsInv'
      BY <1>1, <1>2, <3>1, CallsStay
    <3>12. /\ session' \in Sessions /\ session'.of = R
           /\ session'.serverDeniesKeepalive = session.serverDeniesKeepalive
      BY <1>4, <3>2, <3>4, <3>7
    <3>. QED  BY <1>1, <1>2, <1>3, <1>4, <3>1, <3>10, <3>11, <3>12, WithinRequest
  <2>. QED  BY <2>3, <2>4
<1>. QED  BY <1>8, <1>10, <1>11

(* The tests that a request stands when only its size is still in question. *)
RefusalBySize ==
  /\ session.version # "2.0" /\ Q.target = "rpc" /\ Q.method = "post"
  /\ Said("content-type") /\ Said("content-length")
  /\ Q.body >= 1

(* A request is refused exactly if it is no RPC, and with a 500 if it is one *)
(* in all but its size.                                                     *)
LEMMA RefusalIsRight ==
  ASSUME ConnInv, pc = "dispatch"
  PROVE  /\ Refusal \in {0, 400, 404, 405, 411, 500, 505}
         /\ Refusal = 0 <=> IsRpc(Q)
         /\ Refusal = 500 => IsCall(Q)
<1>1. /\ StreamInv /\ LoopInv /\ PlaceInv
      /\ script \in Seq(Requests)
      /\ requestCount \in 0 .. Len(script) /\ requestCount \in Nat
      /\ session \in Sessions
  BY Kept
<1>2. /\ session.of = R
      /\ \/ Q.version = "none" /\ session.said = <<>>
         \/ /\ Q.version \notin {"none", "bad"} /\ session.version = Q.version
            /\ HeardSome
            /\ Len(session.said) = Len(Q.headers)
  BY <1>1 DEF PlaceInv
<1>3. Request = Q
  BY <1>2 DEF Request, Q
<1>4. Q \in Requests
  <2>1. R \in DOMAIN script
    BY <1>1 DEF LoopInv, Waiting
  <2>. QED  BY <1>1, <2>1, Present
<1>5. PICK x : x = Q.body
  OBVIOUS
<1>6. /\ x \in Nat /\ XML_SIZE_LIMIT \in Nat
      /\ Q.version \in {"none", "1.0", "1.1", "2.0", "bad"}
      /\ Q.method \in {"post", "get"} 
      /\ Q.target \in {"rpc", "elsewhere", "invalid"}
      /\ Q.headers \in Seq(Headers)
  BY <1>4, <1>5, RequestParts
<1>7. Refusal \in {0, 400, 404, 405, 411, 500, 505}
  BY DEF Refusal
<1>8. /\ Refusal = 0 <=> x <= XML_SIZE_LIMIT /\ RefusalBySize
      /\ Refusal = 500 => RefusalBySize
  <2>1. /\ ~(x < 1) <=> x >= 1
        /\ ~(x > XML_SIZE_LIMIT) <=> x <= XML_SIZE_LIMIT
    BY <1>6
  <2>2. Q.target \notin {"invalid", "elsewhere"} <=> Q.target = "rpc"
    BY <1>6
  <2>3. Refusal = IF session.version = "2.0" THEN 505
                  ELSE IF Q.target = "invalid" THEN 400
                  ELSE IF Q.target = "elsewhere" THEN 404
                  ELSE IF Q.method # "post" THEN 405
                  ELSE IF ~Said("content-type") THEN 400
                  ELSE IF ~Said("content-length") THEN 411
                  ELSE IF x < 1 THEN 400
                  ELSE IF x > XML_SIZE_LIMIT THEN 500
                  ELSE 0
    <3>1. PICK q : q = Q
      OBVIOUS
    <3>2. Request = q /\ q.body = x
      BY <1>3, <1>5, <3>1
    <3>. QED  BY <3>1, <3>2 DEF Refusal
  <2>. QED  BY ONLY <1>5, <2>1, <2>2, <2>3 DEF RefusalBySize
<1>9. CASE Q.version = "none"
  <2>1. ~IsRpc(Q)
    BY <1>9 DEF IsRpc, IsCall
  <2>2. ~Said("content-type")
    BY <1>2, <1>9 DEF Said, Contains
  <2>. QED  BY <1>7, <1>8, <2>1, <2>2 DEF RefusalBySize
<1>10. CASE Q.version # "none"
  <2>1. /\ Q.version # "bad" /\ session.version = Q.version
        /\ HeardSome /\ Len(session.said) = Len(Q.headers)
    BY <1>2, <1>10
  <2>2. session.said = Q.headers
    <3>1. PICK a, b : a = session.said /\ b = Q.headers
      OBVIOUS
    <3>2. a \in Seq(Headers) /\ b \in Seq(Headers) /\ Len(a) = Len(b)
      BY <1>1, <1>6, <2>1, <3>1 DEF Sessions
    <3>3. \A i \in 1 .. Len(a) : a[i] = b[i]
      BY <2>1, <3>1 DEF HeardSome
    <3>4. a = b
      BY ONLY <3>2, <3>3, SeqEqual
    <3>. QED  BY <3>1, <3>4
  <2>3. ~Contains(Q.headers, "bad")
    BY <2>1, <2>2 DEF HeardSome, Contains
  <2>4. \A h : Contains(Q.headers, h) <=> h \in ToSet(Q.headers)
    <3>1. PICK b : b = Q.headers
      OBVIOUS
    <3>2. DOMAIN b = 1 .. Len(b)
      BY <1>6, <3>1
    <3>3. \A h : Contains(b, h) <=> h \in ToSet(b)
      BY <3>2 DEF Contains, ToSet
    <3>. QED  BY <3>1, <3>3
  <2>5. /\ Said("content-type") <=> "content-type" \in ToSet(Q.headers)
        /\ Said("content-length") <=> "content-length" \in ToSet(Q.headers)
    BY <2>2, <2>4 DEF Said
  <2>6. session.version # "2.0" <=> Q.version \in {"1.0", "1.1"}
    BY <1>6, <1>10, <2>1
  <2>7. {"content-type", "content-length"} \subseteq ToSet(Q.headers)
          <=> Said("content-type") /\ Said("content-length")
    BY <2>5
  <2>8. RefusalBySize <=> IsCall(Q)
    BY ONLY <2>3, <2>6, <2>7 DEF RefusalBySize, IsCall
  <2>9. IsRpc(Q) <=> IsCall(Q) /\ x <= XML_SIZE_LIMIT
    BY <1>5 DEF IsRpc
  <2>. QED  BY <1>7, <1>8, <2>8, <2>9
<1>. QED  BY <1>9, <1>10
(* A request is refused, or its body is wanted. *)
LEMMA DispatchInv ==
  ASSUME ConnInv, Dispatch
  PROVE  ConnInv'
<1>1. /\ StreamInv /\ LoopInv /\ PlaceInv /\ CallsInv
      /\ script \in Seq(Requests)
      /\ requestCount \in 0 .. Len(script) /\ requestCount \in Nat
      /\ session \in Sessions
  BY Kept
<1>2. /\ pc = "dispatch"
      /\ UNCHANGED <<client, conn, requestCount, continued, calls, responses>>
      /\ UNCHANGED <<script, pipelines, wire>>
  BY DEF Dispatch, client, conn
<1>3. StreamInv' /\ Pos' = Pos /\ sent - Len(wire') \in 0 .. sent /\ Pos' \in Nat
  BY <1>1, <1>2, ConnStays, PosTyped
<1>4. /\ Refusal \in {0, 400, 404, 405, 411, 500, 505} /\ (Refusal = 0 <=> IsRpc(Q))
      /\ Refusal = 500 => IsCall(Q)
      /\ session.of = R
  BY <1>1, <1>2, RefusalIsRight DEF PlaceInv
<1>5. CASE Refusal # 0
  <2>1. PICK status \in {400, 404, 405, 411, 500, 505} : status = Refusal
    BY <1>4, <1>5
  <2>2. Fails(status)
    BY <1>5, <2>1 DEF Dispatch
  <2>3. /\ status \in {400, 404, 405, 408, 411, 500, 505} /\ status # 408 /\ ~IsRpc(Q)
        /\ status = 500 => session.of = R /\ IsCall(Q)
    BY <1>4, <1>5, <2>1
  <2>. QED  BY <1>2, <1>3, <2>2, <2>3, FailsInv
<1>7. CASE Refusal = 0 /\ Fails(500)
  <2>1. session.of = R /\ IsCall(Q)
    BY <1>4, <1>7 DEF IsRpc
  <2>. QED  BY <1>2, <1>3, <1>7, <2>1, FailsInv
<1>6. CASE Refusal = 0 /\ pc' = "body" /\ UNCHANGED session
  <2>1. pc' = "body" /\ UNCHANGED session
    BY <1>6
  <2>2. R \in DOMAIN script /\ continued \subseteq DOMAIN script
    BY <1>1, <1>2 DEF LoopInv, Waiting
  <2>3. /\ session.of = R /\ session.body = <<>> /\ Into = HeadLen
        /\ HeardSome /\ Len(session.said) = Len(Q.headers)
    BY <1>1, <1>2, <1>4, <1>6 DEF PlaceInv, IsRpc, IsCall
  <2>4. Into' = Into
    <3>1. Pos' = Pos + 0 /\ Into \in Int
      BY <1>1, <1>3, PosTyped
    <3>2. Into' = Into + 0
      BY <1>1, <1>2, <3>1, IntoMoves
    <3>. QED  BY <3>1, <3>2
  <2>5. Q' = Q /\ R' = R
    BY <1>2 DEF Q, R
  <2>6. InBody'
    <3>1. Q.body \in Nat /\ HeadLen \in Nat
      BY <1>1, <2>2, Present
    <3>2. HeadLen' = HeadLen
      BY <2>5 DEF HeadLen
    <3>3. Len(session.body) = 0 /\ HeadLen + 0 = HeadLen
      BY <2>3, <3>1
    <3>4. IsRpc(Q)
      BY <1>4, <1>6
    <3>. QED  BY <2>1, <2>3, <2>4, <2>5, <3>1, <3>2, <3>3, <3>4 DEF InBody
  <2>7. WillAsk'
    BY <1>2, <2>1, <2>3, <2>5 DEF WillAsk, HeardSome, Contains
  <2>8. PlaceInv'
    BY <2>1, <2>6, <2>7 DEF PlaceInv
  <2>9. CallsInv'
    BY <1>1, <1>2, <2>1, CallsStay
  <2>. QED  BY <1>1, <1>2, <1>3, <2>1, <2>2, <2>3, <2>8, <2>9, WithinRequest
<1>. QED  BY <1>5, <1>6, <1>7 DEF Dispatch

(* The body is taken from the buffer, as far as it is there and no further. *)
LEMMA TakeBodyInv ==
  ASSUME ConnInv, TakeBody
  PROVE  ConnInv'
<1>1. /\ StreamInv /\ LoopInv /\ PlaceInv /\ CallsInv
      /\ script \in Seq(Requests)
      /\ requestCount \in 0 .. Len(script) /\ requestCount \in Nat
      /\ session \in Sessions
  BY Kept
<1>2. /\ pc = "body"
      /\ UNCHANGED <<client, buffer, wire, requestCount, continued, calls, responses>>
      /\ UNCHANGED <<script, pipelines>>
  BY DEF TakeBody, client
<1>3. /\ InBody /\ WillAsk /\ session.of = R
  BY <1>1, <1>2 DEF PlaceInv, InBody
<1>4. R \in DOMAIN script /\ continued \subseteq DOMAIN script
  BY <1>1, <1>2 DEF LoopInv, Waiting
<1>5. PICK f \in Nat, e \in Nat, b \in Nat, lb \in Nat, p \in Nat, lw \in Nat :
        /\ f = EndOf(requestCount) /\ e = HeadLen /\ b = Q.body
        /\ lb = Len(buffer) /\ p = bufferpos /\ lw = Len(wire) /\ p <= lb
  <2>1. EndOf(requestCount) \in Nat /\ HeadLen \in Nat /\ Q.body \in Nat
    BY <1>1, <1>4, Present
  <2>2. Len(buffer) \in Nat /\ bufferpos \in Nat /\ Len(wire) \in Nat
        /\ bufferpos <= Len(buffer)
    BY <1>1, PosTyped
  <2>. QED  BY <2>1, <2>2
<1>6. PICK y : y = session.body
  OBVIOUS
<1>7. PICK d \in Nat :
        /\ y \in Seq(Pieces) /\ d = Len(y) /\ d <= b
        /\ Into = e + d
        /\ \A k \in 1 .. d : y[k] = Piece(R, "body")
  <2>1. y \in Seq(Pieces)
    BY <1>1, <1>6 DEF Sessions
  <2>. QED  BY <1>3, <1>5, <1>6, <2>1 DEF InBody
<1>8. PICK n : n = Min({b - d, lb - p})
  OBVIOUS
<1>9. /\ n \in Nat /\ n <= b - d /\ n <= lb - p
      /\ n = b - d \/ n = lb - p
  <2>1. b - d \in Int /\ lb - p \in Int /\ b - d >= 0 /\ lb - p >= 0
    BY <1>5, <1>7
  <2>2. n \in {b - d, lb - p} /\ n <= b - d /\ n <= lb - p
    BY <1>8, <2>1, LeastOfTwo
  <2>. QED  BY <2>1, <2>2
<1>10. PICK z : z = y \o SubSeq(buffer, p + 1, p + n)
  OBVIOUS
<1>11. PICK flt \in {"no", "yes"} :
         /\ session' = [session EXCEPT !.body = z, !.fault = flt]
         /\ bufferpos' = bufferpos + n
         /\ pc' = IF Len(session'.body) < b THEN "refill"
                  ELSE IF session'.fault = "no" THEN "call" ELSE "body"
  <2>1. Request = Q
    BY <1>3 DEF Request, Q
  <2>2. \E fl \in {"no", "yes"} : session' = [session EXCEPT !.body = z, !.fault = fl]
    BY <1>5, <1>6, <1>7, <1>8, <1>10, <2>1 DEF TakeBody
  <2>3. /\ bufferpos' = bufferpos + n
        /\ pc' = IF Len(session'.body) < b THEN "refill"
                 ELSE IF session'.fault = "no" THEN "call" ELSE "body"
    BY <1>5, <1>6, <1>7, <1>8, <2>1 DEF TakeBody
  <2>. QED  BY <2>2, <2>3
<1>12. /\ z \in Seq(Pieces) /\ Len(z) = d + n
       /\ \A k \in 1 .. d + n : z[k] = Piece(R, "body")
  <2>1. PICK c : c = SubSeq(buffer, p + 1, p + n)
    OBVIOUS
  <2>2. /\ c \in Seq(Pieces) /\ Len(c) = n
        /\ \A k \in 1 .. n : c[k] = buffer[p + k]
    <3>1. PICK u \in Nat, v \in Nat : u = p + 1 /\ v = p + n
      BY <1>5, <1>9
    <3>2. c = SubSeq(buffer, u, v) /\ 1 <= u /\ u <= v + 1 /\ v <= Len(buffer)
      BY <1>5, <1>9, <2>1, <3>1
    <3>3. /\ c \in Seq(Pieces) /\ Len(c) = v - u + 1
          /\ \A k \in 1 .. v - u + 1 : c[k] = buffer[u + k - 1]
      <4>1. buffer \in Seq(Pieces)
        BY <1>1 DEF StreamInv
      <4>. QED  BY ONLY u \in Nat, v \in Nat, <3>2, <4>1, Cut
    <3>4. v - u + 1 = n /\ \A k \in 1 .. n : u + k - 1 = p + k
      BY <1>9, <3>1
    <3>. QED  BY <3>3, <3>4
  <2>3. ASSUME NEW k \in 1 .. n PROVE c[k] = Piece(R, "body")
    <3>1. k \in 1 .. Len(buffer) - bufferpos
      BY <1>5, <1>9
    <3>2. buffer[p + k] = Stream[Pos + k]
      BY <1>1, <1>5, <3>1, BufferHolds
    <3>3. d + k \in 1 .. b /\ Pos + k = f + e + (d + k)
      <4>1. Pos = f + Into
        BY <1>1, <1>5, PosTyped
      <4>. QED  BY <1>7, <1>9, <4>1
    <3>4. Stream[f + e + (d + k)] = Piece(R, "body")
      BY <1>1, <1>4, <1>5, <3>3, Present
    <3>. QED  BY <2>2, <3>2, <3>3, <3>4
  <2>4. /\ z \in Seq(Pieces) /\ Len(z) = Len(y) + Len(c)
        /\ \A k \in 1 .. Len(y) : z[k] = y[k]
        /\ \A k \in 1 .. Len(c) : z[Len(y) + k] = c[k]
    <3>1. y \in Seq(Pieces) /\ c \in Seq(Pieces) /\ z = y \o c
      BY <1>7, <1>10, <2>1, <2>2
    <3>. QED  BY ONLY <3>1, Joined
  <2>5. ASSUME NEW k \in 1 .. d + n PROVE z[k] = Piece(R, "body")
    <3>1. CASE k \in 1 .. d
      BY <1>7, <2>4, <3>1
    <3>2. CASE k > d
      <4>1. k - d \in 1 .. n /\ d + (k - d) = k
        BY <1>9, <3>2
      <4>2. PICK i \in 1 .. n : d + i = k
        BY <4>1
      <4>3. z[d + i] = c[i]
        BY <1>7, <2>2, <2>4
      <4>. QED  BY <2>3, <4>2, <4>3
    <3>3. k \in 1 .. d \/ k > d
      OBVIOUS
    <3>. QED  BY <3>1, <3>2, <3>3
  <2>. QED  BY <1>7, <2>2, <2>4, <2>5
<1>13. PICK s, t : s = session /\ t = session'
  OBVIOUS
<1>14. t = [s EXCEPT !.body = z, !.fault = flt] /\ s \in Sessions
  BY <1>1, <1>11, <1>13
<1>15. /\ t = [of |-> t.of, version |-> t.version, said |-> t.said,
               status |-> t.status,
               serverDeniesKeepalive |-> t.serverDeniesKeepalive,
               continueRequired |-> t.continueRequired, body |-> t.body,
               fault |-> t.fault, clientIs |-> t.clientIs]
       /\ t.of = s.of /\ t.version = s.version /\ t.said = s.said /\ t.body = z
       /\ t.status = s.status /\ t.continueRequired = s.continueRequired
       /\ t.serverDeniesKeepalive = s.serverDeniesKeepalive
       /\ t.fault = flt /\ t.clientIs = s.clientIs
  <2>1. PICK o, v0, a0, st, d0, c0, b0, u0, w0 :
          s = [of |-> o, version |-> v0, said |-> a0, status |-> st,
               serverDeniesKeepalive |-> d0, continueRequired |-> c0, body |-> b0,
               fault |-> u0, clientIs |-> w0]
    BY ONLY <1>14, SessionFields
  <2>. QED  BY ONLY <1>14, <2>1
<1>16. t \in Sessions
  BY ONLY <1>12, <1>14, <1>15, flt \in {"no", "yes"} DEF Sessions
<1>17. StreamInv' /\ Pos' = Pos + n
  <2>1. n \in Nat /\ n <= Len(buffer) - bufferpos
    BY <1>5, <1>9
  <2>. QED  BY <1>1, <1>2, <1>11, <2>1, TakeKeeps
<1>18. Into' = Into + n
  BY <1>1, <1>2, <1>9, <1>17, IntoMoves
<1>19. Q' = Q /\ R' = R /\ HeadLen' = HeadLen
  BY <1>2 DEF Q, R, HeadLen
<1>20. sent - Len(wire') \in 0 .. sent
  <2>1. lb + lw <= sent /\ sent \in Nat
    BY <1>1, <1>5 DEF StreamInv
  <2>. QED  BY <1>2, <1>5, <2>1
<1>21. InBody'
  <2>1. Into' = e + (d + n) /\ d + n <= b
    <3>1. (e + d) + n = e + (d + n)
      BY <1>9
    <3>. QED  BY <1>7, <1>9, <1>18, <3>1
  <2>. QED  BY <1>3, <1>5, <1>12, <1>13, <1>15, <1>19, <2>1 DEF InBody
<1>22. WillAsk'
  BY <1>2, <1>3, <1>13, <1>15, <1>19 DEF WillAsk
<1>23. PlaceInv'
  <2>1. CASE d + n = b
    <3>1. pc' \in {"call", "body"} /\ Len(session'.body) = b
      BY <1>11, <1>12, <1>13, <1>15, <2>1
    <3>. QED  BY <1>5, <1>19, <1>21, <1>22, <3>1 DEF PlaceInv
  <2>2. CASE d + n # b
    <3>1. pc' = "refill" /\ Len(session'.body) < b
      BY <1>9, <1>11, <1>12, <1>13, <1>15, <2>2
    <3>2. p + n = lb
      BY <1>9, <2>2
    <3>3. bufferpos' = Len(buffer')
      BY <1>2, <1>5, <1>11, <3>2
    <3>. QED  BY <1>5, <1>19, <1>21, <1>22, <3>1, <3>3 DEF PlaceInv
  <2>. QED  BY <2>1, <2>2
<1>24. pc' \in {"call", "refill", "body"}
  BY <1>11
<1>25. CallsInv'
  BY <1>1, <1>2, <1>24, CallsStay
<1>26. /\ session' \in Sessions /\ session'.of = R
       /\ session'.serverDeniesKeepalive = session.serverDeniesKeepalive
  BY <1>3, <1>13, <1>15, <1>16
<1>. QED  BY <1>1, <1>2, <1>4, <1>17, <1>20, <1>23, <1>24, <1>25, <1>26, WithinRequest

(* There was no memory for the body. *)
LEMMA BodyFailsInv ==
  ASSUME ConnInv, BodyFails
  PROVE  ConnInv'
<1>1. /\ pc = "body" /\ Fails(500)
      /\ UNCHANGED <<client, conn, requestCount, continued, calls, responses>>
      /\ UNCHANGED wire
  BY DEF BodyFails, conn
<1>2. StreamInv /\ PlaceInv
  BY Kept
<1>3. StreamInv'
  BY <1>1, <1>2, ConnStays
<1>4. session.of = R /\ IsCall(Q)
  BY <1>1, <1>2 DEF PlaceInv, InBody, IsRpc
<1>. QED  BY <1>1, <1>3, <1>4, FailsInv

(* The body is asked for, if it waits for that, and room is made for it.    *)
LEMMA RefilledInv ==
  ASSUME ConnInv, RefillBuffer, pc' = "reading"
  PROVE  ConnInv'
<1>1. /\ StreamInv /\ LoopInv /\ PlaceInv /\ CallsInv
      /\ script \in Seq(Requests)
      /\ requestCount \in 0 .. Len(script) /\ requestCount \in Nat
      /\ session \in Sessions
  BY Kept
<1>2. /\ pc = "refill" /\ pc' = "reading" /\ ConnReadInit
      /\ continued' = IF session.continueRequired = "yes"
                      THEN continued \cup {session.of} ELSE continued
      /\ session' = [session EXCEPT !.continueRequired = "no"]
      /\ UNCHANGED <<client, wire, requestCount, calls, responses>>
      /\ UNCHANGED <<script, pipelines>>
  BY DEF RefillBuffer, client
<1>3. /\ InBody /\ WillAsk /\ session.of = R
      /\ Len(session.body) < Q.body /\ bufferpos = Len(buffer)
  BY <1>1, <1>2 DEF PlaceInv, InBody
<1>4. R \in DOMAIN script /\ continued \subseteq DOMAIN script
  BY <1>1, <1>2 DEF LoopInv, Waiting
<1>5. StreamInv' /\ Pos' = Pos /\ Len(buffer') = 0
  <2>1. StreamInv' /\ Pos' = Pos /\ Len(buffer') = Len(buffer) - bufferpos
    BY <1>1, <1>2, SlideKeeps
  <2>2. Len(buffer) \in Nat
    BY <1>1, PosTyped
  <2>. QED  BY <1>3, <2>1, <2>2
<1>6. Into' = Into
  <2>1. Pos' = Pos + 0 /\ Into \in Int
    BY <1>1, <1>5, PosTyped
  <2>2. Into' = Into + 0
    BY <1>1, <1>2, <2>1, IntoMoves
  <2>. QED  BY <2>1, <2>2
<1>7. Q' = Q /\ R' = R /\ HeadLen' = HeadLen
  BY <1>2 DEF Q, R, HeadLen
<1>8. PICK s, t : s = session /\ t = session'
  OBVIOUS
<1>9. t = [s EXCEPT !.continueRequired = "no"] /\ s \in Sessions
  BY <1>1, <1>2, <1>8
<1>10. /\ t = [of |-> t.of, version |-> t.version, said |-> t.said,
               status |-> t.status,
               serverDeniesKeepalive |-> t.serverDeniesKeepalive,
               continueRequired |-> t.continueRequired, body |-> t.body,
               fault |-> t.fault, clientIs |-> t.clientIs]
       /\ t.of = s.of /\ t.version = s.version /\ t.said = s.said /\ t.body = s.body
       /\ t.status = s.status /\ t.continueRequired = "no"
       /\ t.serverDeniesKeepalive = s.serverDeniesKeepalive
       /\ t.fault = s.fault /\ t.clientIs = s.clientIs
  <2>1. PICK o, v0, a0, st, d0, c0, b0, u0, w0 :
          s = [of |-> o, version |-> v0, said |-> a0, status |-> st,
               serverDeniesKeepalive |-> d0, continueRequired |-> c0, body |-> b0,
               fault |-> u0, clientIs |-> w0]
    BY ONLY <1>9, SessionFields
  <2>. QED  BY ONLY <1>9, <2>1
<1>11. t \in Sessions
  BY ONLY <1>9, <1>10 DEF Sessions
<1>12. InBody'
  BY <1>3, <1>6, <1>7, <1>8, <1>10 DEF InBody
<1>13. /\ Contains(Q.headers, "expect") => R \in continued'
       /\ continued' \subseteq DOMAIN script
  BY <1>2, <1>3, <1>4 DEF WillAsk
<1>14. WillAsk'
  BY <1>7, <1>13 DEF WillAsk
<1>15. PlaceInv'
  BY <1>2, <1>3, <1>5, <1>7, <1>8, <1>10, <1>12, <1>13, <1>14 DEF PlaceInv
<1>16. sent - Len(wire') \in 0 .. sent
  <2>1. PICK lb \in Nat, lw \in Nat : lb = Len(buffer) /\ lw = Len(wire)
    <3>1. buffer \in Seq(Pieces) /\ wire \in Seq(Pieces)
      BY <1>1 DEF StreamInv
    <3>2. Len(buffer) \in Nat /\ Len(wire) \in Nat
      BY ONLY <3>1
    <3>. QED  BY <3>2
  <2>2. lb + lw <= sent /\ sent \in Nat
    BY <1>1, <2>1 DEF StreamInv
  <2>3. PICK n \in Nat : n = sent
    BY <2>2
  <2>4. lb + lw <= n
    BY <2>2, <2>3
  <2>5. n - lw \in 0 .. n
    BY ONLY lb \in Nat, lw \in Nat, n \in Nat, <2>4
  <2>. QED  BY <1>2, <2>1, <2>3, <2>5
<1>17. CallsInv'
  BY <1>1, <1>2, CallsStay
<1>18. /\ session' \in Sessions /\ session'.of = R
       /\ session'.serverDeniesKeepalive = session.serverDeniesKeepalive
  BY <1>3, <1>8, <1>10, <1>11
<1>. QED  BY <1>1, <1>2, <1>5, <1>13, <1>15, <1>16, <1>17, <1>18, WithinRequest

(* It cannot be asked for: the client is gone. *)
LEMMA RefillBufferInv ==
  ASSUME ConnInv, RefillBuffer
  PROVE  ConnInv'
<1>1. CASE pc' = "reading"
  BY <1>1, RefilledInv
<1>2. CASE pc' # "reading"
  <2>1. /\ pc = "refill" /\ ConnReadInit
        /\ session' = [session EXCEPT !.status = 408, !.clientIs = "gone"]
        /\ pc' = "respond"
        /\ UNCHANGED <<client, wire, requestCount, continued, calls, responses>>
    BY <1>2 DEF RefillBuffer
  <2>2. StreamInv'
    <3>1. StreamInv
      BY Kept
    <3>. QED  BY <2>1, <3>1, SlideKeeps
  <2>3. CallsInv'
    <3>1. CallsInv /\ requestCount \in Nat /\ UNCHANGED script
      BY <2>1, Kept DEF client
    <3>. QED  BY <2>1, <3>1, CallsStay
  <2>4. "gone" \in Clients /\ RefusedWith(408, "gone")
    BY <2>1 DEF Clients, RefusedWith
  <2>. QED  BY <2>1, <2>2, <2>3, <2>4, RefusedInv
<1>. QED  BY <1>1, <1>2

(* More of the body is read. *)
LEMMA ReadBodyInv ==
  ASSUME ConnInv, ReadBody
  PROVE  ConnInv'
<1>1. /\ StreamInv /\ LoopInv /\ PlaceInv /\ CallsInv
      /\ script \in Seq(Requests)
      /\ requestCount \in 0 .. Len(script) /\ requestCount \in Nat
      /\ session \in Sessions
  BY Kept
<1>2. /\ pc = "reading" /\ pc' = "body" /\ ConnRead
      /\ UNCHANGED <<client, bufferpos, requestCount, session, continued, calls, responses>>
      /\ UNCHANGED <<script, pipelines>>
  BY DEF ReadBody, client
<1>3. InBody /\ WillAsk /\ session.of = R
  BY <1>1, <1>2 DEF PlaceInv, InBody
<1>4. R \in DOMAIN script /\ continued \subseteq DOMAIN script
  BY <1>1, <1>2 DEF LoopInv, Waiting
<1>5. StreamInv' /\ Pos' = Pos /\ sent - Len(wire') \in 0 .. sent
  BY <1>1, <1>2, ReadKeeps
<1>6. Into' = Into
  <2>1. Pos' = Pos + 0 /\ Into \in Int
    BY <1>1, <1>5, PosTyped
  <2>2. Into' = Into + 0
    BY <1>1, <1>2, <2>1, IntoMoves
  <2>. QED  BY <2>1, <2>2
<1>7. Q' = Q /\ R' = R /\ HeadLen' = HeadLen
  BY <1>2 DEF Q, R, HeadLen
<1>8. InBody' /\ WillAsk'
  BY <1>2, <1>3, <1>6, <1>7 DEF InBody, WillAsk
<1>9. PlaceInv'
  BY <1>2, <1>8 DEF PlaceInv
<1>10. CallsInv'
  BY <1>1, <1>2, CallsStay
<1>. QED  BY <1>1, <1>2, <1>3, <1>4, <1>5, <1>9, <1>10, WithinRequest

(* The body does not come: not because the client waits to be asked for it, *)
(* or for a response.                                                       *)
LEMMA BodyTimesOutInv ==
  ASSUME ConnInv, BodyTimesOut
  PROVE  ConnInv'
<1>1. /\ StreamInv /\ LoopInv /\ PlaceInv
      /\ script \in Seq(Requests)
      /\ requestCount \in 0 .. Len(script) /\ requestCount \in Nat
  BY Kept
<1>2. /\ pc = "reading" /\ CantRead /\ Fails(408)
      /\ UNCHANGED <<client, conn, requestCount, continued, calls, responses>>
      /\ UNCHANGED wire
  BY DEF BodyTimesOut, conn
<1>3. StreamInv'
  BY <1>1, <1>2, ConnStays, PosTyped
<1>4. /\ InBody /\ Len(session.body) < Q.body /\ Len(buffer) = 0
      /\ Contains(Q.headers, "expect") => R \in continued
  BY <1>1, <1>2 DEF PlaceInv
<1>5. R \in DOMAIN script
  BY <1>1, <1>2 DEF LoopInv, Waiting
<1>6. ASSUME ClientIs = "waiting" PROVE FALSE
  <2>0. ~MaySend /\ wire = <<>>
    <3>1. Space > 0
      BY <1>4 DEF Space
    <3>. QED  BY <1>6, <3>1 DEF ClientIs
  <2>1. PICK f \in Nat, e \in Nat, b \in Nat, d \in Nat :
          /\ f = EndOf(requestCount) /\ e = HeadLen /\ b = Q.body
          /\ d = Len(session.body)
    <3>1. EndOf(requestCount) \in Nat /\ HeadLen \in Nat /\ Q.body \in Nat
      BY <1>1, <1>5, Present
    <3>2. Len(session.body) \in Nat
      BY <1>1 DEF LoopInv, Sessions
    <3>. QED  BY <3>1, <3>2
  <2>2. /\ f + e + b <= Len(Stream) /\ Len(Stream) \in Nat
        /\ \A k \in 1 .. b : Stream[f + e + k] = Piece(R, "body")
    BY <1>1, <1>5, <2>1, Present, StreamOf
  <2>3. sent = f + (e + d) /\ d < b
    <3>1. /\ Pos = f + Into /\ Pos + (Len(buffer) - bufferpos) + Len(wire) = sent
          /\ bufferpos \in Nat /\ bufferpos <= Len(buffer) /\ Len(wire) = 0
          /\ sent \in Nat /\ Pos \in Nat
      BY <1>1, <2>0, <2>1, PosTyped
    <3>2. Into = e + d /\ d < b
      BY <1>4, <2>1 DEF InBody
    <3>3. bufferpos = 0
      BY <1>4, <3>1
    <3>. QED  BY <1>4, <3>1, <3>2, <3>3
  <2>4. d + 1 \in 1 .. b /\ sent + 1 = f + e + (d + 1)
    BY <2>3
  <2>5. Stream[sent + 1].of = R
    <3>0. PICK k \in 1 .. b : sent + 1 = f + e + k
      BY <2>4
    <3>1. Stream[sent + 1] = Piece(R, "body")
      BY <2>2, <3>0
    <3>. QED  BY <3>1 DEF Piece
  <2>6. sent < Len(Stream)
    BY <2>2, <2>3
  <2>7. ~Waiting /\ pc # "finish"
    BY <1>2 DEF Waiting
  <2>. QED  BY <1>4, <2>0, <2>5, <2>6, <2>7, MayGoOn
<1>. QED  BY <1>2, <1>3, <1>6, FailsInv

(* The registry is given the body, whole. *)
LEMMA CallMade ==
  ASSUME ConnInv, pc = "call", pc' = "respond", UNCHANGED <<script, requestCount>>,
         calls' = Append(calls, [of |-> session.of, body |-> session.body])
  PROVE  CallsInv'
<1>1. /\ StreamInv /\ LoopInv /\ PlaceInv /\ CallsInv
      /\ script \in Seq(Requests)
      /\ requestCount \in 0 .. Len(script) /\ requestCount \in Nat
      /\ session \in Sessions
  BY Kept
<1>2. /\ pc = "call" /\ pc' = "respond"
      /\ calls' = Append(calls, [of |-> session.of, body |-> session.body])
      /\ UNCHANGED <<script, requestCount>>
  OBVIOUS
<1>4. /\ session.of = R /\ IsRpc(Q) /\ Len(session.body) = Q.body
      /\ \A i \in 1 .. Len(session.body) : session.body[i] = Piece(R, "body")
  BY <1>1, <1>2 DEF PlaceInv, InBody
<1>5. R \in DOMAIN script /\ R \in Nat
  BY <1>1, <1>2 DEF LoopInv, Waiting, R
<1>7. Q' = Q /\ R' = R
  BY <1>2 DEF Q, R
<1>13. session.body = Body(R, Q)
  <2>1. PICK y, z : y = session.body /\ z = Body(R, Q)
    OBVIOUS
  <2>2. PICK b \in Nat : b = Q.body
    BY <1>1, <1>5, Present
  <2>3. y \in Seq(Pieces) /\ Len(y) = b
    BY <1>1, <1>4, <2>1, <2>2 DEF Sessions
  <2>4. z \in Seq(Pieces) /\ Len(z) = b
    <3>1. Piece(R, "body") \in Pieces
      BY <1>5 DEF Piece, Pieces
    <3>2. z = [i \in 1 .. b |-> Piece(R, "body")]
      BY <2>1, <2>2 DEF Body
    <3>3. z \in [1 .. b -> Pieces]
      BY <3>1, <3>2
    <3>. QED  BY <3>2, <3>3
  <2>5. \A i \in 1 .. b : y[i] = z[i]
    <3>1. \A i \in 1 .. b : z[i] = Piece(R, "body")
      BY <2>1, <2>2 DEF Body
    <3>2. \A i \in 1 .. b : y[i] = Piece(R, "body")
      BY <2>1, <2>3, <1>4
    <3>. QED  BY <3>1, <3>2
  <2>. QED  BY ONLY <2>1, <2>3, <2>4, <2>5, SeqEqual
<1>14. CallsInv'
  <2>1. PICK e, c : /\ e = [of |-> R, body |-> session.body]
                    /\ c = calls
    OBVIOUS
  <2>2. e \in CallRecords /\ e.of = R /\ e.body = session.body /\ c \in Seq(CallRecords)
    BY <1>1, <1>5, <2>1 DEF CallRecords, Sessions, CallsInv
  <2>3. PICK l \in Nat : l = Len(c)
    BY <2>2
  <2>4. PICK g : g = calls'
    OBVIOUS
  <2>5. /\ g \in Seq(CallRecords) /\ Len(g) = l + 1 /\ DOMAIN g = 1 .. l + 1
        /\ \A n \in 1 .. l : g[n] = c[n]
        /\ g[l + 1] = e
    <3>1. g = Append(c, e)
      BY <1>2, <1>4, <2>1, <2>4
    <3>. QED  BY ONLY <2>2, <2>3, <3>1
  <2>6. \A n \in 1 .. l : /\ c[n].of \in DOMAIN script
                          /\ c[n].of \in Nat /\ c[n].of <= requestCount
                          /\ IsRpc(script[c[n].of])
                          /\ c[n].body = Body(c[n].of, script[c[n].of])
                          /\ n > 1 => c[n - 1].of < c[n].of
    <3>1. \A n \in 1 .. l : /\ c[n].of \in DOMAIN script
                            /\ c[n].of <= requestCount
                            /\ IsRpc(script[c[n].of])
                            /\ c[n].body = Body(c[n].of, script[c[n].of])
                            /\ n > 1 => c[n - 1].of < c[n].of
      <4>1. CallsInv /\ pc \notin {"respond", "finish"} /\ calls = c
        BY <1>1, <1>2, <2>1
      <4>2. DOMAIN c = 1 .. l
        BY <2>2, <2>3
      <4>. QED  BY ONLY <4>1, <4>2 DEF CallsInv
    <3>2. \A n \in 1 .. l : c[n].of \in Nat
      <4>1. \A n \in 1 .. l : c[n] \in CallRecords
        BY <2>2, <2>3
      <4>. QED  BY <4>1 DEF CallRecords
    <3>. QED  BY <3>1, <3>2
  <2>7. ASSUME NEW n \in 1 .. l + 1
        PROVE  /\ g[n].of \in DOMAIN script
               /\ g[n].of <= R
               /\ IsRpc(script[g[n].of])
               /\ g[n].body = Body(g[n].of, script[g[n].of])
               /\ n > 1 => g[n - 1].of < g[n].of
    <3>1. CASE n = l + 1
      <4>1. g[n].of = R /\ g[n].body = Body(R, Q) /\ script[g[n].of] = Q
        BY <1>13, <2>2, <2>5, <3>1 DEF Q
      <4>2. ASSUME n > 1 PROVE g[n - 1].of < g[n].of
        <5>1. l \in 1 .. l /\ n - 1 = l
          BY <3>1, <4>2
        <5>2. g[n - 1] = c[l] /\ c[l].of \in Nat /\ c[l].of <= requestCount
          BY <2>5, <2>6, <5>1
        <5>. QED  BY <1>1, <4>1, <5>2 DEF R
      <4>. QED  BY <1>4, <1>5, <4>1, <4>2
    <3>2. CASE n # l + 1
      <4>1. n \in 1 .. l /\ (n > 1 => n - 1 \in 1 .. l)
        BY <3>2
      <4>2. g[n] = c[n] /\ (n > 1 => g[n - 1] = c[n - 1])
        BY <2>5, <4>1
      <4>3. c[n].of <= R
        BY <1>1, <2>6, <4>1 DEF R
      <4>. QED  BY <2>6, <4>1, <4>2, <4>3
    <3>. QED  BY <3>1, <3>2
  <2>. QED  BY <1>2, <1>7, <2>4, <2>5, <2>7 DEF CallsInv
<1>. QED  BY <1>14

(* The call is made, and has a result. *)
LEMMA CallSucceeds ==
  ASSUME ConnInv, ProcessCall, session' = [session EXCEPT !.status = 200]
  PROVE  ConnInv'
<1>1. /\ StreamInv /\ LoopInv /\ PlaceInv /\ CallsInv
      /\ script \in Seq(Requests)
      /\ requestCount \in 0 .. Len(script) /\ requestCount \in Nat
      /\ session \in Sessions
  BY Kept
<1>2. /\ pc = "call" /\ pc' = "respond"
      /\ calls' = Append(calls, [of |-> session.of, body |-> session.body])
      /\ session' = [session EXCEPT !.status = 200]
      /\ UNCHANGED <<client, conn, requestCount, continued, responses>>
      /\ UNCHANGED <<script, pipelines, wire>>
  <2>1. session \in Sessions
    BY Kept
  <2>2. session'.status = 200
    BY <2>1 DEF Sessions
  <2>3. ~Fails(500)
    <3>1. SUFFICES ASSUME Fails(500) PROVE FALSE
      OBVIOUS
    <3>2. session'.status = 500
      <4>0. PICK w : session' = [session EXCEPT !.status = 500, !.clientIs = w]
        BY <3>1 DEF Fails
      <4>1. PICK s, z : s = session /\ z = session'
        OBVIOUS
      <4>2. s \in Sessions
        BY <2>1, <4>1
      <4>3. z = [s EXCEPT !.status = 500, !.clientIs = w]
        BY <4>0, <4>1
      <4>4. z.status = 500
        BY ONLY <4>2, <4>3 DEF Sessions
      <4>. QED  BY <4>1, <4>4
    <3>. QED  BY <2>2, <3>2
  <2>. QED  BY <2>3 DEF ProcessCall, client, conn
<1>3. StreamInv' /\ Pos' = Pos /\ sent - Len(wire') \in 0 .. sent
  BY <1>1, <1>2, ConnStays
<1>4. /\ session.of = R /\ IsRpc(Q) /\ Into = HeadLen + Len(session.body)
      /\ Len(session.body) = Q.body
      /\ \A i \in 1 .. Len(session.body) : session.body[i] = Piece(R, "body")
  BY <1>1, <1>2 DEF PlaceInv, InBody
<1>5. R \in DOMAIN script /\ R \in Nat /\ continued \subseteq DOMAIN script
  BY <1>1, <1>2 DEF LoopInv, Waiting, R
<1>6. Into' = Into
  <2>1. Pos' = Pos + 0 /\ Into \in Int
    BY <1>1, <1>3, PosTyped
  <2>2. Into' = Into + 0
    BY <1>1, <1>2, <2>1, IntoMoves
  <2>. QED  BY <2>1, <2>2
<1>7. Q' = Q /\ R' = R /\ HeadLen' = HeadLen
  BY <1>2 DEF Q, R, HeadLen
<1>8. PICK s, t : s = session /\ t = session'
  OBVIOUS
<1>9. t = [s EXCEPT !.status = 200] /\ s \in Sessions
  BY <1>1, <1>2, <1>8
<1>10. /\ t = [of |-> t.of, version |-> t.version, said |-> t.said,
               status |-> t.status,
               serverDeniesKeepalive |-> t.serverDeniesKeepalive,
               continueRequired |-> t.continueRequired, body |-> t.body,
               fault |-> t.fault, clientIs |-> t.clientIs]
       /\ t.of = s.of /\ t.version = s.version /\ t.said = s.said /\ t.body = s.body
       /\ t.status = 200 /\ t.continueRequired = s.continueRequired
       /\ t.serverDeniesKeepalive = s.serverDeniesKeepalive
       /\ t.fault = s.fault /\ t.clientIs = s.clientIs
  <2>1. PICK o, v0, a0, st, d0, c0, b0, u0, w0 :
          s = [of |-> o, version |-> v0, said |-> a0, status |-> st,
               serverDeniesKeepalive |-> d0, continueRequired |-> c0, body |-> b0,
               fault |-> u0, clientIs |-> w0]
    BY ONLY <1>9, SessionFields
  <2>. QED  BY ONLY <1>9, <2>1
<1>11. t \in Sessions
  BY ONLY <1>9, <1>10 DEF Sessions
<1>12. PlaceInv'
  <2>1. Judged(session.of, session.status, session.clientIs, R)'
    BY <1>2, <1>4, <1>7, <1>8, <1>10 DEF Judged, Q
  <2>2. session'.status = 200 /\ Into' = HeadLen' + Q'.body
    BY <1>4, <1>6, <1>7, <1>8, <1>10
  <2>. QED  BY <1>2, <2>1, <2>2 DEF PlaceInv
<1>14. CallsInv'
  BY <1>2, CallMade
<1>15. /\ session' \in Sessions /\ session'.of = R
       /\ session'.serverDeniesKeepalive = session.serverDeniesKeepalive
  BY <1>4, <1>8, <1>10, <1>11
<1>. QED  BY <1>1, <1>2, <1>3, <1>5, <1>12, <1>14, <1>15, WithinRequest

(* A call has its result, or a 500 after it or instead of it. *)
LEMMA ProcessCallInv ==
  ASSUME ConnInv, ProcessCall
  PROVE  ConnInv'
<1>1. CASE session' = [session EXCEPT !.status = 200]
  BY <1>1, CallSucceeds
<1>2. CASE ~(session' = [session EXCEPT !.status = 200])
  <2>1. /\ pc = "call" /\ Fails(500)
        /\ \/ UNCHANGED calls
           \/ calls' = Append(calls, [of |-> session.of, body |-> session.body])
        /\ UNCHANGED <<client, conn, requestCount, continued, responses>>
        /\ UNCHANGED <<script, wire>>
    BY <1>2 DEF ProcessCall, client, conn
  <2>2. StreamInv /\ PlaceInv /\ CallsInv /\ requestCount \in Nat
    BY Kept
  <2>3. StreamInv'
    BY <2>1, <2>2, ConnStays
  <2>4. /\ session' = [session EXCEPT !.status = 500, !.clientIs = ClientIs]
        /\ pc' = "respond"
    BY <2>1 DEF Fails
  <2>5. CallsInv'
    BY <2>1, <2>2, <2>4, CallMade, CallsStay
  <2>6. session.of = R /\ IsCall(Q)
    BY <2>1, <2>2 DEF PlaceInv, InBody, IsRpc
  <2>7. ClientIs \in Clients /\ RefusedWith(500, ClientIs)
    BY <2>4 DEF ClientIs, Clients, RefusedWith
  <2>. QED  BY <2>1, <2>3, <2>5, <2>6, <2>7, RefusedInv
<1>. QED  BY <1>1, <1>2

(* The request is answered. *)
LEMMA RespondInv ==
  ASSUME ConnInv, Respond
  PROVE  ConnInv'
<1>1. /\ StreamInv /\ LoopInv /\ PlaceInv /\ AnswerInv /\ ClientInv /\ CallsInv
      /\ script \in Seq(Requests)
      /\ requestCount \in 0 .. Len(script) /\ requestCount \in Nat
      /\ session \in Sessions
  BY Kept
<1>2. PICK a : a = [of |-> session.of, status |-> session.status,
                    keepalive |-> HTTPKeepalive, clientIs |-> session.clientIs]
  OBVIOUS
<1>3. /\ pc = "respond" /\ pc' = "finish"
      /\ responses' = Append(responses, a)
      /\ UNCHANGED <<client, conn, requestCount, session, continued, calls>>
      /\ UNCHANGED <<script, pipelines, sent, wire, buffer, bufferpos>>
  BY <1>2 DEF Respond, client, conn
<1>4. StreamInv' /\ Pos' = Pos /\ Stream' = Stream
  BY <1>1, <1>3, ConnStays, SameScript
<1>5. /\ a \in Answers
      /\ a.of = session.of /\ a.status = session.status
      /\ a.keepalive = HTTPKeepalive /\ a.clientIs = session.clientIs
  BY <1>1, <1>2, KeepaliveSaid DEF Sessions, Answers
<1>6. PICK rs, rs1 : rs = responses /\ rs1 = responses'
  OBVIOUS
<1>7. rs \in Seq(Answers) /\ Len(rs) = requestCount
  BY <1>1, <1>3, <1>6 DEF LoopInv
<1>8. /\ rs1 \in Seq(Answers) /\ Len(rs1) = R /\ R \in Nat
      /\ DOMAIN rs1 = 1 .. R
      /\ \A n \in 1 .. requestCount : rs1[n] = rs[n]
      /\ rs1[R] = a
  <2>1. rs1 = Append(rs, a)
    BY <1>3, <1>6
  <2>2. PICK k \in Nat : k = requestCount
    BY <1>1
  <2>3. /\ rs1 \in Seq(Answers) /\ Len(rs1) = k + 1 /\ DOMAIN rs1 = 1 .. k + 1
        /\ \A n \in 1 .. k : rs1[n] = rs[n]
        /\ rs1[k + 1] = a
    <3>1. Len(rs) = k /\ a \in Answers
      BY <1>5, <1>7, <2>2
    <3>. QED  BY ONLY <1>7, <2>1, <3>1, k \in Nat
  <2>. QED  BY <2>2, <2>3 DEF R
<1>9. Q' = Q /\ R' = R /\ HeadLen' = HeadLen /\ HTTPKeepalive' = HTTPKeepalive
  BY <1>3, KeepaliveSaid DEF Q, R, HeadLen
<1>10. Into' = Into
  <2>1. Pos' = Pos + 0 /\ Into \in Int
    BY <1>1, <1>4, PosTyped
  <2>2. Into' = Into + 0
    BY <1>1, <1>3, <2>1, IntoMoves
  <2>. QED  BY <2>1, <2>2
<1>11. LoopInv'
  BY <1>1, <1>3, <1>6, <1>8, <1>9 DEF LoopInv, Waiting
<1>12. PlaceInv'
  <2>1. Judged(session.of, session.status, session.clientIs, R)'
    BY <1>1, <1>3, <1>9 DEF PlaceInv, Judged
  <2>. QED  BY <1>1, <1>3, <1>9, <1>10, <2>1 DEF PlaceInv
<1>13. AnswerInv'
  <2>1. ASSUME NEW n \in 1 .. R
        PROVE  /\ rs1[n].keepalive = "no" => n = R
               /\ Judged(rs1[n].of, rs1[n].status, rs1[n].clientIs, n)
    <3>1. CASE n = R
      <4>1. Judged(session.of, session.status, session.clientIs, R)
        BY <1>1, <1>3 DEF PlaceInv
      <4>. QED  BY <1>5, <1>8, <3>1, <4>1
    <3>2. CASE n # R
      <4>1. n \in 1 .. requestCount
        BY <1>1, <3>2 DEF R
      <4>2. n \in DOMAIN responses
        BY <1>6, <1>7, <4>1
      <4>3. /\ responses[n].keepalive # "no"
            /\ Judged(responses[n].of, responses[n].status, responses[n].clientIs, n)
        BY <1>1, <1>3, <4>2 DEF AnswerInv
      <4>. QED  BY <1>6, <1>8, <4>1, <4>3
    <3>. QED  BY <3>1, <3>2
  <2>2. \A n \in 1 .. R :
          /\ rs1[n].keepalive = "no" => n = R
          /\ Judged(rs1[n].of, rs1[n].status, rs1[n].clientIs, n)
    BY <2>1
  <2>3. \A n \in DOMAIN responses' :
          /\ responses'[n].keepalive = "no" => n = Len(responses')
          /\ Judged(responses'[n].of, responses'[n].status, responses'[n].clientIs, n)
    BY <1>6, <1>8, <2>2
  <2>4. responses'[R'].keepalive = HTTPKeepalive'
    BY <1>5, <1>6, <1>8, <1>9
  <2>. QED  BY <1>3, <2>3, <2>4 DEF AnswerInv, Judged
<1>14. ClientInv'
  <2>1. ASSUME pipelines = "no"
        PROVE  /\ \A i \in 1 .. sent : Stream[i].of <= R + 1
               /\ \A i \in 1 .. sent - Len(wire) : Stream[i].of <= R
    <3>1. /\ \A i \in 1 .. sent : Stream[i].of <= requestCount + 1
          /\ \A i \in 1 .. sent - Len(wire) : Stream[i].of <= R
      BY <1>1, <1>3, <1>6, <1>7, <2>1 DEF ClientInv, Waiting
    <3>2. \A i \in 1 .. sent : Stream[i].of \in Nat
      <4>1. Stream \in Seq(Pieces) /\ sent \in Nat /\ sent <= Len(Stream) /\ Len(Stream) \in Nat
        BY <1>1, StreamOf, PosTyped
      <4>2. \A i \in 1 .. sent : Stream[i] \in Pieces
        BY <4>1
      <4>. QED  BY <4>2 DEF Pieces
    <3>3. \A i \in 1 .. sent : Stream[i].of <= R + 1
      BY <1>1, <3>1, <3>2 DEF R
    <3>. QED  BY <3>1, <3>3
  <2>. QED  BY <1>3, <1>4, <1>6, <1>8, <1>9, <2>1 DEF ClientInv, Waiting
<1>15. CallsInv'
  BY <1>1, <1>3, CallsStay
<1>. QED  BY <1>4, <1>11, <1>12, <1>13, <1>14, <1>15 DEF ConnInv

(* The request is over: after a result, all of it is consumed.              *)
LEMMA FinishRequestInv ==
  ASSUME ConnInv, FinishRequest
  PROVE  ConnInv'
<1>1. /\ StreamInv /\ LoopInv /\ PlaceInv /\ AnswerInv /\ ClientInv /\ CallsInv
      /\ script \in Seq(Requests)
      /\ requestCount \in 0 .. Len(script) /\ requestCount \in Nat
      /\ session \in Sessions
  BY Kept
<1>2. /\ pc = "finish" /\ requestCount' = R /\ ConnReadInit
      /\ pc' = IF HTTPKeepalive = "yes" THEN "wait" ELSE "closed"
      /\ UNCHANGED <<client, wire, session, continued, calls, responses>>
      /\ UNCHANGED <<script, pipelines, sent>>
  BY DEF FinishRequest, client, R
<1>3. StreamInv' /\ Pos' = Pos /\ bufferpos' = 0 /\ Stream' = Stream
  BY <1>1, <1>2, SlideKeeps, SameScript
<1>4. R \in DOMAIN script /\ R \in 0 .. Len(script) /\ R \in Nat
      /\ Len(responses) = R /\ responses \in Seq(Answers)
  <2>1. R \in DOMAIN script /\ Len(responses) = R /\ responses \in Seq(Answers)
    BY <1>1, <1>2 DEF LoopInv, Waiting
  <2>. QED  BY <1>1, <2>1
<1>5. /\ responses[R].keepalive = HTTPKeepalive
      /\ HTTPKeepalive \in {"no", "yes"}
      /\ HTTPKeepalive = "yes" => session.serverDeniesKeepalive = "no" /\ session.status < 400
  BY <1>1, <1>2, KeepaliveSaid DEF AnswerInv
<1>6. ASSUME HTTPKeepalive = "yes" PROVE Into' = 0
  <2>1. session.status = 200
    <3>1. session.status < 400 /\ session.status \in {0, 200, 400, 404, 405, 408, 411, 500, 505}
      BY <1>1, <1>5, <1>6 DEF Sessions
    <3>2. session.status # 200 => session.status >= 400
      BY <1>1, <1>2 DEF PlaceInv
    <3>. QED  BY <3>1, <3>2
  <2>2. Into = HeadLen + Q.body
    BY <1>1, <1>2, <2>1 DEF PlaceInv
  <2>3. EndOf(R) = EndOf(requestCount) + HeadLen + Q.body
        /\ EndOf(requestCount) \in Nat /\ HeadLen \in Nat /\ Q.body \in Nat
    BY <1>1, <1>4, Present
  <2>4. Pos = EndOf(R)
    <3>1. Pos = EndOf(requestCount) + Into
      BY <1>1, PosTyped
    <3>. QED  BY <2>2, <2>3, <3>1
  <2>5. EndOf(requestCount)' = EndOf(R)
    BY <1>2, SameScript
  <2>6. EndOf(R) \in Nat
    BY <2>3
  <2>. QED  BY <1>3, <2>4, <2>5, <2>6 DEF Into
<1>7. LoopInv'
  <2>1. R <= keepalivemaxconn
    <3>1. requestCount < keepalivemaxconn
      BY <1>1, <1>2 DEF LoopInv
    <3>. QED  BY <1>1, <3>1 DEF R
  <2>2. HTTPKeepalive = "yes" => R < keepalivemaxconn
    BY <1>1, <1>2, <1>5 DEF LoopInv, Waiting
  <2>3. Waiting'
    BY <1>2 DEF Waiting
  <2>4. pc' \in {"wait", "closed"} /\ (pc' # "closed" => R < keepalivemaxconn)
    BY <1>2, <2>2
  <2>. QED  BY <1>1, <1>2, <1>4, <2>1, <2>3, <2>4 DEF LoopInv
<1>8. PlaceInv'
  BY <1>2, <1>3, <1>6 DEF PlaceInv
<1>9. AnswerInv'
  <2>1. \A n \in DOMAIN responses :
          /\ responses[n].keepalive = "no" => n = Len(responses)
          /\ Judged(responses[n].of, responses[n].status, responses[n].clientIs, n)
    BY <1>1 DEF AnswerInv
  <2>2. \A n \in DOMAIN responses : responses[n].keepalive = "no" => pc' = "closed"
    BY <1>2, <1>4, <1>5, <2>1
  <2>. QED  BY <1>2, <2>1, <2>2 DEF AnswerInv, Judged
<1>10. ClientInv'
  <2>1. ASSUME pipelines = "no"
        PROVE  /\ \A i \in 1 .. sent : Stream[i].of <= Len(responses) + 1
               /\ \A i \in 1 .. sent - Len(wire) : Stream[i].of <= R
    BY <1>1, <1>2, <2>1 DEF ClientInv, Waiting
  <2>2. Waiting' /\ R > 0
    BY <1>1, <1>2 DEF Waiting, R
  <2>3. pc' = "closed" => responses[R].keepalive = "no"
    BY <1>2, <1>5
  <2>. QED  BY <1>2, <1>3, <2>1, <2>2, <2>3 DEF ClientInv
<1>11. CallsInv'
  <2>1. pc' \notin {"respond", "finish"}
    BY <1>2
  <2>. QED  BY <1>1, <1>2, <2>1 DEF CallsInv
<1>. QED  BY <1>3, <1>7, <1>8, <1>9, <1>10, <1>11 DEF ConnInv

(* Every step keeps the invariant. *)
LEMMA StepInv ==
  ASSUME ConnInv, [Next]_vars
  PROVE  ConnInv'
<1>1. CASE UNCHANGED vars
  <2>1. /\ StreamInv /\ LoopInv /\ PlaceInv /\ AnswerInv /\ ClientInv /\ CallsInv
        /\ script \in Seq(Requests)
        /\ requestCount \in 0 .. Len(script) /\ requestCount \in Nat
    BY Kept
  <2>2. UNCHANGED <<client, conn, script, pipelines, sent, wire, buffer, bufferpos, pc,
                    requestCount, session, continued, calls, responses>>
    BY <1>1 DEF vars, client, conn
  <2>3. StreamInv' /\ Pos' = Pos /\ Stream' = Stream /\ HTTPKeepalive' = HTTPKeepalive
    BY <2>1, <2>2, ConnStays, SameScript, KeepaliveSaid
  <2>4. Into' = Into
    <3>1. Pos' = Pos + 0 /\ Into \in Int
      BY <2>1, <2>3, PosTyped
    <3>2. Into' = Into + 0
      BY <2>1, <2>2, <3>1, IntoMoves
    <3>. QED  BY <3>1, <3>2
  <2>5. LoopInv'
    BY <2>1, <2>2 DEF LoopInv, Waiting, R
  <2>6. PlaceInv'
    BY <2>1, <2>2, <2>4, PlaceStays
  <2>7. AnswerInv'
    BY <2>1, <2>2, <2>3 DEF AnswerInv, Judged, R
  <2>8. ClientInv'
    BY <2>1, <2>2, <2>3 DEF ClientInv, Waiting, R
  <2>9. CallsInv'
    BY <2>1, <2>2, CallsStay
  <2>. QED  BY <2>3, <2>5, <2>6, <2>7, <2>8, <2>9 DEF ConnInv
<1>2. CASE Next
  BY <1>2, SendInv, AwaitRequestInv, AwaitTimesOutInv, ReadMoreInv, HeaderTimesOutInv,
     ReadRequestLineInv, ReadHeaderInv, DispatchInv, TakeBodyInv, BodyFailsInv,
     RefillBufferInv, ReadBodyInv, BodyTimesOutInv, ProcessCallInv, RespondInv, FinishRequestInv
     DEF Next, ServerStep
<1>. QED  BY <1>1, <1>2

(* So it always holds. *)
LEMMA ConnInvariant ==
  Spec => []ConnInv
<1>1. Init => ConnInv
  BY InitInv
<1>2. ConnInv /\ [Next]_vars => ConnInv'
  BY StepInv
<1>. QED  BY <1>1, <1>2, PTL DEF Spec
-----------------------------------------------------------------------------
(*                              The theorems                                *)

(* Every variable has its type: the buffer never exceeds its size, no more  *)
(* requests are taken than the server allows on a connection.               *)
THEOREM ConnTyped ==
  Spec => []TypeOK
<1>1. ConnInv => TypeOK
  <2> SUFFICES ASSUME ConnInv PROVE TypeOK
    OBVIOUS
  <2>1. StreamInv /\ LoopInv
    BY DEF ConnInv
  <2>2. requestCount \in 0 .. keepalivemaxconn
    BY <2>1 DEF LoopInv
  <2>3. /\ session.status \in {0, 200, 400, 404, 405, 408, 411, 500, 505}
        /\ session.of \in 0 .. Len(script)
    <3>1. session.of \in Nat /\ session.of <= Len(script) /\ Len(script) \in Nat
      BY <2>1 DEF LoopInv, StreamInv, Sessions
    <3>2. session.status \in {0, 200, 400, 404, 405, 408, 411, 500, 505}
      BY <2>1 DEF LoopInv, Sessions
    <3>. QED  BY <3>1, <3>2
  <2>. QED  BY <2>1, <2>2, <2>3 DEF TypeOK, StreamInv, LoopInv
<1>. QED  BY <1>1, ConnInvariant, PTL

(* However the reads cut the stream, what is left of the buffer and in the  *)
(* socket is the end of what was sent, and when a request is over the next  *)
(* one begins there.                                                        *)
THEOREM ConnNothingSkipped ==
  Spec => []NothingSkipped
<1>1. ConnInv => NothingSkipped
  <2> SUFFICES ASSUME ConnInv PROVE NothingSkipped
    OBVIOUS
  <2>1. /\ StreamInv /\ LoopInv /\ PlaceInv
        /\ script \in Seq(Requests)
        /\ requestCount \in 0 .. Len(script) /\ requestCount \in Nat
    BY Kept
  <2>2. PICK lb \in Nat, p \in Nat, lw \in Nat, c \in Nat :
          lb = Len(buffer) /\ p = bufferpos /\ lw = Len(wire) /\ c = Pos /\ p <= lb
    BY <2>1, PosTyped
  <2>3. sent = c + (lb - p) + lw /\ sent \in Nat /\ sent <= Len(Stream)
        /\ Len(Stream) \in Nat /\ Stream \in Seq(Pieces)
    <3>1. Pos + (Len(buffer) - bufferpos) + Len(wire) = sent /\ sent <= Len(Stream)
          /\ sent \in Nat
      BY <2>1, PosTyped
    <3>. QED  BY <2>1, <2>2, <3>1, StreamOf
  <2>4. PICK b, rest :
          b = SubSeq(buffer, bufferpos + 1, Len(buffer)) /\ rest = b \o wire
    OBVIOUS
  <2>5. /\ b \in Seq(Pieces) /\ Len(b) = lb - p
        /\ \A k \in 1 .. lb - p : b[k] = Stream[c + k]
    <3>1. PICK u \in Nat : u = p + 1
      OBVIOUS
    <3>2. b = SubSeq(buffer, u, lb) /\ 1 <= u /\ u <= lb + 1 /\ lb <= Len(buffer)
      BY <2>2, <2>4, <3>1
    <3>3. /\ b \in Seq(Pieces) /\ Len(b) = lb - u + 1
          /\ \A k \in 1 .. lb - u + 1 : b[k] = buffer[u + k - 1]
      <4>1. buffer \in Seq(Pieces)
        BY <2>1 DEF StreamInv
      <4>. QED  BY ONLY u \in Nat, lb \in Nat, <3>2, <4>1, Cut
    <3>4. lb - u + 1 = lb - p /\ \A k \in 1 .. lb - p : u + k - 1 = p + k
      BY <3>1
    <3>5. \A k \in 1 .. lb - p : buffer[p + k] = Stream[c + k]
      BY <2>1, <2>2, BufferHolds
    <3>. QED  BY <3>3, <3>4, <3>5
  <2>6. /\ wire \in Seq(Pieces)
        /\ \A k \in 1 .. lw : wire[k] = Stream[c + ((lb - p) + k)]
    <3>1. wire \in Seq(Pieces) /\ \A k \in 1 .. lw : wire[k] = Stream[sent - lw + k]
      BY <2>1, <2>2 DEF StreamInv
    <3>2. \A k \in 1 .. lw : sent - lw + k = c + ((lb - p) + k)
      BY <2>2, <2>3
    <3>. QED  BY <3>1, <3>2
  <2>7. PICK n \in Nat, d \in Nat : d = lb - p /\ n = d + lw
    <3>1. lb - p \in Nat /\ (lb - p) + lw \in Nat
      BY <2>2
    <3>. QED  BY <3>1
  <2>8. /\ rest \in Seq(Pieces) /\ Len(rest) = n
        /\ \A k \in 1 .. d : rest[k] = b[k]
        /\ \A k \in 1 .. lw : rest[d + k] = wire[k]
    <3>1. /\ (b \o wire) \in Seq(Pieces)
          /\ Len(b) \in Nat /\ Len(wire) \in Nat
          /\ Len(b \o wire) = Len(b) + Len(wire)
          /\ \A k \in 1 .. Len(b) : (b \o wire)[k] = b[k]
          /\ \A k \in 1 .. Len(wire) : (b \o wire)[Len(b) + k] = wire[k]
      <4>1. b \in Seq(Pieces) /\ wire \in Seq(Pieces)
        BY <2>5, <2>6
      <4>. QED  BY ONLY <4>1, Joined
    <3>2. /\ rest \in Seq(Pieces) /\ Len(rest) = Len(b) + Len(wire)
          /\ \A k \in 1 .. Len(b) : rest[k] = b[k]
          /\ \A k \in 1 .. Len(wire) : rest[Len(b) + k] = wire[k]
      BY <2>4, <3>1, Zenon
    <3>. QED  BY <2>2, <2>5, <2>7, <3>2
  <2>9. \A k \in 1 .. n : rest[k] = Stream[c + k]
    <3>1. ASSUME NEW k \in 1 .. n PROVE rest[k] = Stream[c + k]
      <4>1. CASE k \in 1 .. d
        BY <2>5, <2>7, <2>8, <4>1
      <4>2. CASE k > d
        <5>1. k - d \in 1 .. lw /\ k = d + (k - d)
          BY <2>7, <4>2
        <5>2. PICK i \in 1 .. lw : k = d + i
          BY <5>1
        <5>3. rest[d + i] = wire[i] /\ wire[i] = Stream[c + (d + i)]
          BY <2>6, <2>7, <2>8
        <5>. QED  BY <5>2, <5>3
      <4>3. k \in 1 .. d \/ k > d
        OBVIOUS
      <4>. QED  BY <4>1, <4>2, <4>3
    <3>. QED  BY <3>1
  <2>10. rest = SubSeq(Stream, sent - Len(rest) + 1, sent)
    <3>1. PICK u \in Nat, v \in Nat : u = c + 1 /\ v = sent
      BY <2>3
    <3>2. sent - n + 1 = u
      BY <2>2, <2>3, <2>7, <3>1
    <3>3. PICK z : z = SubSeq(Stream, u, v)
      OBVIOUS
    <3>4. /\ z \in Seq(Pieces) /\ Len(z) = v - u + 1
          /\ \A k \in 1 .. v - u + 1 : z[k] = Stream[u + k - 1]
      <4>1. PICK st : st = Stream
        OBVIOUS
      <4>2. st \in Seq(Pieces) /\ z = SubSeq(st, u, v)
        BY <2>3, <3>3, <4>1
      <4>3. 1 <= u /\ u <= v + 1 /\ v <= Len(st)
        BY <2>2, <2>3, <3>1, <4>1
      <4>4. /\ z \in Seq(Pieces) /\ Len(z) = v - u + 1
            /\ \A k \in 1 .. v - u + 1 : z[k] = st[u + k - 1]
        BY ONLY u \in Nat, v \in Nat, <4>2, <4>3, Cut
      <4>. QED  BY <4>1, <4>4
    <3>5. v - u + 1 = n /\ \A k \in 1 .. n : u + k - 1 = c + k
      BY <2>2, <2>3, <2>7, <3>1
    <3>6. z = rest
      <4>1. z \in Seq(Pieces) /\ Len(z) = n /\ \A k \in 1 .. n : z[k] = rest[k]
        BY <2>9, <3>4, <3>5
      <4>. QED  BY ONLY <2>8, <4>1, SeqEqual
    <3>. QED  BY <2>8, <3>1, <3>2, <3>3, <3>6
  <2>11. ASSUME pc = "wait", rest # <<>>
         PROVE  rest[1] = Header(requestCount + 1, script[requestCount + 1])[1]
    <3>1. n >= 1
      BY <2>8, <2>11
    <3>2. c = EndOf(requestCount)
      <4>1. Into = 0
        BY <2>1, <2>11 DEF PlaceInv
      <4>. QED  BY <2>1, <2>2, <4>1, PosTyped
    <3>3. rest[1] = Stream[c + 1]
      BY <2>9, <3>1
    <3>4. R \in DOMAIN script
      <4>1. EndOf(requestCount) < Len(Stream)
        BY <2>2, <2>3, <2>7, <3>1, <3>2
      <4>2. requestCount # Len(script)
        BY <2>1, <4>1, StreamOf
      <4>. QED  BY <2>1, <4>2 DEF R
    <3>5. PICK q \in Requests : q = Q
      BY <2>1, <3>4, Present
    <3>6. PICK h, m : h = Header(R, q) /\ m = Len(q.before)
      OBVIOUS
    <3>7. /\ m \in Nat /\ R \in Nat
          /\ \A k \in 1 .. m : h[k] = Piece(R, q.before[k])
          /\ h[m + 1] = Piece(R, "line")
      <4>1. R \in Nat /\ Len(q.before) \in Nat
        BY <2>1, RequestParts DEF R
      <4>2. /\ \A k \in 1 .. Len(q.before) : h[k] = Piece(R, q.before[k])
            /\ h[Len(q.before) + 1] = Piece(R, "line")
        BY ONLY q \in Requests, <3>6, <4>1, HeaderParts
      <4>. QED  BY <3>6, <4>1, <4>2
    <3>8. Stream[c + 1] = h[1]
      <4>1. /\ \A k \in 1 .. m : Stream[c + k] = Piece(R, q.before[k])
            /\ Stream[c + m + 1] = Piece(R, "line")
        BY <2>1, <3>2, <3>4, <3>5, <3>6, Present
      <4>2. CASE m = 0
        <5>1. c + m + 1 = c + 1 /\ m + 1 = 1
          BY <4>2
        <5>. QED  BY <3>7, <4>1, <5>1
      <4>3. CASE m # 0
        <5>1. 1 \in 1 .. m
          BY <3>7, <4>3
        <5>. QED  BY <3>7, <4>1, <5>1
      <4>. QED  BY <4>2, <4>3
    <3>. QED  BY <3>3, <3>5, <3>6, <3>8 DEF Q, R
  <2>. QED  BY <2>4, <2>10, <2>11 DEF NothingSkipped
<1>. QED  BY <1>1, ConnInvariant, PTL

(* The registry is given the RPCs of the client, each once and in order,    *)
(* with the body it came with and nothing of another request.               *)
THEOREM ConnCallsWhole ==
  Spec => []CallsAreWhole
<1>1. ConnInv => CallsAreWhole
  BY DEF ConnInv, CallsInv, CallsAreWhole
<1>. QED  BY <1>1, ConnInvariant, PTL

(* The n-th response is the answer the n-th request deserves: a result only *)
(* for an RPC, a 500 only for a call, and a timeout to a client that waits  *)
(* only if its header does not fit or its request line has no version.      *)
THEOREM ConnAnswered ==
  Spec => []EachAnsweredForItself
<1>1. ConnInv => EachAnsweredForItself
  BY DEF ConnInv, AnswerInv, Judged, EachAnsweredForItself
<1>. QED  BY <1>1, ConnInvariant, PTL

(* After a response that says `close' no request is read; after one that    *)
(* says `keep-alive' a client that waits for its responses is waited for.   *)
THEOREM ConnTold ==
  Spec => []ToldWhatHappens
<1>1. ConnInv => ToldWhatHappens
  <2> SUFFICES ASSUME ConnInv, NEW n \in DOMAIN responses
               PROVE  IF responses[n].keepalive = "no"
                      THEN n = Len(responses) /\ pc \in {"finish", "closed"}
                      ELSE n = Len(responses) =>
                             pc # "closed" \/ wire = <<>> \/ pipelines = "yes"
    BY DEF ToldWhatHappens
  <2>1. LoopInv /\ AnswerInv /\ ClientInv
    BY Kept
  <2>2. CASE responses[n].keepalive = "no"
    BY <2>1, <2>2 DEF AnswerInv
  <2>3. CASE responses[n].keepalive # "no"
    <3>1. SUFFICES ASSUME n = Len(responses), pc = "closed", wire # <<>>, pipelines # "yes"
                   PROVE  FALSE
      BY <2>3
    <3>2. n = requestCount /\ pipelines = "no"
      BY <2>1, <3>1 DEF LoopInv
    <3>3. responses[requestCount].keepalive = "no"
      BY <2>1, <3>1, <3>2 DEF ClientInv
    <3>. QED  BY <2>3, <3>2, <3>3
  <2>. QED  BY <2>2, <2>3
<1>. QED  BY <1>1, ConnInvariant, PTL

-----------------------------------------------------------------------------
(*                 The connection implements RpcConnection                  *)

(* The request that is about to be called, was, or has its result.          *)
Taken ==
  \/ pc \in {"body", "refill", "reading", "call"}
  \/ pc \in {"respond", "finish"} /\ session.status = 200

(* The present request has been called. *)
Called == pc = "respond" /\ calls # <<>> /\ calls[Len(calls)].of = R

(* What the response will say follows from the request and its number; and  *)
(* only what was called has a result, and it has that or a 500.             *)
HeardInv ==
  /\ ~Waiting => (session.serverDeniesKeepalive = "no" <=> R < keepalivemaxconn)
  /\ Taken => session.said = Q.headers /\ session.version = Q.version
  /\ pc = "respond" /\ session.status = 200 => Called
  /\ Called => session.status \in {200, 500}

(* What is known of the request from its header. *)
SameHeader ==
  /\ session'.said = session.said /\ session'.version = session.version
  /\ session'.serverDeniesKeepalive = session.serverDeniesKeepalive

(* A refusal leaves it ...                                                  *)
LEMMA FailsKeeps ==
  ASSUME session \in Sessions, NEW status, Fails(status)
  PROVE  SameHeader /\ session'.status = status /\ pc' = "respond"
<1>1. PICK w \in Clients :
        session' = [session EXCEPT !.status = status, !.clientIs = w]
  BY DEF Fails, ClientIs, Clients
<1>2. PICK s, z : s = session /\ z = session'
  OBVIOUS
<1>3. z = [s EXCEPT !.status = status, !.clientIs = w] /\ s \in Sessions
  BY <1>1, <1>2
<1>4. /\ z.said = s.said /\ z.version = s.version /\ z.status = status
      /\ z.serverDeniesKeepalive = s.serverDeniesKeepalive
  BY ONLY <1>3 DEF Sessions
<1>. QED  BY <1>2, <1>4 DEF Fails, SameHeader

(* ... and so does what is done with the body, down to the call.            *)
LEMMA BodyKeeps ==
  ASSUME session \in Sessions, TakeBody \/ RefillBuffer \/ ProcessCall
  PROVE  /\ SameHeader
         /\ RefillBuffer => pc' = "reading" \/ (pc' = "respond" /\ session'.status = 408)
         /\ ProcessCall =>
              \/ session'.status = 500
              \/ /\ session'.status = 200
                 /\ calls' = Append(calls, [of |-> session.of, body |-> session.body])
<1>1. CASE TakeBody
  <2>1. PICK b, x : session' = [session EXCEPT !.body = b, !.fault = x]
    BY <1>1 DEF TakeBody
  <2>2. PICK s, z : s = session /\ z = session'
    OBVIOUS
  <2>3. s \in Sessions /\ z = [s EXCEPT !.body = b, !.fault = x]
    BY <2>1, <2>2
  <2>4. /\ z.said = s.said /\ z.version = s.version
        /\ z.serverDeniesKeepalive = s.serverDeniesKeepalive
    BY ONLY <2>3 DEF Sessions
  <2>5. ~RefillBuffer /\ ~ProcessCall
    BY <1>1 DEF TakeBody, RefillBuffer, ProcessCall
  <2>. QED  BY <2>2, <2>4, <2>5 DEF SameHeader
<1>2. CASE RefillBuffer
  <2>1. PICK s, z : s = session /\ z = session'
    OBVIOUS
  <2>2. s \in Sessions
    BY <2>1
  <2>3. \/ pc' = "reading" /\ z = [s EXCEPT !.continueRequired = "no"]
        \/ pc' = "respond" /\ z = [s EXCEPT !.status = 408, !.clientIs = "gone"]
    BY <1>2, <2>1 DEF RefillBuffer
  <2>4. /\ z.said = s.said /\ z.version = s.version
        /\ z.serverDeniesKeepalive = s.serverDeniesKeepalive
        /\ pc' = "reading" \/ (pc' = "respond" /\ z.status = 408)
    <3>1. CASE pc' = "reading" /\ z = [s EXCEPT !.continueRequired = "no"]
      BY ONLY <2>2, <3>1 DEF Sessions
    <3>2. CASE pc' = "respond" /\ z = [s EXCEPT !.status = 408, !.clientIs = "gone"]
      BY ONLY <2>2, <3>2 DEF Sessions
    <3>. QED  BY <2>3, <3>1, <3>2
  <2>5. ~ProcessCall
    BY <1>2 DEF RefillBuffer, ProcessCall
  <2>. QED  BY <2>1, <2>4, <2>5 DEF SameHeader
<1>3. CASE ProcessCall
  <2>1. ~RefillBuffer
    BY <1>3 DEF RefillBuffer, ProcessCall
  <2>2. CASE Fails(500)
    BY <2>1, <2>2, FailsKeeps
  <2>3. CASE ~Fails(500)
    <3>1. PICK s, z : s = session /\ z = session'
      OBVIOUS
    <3>2. s \in Sessions /\ z = [s EXCEPT !.status = 200]
      BY <1>3, <2>3, <3>1 DEF ProcessCall
    <3>3. /\ z.said = s.said /\ z.version = s.version /\ z.status = 200
          /\ z.serverDeniesKeepalive = s.serverDeniesKeepalive
      BY ONLY <3>2 DEF Sessions
    <3>4. calls' = Append(calls, [of |-> session.of, body |-> session.body])
      BY <1>3, <2>3 DEF ProcessCall
    <3>. QED  BY <2>1, <3>1, <3>3, <3>4 DEF SameHeader
  <2>. QED  BY <2>2, <2>3
<1>. QED  BY <1>1, <1>2, <1>3

(* Reading the header leaves what was decided when the request was begun.   *)
LEMMA HeaderKeeps ==
  ASSUME session \in Sessions, ReadRequestLine \/ ReadHeader
  PROVE  /\ session'.serverDeniesKeepalive = session.serverDeniesKeepalive
         /\ pc' \in {"line", "headers", "dispatch", "respond"}
         /\ pc' = "respond" => session'.status = 400
<1>1. PICK s, z : s = session /\ z = session'
  OBVIOUS
<1>2. s \in Sessions
  BY <1>1
<1>3. CASE Fails(400)
  BY <1>3, FailsKeeps DEF SameHeader
<1>4. CASE UNCHANGED session /\ pc' \in {"line", "headers", "dispatch"}
  BY <1>4
<1>5. ASSUME NEW o, NEW v, z = [s EXCEPT !.of = o, !.version = v]
      PROVE  z.serverDeniesKeepalive = s.serverDeniesKeepalive
  BY ONLY <1>2, <1>5 DEF Sessions
<1>6. ASSUME NEW h, NEW c, z = [s EXCEPT !.said = h, !.continueRequired = c]
      PROVE  z.serverDeniesKeepalive = s.serverDeniesKeepalive
  BY ONLY <1>2, <1>6 DEF Sessions
<1>7. CASE ReadRequestLine
  <2>1. CASE ~Fails(400)
    <3>1. \/ UNCHANGED <<session, pc>> /\ pc = "line"
          \/ /\ \E o, v : session' = [session EXCEPT !.of = o, !.version = v]
             /\ pc' \in {"headers", "dispatch"}
      BY <1>7, <2>1 DEF ReadRequestLine
    <3>. QED  BY <1>1, <1>5, <3>1
  <2>. QED  BY <1>3, <2>1
<1>8. CASE ReadHeader
  <2>1. CASE ~Fails(400)
    <3>1. \/ UNCHANGED session /\ pc' = "dispatch"
          \/ /\ \E h, c : session' = [session EXCEPT !.said = h, !.continueRequired = c]
             /\ pc' = "headers"
      BY <1>8, <2>1 DEF ReadHeader
    <3>. QED  BY <1>1, <1>6, <3>1
  <2>. QED  BY <1>3, <2>1
<1>. QED  BY <1>7, <1>8

(* A request whose header is read and that is an RPC has been heard.        *)
LEMMA HeardAll ==
  ASSUME ConnInv, pc = "dispatch", IsRpc(Q)
  PROVE  session.said = Q.headers /\ session.version = Q.version
<1>1. LoopInv /\ PlaceInv /\ script \in Seq(Requests) /\ session \in Sessions
      /\ requestCount \in 0 .. Len(script)
  BY Kept
<1>2. Q.version # "none"
  BY DEF IsRpc, IsCall
<1>3. session.version = Q.version /\ HeardSome /\ Len(session.said) = Len(Q.headers)
  BY <1>1, <1>2 DEF PlaceInv
<1>4. Q \in Requests
  <2>1. R \in DOMAIN script
    BY <1>1 DEF LoopInv, Waiting
  <2>. QED  BY <1>1, <2>1, Present
<1>5. PICK a, b : a = session.said /\ b = Q.headers
  OBVIOUS
<1>6. a \in Seq(Headers) /\ b \in Seq(Headers) /\ Len(a) = Len(b)
  BY <1>1, <1>3, <1>4, <1>5, RequestParts DEF Sessions
<1>7. \A n \in 1 .. Len(a) : a[n] = b[n]
  BY <1>3, <1>5 DEF HeardSome
<1>8. a = b
  BY ONLY <1>6, <1>7, SeqEqual
<1>. QED  BY <1>3, <1>5, <1>8

(* Before its call a request has not been called. *)
LEMMA NotCalled ==
  ASSUME ConnInv, pc \notin {"respond", "finish"}, UNCHANGED <<requestCount, calls>>
  PROVE  ~Called'
<1>1. CallsInv /\ requestCount \in Nat
  BY Kept
<1>2. PICK c : c = calls
  OBVIOUS
<1>3. c \in Seq(CallRecords) /\ \A n \in DOMAIN c : c[n].of <= requestCount
  BY <1>1, <1>2 DEF CallsInv
<1>4. c # <<>> => Len(c) \in DOMAIN c /\ c[Len(c)].of \in Nat
  <2>1. c # <<>> => Len(c) \in DOMAIN c /\ c[Len(c)] \in CallRecords
    BY ONLY <1>3
  <2>. QED  BY <2>1 DEF CallRecords
<1>5. c # <<>> => c[Len(c)].of # requestCount + 1
  <2>1. SUFFICES ASSUME c # <<>> PROVE c[Len(c)].of # requestCount + 1
    OBVIOUS
  <2>2. c[Len(c)].of <= requestCount /\ c[Len(c)].of \in Nat
    BY <1>3, <1>4, <2>1
  <2>. QED  BY <1>1, <2>2
<1>. QED  BY <1>2, <1>5 DEF Called, R

(* A request fails: it is not called, nor was it. *)
LEMMA HeardFails ==
  ASSUME ConnInv, HeardInv, NEW status \in {400, 404, 405, 408, 411, 500, 505},
         Fails(status), pc \notin {"wait", "closed", "respond", "finish"},
         UNCHANGED <<script, requestCount, calls>>
  PROVE  HeardInv'
<1>1. SameHeader /\ session'.status = status /\ pc' = "respond" /\ status # 200
  BY Kept, FailsKeeps
<1>2. ~Called'
  BY <1>1, NotCalled
<1>. QED  BY <1>1, <1>2 DEF HeardInv, SameHeader, Taken, Waiting, R

(* What was heard of a request stays so until it is answered.               *)
LEMMA HeardStep ==
  ASSUME ConnInv, HeardInv, [Next]_vars
  PROVE  HeardInv'
<1>1. /\ LoopInv /\ PlaceInv /\ CallsInv /\ script \in Seq(Requests)
      /\ requestCount \in 0 .. Len(script) /\ requestCount \in Nat
      /\ session \in Sessions
  BY Kept
<1>2. CASE Send \/ ReadMore \/ UNCHANGED vars
  BY <1>2 DEF Send, ReadMore, vars, client, conn, HeardInv, Called, Taken, Waiting, Q, R
<1>3. CASE AwaitRequest
  <2>1. PICK last \in {"no", "yes"} :
          /\ session' = NewSession(last)
          /\ last = IF requestCount + 1 >= keepalivemaxconn THEN "yes" ELSE "no"
    BY <1>3 DEF AwaitRequest
  <2>2. last = "no" <=> R < keepalivemaxconn
    BY <1>1, <2>1 DEF R
  <2>3. session'.serverDeniesKeepalive = last
    BY <2>1, NewSessionTyped
  <2>4. pc' = "line" /\ requestCount' = requestCount
    BY <1>3 DEF AwaitRequest
  <2>. QED  BY <2>2, <2>3, <2>4 DEF HeardInv, Called, Taken, R
<1>4. CASE AwaitTimesOut \/ FinishRequest
  <2>1. pc' \in {"wait", "closed"}
    BY <1>4 DEF AwaitTimesOut, FinishRequest
  <2>. QED  BY <2>1 DEF HeardInv, Called, Taken, Waiting
<1>5. CASE HeaderTimesOut \/ BodyTimesOut
  BY <1>5, HeardFails DEF HeaderTimesOut, BodyTimesOut, InHeader, client
<1>6. CASE ReadRequestLine \/ ReadHeader
  <2>1. /\ session'.serverDeniesKeepalive = session.serverDeniesKeepalive
        /\ pc' \in {"line", "headers", "dispatch", "respond"}
        /\ pc' = "respond" => session'.status = 400
    BY <1>1, <1>6, HeaderKeeps
  <2>2. pc \in {"line", "headers"} /\ UNCHANGED <<script, requestCount, calls>>
    BY <1>6 DEF ReadRequestLine, ReadHeader, client
  <2>3. ~Called'
    BY <2>2, NotCalled
  <2>. QED  BY <2>1, <2>2, <2>3 DEF HeardInv, Taken, Waiting, R
<1>7. CASE Dispatch
  <2>1. pc = "dispatch" /\ UNCHANGED <<script, requestCount, calls>>
    BY <1>7 DEF Dispatch, client
  <2>2. CASE Fails(500)
    BY <2>1, <2>2, HeardFails
  <2>3. CASE Refusal = 0 /\ ~Fails(500)
    <3>1. pc' = "body" /\ session' = session
      BY <1>7, <2>3 DEF Dispatch
    <3>2. session.said = Q.headers /\ session.version = Q.version
      BY <2>1, <2>3, RefusalIsRight, HeardAll
    <3>. QED  BY <2>1, <3>1, <3>2 DEF HeardInv, Called, Waiting, Q, R
  <2>4. CASE Refusal # 0
    BY <1>7, <2>1, <2>4, RefusalIsRight, HeardFails DEF Dispatch
  <2>. QED  BY <2>2, <2>3, <2>4
<1>8. CASE TakeBody \/ RefillBuffer
  <2>1. SameHeader /\ (pc' = "respond" => session'.status = 408)
    <3>1. TakeBody => pc' # "respond"
      BY DEF TakeBody
    <3>. QED  BY <1>1, <1>8, <3>1, BodyKeeps
  <2>2. /\ pc \in {"body", "refill"} /\ pc' \in {"body", "call", "refill", "reading", "respond"}
        /\ UNCHANGED <<script, requestCount, calls>>
    BY <1>8 DEF TakeBody, RefillBuffer, client
  <2>3. ~Called'
    BY <2>2, NotCalled
  <2>. QED  BY <2>1, <2>2, <2>3 DEF HeardInv, SameHeader, Taken, Waiting, Q, R
<1>9. CASE ReadBody
  BY <1>9 DEF ReadBody, client, HeardInv, Called, Taken, Waiting, Q, R
<1>10. CASE ProcessCall
  <2>1. /\ SameHeader
        /\ \/ session'.status = 500
           \/ /\ session'.status = 200
              /\ calls' = Append(calls, [of |-> session.of, body |-> session.body])
    BY <1>1, <1>10, BodyKeeps
  <2>2. pc = "call" /\ pc' = "respond" /\ UNCHANGED <<script, requestCount>>
    BY <1>10 DEF ProcessCall, Fails, client
  <2>3. PICK e, c, g : /\ e = [of |-> R, body |-> session.body]
                       /\ c = calls /\ g = calls'
    OBVIOUS
  <2>4. c \in Seq(CallRecords) /\ e \in CallRecords /\ e.of = R /\ session.of = R
    <3>1. session.of = R /\ R \in Nat
      BY <1>1, <2>2 DEF PlaceInv, InBody, R
    <3>. QED  BY <1>1, <2>3, <3>1 DEF CallsInv, CallRecords, Sessions
  <2>5. g = Append(c, e) => g # <<>> /\ g[Len(g)] = e
    BY ONLY <2>4
  <2>6. session'.status = 200 => Called'
    BY <2>1, <2>2, <2>3, <2>4, <2>5 DEF Called, R
  <2>. QED  BY <2>1, <2>2, <2>6 DEF HeardInv, SameHeader, Taken, Waiting, Q, R
<1>11. CASE Respond
  BY <1>11 DEF Respond, client, HeardInv, Called, Taken, Waiting, Q, R
<1>12. CASE BodyFails
  BY <1>12, HeardFails DEF BodyFails, client
<1>. QED
  BY <1>2, <1>3, <1>4, <1>5, <1>6, <1>7, <1>8, <1>9, <1>10, <1>11, <1>12 DEF Next, ServerStep

(* What a response will say is known from the start of its request.         *)
LEMMA HeardInvariant ==
  Spec => []HeardInv
<1>1. Init => HeardInv
  BY DEF Init, HeardInv, Called, Taken, Waiting
<1>2. ConnInv /\ HeardInv /\ [Next]_vars => HeardInv'
  BY HeardStep
<1>. QED  BY <1>1, <1>2, ConnInvariant, PTL DEF Spec

(* What the client sees of it. *)
Rpcs == {r \in DOMAIN script : IsRpc(script[r])}
Lasting == {r \in DOMAIN script : KeepaliveBy(script[r].headers, script[r].version)}
Arrived == {r \in DOMAIN script : WhollySent(r)}
Executions == [n \in DOMAIN calls |-> calls[n].of]
Reply(answer) == [status |-> answer.status, keepalive |-> answer.keepalive]
Replies == [n \in DOMAIN responses |-> Reply(responses[n])]
Open == IF pc = "closed" THEN "no" ELSE "yes"
Unseen == UNCHANGED <<<<DOMAIN script, Rpcs, Lasting>>, Arrived, Executions, Replies, Open>>

(* The calls and the responses are seen one by one ...                      *)
LEMMA SeenOneByOne ==
  ASSUME LoopInv, CallsInv
  PROVE  /\ Len(Executions) = Len(calls) /\ (Executions # <<>> <=> calls # <<>>)
         /\ \A n \in DOMAIN calls : Executions[n] = calls[n].of
         /\ Len(Replies) = Len(responses) /\ Len(responses) \in Nat
         /\ Replies # <<>> <=> responses # <<>>
         /\ \A n \in DOMAIN responses : Replies[n] = Reply(responses[n])
<1>1. PICK c, e : c = calls /\ e = Executions
  OBVIOUS
<1>2. c \in Seq(CallRecords) /\ e = [n \in DOMAIN c |-> c[n].of]
  BY <1>1 DEF CallsInv, Executions
<1>3. Len(e) = Len(c) /\ (e # <<>> <=> c # <<>>)
  BY ONLY <1>2
<1>4. PICK a, b : a = responses /\ b = Replies
  OBVIOUS
<1>5. a \in Seq(Answers) /\ b = [n \in DOMAIN a |-> Reply(a[n])]
  BY <1>4 DEF LoopInv, Replies
<1>6. Len(b) = Len(a) /\ Len(a) \in Nat /\ (b # <<>> <=> a # <<>>)
  BY ONLY <1>5
<1>. QED  BY <1>1, <1>2, <1>3, <1>4, <1>5, <1>6

(* ... a call after those before it ...                                     *)
LEMMA OneMoreExecution ==
  ASSUME NEW c \in Seq(CallRecords), NEW e \in CallRecords, calls = c,
         calls' = Append(c, e)
  PROVE  Executions' = Append(Executions, e.of)
<1>1. PICK a, b : a = Executions' /\ b = Append(Executions, e.of)
  OBVIOUS
<1>2. PICK l \in Nat : l = Len(c)
  OBVIOUS
<1>3. /\ Append(c, e) \in Seq(CallRecords) /\ DOMAIN Append(c, e) = 1 .. l + 1
      /\ \A n \in 1 .. l : Append(c, e)[n] = c[n]
      /\ Append(c, e)[l + 1] = e
  BY ONLY <1>2, c \in Seq(CallRecords), e \in CallRecords, l \in Nat
<1>4. PICK g : g = Append(c, e)
  OBVIOUS
<1>5. a = [n \in 1 .. l + 1 |-> g[n].of]
  <2>1. a = [n \in DOMAIN calls' |-> calls'[n].of] /\ calls' = g
    BY <1>1, <1>4 DEF Executions
  <2>2. a = [n \in DOMAIN g |-> g[n].of]
    BY ONLY <2>1
  <2>. QED  BY <1>3, <1>4, <2>2
<1>6. PICK x : x = Executions
  OBVIOUS
<1>7. x = [n \in 1 .. l |-> c[n].of]
  BY <1>2, <1>6 DEF Executions
<1>8. /\ \A n \in 1 .. l : c[n].of \in Nat
      /\ e.of \in Nat
  <2>1. \A n \in 1 .. l : c[n] \in CallRecords
    BY <1>2
  <2>. QED  BY <2>1 DEF CallRecords
<1>9. x \in Seq(Nat) /\ Len(x) = l
  BY ONLY <1>7, <1>8, l \in Nat
<1>10. /\ b \in Seq(Nat) /\ Len(b) = l + 1 /\ b[l + 1] = e.of
       /\ \A n \in 1 .. l : b[n] = x[n]
  <2>1. b = Append(x, e.of)
    BY <1>1, <1>6
  <2>. QED  BY ONLY <1>8, <1>9, <2>1, l \in Nat
<1>11. \A n \in 1 .. l + 1 : a[n] = b[n] /\ a[n] \in Nat
  BY <1>3, <1>4, <1>5, <1>7, <1>8, <1>10
<1>12. a \in Seq(Nat) /\ Len(a) = l + 1
  BY ONLY <1>5, <1>11, l \in Nat
<1>13. a = b
  BY ONLY <1>10, <1>11, <1>12, SeqEqual
<1>. QED  BY <1>1, <1>13

(* ... and a response after those before it.                                *)
LEMMA OneMoreReply ==
  ASSUME NEW c \in Seq(Answers), NEW e \in Answers, responses = c,
         responses' = Append(c, e)
  PROVE  Replies' = Append(Replies, Reply(e))
<1> DEFINE S == [status : {0, 200, 400, 404, 405, 408, 411, 500, 505}, keepalive : {"no", "yes"}]
<1>1. PICK a, b : a = Replies' /\ b = Append(Replies, Reply(e))
  OBVIOUS
<1>2. PICK l \in Nat : l = Len(c)
  OBVIOUS
<1>3. /\ Append(c, e) \in Seq(Answers) /\ DOMAIN Append(c, e) = 1 .. l + 1
      /\ \A n \in 1 .. l : Append(c, e)[n] = c[n]
      /\ Append(c, e)[l + 1] = e
  BY ONLY <1>2, c \in Seq(Answers), e \in Answers, l \in Nat
<1>4. PICK g : g = Append(c, e)
  OBVIOUS
<1>5. a = [n \in 1 .. l + 1 |-> Reply(g[n])]
  BY <1>1, <1>3, <1>4 DEF Replies, Reply
<1>6. PICK x : x = Replies
  OBVIOUS
<1>7. x = [n \in 1 .. l |-> Reply(c[n])]
  BY <1>2, <1>6 DEF Replies
<1>8. /\ \A n \in 1 .. l : Reply(c[n]) \in S
      /\ Reply(e) \in S
  <2>1. \A y \in Answers : Reply(y) \in S
    BY DEF Answers, Reply
  <2>2. \A n \in 1 .. l : c[n] \in Answers
    BY <1>2
  <2>. QED  BY <2>1, <2>2
<1> HIDE DEF S
<1>9. x \in Seq(S) /\ Len(x) = l
  BY ONLY <1>7, <1>8, l \in Nat
<1>10. /\ b \in Seq(S) /\ Len(b) = l + 1 /\ b[l + 1] = Reply(e)
       /\ \A n \in 1 .. l : b[n] = x[n]
  <2>1. b = Append(x, Reply(e))
    BY <1>1, <1>6
  <2>. QED  BY ONLY <1>8, <1>9, <2>1, l \in Nat
<1>11. \A n \in 1 .. l + 1 : a[n] = b[n] /\ a[n] \in S
  BY <1>3, <1>4, <1>5, <1>7, <1>8, <1>10
<1>12. a \in Seq(S) /\ Len(a) = l + 1
  BY ONLY <1>5, <1>11, l \in Nat
<1>13. a = b
  BY ONLY <1>10, <1>11, <1>12, SeqEqual
<1>. QED  BY <1>1, <1>13

(* Of an RPC of the client: when it is being executed, and when it may be.  *)
LEMMA SeenNow ==
  ASSUME ConnInv, HeardInv
  PROVE  /\ Rpc!Present = Len(responses) + 1
         /\ Rpc!Executed <=> Called
         /\ pc = "call" \/ (pc = "respond" /\ ~Called) => Rpc!MayServe /\ Rpc!Present = R
         /\ pc = "respond" => Rpc!Present = R
<1>1. /\ LoopInv /\ CallsInv /\ AnswerInv /\ requestCount \in Nat
  BY Kept
<1>2. /\ Len(Executions) = Len(calls) /\ (Executions # <<>> <=> calls # <<>>)
      /\ \A n \in DOMAIN calls : Executions[n] = calls[n].of
      /\ Len(Replies) = Len(responses) /\ Len(responses) \in Nat
      /\ Replies # <<>> <=> responses # <<>>
      /\ \A n \in DOMAIN responses : Replies[n] = Reply(responses[n])
  BY <1>1, SeenOneByOne
<1>3. Rpc!Present = Len(Replies) + 1
  BY DEF Rpc!Present, Replies, Reply
<1>4. /\ Rpc!Present = Len(responses) + 1
      /\ pc \in {"call", "respond"} => Rpc!Present = R
  BY <1>1, <1>2, <1>3 DEF LoopInv, R
<1>5. Rpc!Executed <=> Executions # <<>> /\ Executions[Len(Executions)] = Rpc!Present
  BY DEF Rpc!Executed, Executions
<1>6. calls # <<>> => Len(calls) \in DOMAIN calls /\ calls[Len(calls)].of \in Nat
  <2>1. PICK c : c = calls
    OBVIOUS
  <2>2. c \in Seq(CallRecords)
    BY <1>1, <2>1 DEF CallsInv
  <2>3. c # <<>> => Len(c) \in DOMAIN c /\ c[Len(c)] \in CallRecords
    BY ONLY <2>2
  <2>. QED  BY <2>1, <2>3 DEF CallRecords
<1>7. Rpc!Executed <=> Called
  <2>1. CASE pc = "respond"
    BY <1>2, <1>4, <1>5, <1>6, <2>1 DEF Called
  <2>2. CASE pc # "respond"
    <3>1. SUFFICES ASSUME calls # <<>> PROVE calls[Len(calls)].of < Len(responses) + 1
      BY <1>2, <1>4, <1>5, <1>6, <2>2 DEF Called
    <3>. QED  BY <1>1, <1>6, <2>2, <3>1 DEF CallsInv, LoopInv, R
  <2>. QED  BY <2>1, <2>2
<1>8. ASSUME pc = "call" \/ (pc = "respond" /\ ~Called)
      PROVE  Rpc!MayServe
  <2>1. ~Rpc!Executed
    BY <1>7, <1>8 DEF Called
  <2>2. R \in DOMAIN script /\ Rpc!Present = R /\ Open = "yes"
    BY <1>1, <1>4, <1>8 DEF LoopInv, Waiting, Open
  <2>3. ASSUME Replies # <<>> PROVE Replies[Len(Replies)].keepalive = "yes"
    <3>1. responses # <<>>
      BY <1>2, <2>3
    <3>2. PICK a : a = responses
      OBVIOUS
    <3>3. a \in Seq(Answers) /\ a # <<>>
      BY <1>1, <3>1, <3>2 DEF LoopInv
    <3>4. Len(a) \in DOMAIN a /\ a[Len(a)] \in Answers
      BY ONLY <3>3
    <3>5. a[Len(a)].keepalive \in {"no", "yes"}
      BY <3>4 DEF Answers
    <3>6. a[Len(a)].keepalive # "no"
      <4>1. \A n \in DOMAIN responses : responses[n].keepalive = "no" => pc \in {"finish", "closed"}
        BY <1>1 DEF AnswerInv
      <4>. QED  BY <1>8, <3>2, <3>4, <4>1
    <3>7. Replies[Len(Replies)] = Reply(a[Len(a)])
      BY <1>2, <3>2, <3>4
    <3>. QED  BY <3>5, <3>6, <3>7 DEF Reply
  <2>. QED  BY <2>1, <2>2, <2>3 DEF Rpc!MayServe, Open, Replies, Reply
<1>. QED  BY <1>4, <1>7, <1>8

(* What is sent stays sent. *)
LEMMA ArrivedStays ==
  ASSUME StreamInv, UNCHANGED <<script, sent>>
  PROVE  Arrived' = Arrived
<1>1. \A r \in DOMAIN script : EndOf(r)' = EndOf(r)
  <2>1. DOMAIN script \subseteq 0 .. Len(script)
    BY DEF StreamInv
  <2>. QED  BY <2>1, SameScript
<1>. QED  BY <1>1 DEF Arrived, WhollySent

(* The client completes a request, or is still in one.                      *)
LEMMA SendArrives ==
  ASSUME StreamInv, Send
  PROVE  Arrived \subseteq Arrived' /\ UNCHANGED <<script, calls, responses, pc>>
<1>1. /\ sent' = sent + 1 /\ UNCHANGED <<script, calls, responses, pc>>
  BY DEF Send
<1>2. \A r \in DOMAIN script : EndOf(r)' = EndOf(r) /\ EndOf(r) \in Nat
  <2>1. DOMAIN script \subseteq 0 .. Len(script)
    BY DEF StreamInv
  <2>. QED  BY <1>1, <2>1, SameScript, EndsTyped DEF StreamInv
<1>3. sent \in Nat
  BY DEF StreamInv
<1>. QED  BY <1>1, <1>2, <1>3 DEF Arrived, WhollySent

(* No call is made of a part of a request. *)
LEMMA CalledWhole ==
  ASSUME ConnInv, pc = "call"
  PROVE  R \in Rpcs \cap Arrived
<1>1. /\ StreamInv /\ LoopInv /\ PlaceInv /\ script \in Seq(Requests)
      /\ requestCount \in 0 .. Len(script)
  BY Kept
<1>2. R \in DOMAIN script
  BY <1>1 DEF LoopInv, Waiting
<1>3. IsRpc(Q) /\ Into = HeadLen + Q.body
  BY <1>1 DEF PlaceInv, InBody
<1>4. EndOf(R) = EndOf(requestCount) + HeadLen + Q.body
      /\ EndOf(requestCount) \in Nat /\ HeadLen \in Nat /\ Q.body \in Nat
  BY <1>1, <1>2, Present
<1>5. /\ Pos = EndOf(requestCount) + Into
      /\ Pos + (Len(buffer) - bufferpos) + Len(wire) = sent
      /\ bufferpos \in Nat /\ Len(buffer) \in Nat /\ bufferpos <= Len(buffer)
      /\ Len(wire) \in Nat /\ Pos \in Nat
  BY <1>1, PosTyped
<1>6. sent >= EndOf(R)
  <2>1. PICK f \in Nat, h \in Nat, b \in Nat, p \in Nat, lb \in Nat, lw \in Nat, m \in Nat :
          /\ f = EndOf(requestCount) /\ h = HeadLen /\ b = Q.body /\ p = Pos
          /\ lb = Len(buffer) /\ lw = Len(wire) /\ m = bufferpos
    BY <1>4, <1>5
  <2>2. EndOf(R) = f + h + b /\ p = f + (h + b) /\ p + (lb - m) + lw = sent /\ m <= lb
    BY <1>3, <1>4, <1>5, <2>1
  <2>. QED  BY <2>2
<1>. QED  BY <1>2, <1>3, <1>6 DEF Rpcs, Arrived, WhollySent, Q

(* A call executes the present request ... *)
LEMMA RpcExecutes ==
  ASSUME ConnInv, HeardInv, ProcessCall, ~UNCHANGED calls
  PROVE  Rpc!Execute
<1>1. /\ StreamInv /\ PlaceInv /\ LoopInv /\ CallsInv /\ session \in Sessions
  BY Kept
<1>2. /\ pc = "call" /\ pc' = "respond"
      /\ calls' = Append(calls, [of |-> session.of, body |-> session.body])
      /\ UNCHANGED <<script, sent, responses>>
  BY DEF ProcessCall, Fails, client
<1>3. session.of = R
  BY <1>1, <1>2 DEF PlaceInv, InBody
<1>4. PICK c, e : c = calls /\ e = [of |-> session.of, body |-> session.body]
  OBVIOUS
<1>5. c \in Seq(CallRecords) /\ e \in CallRecords /\ e.of = R
  BY <1>1, <1>3, <1>4 DEF CallsInv, CallRecords, Sessions
<1>6. Executions' = Append(Executions, R)
  <2>1. Executions' = Append(Executions, e.of)
    BY <1>2, <1>4, <1>5, OneMoreExecution
  <2>. QED  BY <1>5, <2>1
<1>7. Rpc!MayServe /\ Rpc!Present = R /\ R \in Rpcs \cap Arrived
  BY <1>2, SeenNow, CalledWhole
<1>8. Open' = Open /\ Arrived' = Arrived /\ Replies' = Replies
  BY <1>1, <1>2, ArrivedStays DEF Open, Replies
<1>9. Rpc!Execute <=>
        /\ Rpc!MayServe
        /\ Rpc!Present \in Rpcs \cap Arrived
        /\ Executions' = Append(Executions, Rpc!Present)
        /\ UNCHANGED <<<<DOMAIN script, Rpcs, Lasting>>, Arrived, Replies, Open>>
  BY DEF Rpc!Execute, Rpc!client, Rpcs, Lasting, Arrived, Executions, Replies, Reply, Open
<1>10. UNCHANGED <<DOMAIN script, Rpcs, Lasting>>
  BY <1>2 DEF Rpcs, Lasting
<1>. QED  BY <1>6, <1>7, <1>8, <1>9, <1>10

(* ... and it is answered with its result or a 500, or refused without one. *)
LEMMA RpcAnswers ==
  ASSUME ConnInv, HeardInv, Respond
  PROVE  Rpc!Succeed \/ Rpc!FailAfterCall \/ Rpc!Refuse
<1>1. /\ StreamInv /\ PlaceInv /\ LoopInv /\ CallsInv /\ session \in Sessions
  BY Kept
<1>2. PICK a : a = [of |-> session.of, status |-> session.status,
                    keepalive |-> HTTPKeepalive, clientIs |-> session.clientIs]
  OBVIOUS
<1>3. /\ pc = "respond" /\ pc' = "finish"
      /\ responses' = Append(responses, a)
      /\ UNCHANGED <<script, sent, calls>>
  BY <1>2 DEF Respond, client
<1>4. a \in Answers
  BY <1>1, <1>2, KeepaliveSaid DEF Sessions, Answers
<1>5. Reply(a) = [status |-> session.status, keepalive |-> HTTPKeepalive]
  BY <1>2 DEF Reply
<1>6. Replies' = Append(Replies, [status |-> session.status, keepalive |-> HTTPKeepalive])
  <2>1. responses \in Seq(Answers)
    BY <1>1 DEF LoopInv
  <2>2. PICK c \in Seq(Answers) : c = responses
    BY <2>1
  <2>3. Replies' = Append(Replies, Reply(a))
    BY <1>3, <1>4, <2>2, OneMoreReply
  <2>. QED  BY <1>5, <2>3
<1>7. UNCHANGED <<<<DOMAIN script, Rpcs, Lasting>>, Arrived, Executions, Open>>
  BY <1>1, <1>3, ArrivedStays DEF Rpcs, Lasting, Executions, Open
<1>8. R \in DOMAIN script /\ Rpc!Present = R
  BY <1>1, <1>3, SeenNow DEF LoopInv, Waiting
<1>9. CASE session.status = 200
  <2>1. Rpc!Executed
    BY <1>3, <1>9, SeenNow DEF HeardInv
  <2>2. session.said = script[R].headers /\ session.version = script[R].version
    BY <1>3, <1>9 DEF HeardInv, Taken, Q
  <2>3. WantsKeepalive <=> R \in Lasting
    BY <1>8, <2>2 DEF WantsKeepalive, Lasting
  <2>4. session.serverDeniesKeepalive = "no" <=> R < keepalivemaxconn
    BY <1>3 DEF HeardInv, Waiting
  <2>5. HTTPKeepalive = IF R \in Lasting /\ R < keepalivemaxconn THEN "yes" ELSE "no"
    BY <1>9, <2>3, <2>4 DEF HTTPKeepalive
  <2>6. Rpc!Succeed <=>
          /\ Rpc!Executed
          /\ Replies' = Append(Replies,
               [status |-> 200,
                keepalive |-> IF Rpc!Present \in Lasting /\ Rpc!Present < keepalivemaxconn
                              THEN "yes" ELSE "no"])
          /\ UNCHANGED <<<<DOMAIN script, Rpcs, Lasting>>, Arrived, Executions, Open>>
    BY DEF Rpc!Succeed, Rpc!Answer, Rpc!client, Rpcs, Lasting, Arrived, Executions, Replies,
           Reply, Open
  <2>. QED  BY <1>6, <1>7, <1>8, <1>9, <2>1, <2>5, <2>6
<1>10. CASE session.status # 200
  <2>1. Judged(session.of, session.status, session.clientIs, R) /\ session.status >= 400
    BY <1>1, <1>3, <1>10 DEF PlaceInv
  <2>2. session.status \in {400, 404, 405, 408, 411, 500, 505}
    <3>1. session.status \in {0, 200, 400, 404, 405, 408, 411, 500, 505}
      BY <1>1 DEF Sessions
    <3>. QED  BY <1>10, <2>1, <3>1 DEF Judged
  <2>3. HTTPKeepalive = "no"
    <3>1. ~(session.status < 400)
      BY <2>2
    <3>. QED  BY <3>1 DEF HTTPKeepalive
  <2>4. CASE Called
    <3>1. Rpc!Executed /\ session.status = 500
      BY <1>10, <2>4, SeenNow DEF HeardInv
    <3>2. Rpc!FailAfterCall <=>
            /\ Rpc!Executed
            /\ Replies' = Append(Replies, [status |-> 500, keepalive |-> "no"])
            /\ UNCHANGED <<<<DOMAIN script, Rpcs, Lasting>>, Arrived, Executions, Open>>
      BY DEF Rpc!FailAfterCall, Rpc!Answer, Rpc!client, Rpcs, Lasting, Arrived, Executions,
             Replies, Reply, Open
    <3>. QED  BY <1>6, <1>7, <2>3, <3>1, <3>2
  <2>5. CASE ~Called
    <3>1. Rpc!MayServe
      BY <1>3, <2>5, SeenNow
    <3>2. R \in Rpcs => session.status \in {408, 500}
      BY <1>10, <2>1 DEF Rpcs, Judged
    <3>3. Rpc!Refuse <=>
            /\ Rpc!MayServe
            /\ \E status \in {400, 404, 405, 408, 411, 500, 505} :
                 /\ Rpc!Present \in Rpcs => status \in {408, 500}
                 /\ Replies' = Append(Replies, [status |-> status, keepalive |-> "no"])
            /\ UNCHANGED <<<<DOMAIN script, Rpcs, Lasting>>, Arrived, Executions, Open>>
      BY DEF Rpc!Refuse, Rpc!Answer, Rpc!client, Rpcs, Lasting, Arrived, Executions, Replies,
             Reply, Open
    <3>. QED  BY <1>6, <1>7, <1>8, <2>2, <2>3, <3>1, <3>2, <3>3
  <2>. QED  BY <2>4, <2>5
<1>. QED  BY <1>9, <1>10

(* It is closed when no call waits for its answer. *)
LEMMA RpcCloses ==
  ASSUME ConnInv, HeardInv, pc \in {"wait", "finish"}, pc' = "closed",
         UNCHANGED <<script, sent, calls, responses>>
  PROVE  Rpc!Close
<1>1. StreamInv
  BY Kept
<1>2. ~Rpc!Executed
  BY SeenNow DEF Called
<1>3. UNCHANGED <<<<DOMAIN script, Rpcs, Lasting>>, Arrived, Executions, Replies>>
  BY <1>1, ArrivedStays DEF Rpcs, Lasting, Executions, Replies
<1>4. Open = "yes" /\ Open' = "no"
  BY DEF Open
<1>5. Rpc!Close <=>
        /\ Open = "yes" /\ ~Rpc!Executed /\ Open' = "no"
        /\ UNCHANGED <<<<DOMAIN script, Rpcs, Lasting>>, Arrived, Executions, Replies>>
  BY DEF Rpc!Close, Rpc!client, Rpcs, Lasting, Arrived, Executions, Replies, Reply, Open
<1>. QED  BY <1>2, <1>3, <1>4, <1>5

(* Within a request, down to the call, the client sees nothing.             *)
LEMMA RpcUnseen ==
  ASSUME ConnInv, UNCHANGED <<script, sent, calls, responses>>,
         pc = "closed" <=> pc' = "closed"
  PROVE  Unseen
<1>1. StreamInv
  BY Kept
<1>. QED  BY <1>1, ArrivedStays DEF Unseen, Rpcs, Lasting, Executions, Replies, Open

(* Every step of the connection is a step of an RpcConnection, or none.     *)
LEMMA RpcStep ==
  ASSUME ConnInv, HeardInv, [Next]_vars
  PROVE  Rpc!Next \/ Unseen
<1>1. CASE Send
  <2>1. Arrived \subseteq Arrived' /\ UNCHANGED <<script, calls, responses, pc>>
    BY <1>1, SendArrives, Kept
  <2>2. UNCHANGED <<<<DOMAIN script, Rpcs, Lasting>>, Executions, Replies, Open>>
    BY <2>1 DEF Rpcs, Lasting, Executions, Replies, Open
  <2>3. Rpc!Arrive <=>
          /\ Arrived \subseteq Arrived' /\ Arrived' # Arrived
          /\ UNCHANGED <<<<DOMAIN script, Rpcs, Lasting>>, Executions, Replies, Open>>
    BY DEF Rpc!Arrive, Rpc!client, Rpcs, Lasting, Arrived, Executions, Replies, Reply, Open
  <2>. QED  BY <2>1, <2>2, <2>3 DEF Rpc!Next, Unseen
<1>2. CASE AwaitTimesOut
  BY <1>2, RpcCloses DEF AwaitTimesOut, client, Rpc!Next
<1>3. CASE FinishRequest
  <2>1. pc = "finish" /\ pc' \in {"wait", "closed"} /\ UNCHANGED <<script, sent, calls, responses>>
    BY <1>3 DEF FinishRequest, client
  <2>. QED  BY <2>1, RpcCloses, RpcUnseen DEF Rpc!Next
<1>4. CASE ProcessCall
  <2>1. CASE UNCHANGED calls
    BY <1>4, <2>1, RpcUnseen DEF ProcessCall, Fails, client
  <2>2. CASE ~UNCHANGED calls
    BY <1>4, <2>2, RpcExecutes DEF Rpc!Next
  <2>. QED  BY <2>1, <2>2
<1>5. CASE Respond
  BY <1>5, RpcAnswers DEF Rpc!Next
<1>6. CASE AwaitRequest \/ ReadMore \/ ReadBody
  BY <1>6, RpcUnseen DEF AwaitRequest, ReadMore, InHeader, ReadBody, client
<1>7. CASE HeaderTimesOut \/ BodyTimesOut \/ BodyFails \/ Dispatch
  BY <1>7, RpcUnseen DEF HeaderTimesOut, BodyTimesOut, BodyFails, Dispatch, InHeader, Fails,
                         client
<1>8. CASE ReadRequestLine \/ ReadHeader
  <2>1. pc' \in {"line", "headers", "dispatch", "respond"}
    BY <1>8, HeaderKeeps, Kept
  <2>2. pc # "closed" /\ UNCHANGED <<script, sent, calls, responses>>
    BY <1>8 DEF ReadRequestLine, ReadHeader, client
  <2>. QED  BY <2>1, <2>2, RpcUnseen
<1>9. CASE TakeBody \/ RefillBuffer
  BY <1>9, RpcUnseen DEF TakeBody, RefillBuffer, client
<1>10. CASE UNCHANGED vars
  BY <1>10, RpcUnseen DEF vars, client
<1>. QED  BY <1>1, <1>2, <1>3, <1>4, <1>5, <1>6, <1>7, <1>8, <1>9, <1>10 DEF Next, ServerStep

(* At first nothing has arrived: every request has a line at least.         *)
LEMMA RpcBegins ==
  ASSUME Init
  PROVE  Rpc!Init
<1>1. ConnInv
  BY InitInv
<1>2. script \in Seq(Requests) /\ sent = 0 /\ calls = <<>> /\ responses = <<>> /\ pc = "wait"
  BY <1>1, Kept DEF Init
<1>3. ASSUME NEW r \in DOMAIN script PROVE r \notin Arrived
  <2>1. /\ r \in Nat /\ script[r] \in Requests
        /\ Len(Header(r, script[r])) \in Nat
        /\ Len(Whole(r)) = Len(Header(r, script[r])) + script[r].body
    BY <1>2, WholeParts
  <2>2. PICK q \in Requests : q = script[r]
    BY <2>1
  <2>3. /\ q.version = "none" => Len(Header(r, q)) = Len(q.before) + 1
        /\ q.version # "none" => Len(Header(r, q)) = Len(q.before) + Len(q.headers) + 2
    <3>1. PICK t : t = Header(r, q)
      OBVIOUS
    <3>2. /\ q.version = "none" => Len(t) = Len(q.before) + 1
          /\ q.version # "none" => Len(t) = Len(q.before) + Len(q.headers) + 2
      <4>1. r \in Nat
        BY <2>1
      <4>. QED  BY ONLY <3>1, <4>1, q \in Requests, HeaderParts
    <3>. QED  BY <3>1, <3>2
  <2>4. Len(q.before) \in Nat /\ q.body \in Nat /\ Len(q.headers) \in Nat
    BY RequestParts
  <2>5. EndOf(r) = EndOf(r - 1) + Len(Whole(r)) /\ EndOf(r - 1) \in Nat /\ EndOf(r) \in Nat
    <3>1. r - 1 \in 0 .. Len(script) /\ r \in 0 .. Len(script)
      BY <1>2
    <3>. QED  BY <1>2, <3>1, StreamOf, EndsTyped
  <2>6. Len(Whole(r)) \in Nat /\ Len(Whole(r)) > 0
    <3>1. PICK h \in Nat, b \in Nat : h = Len(Header(r, q)) /\ b = q.body
      BY <2>1, <2>2, <2>4
    <3>2. Len(Whole(r)) = h + b
      BY <2>1, <2>2, <3>1
    <3>3. h > 0
      <4>1. PICK m \in Nat, l \in Nat : m = Len(q.before) /\ l = Len(q.headers)
        BY <2>4
      <4>2. h = m + 1 \/ h = m + l + 2
        BY <2>3, <3>1, <4>1
      <4>. QED  BY ONLY <4>2, m \in Nat, l \in Nat
    <3>. QED  BY <3>1, <3>2, <3>3
  <2>7. EndOf(r) > 0
    BY <2>5, <2>6
  <2>. QED  BY <1>2, <2>5, <2>7 DEF Arrived, WhollySent
<1>4. Arrived = {}
  BY <1>3 DEF Arrived
<1>5. Executions = <<>> /\ Replies = <<>> /\ Open = "yes"
  BY <1>2 DEF Executions, Replies, Open
<1>6. Rpc!Init <=>
        /\ Rpcs \cup Lasting \subseteq DOMAIN script
        /\ Arrived = {} /\ Executions = <<>> /\ Replies = <<>> /\ Open = "yes"
  BY DEF Rpc!Init, Rpcs, Lasting, Arrived, Executions, Replies, Reply, Open
<1>7. Rpcs \cup Lasting \subseteq DOMAIN script
  BY DEF Rpcs, Lasting
<1>. QED  BY <1>4, <1>5, <1>6, <1>7

(* For its client the connection is an RpcConnection: a call is made of a   *)
(* request that has arrived whole, once and in order; it is answered, with  *)
(* its result or with a 500, before the connection can be closed; and after *)
(* a result the connection stays open exactly if the client wants it to and *)
(* the limit on requests allows it.                                         *)
THEOREM ConnImplements == Spec => RpcSpec
<1>1. Init => Rpc!Init
  BY RpcBegins
<1>2. ConnInv /\ HeardInv /\ [Next]_vars => [Rpc!Next]_(Rpc!vars)
  BY RpcStep DEF Unseen, Rpcs, Lasting, Arrived, Executions, Replies, Reply, Open, Rpc!vars,
                 Rpc!client
<1>. QED  BY <1>1, <1>2, ConnInvariant, HeardInvariant, PTL DEF Spec, RpcSpec, Rpc!Spec
=============================================================================

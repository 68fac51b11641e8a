--------------------------- MODULE HttpConnection ---------------------------
(***************************************************************************)
(* One connection of the Abyss server, from serverFunc down: reading into  *)
(* the connection's buffer, the header of a request, its body, the         *)
(* XML-RPC handler and the response (lib/abyss/src/conn.c, http.c,         *)
(* session.c, response.c, server.c and src/xmlrpc_server_abyss.c).         *)
(*                                                                         *)
(* The client's stream is a sequence of pieces: a request line, header     *)
(* lines, each perhaps with a first part that comes on its own, the blank  *)
(* line, pieces of body.  A read takes all the pieces that have arrived    *)
(* and fit in the buffer, so it ends in a line, in a body, or in the next  *)
(* request.  A read fails when nothing arrives in time, or when the buffer *)
(* has no space; a header has a deadline as well.  The client is external: *)
(* it sends when it likes, stops where it likes, and sends a request       *)
(* before it has the last response only if it pipelines.                   *)
(***************************************************************************)
EXTENDS Integers, Sequences, SequencesExt, FiniteSetsExt

CONSTANTS
  Scripts,           (* the requests a client may make on a connection      *)
  BUFFER_SIZE,       (* of the connection, in pieces: 4096 bytes            *)
  keepalivemaxconn,  (* requests per connection: 30                         *)
  XML_SIZE_LIMIT     (* pieces of body xmlrpc_limit_get allows              *)

(* A request is known by the version, method and target of its request line *)
(* ("bad" is no version, "invalid" no URI), by what its header lines say,   *)
(* as far as the server cares ("bad" has no colon), by the blank lines      *)
(* before it and the pieces of its body.  A "part" is the beginning of the  *)
(* line after it, where a read can end.                                     *)
Headers == {"content-type", "content-length", "keep-alive", "close", "expect",
            "other", "bad", "part"}

Requests == [version : {"none", "1.0", "1.1", "2.0", "bad"},
             method : {"post", "get"},
             target : {"rpc", "elsewhere", "invalid"},
             before : Seq({"blank", "part"}),
             headers : Seq(Headers),
             body : Nat]

PartsAreOfLines(q) ==
  /\ \A n \in 2 .. Len(q.before) : q.before[n - 1] = "part" => q.before[n] = "part"
  /\ q.headers # <<>> => q.headers[Len(q.headers)] # "part"

ASSUME ConnectionAssumption ==
  /\ Scripts \subseteq Seq(Requests)
  /\ \A s \in Scripts : \A n \in DOMAIN s : PartsAreOfLines(s[n])
  /\ BUFFER_SIZE \in Nat \ {0, 1}
  /\ keepalivemaxconn \in Nat \ {0}
  /\ XML_SIZE_LIMIT \in Nat

VARIABLES
  script,       (* the requests of this client, in order                    *)
  pipelines,    (* "yes" if it does not wait for responses                  *)
  sent,         (* pieces of its stream it has sent                         *)
  wire,         (* pieces that have arrived and have not been read          *)
  buffer,       (* connectionP->buffer, up to buffersize                    *)
  bufferpos,    (* pieces of it that are consumed                           *)
  pc,           (* where serverFunc is                                      *)
  requestCount,
  session,      (* the TSession of the present request                      *)
  continued,    (* the requests whose body was asked for by a 100           *)
  calls,        (* what was given to the registry, in order                 *)
  responses     (* what was sent to the client, in order                    *)

client == <<script, pipelines, sent>>
conn == <<buffer, bufferpos, wire>>
vars == <<client, conn, pc, requestCount, session, continued, calls, responses>>

-----------------------------------------------------------------------------
(*                        External: the client                              *)

Piece(r, what) == [of |-> r, what |-> what]
Header(r, q) ==
  [n \in DOMAIN q.before |-> Piece(r, q.before[n])]
    \o <<Piece(r, "line")>>
    \o (IF q.version = "none" THEN <<>>
        ELSE [n \in DOMAIN q.headers |-> Piece(r, q.headers[n])]
               \o <<Piece(r, "blank")>>)
Body(r, q) == [n \in 1 .. q.body |-> Piece(r, "body")]

Stream == FlattenSeq([r \in DOMAIN script |-> Header(r, script[r]) \o Body(r, script[r])])

(* How much of the stream has been sent when request r has. *)
EndOf(r) == Len(FlattenSeq([n \in 1 .. r |-> Header(n, script[n]) \o Body(n, script[n])]))
WhollySent(r) == sent >= EndOf(r)

Answered(r) == Len(responses) >= r
ToldToGoOn(r) == Answered(r) /\ responses[r].keepalive = "yes"

(* It waits for the last response, and with a body for the 100 it expects.  *)
MaySend ==
  /\ sent < Len(Stream)
  /\ LET piece == Stream[sent + 1] IN
       /\ pipelines = "no" /\ piece.of > 1 => ToldToGoOn(piece.of - 1)
       /\ piece.what = "body" /\ Contains(script[piece.of].headers, "expect") =>
            piece.of \in continued

(* What it sends once the connection is closed reaches nobody. *)
Send ==
  /\ pc # "closed"
  /\ MaySend
  /\ sent' = sent + 1
  /\ wire' = Append(wire, Stream[sent + 1])
  /\ UNCHANGED <<script, pipelines, buffer, bufferpos, pc, requestCount, session,
                 continued, calls, responses>>

-----------------------------------------------------------------------------
(*                      The connection's buffer                             *)

Space == BUFFER_SIZE - Len(buffer) - 1

(* ConnRead succeeds: as much as has arrived and fits, less one for a NUL.  *)
(* (A recv that fails would count as a read of very many bytes.  It does    *)
(* not fail: FIONREAD has just counted bytes nobody else reads.)            *)
ConnRead ==
  LET n == Min({Len(wire), Space}) IN
    /\ n > 0
    /\ buffer' = buffer \o SubSeq(wire, 1, n)
    /\ wire' = SubSeq(wire, n + 1, Len(wire))

(* It fails: nothing arrives in time, or what arrives does not fit, and it  *)
(* tries to read nothing until its time is over.                            *)
CantRead == wire = <<>> \/ Space <= 0

(* ConnReadInit: what is consumed goes, the rest moves to the front.        *)
ConnReadInit ==
  /\ buffer' = SubSeq(buffer, bufferpos + 1, Len(buffer))
  /\ bufferpos' = 0

NewSession(last) ==
  [of |-> 0, version |-> "none", said |-> <<>>, status |-> 0,
   serverDeniesKeepalive |-> last, continueRequired |-> "no", body |-> <<>>,
   fault |-> "no", clientIs |-> "sending"]

Init ==
  /\ script \in Scripts
  /\ pipelines \in {"no", "yes"}
  /\ sent = 0
  /\ wire = <<>>
  /\ buffer = <<>>
  /\ bufferpos = 0
  /\ pc = "wait"
  /\ requestCount = 0
  /\ session = NewSession("no")
  /\ continued = {}
  /\ calls = <<>>
  /\ responses = <<>>

(* Mutant: the limit on requests is tested one request late. *)
AwaitRequest_OneMore ==
  /\ pc = "wait"
  /\ ConnRead
  /\ session' = NewSession(IF requestCount >= keepalivemaxconn THEN "yes" ELSE "no")
  /\ pc' = "line"
  /\ UNCHANGED <<client, bufferpos, requestCount, continued, calls, responses>>

(* serverFunc: something new must arrive, whatever is in the buffer still.  *)
AwaitRequest ==
  /\ pc = "wait"
  /\ ConnRead
  /\ session' = NewSession(IF requestCount + 1 >= keepalivemaxconn THEN "yes" ELSE "no")
  /\ pc' = "line"
  /\ UNCHANGED <<client, bufferpos, requestCount, continued, calls, responses>>

(* Nothing does for keepalivetimeout: the connection is over.               *)
AwaitTimesOut ==
  /\ pc = "wait"
  /\ CantRead
  /\ pc' = "closed"
  /\ UNCHANGED <<client, conn, requestCount, session, continued, calls, responses>>

-----------------------------------------------------------------------------
(*                   RequestRead: the header of a request                   *)

(* ConnReadHeader has the end of a line, and something after it, which      *)
(* tells that the line is not continued.  (A blank line is not.)            *)
HasLine ==
  \E n \in bufferpos + 1 .. Len(buffer) :
    /\ buffer[n].what # "part"
    /\ buffer[n].what = "blank" \/ n < Len(buffer)

InHeader == pc \in {"line", "headers"}
Line == buffer[bufferpos + 1]

ReadMore ==
  /\ InHeader
  /\ ~HasLine
  /\ ConnRead
  /\ UNCHANGED <<client, bufferpos, pc, requestCount, session, continued, calls,
                 responses>>

(* What the client does, as far as the server can know: it has more to send *)
(* now, it has sent what the server could have read but for a deadline, or  *)
(* it waits for the server.                                                 *)
ClientIs ==
  IF MaySend THEN "sending"
  ELSE IF wire # <<>> /\ Space > 0 THEN "late"
  ELSE "waiting"

(* The request is over with an error of this status.  Kept for the history: *)
(* what the client did then.                                                *)
Fails(status) ==
  /\ session' = [session EXCEPT !.status = status, !.clientIs = ClientIs]
  /\ pc' = "respond"

(* Mutant: without its deadline a header is waited for, for ever. *)
HeaderTimesOut_Never ==
  /\ InHeader
  /\ ~HasLine
  /\ CantRead
  /\ UNCHANGED vars

(* Nothing arrives, or the deadline of the header has passed by then.       *)
HeaderTimesOut ==
  /\ InHeader
  /\ ~HasLine
  /\ Fails(408)
  /\ UNCHANGED <<client, conn, requestCount, continued, calls, responses>>

(* readRequestLine and parseRequestLine: blank lines before it are skipped; *)
(* what is no request line is a bad request.  Without a version it is the   *)
(* whole request, and the version of the session stays what it was in       *)
(* memory: any.                                                             *)
ReadRequestLine ==
  /\ pc = "line"
  /\ HasLine
  /\ bufferpos' = bufferpos + 1
  /\ LET version == script[Line.of].version IN
       \/ Line.what \in {"blank", "part"} /\ UNCHANGED <<session, pc>>
       \/ /\ Line.what \notin {"blank", "part"}
          /\ Line.what # "line" \/ version = "bad"
          /\ Fails(400)
       \/ /\ Line.what = "line" /\ version # "bad"
          /\ \E v \in IF version = "none" THEN {"1.0", "1.1", "2.0"} ELSE {version} :
               session' = [session EXCEPT !.of = Line.of, !.version = v]
          /\ pc' = IF version = "none" THEN "dispatch" ELSE "headers"
  /\ UNCHANGED <<client, buffer, wire, requestCount, continued, calls, responses>>

(* The header lines, up to the blank one. *)
ReadHeader ==
  /\ pc = "headers"
  /\ HasLine
  /\ bufferpos' = bufferpos + 1
  /\ \/ Line.what = "blank" /\ pc' = "dispatch" /\ UNCHANGED session
     \/ /\ Line.what \in Headers \ {"bad"}
        /\ session' = [session EXCEPT
             !.said = Append(@, Line.what),
             !.continueRequired = IF Line.what = "expect" THEN "yes" ELSE @]
        /\ UNCHANGED pc
     \/ Line.what \in {"bad", "line", "body"} /\ Fails(400)
  /\ UNCHANGED <<client, buffer, wire, requestCount, continued, calls, responses>>

-----------------------------------------------------------------------------
(*                     The handlers of a request                            *)

Request == script[session.of]
Said(header) == Contains(session.said, header)

(* processDataFromClient and handleXmlrpcReq: the status a request is       *)
(* refused with, by the first test it fails; 0 for an RPC.                  *)
Refusal ==
  IF session.version = "2.0" THEN 505
  ELSE IF Request.target = "invalid" THEN 400
  ELSE IF Request.target = "elsewhere" THEN 404
  ELSE IF Request.method # "post" THEN 405
  ELSE IF ~Said("content-type") THEN 400
  ELSE IF ~Said("content-length") THEN 411
  ELSE IF Request.body < 1 THEN 400
  ELSE IF Request.body > XML_SIZE_LIMIT THEN 500
  ELSE 0

(* An RPC is refused when there is no memory for its body.                  *)
Dispatch ==
  /\ pc = "dispatch"
  /\ \/ Refusal = 0 /\ pc' = "body" /\ UNCHANGED session
     \/ Refusal # 0 /\ Fails(Refusal)
     \/ Refusal = 0 /\ Fails(500)
  /\ UNCHANGED <<client, conn, requestCount, continued, calls, responses>>

(* Mutant: all that is in the buffer is taken for body. *)
TakeBody_All ==
  /\ pc = "body"
  /\ session.fault = "no"
  /\ \E fault \in {"no", "yes"} :
       session' = [session EXCEPT
         !.body = @ \o SubSeq(buffer, bufferpos + 1, Len(buffer)), !.fault = fault]
  /\ bufferpos' = Len(buffer)
  /\ pc' = IF Len(session'.body) < Request.body THEN "refill"
           ELSE IF session'.fault = "no" THEN "call" ELSE "body"
  /\ UNCHANGED <<client, buffer, wire, requestCount, continued, calls, responses>>

(* getBody takes what the buffer has of the body, up to contentSize.  There *)
(* may be no memory to keep it, which it sees when it has refilled ...      *)
TakeBody ==
  /\ pc = "body"
  /\ session.fault = "no"
  /\ LET n == Min({Request.body - Len(session.body), Len(buffer) - bufferpos}) IN
       /\ \E fault \in {"no", "yes"} :
            session' = [session EXCEPT
              !.body = @ \o SubSeq(buffer, bufferpos + 1, bufferpos + n), !.fault = fault]
       /\ bufferpos' = bufferpos + n
  /\ pc' = IF Len(session'.body) < Request.body THEN "refill"
           ELSE IF session'.fault = "no" THEN "call" ELSE "body"
  /\ UNCHANGED <<client, buffer, wire, requestCount, continued, calls, responses>>

BodyFails ==
  /\ pc = "body"
  /\ session.fault = "yes"
  /\ Fails(500)
  /\ UNCHANGED <<client, conn, requestCount, continued, calls, responses>>

(* Mutant: the client is not told to go on. *)
RefillBuffer_NoContinue ==
  /\ pc = "refill"
  /\ ConnReadInit
  /\ session' = [session EXCEPT !.continueRequired = "no"]
  /\ pc' = "reading"
  /\ UNCHANGED <<client, wire, requestCount, continued, calls, responses>>

(* ... and refills it: SessionRefillBuffer asks for a body that waits to be *)
(* asked for, once, unless it cannot be written ...                         *)
RefillBuffer ==
  /\ pc = "refill"
  /\ ConnReadInit
  /\ \/ /\ continued' = IF session.continueRequired = "yes"
                         THEN continued \cup {session.of} ELSE continued
        /\ session' = [session EXCEPT !.continueRequired = "no"]
        /\ pc' = "reading"
     \/ /\ session.continueRequired = "yes"
        /\ session' = [session EXCEPT !.status = 408, !.clientIs = "gone"]
        /\ pc' = "respond"
        /\ UNCHANGED continued
  /\ UNCHANGED <<client, wire, requestCount, calls, responses>>

(* ... and reads. *)
ReadBody ==
  /\ pc = "reading"
  /\ ConnRead
  /\ pc' = "body"
  /\ UNCHANGED <<client, bufferpos, requestCount, session, continued, calls,
                 responses>>

BodyTimesOut ==
  /\ pc = "reading"
  /\ CantRead
  /\ Fails(408)
  /\ UNCHANGED <<client, conn, requestCount, continued, calls, responses>>

(* processCall: the registry makes the call, unless it has no memory for an *)
(* output.  It may fail yet, when the result cannot be written as XML, and  *)
(* sendXmlData when it is too large.                                        *)
ProcessCall ==
  /\ pc = "call"
  /\ \/ Fails(500) /\ UNCHANGED calls
     \/ /\ calls' = Append(calls, [of |-> session.of, body |-> session.body])
        /\ \/ session' = [session EXCEPT !.status = 200] /\ pc' = "respond"
           \/ Fails(500)
  /\ UNCHANGED <<client, conn, requestCount, continued, responses>>

-----------------------------------------------------------------------------
(*                     The response, and the next request                   *)

(* request_info.keepalive: by the last `connection' header, or the version. *)
KeepaliveBy(said, version) ==
  LET lines == {n \in DOMAIN said : said[n] \in {"keep-alive", "close"}} IN
    IF lines = {} THEN version = "1.1" ELSE said[Max(lines)] = "keep-alive"

WantsKeepalive == KeepaliveBy(session.said, session.version)

(* Mutant: a connection is kept alive after an error too. *)
HTTPKeepalive_AlsoErrors ==
  IF WantsKeepalive /\ session.serverDeniesKeepalive = "no" THEN "yes" ELSE "no"

HTTPKeepalive ==
  IF WantsKeepalive /\ session.serverDeniesKeepalive = "no" /\ session.status < 400
  THEN "yes" ELSE "no"

(* ResponseWriteStart and what follows it. *)
Respond ==
  /\ pc = "respond"
  /\ responses' = Append(responses,
       [of |-> session.of, status |-> session.status,
        keepalive |-> HTTPKeepalive,
        clientIs |-> session.clientIs])
  /\ pc' = "finish"
  /\ UNCHANGED <<client, conn, requestCount, session, continued, calls>>

(* Mutant: the connection goes on whenever the client asked for it. *)
FinishRequest_AsAsked ==
  /\ pc = "finish"
  /\ requestCount' = requestCount + 1
  /\ ConnReadInit
  /\ pc' = IF WantsKeepalive THEN "wait" ELSE "closed"
  /\ UNCHANGED <<client, wire, session, continued, calls, responses>>

(* The end of serverFunc's loop. *)
FinishRequest ==
  /\ pc = "finish"
  /\ requestCount' = requestCount + 1
  /\ ConnReadInit
  /\ pc' = IF HTTPKeepalive = "yes" THEN "wait" ELSE "closed"
  /\ UNCHANGED <<client, wire, session, continued, calls, responses>>

ServerStep ==
  \/ AwaitRequest
  \/ AwaitTimesOut
  \/ ReadMore
  \/ HeaderTimesOut
  \/ ReadRequestLine
  \/ ReadHeader
  \/ Dispatch
  \/ TakeBody
  \/ BodyFails
  \/ RefillBuffer
  \/ ReadBody
  \/ BodyTimesOut
  \/ ProcessCall
  \/ Respond
  \/ FinishRequest

Next == Send \/ ServerStep

(* The connection's thread goes on.  Nothing is assumed of the client. *)
Spec == Init /\ [][Next]_vars /\ WF_vars(ServerStep)

-----------------------------------------------------------------------------
TypeOK ==
  /\ script \in Scripts
  /\ pipelines \in {"no", "yes"}
  /\ sent \in 0 .. Len(Stream)
  /\ Len(buffer) < BUFFER_SIZE
  /\ bufferpos \in 0 .. Len(buffer)
  /\ pc \in {"wait", "line", "headers", "dispatch", "body", "refill", "reading",
             "call", "respond", "finish", "closed"}
  /\ requestCount \in 0 .. keepalivemaxconn
  /\ session.status \in {0, 200, 400, 404, 405, 408, 411, 500, 505}
  /\ session.of \in 0 .. Len(script)
  /\ continued \subseteq DOMAIN script

(* The stream is never lost or reordered between the socket and the buffer:  *)
(* what is left of the buffer, and the socket, is the end of what was sent.  *)
(* Of a request that is over nothing is left, if the connection goes on.     *)
NothingSkipped ==
  LET rest == SubSeq(buffer, bufferpos + 1, Len(buffer)) \o wire IN
    /\ rest = SubSeq(Stream, sent - Len(rest) + 1, sent)
    /\ pc = "wait" /\ rest # <<>> =>
         rest[1] = Header(requestCount + 1, script[requestCount + 1])[1]

(* What makes a request an RPC by the rules of XML-RPC over HTTP, and of a  *)
(* size the server takes.                                                   *)
IsCall(q) ==
  /\ q.version \in {"1.0", "1.1"}
  /\ q.method = "post" /\ q.target = "rpc"
  /\ {"content-type", "content-length"} \subseteq ToSet(q.headers)
  /\ ~Contains(q.headers, "bad")
  /\ q.body >= 1

IsRpc(q) == IsCall(q) /\ q.body <= XML_SIZE_LIMIT

(* The registry is given the RPCs of the client, each once, in order, with   *)
(* exactly the body it came with, however the reads cut the stream, and no   *)
(* part of the next request.                                                 *)
CallsAreWhole ==
  \A n \in DOMAIN calls :
    /\ IsRpc(script[calls[n].of])
    /\ calls[n].body = Body(calls[n].of, script[calls[n].of])
    /\ n > 1 => calls[n - 1].of < calls[n].of

(* ConnReadHeader keeps all of a header in the buffer. *)
HeaderFits(q) == Len(Header(1, q)) < BUFFER_SIZE

(* The n-th response is to the n-th request.  A result is for an RPC; an RPC *)
(* is refused only because time ran out or because the server failed (500),  *)
(* and the server fails only with a call.  It says that time ran out, 408,   *)
(* to a client that waits, for the response or for the 100 it expects, only  *)
(* if its header does not fit in the buffer, or if the request line, without *)
(* a version, is all of the request: it is read when something follows it.   *)
(* (Who has sent all of a header just when its deadline passes is late.)     *)
EachAnsweredForItself ==
  \A n \in DOMAIN responses :
    LET answer == responses[n] IN
      /\ answer.of \in {0, n}
      /\ answer.status = 200 => answer.of = n /\ IsRpc(script[n])
      /\ answer.status = 500 => answer.of = n /\ IsCall(script[n])
      /\ answer.status \notin {200, 408, 500} => ~IsRpc(script[n])
      /\ answer.status = 408 /\ answer.clientIs = "waiting" /\ pipelines = "no" =>
           script[n].version = "none" \/ ~HeaderFits(script[n])

(* The client is told the truth about the connection: after a response that  *)
(* says `close' no request is read, after one that says `keep-alive' the     *)
(* server waits for a request before it closes.                              *)
ToldWhatHappens ==
  \A n \in DOMAIN responses :
    IF responses[n].keepalive = "no"
    THEN n = Len(responses) /\ pc \in {"finish", "closed"}
    ELSE n = Len(responses) => pc # "closed" \/ wire = <<>> \/ pipelines = "yes"

MaxRequests == Max({Len(requests) : requests \in Scripts})

(* A request that is wholly sent while the connection is open is answered,   *)
(* unless the client pipelines: then the last of its requests may lie in the *)
(* buffer until the connection is closed.                                    *)
SentIsAnswered ==
  \A r \in 1 .. MaxRequests :
    r \in DOMAIN script /\ WhollySent(r) /\ pc # "closed" /\ pipelines = "no" ~> Answered(r)

-----------------------------------------------------------------------------
(*                    The connection it implements                          *)

Rpc == INSTANCE RpcConnection WITH
  requests <- DOMAIN script,
  rpcs <- {r \in DOMAIN script : IsRpc(script[r])},
  lasting <- {r \in DOMAIN script : KeepaliveBy(script[r].headers, script[r].version)},
  arrived <- {r \in DOMAIN script : WhollySent(r)},
  executed <- [n \in DOMAIN calls |-> calls[n].of],
  responses <- [n \in DOMAIN responses |->
                  [status |-> responses[n].status, keepalive |-> responses[n].keepalive]],
  open <- IF pc = "closed" THEN "no" ELSE "yes"

(* For its client the connection is an RpcConnection, wherever the reads of  *)
(* ConnRead cut the stream: no call is made of a part of a request, a call   *)
(* that was made is answered, with its result or with a 500, before          *)
(* serverFunc can end, and the connection is kept after a result exactly if  *)
(* the client wanted it and the limit on requests allows it.                 *)
RpcSpec == Rpc!Spec
=============================================================================

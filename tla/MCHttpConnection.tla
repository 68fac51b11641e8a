--------------------------- MODULE MCHttpConnection ---------------------------
(***************************************************************************)
(* The requests of the model-checked clients: a call in HTTP 1.1, one that *)
(* asks for the connection to be closed, one in 1.0 that asks for it to be *)
(* kept and waits for a 100, one whose lines come in parts, and one        *)
(* request for each way of being refused or of not being readable.         *)
(***************************************************************************)
EXTENDS HttpConnection

Call == [version |-> "1.1", method |-> "post", target |-> "rpc",
         headers |-> <<"content-type", "content-length">>, before |-> <<>>, body |-> 2]
LastCall == [Call EXCEPT !.headers = @ \o <<"close">>, !.body = 1]
OldCall == [Call EXCEPT !.version = "1.0", !.headers = @ \o <<"keep-alive", "expect">>,
                        !.before = <<"blank">>]

Kinds ==
  {Call, LastCall, OldCall,
   [Call EXCEPT !.before = <<"part">>,
                !.headers = <<"content-type", "part", "content-length">>],
   [Call EXCEPT !.headers = <<"content-type", "other">>, !.body = 1],
   [Call EXCEPT !.headers = <<"bad", "content-length">>, !.body = 1],
   [Call EXCEPT !.headers = @ \o <<"other", "other", "other", "other">>],
   [Call EXCEPT !.body = 3],
   [Call EXCEPT !.version = "2.0", !.body = 0],
   [Call EXCEPT !.version = "bad"],
   [Call EXCEPT !.version = "none", !.method = "get", !.headers = <<>>, !.body = 0],
   [Call EXCEPT !.method = "get", !.headers = <<>>, !.body = 0],
   [Call EXCEPT !.target = "elsewhere", !.headers = <<>>, !.body = 0],
   [Call EXCEPT !.target = "invalid", !.headers = <<>>, !.body = 0]}

(* One more request than the connection is kept for is made by calls only. *)
MCScripts == [1 .. 2 -> Kinds] \cup [1 .. 3 -> {Call, LastCall, OldCall}]
=============================================================================

------------------------------ MODULE UserRpc ------------------------------
(***************************************************************************)
(* The gRPC service UserService (protos/User.proto) as its two ends see    *)
(* it: one remote call per client call, with the replies that are on their *)
(* way and the status.  gRPC itself is not part of the repository; these   *)
(* are its guarantees as the gateway's stub and the user manager's         *)
(* handlers rely on them.                                                  *)
(*                                                                         *)
(* A call that the network or a dying server breaks ends with an error     *)
(* status, and replies that the client has not read are gone.  The handler *)
(* on the other end is not told: what it writes from then on is dropped.   *)
(***************************************************************************)
EXTENDS UserTypes

VARIABLE rpc    \* rpc[c] = the remote call made on behalf of call c

Methods == {"ReadUsers", "ReadUser", "CreateUser"}

Unused == [phase |-> "unused", method |-> "none", id |-> 0, replies |-> {}, ok |-> FALSE]

RpcInit == rpc = [c \in Calls |-> Unused]

RpcIs(c, phase) == rpc[c].phase = phase

\* The client's stub sends the request; id is what a ReadUser asks for.
RpcStart(c, method, id) ==
    /\ RpcIs(c, "unused")
    /\ rpc' = [rpc EXCEPT ![c].phase = "sent", ![c].method = method, ![c].id = id]

\* A server thread picks the request up.
RpcTake(c, method) ==
    /\ RpcIs(c, "sent")
    /\ rpc[c].method = method
    /\ rpc' = [rpc EXCEPT ![c].phase = "open"]

\* writer->Write(u): dropped, and the result ignored, when the call is broken.
RpcWrite(c, u) ==
    rpc' = IF RpcIs(c, "open") THEN [rpc EXCEPT ![c].replies = @ \cup {u}] ELSE rpc

\* The handler returns: its status and, for a unary method, its response.
RpcFinish(c, ok, response) ==
    rpc' = IF RpcIs(c, "open")
           THEN [rpc EXCEPT ![c].phase = "ended", ![c].ok = ok, ![c].replies = @ \cup response]
           ELSE rpc

\* The calls in broken, where they have not ended, end with an error.
RpcBreak(broken) ==
    rpc' = [c \in Calls |->
               IF c \in broken /\ rpc[c].phase \in {"sent", "open"}
               THEN [rpc[c] EXCEPT !.phase = "ended", !.ok = FALSE, !.replies = {}]
               ELSE rpc[c]]

\* reader->Read(&u) at the client.
RpcRead(c, u) ==
    /\ u \in rpc[c].replies
    /\ rpc' = [rpc EXCEPT ![c].replies = @ \ {u}]

\* The status reaches the client behind every reply.
RpcDone(c) == RpcIs(c, "ended") /\ (rpc[c].method = "ReadUsers" => rpc[c].replies = {})

RpcRecord ==
    [phase   : {"unused", "sent", "open", "ended"},
     method  : Methods \cup {"none"},
     id      : Nat,
     replies : SUBSET User,
     ok      : BOOLEAN]
=============================================================================

------------------------------ MODULE Gateway ------------------------------
(***************************************************************************)
(* The gateway: restbed sessions handled by a fixed number of worker       *)
(* threads.  A worker that calls the user manager is blocked in the stub   *)
(* until the call ends; the stub sets no deadline and retries nothing.     *)
(*                                                                         *)
(* restbed is not part of the repository.  Of it the model uses: a worker  *)
(* runs one handler at a time; an exception that leaves a handler closes   *)
(* the session with an error; fetch calls back at once when the body has   *)
(* been received with the headers, and later, from any worker, when not.   *)
(***************************************************************************)
EXTENDS UserRpc, FiniteSets

CONSTANTS
    Workers,           \* std::thread::hardware_concurrency()
    Uint64Max,         \* 2^64 - 1
    MaxGatewayKills    \* bound: how often the gateway is killed from outside

ASSUME WorkersAssumption == Workers \in Nat \ {0}
ASSUME Uint64MaxAssumption == Uint64Max \in Nat
ASSUME MaxGatewayKillsAssumption == MaxGatewayKills \in Nat

VARIABLES
    session,         \* session[c] = the HTTP request of call c
    gatewayUp,
    gatewayCount,    \* RequestCounter of the gateway
    gatewayKills

gatewayVars == <<session, gatewayUp, gatewayCount, gatewayKills>>

New == [pc |-> "new", kind |-> "none", id |-> 0, users |-> {}, outcome |-> "none"]

GatewayInit ==
    /\ session = [c \in Calls |-> New]
    /\ gatewayUp = TRUE
    /\ gatewayCount = 0
    /\ gatewayKills = 0

In(c, pc) == session[c].pc = pc

\* A worker is free to run a handler of session c.
WorkerFor(c) ==
    /\ gatewayUp
    /\ Cardinality({d \in Calls : In(d, "calling")}) < Workers

-----------------------------------------------------------------------------
\* Fault: the handler forgets to count.
ServeUncounted(c, kind, id, method, rpcId) ==
    /\ WorkerFor(c)
    /\ session' = [session EXCEPT ![c] = [New EXCEPT !.pc = "calling", !.kind = kind, !.id = id]]
    /\ RpcStart(c, method, rpcId)
    /\ UNCHANGED <<gatewayUp, gatewayCount, gatewayKills>>

\* A handler of the controller counts the request and calls the user manager.
Serve(c, kind, id, method, rpcId) ==
    /\ WorkerFor(c)
    /\ session' = [session EXCEPT ![c] = [New EXCEPT !.pc = "calling", !.kind = kind, !.id = id]]
    /\ gatewayCount' = gatewayCount + 1
    /\ RpcStart(c, method, rpcId)
    /\ UNCHANGED <<gatewayUp, gatewayKills>>

\* Fault: a conversion that wraps around.
StrtoullWraps(digits) == digits % (Uint64Max + 1)

\* strtoull: a number that does not fit becomes the largest one.
Strtoull(digits) == IF digits > Uint64Max THEN Uint64Max ELSE digits

GetAllUsers(c) == In(c, "new") /\ Serve(c, "list", 0, "ReadUsers", 0)

GetUser(c) ==
    /\ In(c, "new")
    /\ \E id \in LookupIds : Serve(c, "get", id, "ReadUser", Strtoull(id))

\* session->close(response), or the error that stands for it.
Close(c, outcome, users) ==
    session' = [session EXCEPT ![c] = [@ EXCEPT !.pc = "closed", !.outcome = outcome, !.users = users]]

\* POST: the handler asks for the body and it is not there yet.
AwaitBody(c) ==
    /\ In(c, "new")
    /\ WorkerFor(c)
    /\ session' = [session EXCEPT ![c] = [New EXCEPT !.pc = "fetching", !.kind = "post"]]
    /\ UNCHANGED <<rpc, gatewayUp, gatewayCount, gatewayKills>>

\* The body is there, with the headers ("new") or after a wait ("fetching").
\* In the second case the callback goes through references to functions whose
\* lifetime is over: it may work, or take the gateway down (DanglingCallback).
BodyAt(c) == In(c, "new") \/ In(c, "fetching")

PostUser(c) == BodyAt(c) /\ Serve(c, "post", 0, "CreateUser", 0)

\* Fault: the body is checked after the remote call has been started.
RejectBodyLate(c) ==
    /\ BodyAt(c)
    /\ WorkerFor(c)
    /\ session' = [session EXCEPT ![c] =
                      [New EXCEPT !.pc = "closed", !.kind = "post", !.outcome = "bad body"]]
    /\ RpcStart(c, "CreateUser", 0)
    /\ UNCHANGED <<gatewayUp, gatewayCount, gatewayKills>>

\* The body is not JSON or has no name or password: an exception, not counted.
RejectBody(c) ==
    /\ BodyAt(c)
    /\ WorkerFor(c)
    /\ session' = [session EXCEPT ![c] =
                      [New EXCEPT !.pc = "closed", !.kind = "post", !.outcome = "bad body"]]
    /\ UNCHANGED <<rpc, gatewayUp, gatewayCount, gatewayKills>>

\* restbed's connection timeout, while the body does not come.
FetchTimesOut(c) ==
    /\ In(c, "fetching")
    /\ Close(c, "timeout", {})
    /\ UNCHANGED <<rpc, gatewayUp, gatewayCount, gatewayKills>>

-----------------------------------------------------------------------------
\* readUsers' loop over the stream.
ReadStream(c) ==
    /\ In(c, "calling")
    /\ session[c].kind = "list"
    /\ \E u \in rpc[c].replies :
          /\ RpcRead(c, u)
          /\ session' = [session EXCEPT ![c].users = @ \cup {u}]
    /\ UNCHANGED <<gatewayUp, gatewayCount, gatewayKills>>

Finish(c, kind, outcome, users) ==
    /\ In(c, "calling")
    /\ session[c].kind = kind
    /\ RpcDone(c)
    /\ Close(c, outcome, users)
    /\ UNCHANGED <<rpc, gatewayUp, gatewayCount, gatewayKills>>

\* Fault: readUsers reads on until the status is OK.
FinishGetUsersWhenOk(c) ==
    \/ rpc[c].ok /\ Finish(c, "list", "ok", session[c].users)
    \/ /\ ~rpc[c].ok /\ In(c, "calling") /\ session[c].kind = "list" /\ RpcDone(c)
       /\ UNCHANGED <<rpc, gatewayVars>>

\* readUsers answers with what it has read, whatever the status of the call.
FinishGetUsers(c) == Finish(c, "list", "ok", session[c].users)

\* readUser and createUser turn every error status into nullptr, and the
\* controller turns nullptr into "User not found!" and "User is invalid!".
FinishGetUser(c) ==
    \/ rpc[c].ok /\ Finish(c, "get", "ok", rpc[c].replies)
    \/ ~rpc[c].ok /\ Finish(c, "get", "User not found!", {})

\* Fault: the status is not looked at, as in readUsers.
FinishPostUserUnchecked(c) == Finish(c, "post", "ok", rpc[c].replies)

FinishPostUser(c) ==
    \/ rpc[c].ok /\ Finish(c, "post", "ok", rpc[c].replies)
    \/ ~rpc[c].ok /\ Finish(c, "post", "User is invalid!", {})

-----------------------------------------------------------------------------
\* The gateway dies, and its connections with it.  The user manager goes on
\* with the calls that it has received or is about to.
GatewayCrash ==
    /\ gatewayUp' = FALSE
    /\ gatewayCount' = 0
    /\ session' = [c \in Calls |->
                      IF In(c, "new") \/ In(c, "closed") THEN session[c]
                      ELSE [session[c] EXCEPT !.pc = "closed", !.outcome = "reset", !.users = {}]]
    /\ UNCHANGED rpc

DanglingCallback(c) ==
    /\ In(c, "fetching")
    /\ WorkerFor(c)
    /\ GatewayCrash
    /\ UNCHANGED gatewayKills

KillGateway ==
    /\ gatewayUp
    /\ gatewayKills < MaxGatewayKills
    /\ gatewayKills' = gatewayKills + 1
    /\ GatewayCrash

RestartGateway ==
    /\ ~gatewayUp
    /\ gatewayUp' = TRUE
    /\ UNCHANGED <<rpc, session, gatewayCount, gatewayKills>>

\* A request comes in when its client likes.
Arrive(c) ==
    \/ GetAllUsers(c)
    \/ GetUser(c)
    \/ In(c, "new") /\ PostUser(c)
    \/ In(c, "new") /\ RejectBody(c)
    \/ AwaitBody(c)

\* What the gateway goes on to do for a session that it has accepted.
Proceed(c) ==
    \/ In(c, "fetching") /\ PostUser(c)
    \/ In(c, "fetching") /\ RejectBody(c)
    \/ FetchTimesOut(c)
    \/ DanglingCallback(c)
    \/ ReadStream(c)
    \/ FinishGetUsers(c)
    \/ FinishGetUser(c)
    \/ FinishPostUser(c)

GatewayNext ==
    \/ \E c \in Calls : Arrive(c) \/ Proceed(c)
    \/ KillGateway
    \/ RestartGateway

SessionRecord ==
    [pc      : {"new", "fetching", "calling", "closed"},
     kind    : {"none", "list", "get", "post"},
     id      : Nat,
     users   : SUBSET User,
     outcome : {"none", "ok", "User not found!", "User is invalid!", "bad body",
                "timeout", "reset"}]
=============================================================================

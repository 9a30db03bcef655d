----------------------------- MODULE UserSystem -----------------------------
(***************************************************************************)
(* The whole path of a request: clients, the gateway, the remote calls,    *)
(* the replicas of the user manager and the database.                      *)
(***************************************************************************)
EXTENDS UserManager, Gateway

\* No 64-bit id in the table comes near the largest one: ids come from a
\* sequence, one per creation.
ASSUME IdsStayBelowUint64Max ==
    IsFiniteSet(Calls) /\ Cardinality(Calls) + 1 < Uint64Max

VARIABLE before    \* history: before[c] = the table when the session of c began

systemVars == <<managerVars, gatewayVars, before>>

SystemInit ==
    /\ ManagerInit
    /\ GatewayInit
    /\ before = [c \in Calls |-> {}]

Remember == before' = [c \in Calls |->
    IF session[c].pc = "new" /\ session'[c].pc # "new" THEN rows ELSE before[c]]

ManagerIdle == UNCHANGED <<daoVars, serverVars>>
GatewayIdle == UNCHANGED <<gatewayVars, before>>

\* Every request is answered and no thread or transaction is at work.
AllAnswered ==
    /\ \A c \in Calls : In(c, "closed") /\ dao[c] = Idle
    /\ UNCHANGED systemVars

SystemNext ==
    \/ ManagerNext /\ GatewayIdle
    \/ GatewayNext /\ ManagerIdle /\ Remember
    \/ AllAnswered

SystemSpec == SystemInit /\ [][SystemNext]_systemVars

\* Workers and server threads run, the database answers or fails, and restbed's
\* timer fires.  Nothing is assumed of clients, kills, restarts or the network.
FairSystemSpec ==
    /\ SystemSpec
    /\ \A c \in Calls :
          /\ WF_systemVars(Handler(c) /\ GatewayIdle)
          /\ WF_systemVars(Proceed(c) /\ ManagerIdle /\ Remember)

-----------------------------------------------------------------------------
(***************************************************************************)
(* Properties.                                                             *)
(***************************************************************************)

\* Every variable has its type.
SystemTypeOK ==
    /\ ManagerTypeOK
    /\ session \in [Calls -> SessionRecord]
    /\ gatewayUp \in BOOLEAN
    /\ gatewayCount \in Nat
    /\ gatewayKills \in 0 .. MaxGatewayKills
    /\ before \in [Calls -> SUBSET User]

Answered(c, kind) == session[c].kind = kind /\ session[c].outcome = "ok"

\* POST /users that answers 200 shows the user that this very request stored,
\* and it is stored for good (while ids fit in 16 bits).
CreateAnswersOwnUser ==
    Unwrapped => \A c \in Calls : Answered(c, "post") =>
        session[c].users # {} /\ session[c].users = OwnedBy(c, rows)

\* GET /users/{id} that answers 200 shows one stored user, and it is the one
\* of the id in the path, even when strtoull could not represent that id.
ReadAnswersRequestedUser ==
    \A c \in Calls : Answered(c, "get") =>
        /\ Cardinality(session[c].users) = 1
        /\ \A u \in session[c].users : u \in rows /\ u.id = session[c].id

\* GET /users shows stored users only, and, when the remote call ended well,
\* every user that was stored when the request came: whoever was told of a
\* user before finds it again (read your writes, monotonic reads).
ListAnswersAllUsers ==
    \A c \in Calls : Answered(c, "list") =>
        /\ session[c].users \subseteq rows
        /\ rpc[c].ok => before[c] \subseteq session[c].users

\* The table holds one user per POST, of a POST whose body was accepted; a
\* session told "bad body" or "timeout" has stored nothing and never will.
RowsComeFromPosts ==
    /\ RowsKeyed
    /\ \A u \in rows :
          /\ session[u.name].kind = "post"
          /\ session[u.name].outcome \notin {"bad body", "timeout"}

\* The requests that the replicas have counted since they started: <<s, n>> is
\* the n-th of replica s.
ServerCounts == UNION {{s} \X (1 .. counter[s]) : s \in Servers}

\* The requests that a handler of the gateway has taken up: not those that were
\* rejected for their body or timed out before they had one.
TakenUp(r) == r.pc \in {"calling", "closed"} /\ r.outcome \notin {"bad body", "timeout", "reset"}

Handled == {c \in Calls : TakenUp(session[c])}

\* As long as the gateway has not crashed or been killed, its counter holds each
\* request that a handler has taken up, once, and no other (the body of a POST
\* is checked before the count, RestController.h); and the replicas never count
\* more requests than that, whatever breaks on the way.
CountersAgree ==
    gatewayKills = 0 /\ (\A c \in Calls : session[c].outcome # "reset") =>
        /\ gatewayCount = Cardinality(Handled)
        /\ Cardinality(ServerCounts) <= gatewayCount

\* Every session that the gateway has accepted is closed in the end, although
\* its worker waits without a deadline.
SessionsEnd == \A c \in Calls : ~In(c, "new") ~> In(c, "closed")

-----------------------------------------------------------------------------
(***************************************************************************)
(* The system implements the REST interface, UserApi.                      *)
(***************************************************************************)
apiRequest == [c \in Calls |-> [kind |-> session[c].kind, id |-> session[c].id]]

apiAnswer == [c \in Calls |->
    IF In(c, "closed") THEN [outcome |-> session[c].outcome, users |-> session[c].users]
    ELSE [outcome |-> "none", users |-> {}]]

Api == INSTANCE UserApi
    WITH users <- rows, request <- apiRequest, answer <- apiAnswer, void <- voidBar

\* What a client sees, crashes and broken connections included, it could have
\* seen of one table in one place: every request takes effect at one moment,
\* and only a POST that was told so may take effect after its answer.
ImplementsApi == Api!Spec

-----------------------------------------------------------------------------
(***************************************************************************)
(* What the program says of itself and does not do.                        *)
(***************************************************************************)

\* "User is invalid!" is said of users that were not stored.
InvalidIsTrue ==
    \A c \in Calls : session[c].outcome = "User is invalid!" => OwnedBy(c, rows) = {}
=============================================================================

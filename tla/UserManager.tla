---------------------------- MODULE UserManager ----------------------------
(***************************************************************************)
(* The user manager: replicas of a gRPC server whose handlers call the DAO *)
(* over one shared database.  A handler is a server thread; the handlers   *)
(* of all calls interleave at their database round trips and their replies.*)
(*                                                                         *)
(* An exception that leaves a handler becomes an error status.  A null     *)
(* pointer that a handler dereferences takes its whole process with it, and*)
(* with the process every call that is being served there.                 *)
(***************************************************************************)
EXTENDS UserRpc, OdbUserDao, FiniteSets

CONSTANTS
    Servers,     \* the replicas
    NoServer,
    MaxKills     \* bound: how often a replica is killed from outside

ASSUME ServersAssumption == NoServer \notin Servers
ASSUME MaxKillsAssumption == MaxKills \in Nat

VARIABLES
    up,         \* the replicas that are running
    at,         \* at[c] = the replica whose thread serves call c
    counter,    \* counter[s] = RequestCounter of replica s
    kills       \* how often a replica has been killed so far

serverVars == <<up, at, counter, kills>>

managerVars == <<rpc, daoVars, serverVars>>

ManagerInit ==
    /\ RpcInit
    /\ DaoInit
    /\ up = Servers
    /\ at = [c \in Calls |-> NoServer]
    /\ counter = [s \in Servers |-> 0]
    /\ kills = 0

Served(c) == at[c] \in up

-----------------------------------------------------------------------------
\* A thread of replica s enters the handler of call c and counts the request.
Enter(c, s, method) ==
    /\ s \in up
    /\ RpcTake(c, method)
    /\ at' = [at EXCEPT ![c] = s]
    /\ counter' = [counter EXCEPT ![s] = @ + 1]
    /\ UNCHANGED <<up, kills>>

ReadUsers(c, s)  == Enter(c, s, "ReadUsers") /\ CallGetUsers(c)
ReadUser(c, s)   == Enter(c, s, "ReadUser") /\ CallGetUserById(c, rpc[c].id)
CreateUser(c, s) == Enter(c, s, "CreateUser") /\ CallCreateUser(c)

\* The DAO works for the handler of call c.
HandlerDaoStep(c) == Served(c) /\ DaoStep(c) /\ UNCHANGED <<rpc, serverVars>>

DaoGave(c, outcome) == Served(c) /\ At(c, "returned") /\ dao[c].outcome = outcome

\* The handler returns to gRPC, and the thread is free.
Leave(c, ok, response) ==
    /\ RpcFinish(c, ok, response)
    /\ at' = [at EXCEPT ![c] = NoServer]
    /\ dao' = [dao EXCEPT ![c] = Idle]
    /\ UNCHANGED <<rows, nextId, up, counter, kills>>

\* ReadUsers' loop; dao[c].users are the users it has yet to write.
WriteUser(c) ==
    /\ DaoGave(c, "users")
    /\ \E u \in dao[c].users :
          /\ RpcWrite(c, u)
          /\ dao' = [dao EXCEPT ![c].users = @ \ {u}]
    /\ UNCHANGED <<rows, nextId, serverVars>>

\* Fault: the loop stops one user short.
ReturnUsersEarly(c) ==
    DaoGave(c, "users") /\ Cardinality(dao[c].users) <= 1 /\ Leave(c, TRUE, {})

ReturnUsers(c) == DaoGave(c, "users") /\ dao[c].users = {} /\ Leave(c, TRUE, {})

\* ReadUser and CreateUser fill in their response.
ReturnUser(c) == DaoGave(c, "user") /\ Leave(c, TRUE, dao[c].users)

\* Fault: the handler catches the exception and calls the DAO again.
HandlerRetries(c) ==
    /\ DaoGave(c, "throw")
    /\ dao' = [dao EXCEPT ![c].pc = IF dao[c].op = "getUsers" THEN "scan" ELSE "query", ![c].outcome = "none"]
    /\ UNCHANGED <<rows, nextId, rpc, serverVars>>

HandlerThrows(c) == DaoGave(c, "throw") /\ Leave(c, FALSE, {})

-----------------------------------------------------------------------------
\* Replica s dies.  Of what its threads were doing, only a commit that is
\* already on its way to the database is not over.
Crash(s) ==
    LET dying == {c \in Calls : at[c] = s} IN
    /\ up' = up \ {s}
    /\ counter' = [counter EXCEPT ![s] = 0]
    /\ at' = [c \in Calls |-> IF c \in dying THEN NoServer ELSE at[c]]
    /\ dao' = [c \in Calls |-> IF c \in dying /\ ~At(c, "commit") THEN Idle ELSE dao[c]]
    /\ RpcBreak(dying)
    /\ UNCHANGED <<rows, nextId>>

\* Fault: a null pointer is answered with an empty response.
NullRepliesEmpty(c) == (DaoGave(c, "null") \/ DaoGave(c, "fault")) /\ Leave(c, TRUE, {})

\* `*newUser' in CreateUser, or `*user' in getUserById, with a null pointer.
NullDereference(c) ==
    /\ DaoGave(c, "null") \/ DaoGave(c, "fault")
    /\ Crash(at[c])
    /\ UNCHANGED kills

Kill(s) ==
    /\ s \in up
    /\ kills < MaxKills
    /\ kills' = kills + 1
    /\ Crash(s)

Restart(s) ==
    /\ s \in Servers \ up
    /\ up' = up \cup {s}
    /\ UNCHANGED <<rpc, daoVars, at, counter, kills>>

\* The database ends a transaction whose client has died: the commit arrived
\* in time, or the transaction is rolled back.
OrphanEnds(c) ==
    /\ At(c, "commit")
    /\ at[c] = NoServer
    /\ rows' \in {rows, rows \cup {NewRow(c)}}
    /\ dao' = [dao EXCEPT ![c] = Idle]
    /\ UNCHANGED <<nextId, rpc, serverVars>>

\* The connection of call c breaks under way.
Disconnect(c) ==
    /\ rpc[c].phase \in {"sent", "open"}
    /\ RpcBreak({c})
    /\ UNCHANGED <<daoVars, serverVars>>

\* No replica is there to connect to: the stub gives up (it does not wait).
Unavailable(c) ==
    /\ up = {}
    /\ RpcIs(c, "sent")
    /\ RpcBreak({c})
    /\ UNCHANGED <<daoVars, serverVars>>

Handler(c) ==
    \/ \E s \in Servers : ReadUsers(c, s) \/ ReadUser(c, s) \/ CreateUser(c, s)
    \/ HandlerDaoStep(c)
    \/ WriteUser(c)
    \/ ReturnUsers(c)
    \/ ReturnUser(c)
    \/ HandlerThrows(c)
    \/ NullDereference(c)
    \/ OrphanEnds(c)
    \/ Unavailable(c)

Environment == (\E s \in Servers : Kill(s) \/ Restart(s)) \/ (\E c \in Calls : Disconnect(c))

ManagerNext == (\E c \in Calls : Handler(c)) \/ Environment

-----------------------------------------------------------------------------
\* The user manager by itself, under clients that make any call and wait.
Request(c) ==
    /\ \/ \E m \in {"ReadUsers", "CreateUser"} : RpcStart(c, m, 0)
       \/ \E id \in LookupIds : RpcStart(c, "ReadUser", id)
    /\ UNCHANGED <<daoVars, serverVars>>

\* Every call has ended and every thread is free; nothing is left to do.
Quiet ==
    /\ \A c \in Calls : RpcIs(c, "ended") /\ dao[c] = Idle
    /\ UNCHANGED managerVars

ManagerSpec ==
    ManagerInit /\ [][ManagerNext \/ (\E c \in Calls : Request(c)) \/ Quiet]_managerVars

-----------------------------------------------------------------------------
(***************************************************************************)
(* Properties.                                                             *)
(***************************************************************************)

\* Every variable has its type.
ManagerTypeOK ==
    /\ DaoTypeOK
    /\ rpc \in [Calls -> RpcRecord]
    /\ up \subseteq Servers
    /\ at \in [Calls -> Servers \cup {NoServer}]
    /\ counter \in [Servers -> Nat]
    /\ kills \in 0 .. MaxKills

\* While ids fit in 16 bits, a CreateUser that ends with OK carries the very
\* user it asked for, and that user is in the table from then on, whatever
\* other calls, failures and crashes do (UserService::CreateUser).
CreatedIsStored ==
    Unwrapped => \A c \in Calls :
        rpc[c].method = "CreateUser" /\ RpcIs(c, "ended") /\ rpc[c].ok =>
            rpc[c].replies # {} /\ rpc[c].replies = OwnedBy(c, rows)

\* The table holds only users that some CreateUser asked for and a handler
\* went on to store, one each: no crash or failure stores a user twice.
StoredOnRequest ==
    /\ RowsKeyed
    /\ \A u \in rows : rpc[u.name].method = "CreateUser" /\ rpc[u.name].phase # "sent"

\* Every call that is sent ends, without any deadline in the client: a handler
\* returns, throws or dies, and no call is left waiting for a dead replica.
EveryCallEnds == \A c \in Calls : RpcIs(c, "sent") ~> RpcIs(c, "ended")

-----------------------------------------------------------------------------
(***************************************************************************)
(* What the program says of itself and does not do.                        *)
(***************************************************************************)

\* A lookup of an unknown id is answered with "User with id {} not found.", so
\* the replicas survive any number of lookups when nobody kills them.
LookupsKillNoReplica ==
    kills = 0 /\ (\A c \in Calls : rpc[c].method # "CreateUser") => up = Servers
=============================================================================

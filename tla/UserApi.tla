------------------------------ MODULE UserApi ------------------------------
(***************************************************************************)
(* What the REST interface /api/v1/users promises to its clients, with     *)
(* nothing of the gateway, the remote calls or the replicas in it.         *)
(*                                                                         *)
(* A 200 tells the truth: of a POST, that its user is stored; of a GET     *)
(* with an id, the user of that id; of a GET without, some of the users (a *)
(* list may be cut short).  A refusal tells less: a POST that was refused  *)
(* as "User is invalid!", or whose connection was reset, may still store   *)
(* its user at any later moment, once.  One that was refused for its body  *)
(* or for the time that it took never will.                                *)
(*                                                                         *)
(* The promise is void once an id outgrows the integer that carries it.    *)
(***************************************************************************)
EXTENDS UserTypes

VARIABLES
    users,      \* the users that are stored
    request,    \* request[c] = what client c has asked for
    answer,     \* answer[c]  = what client c has been answered
    void        \* the terms of the promise have been broken

apiVars == <<users, request, answer, void>>

NoRequest == [kind |-> "none", id |-> 0]
Requests  == [kind : {"list", "post"}, id : {0}] \cup [kind : {"get"}, id : LookupIds]

Answer(outcome, s) == [outcome |-> outcome, users |-> s]
Waiting == Answer("none", {})

Init ==
    /\ users = {}
    /\ request = [c \in Calls |-> NoRequest]
    /\ answer = [c \in Calls |-> Waiting]
    /\ void = FALSE

Asks(c, kind) == request[c].kind = kind /\ answer[c] = Waiting

Tell(c, a) == answer' = [answer EXCEPT ![c] = a] /\ UNCHANGED users

Come(c) ==
    /\ request[c] = NoRequest
    /\ \E r \in Requests : request' = [request EXCEPT ![c] = r]
    /\ UNCHANGED <<users, answer>>

\* One POST stores one user, under an id that is new.
Store(c) ==
    /\ request[c].kind = "post"
    /\ answer[c].outcome \in {"none", "User is invalid!", "reset"}
    /\ OwnedBy(c, users) = {}
    /\ \E u \in users' :
          /\ u.name = c
          /\ u.id \notin IdsOf(users)
          /\ users' = users \cup {u}
    /\ UNCHANGED <<request, answer>>

ShowOne(c) ==
    /\ UNCHANGED request
    /\ \E u \in users :
          /\ \/ Asks(c, "post") /\ u.name = c
             \/ Asks(c, "get") /\ u.id = request[c].id
          /\ Tell(c, Answer("ok", {u}))

ShowList(c) ==
    /\ UNCHANGED request
    /\ Asks(c, "list")
    /\ \E some \in SUBSET users : Tell(c, Answer("ok", some))

Refuse(c) ==
    /\ UNCHANGED request
    /\ \/ Asks(c, "get") /\ Tell(c, Answer("User not found!", {}))
       \/ Asks(c, "post") /\ Tell(c, Answer("User is invalid!", {}))

\* Nothing is stored of these two, before or after.
RefuseBody(c) ==
    /\ Asks(c, "post") \/ Asks(c, "none")
    /\ OwnedBy(c, users) = {}
    /\ request' = [request EXCEPT ![c] = [kind |-> "post", id |-> 0]]
    /\ \E why \in {"bad body", "timeout"} : Tell(c, Answer(why, {}))

\* The server goes away, from all that wait at once.
Reset ==
    /\ answer' = [c \in Calls |-> IF request[c] # NoRequest /\ answer[c] = Waiting
                                  THEN Answer("reset", {}) ELSE answer[c]]
    /\ UNCHANGED <<users, request>>

Serve(c) ==
    \/ Come(c)
    \/ Store(c)
    \/ ShowOne(c)
    \/ ShowList(c)
    \/ Refuse(c)
    \/ RefuseBody(c)

Next == void' \/ (UNCHANGED void /\ (Reset \/ \E c \in Calls : Serve(c)))

Spec == Init /\ [][Next]_apiVars
=============================================================================

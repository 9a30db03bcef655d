--------------------------- MODULE UserDirectory ---------------------------
(***************************************************************************)
(* What the interface IUserDao promises to the service above it: a         *)
(* directory of users in which every operation takes effect at one moment  *)
(* between its call and its answer.  createUser adds one user under a      *)
(* fresh id and answers with that user; getUserById answers with the user  *)
(* of the id asked for; getUsers answers with all users of one moment.     *)
(* Any call may fail, and a failed createUser may still have stored its    *)
(* user.                                                                   *)
(*                                                                         *)
(* An implementation keeps this promise on terms of its own (void is TRUE  *)
(* once they are broken: an id that does not fit, a data race), and        *)
(* from then on nothing is promised.                                       *)
(***************************************************************************)
EXTENDS UserTypes

CONSTANT Seeds    \* the users that the directory begins with

VARIABLES
    users,      \* the users in the directory
    request,    \* request[c] = the operation that call c asked for
    answer,     \* answer[c]  = what call c was told
    void        \* the terms of the promise have been broken

directoryVars == <<users, request, answer, void>>

NoRequest == [op |-> "none", id |-> 0]
Requests  == [op : {"createUser", "getUsers"}, id : {0}]
               \cup [op : {"getUserById"}, id : LookupIds]
Pending   == [state |-> "pending", users |-> {}]
Failed    == [state |-> "failed", users |-> {}]
Served(s) == [state |-> "served", users |-> s]

Init ==
    /\ users = Seeds
    /\ request = [c \in Calls |-> NoRequest]
    /\ answer = [c \in Calls |-> Pending]
    /\ void = FALSE

Waits(c, op) == request[c].op = op /\ answer[c] = Pending

Tell(c, a) == answer' = [answer EXCEPT ![c] = a] /\ UNCHANGED <<users, request>>

Ask(c) ==
    /\ request[c] = NoRequest
    /\ \E r \in Requests : request' = [request EXCEPT ![c] = r]
    /\ UNCHANGED <<users, answer>>

\* The user is stored; the caller either has yet to hear of it or is told
\* that the call failed.
Insert(c) ==
    /\ Waits(c, "createUser")
    /\ OwnedBy(c, users) = {}
    /\ \E u \in users' :
          /\ u.name = c
          /\ u.id \notin IdsOf(users)
          /\ users' = users \cup {u}
    /\ answer' \in {answer, [answer EXCEPT ![c] = Failed]}
    /\ UNCHANGED request

AnswerCreated(c) ==
    /\ Waits(c, "createUser")
    /\ OwnedBy(c, users) # {}
    /\ Tell(c, Served(OwnedBy(c, users)))

AnswerFound(c) ==
    /\ Waits(c, "getUserById")
    /\ \E u \in users : u.id = request[c].id /\ Tell(c, Served({u}))

AnswerAll(c) == Waits(c, "getUsers") /\ Tell(c, Served(users))

Fail(c) == request[c] # NoRequest /\ answer[c] = Pending /\ Tell(c, Failed)

Serve(c) ==
    \/ Ask(c)
    \/ Insert(c)
    \/ AnswerCreated(c)
    \/ AnswerFound(c)
    \/ AnswerAll(c)
    \/ Fail(c)

Next == void' \/ (UNCHANGED void /\ \E c \in Calls : Serve(c))

Spec == Init /\ [][Next]_directoryVars
=============================================================================

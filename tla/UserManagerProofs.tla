-------------------------- MODULE UserManagerProofs --------------------------
(***************************************************************************)
(* What the user manager guarantees for any number of calls and replicas,  *)
(* whatever crashes, is killed or loses its connection.                    *)
(*                                                                         *)
(* A call's part of the state is its remote call, its thread and its DAO   *)
(* operation.  A step of a handler changes the part of one call, and at    *)
(* most adds that call's row; the invariant is therefore stated call by    *)
(* call (CallFits), beside what the ids of all calls have in common.       *)
(***************************************************************************)
EXTENDS UserManager, OdbUserDaoProofs, UserRpcProofs

-----------------------------------------------------------------------------
(***************************************************************************)
(* The inductive invariant.                                                *)
(***************************************************************************)

\* Each method of the DAO is where it can be and ends as it can end.
MethodFits(c) ==
    /\ At(c, "idle") => dao[c].op = "none"
    /\ At(c, "persist") \/ At(c, "commit") => dao[c].op = "createUser"
    /\ At(c, "query") => dao[c].op \in {"createUser", "getUserById"}
    /\ At(c, "scan") => dao[c].op = "getUsers"
    /\ At(c, "returned") =>
          \/ dao[c].op = "createUser" /\ dao[c].outcome \in {"user", "null", "fault"}
          \/ dao[c].op = "getUserById" /\ dao[c].outcome \in {"user", "throw", "fault"}
          \/ dao[c].op = "getUsers" /\ dao[c].outcome \in {"users", "throw"}

\* The DAO works for a thread of a running replica, or it is a transaction that
\* has lost its client; and it does what the remote call asks for.
ThreadFits(c) ==
    /\ at[c] # NoServer => at[c] \in up /\ ~At(c, "idle")
    /\ at[c] = NoServer => At(c, "idle") \/ At(c, "commit")
    /\ ~At(c, "idle") =>
          /\ rpc[c].phase \in {"open", "ended"}
          /\ \/ dao[c].op = "createUser" /\ rpc[c].method = "CreateUser"
             \/ dao[c].op = "getUserById" /\ rpc[c].method = "ReadUser" /\ dao[c].id = rpc[c].id
             \/ dao[c].op = "getUsers" /\ rpc[c].method = "ReadUsers"

\* A status is sent last, and a unary method replies with it.
RpcFits(c) ==
    /\ rpc[c].method = "none" <=> rpc[c].phase = "unused"
    /\ rpc[c].ok => rpc[c].phase = "ended" /\ At(c, "idle")
    /\ rpc[c].phase \in {"unused", "sent"} => rpc[c].replies = {}
    /\ rpc[c].phase = "open" /\ rpc[c].method # "ReadUsers" => rpc[c].replies = {}

\* A row belongs to a creation that is past its commit and cannot come again,
\* since its remote call has been taken.
RowFits(c) ==
    OwnedBy(c, rows) # {} =>
        /\ rpc[c].method = "CreateUser"
        /\ rpc[c].phase \in {"open", "ended"}
        /\ ~At(c, "persist") /\ ~At(c, "commit")

\* A creation finds its own row again, while ids fit.
RereadFits(c) ==
    Unwrapped /\ dao[c].op = "createUser" =>
        /\ At(c, "query") => NewRow(c) \in rows
        /\ At(c, "returned") =>
              /\ dao[c].outcome # "fault"
              /\ dao[c].outcome = "user" => dao[c].users = OwnedBy(c, rows) /\ dao[c].users # {}

\* What is read, and what is replied, is stored.
ReadFits(c) ==
    /\ rpc[c].replies \subseteq rows
    /\ At(c, "returned") => dao[c].users \subseteq rows
    /\ At(c, "returned") /\ dao[c].op = "getUserById" /\ dao[c].outcome = "user" =>
          \E u \in rows : dao[c].users = {u} /\ u.id = dao[c].id

\* What OK says.
AnswerFits(c) ==
    rpc[c].ok =>
        /\ rpc[c].method = "CreateUser" /\ Unwrapped =>
              rpc[c].replies # {} /\ rpc[c].replies = OwnedBy(c, rows)
        /\ rpc[c].method = "ReadUser" =>
              \E u \in rows : rpc[c].replies = {u} /\ u.id = rpc[c].id

CallFits(c) ==
    /\ MethodFits(c)
    /\ ThreadFits(c)
    /\ RpcFits(c)
    /\ RowFits(c)
    /\ RereadFits(c)
    /\ ReadFits(c)
    /\ AnswerFits(c)

ManagerIInv ==
    /\ ManagerTypeOK
    /\ SequenceAhead
    /\ PendingFresh
    /\ RowsKeyed
    /\ \A c \in Calls : CallFits(c)

-----------------------------------------------------------------------------
(***************************************************************************)
(* What one call's step leaves alone.                                      *)
(***************************************************************************)

\* A call that a step does not touch keeps its part of the invariant, also
\* when another call's row is stored or other replicas start.
LEMMA UntouchedFits ==
    ASSUME ManagerIInv, NEW d \in Calls,
           dao'[d] = dao[d], rpc'[d] = rpc[d], at'[d] = at[d],
           at[d] \in up => at[d] \in up',
           rows \subseteq rows', OwnedBy(d, rows') = OwnedBy(d, rows)
    PROVE  CallFits(d)'
  <1>1. CallFits(d) /\ rpc[d] \in RpcRecord
    BY DEF ManagerIInv, ManagerTypeOK
  <1>2. Unwrapped' => Unwrapped
    BY DEF Unwrapped
  <1>3. MethodFits(d)'
    BY <1>1 DEF CallFits, MethodFits, At
  <1>4. ThreadFits(d)'
    BY <1>1 DEF CallFits, ThreadFits, At
  <1>5. RpcFits(d)'
    BY <1>1 DEF CallFits, RpcFits, At
  <1>6. RowFits(d)'
    BY <1>1 DEF CallFits, RowFits, At
  <1>7. RereadFits(d)'
    BY <1>1, <1>2 DEF CallFits, RereadFits, At, NewRow
  <1>8. ReadFits(d)'
    BY <1>1 DEF CallFits, ReadFits, At
  <1>9. AnswerFits(d)'
    BY <1>1, <1>2 DEF CallFits, AnswerFits
  <1> QED
    BY <1>3, <1>4, <1>5, <1>6, <1>7, <1>8, <1>9 DEF CallFits

\* A step of call c alone: it may take an id from the sequence, or store the
\* row that it was about to commit.
StepOf(c) ==
    /\ \A d \in Calls \ {c} : dao'[d] = dao[d] /\ rpc'[d] = rpc[d] /\ at'[d] = at[d]
    /\ up \subseteq up'
    /\ \/ rows' = rows
       \/ rows' = rows \cup {NewRow(c)} /\ At(c, "commit") /\ ~At(c, "commit")'
    /\ nextId' \in {nextId, nextId + 1}
    /\ At(c, "commit")' =>
          /\ rows' = rows
          /\ \/ At(c, "commit") /\ dao'[c].id = dao[c].id
             \/ dao'[c].id = nextId /\ nextId' = nextId + 1

\* Such a step keeps the invariant when call c keeps its own part of it.
LEMMA StepOfKeeps ==
    ASSUME ManagerIInv, ManagerTypeOK', NEW c \in Calls, StepOf(c), CallFits(c)'
    PROVE  ManagerIInv'
  <1>1. At(c, "commit") => /\ dao[c].id \in 1 .. (nextId - 1)
                           /\ dao[c].id \notin IdsOf(rows)
                           /\ OwnedBy(c, rows) = {}
    BY DEF ManagerIInv, SequenceAhead, PendingFresh, CallFits, RowFits
  <1>2. nextId \in Nat /\ nextId' \in Nat
    BY DEF ManagerIInv, ManagerTypeOK, DaoTypeOK
  <1>3. SequenceAhead'
    <2>1. \A k \in 1 .. (nextId - 1) : k \in 1 .. (nextId' - 1)
      <3>1. CASE nextId' = nextId
        BY <3>1
      <3>2. CASE nextId' = nextId + 1
        BY <1>2, <3>2
      <3> QED
        BY <3>1, <3>2 DEF StepOf
    <2>2. \A u \in rows' : u.id \in 1 .. (nextId - 1)
      BY <1>1 DEF ManagerIInv, SequenceAhead, StepOf, NewRow
    <2>3. ASSUME NEW d \in Calls, At(d, "commit")'
          PROVE  dao'[d].id \in 1 .. (nextId' - 1)
      <3>1. CASE At(d, "commit") /\ dao'[d].id = dao[d].id
        BY <2>1, <3>1 DEF ManagerIInv, SequenceAhead
      <3>2. CASE dao'[d].id = nextId /\ nextId' = nextId + 1
        BY <1>2, <3>2 DEF ManagerIInv, ManagerTypeOK, DaoTypeOK
      <3> QED
        BY <2>3, <3>1, <3>2 DEF StepOf, At
    <2> QED
      BY <2>1, <2>2, <2>3 DEF SequenceAhead, At
  <1>4. PendingFresh'
    <2>1. \A u \in rows : u.id # nextId
      BY <1>2 DEF ManagerIInv, SequenceAhead
    <2>2. \A d \in Calls : At(d, "commit") => dao[d].id # nextId
      BY <1>2 DEF ManagerIInv, SequenceAhead
    <2>3. ASSUME NEW d \in Calls, At(d, "commit")'
          PROVE  dao'[d].id \notin IdsOf(rows')
      <3>1. CASE d = c
        BY <2>1, <2>3, <3>1 DEF ManagerIInv, PendingFresh, StepOf, At, IdsOf
      <3>2. CASE d # c
        BY <2>3, <3>2 DEF ManagerIInv, PendingFresh, StepOf, At, IdsOf, NewRow
      <3> QED
        BY <3>1, <3>2
    <2>4. ASSUME NEW d \in Calls, NEW e \in Calls, At(d, "commit")', At(e, "commit")',
                 dao'[e].id = dao'[d].id
          PROVE  e = d
      BY <2>2, <2>4 DEF ManagerIInv, PendingFresh, StepOf, At
    <2> QED
      BY <2>3, <2>4 DEF PendingFresh, At
  <1>5. RowsKeyed'
    BY <1>1 DEF ManagerIInv, RowsKeyed, StepOf, NewRow, IdsOf, OwnedBy
  <1>6. ASSUME NEW d \in Calls
        PROVE  CallFits(d)'
    <2>1. CASE d = c
      BY <2>1
    <2>2. CASE d # c
      <3>1. OwnedBy(d, rows') = OwnedBy(d, rows)
        BY <2>2 DEF StepOf, OwnedBy, NewRow
      <3> QED
        BY <2>2, <3>1, UntouchedFits DEF StepOf
    <2> QED
      BY <2>1, <2>2
  <1> QED
    BY <1>3, <1>4, <1>5, <1>6 DEF ManagerIInv

-----------------------------------------------------------------------------
(***************************************************************************)
(* The steps of a handler.                                                 *)
(***************************************************************************)

\* A server thread takes a request that no thread has seen (Enter).
LEMMA EnterKeeps ==
    ASSUME ManagerIInv, NEW c \in Calls, NEW s \in Servers,
           NEW method, NEW op, NEW pc, NEW id \in Nat,
           <<method, op, pc>> \in {<<"ReadUsers", "getUsers", "scan">>,
                                   <<"ReadUser", "getUserById", "query">>,
                                   <<"CreateUser", "createUser", "persist">>},
           op = "getUserById" => id = rpc[c].id,
           Enter(c, s, method), Call(c, op, pc, id)
    PROVE  ManagerIInv'
  <1>1. ManagerTypeOK /\ CallFits(c)
    BY DEF ManagerIInv
  <1>2. DaoTypeOK' /\ Becomes(c, op, pc, id, "none", {})
    BY <1>1, CallType, CallBecomes DEF ManagerTypeOK
  <1>3. RpcBecomes(c, "open", rpc[c].method, rpc[c].id, rpc[c].replies, rpc[c].ok)
    BY <1>1, RpcTakeBecomes DEF Enter, ManagerTypeOK
  <1>4. /\ s \in up /\ UNCHANGED <<up, kills, rows, nextId>>
        /\ at' = [at EXCEPT ![c] = s] /\ counter' = [counter EXCEPT ![s] = @ + 1]
        /\ rpc[c].phase = "sent" /\ rpc[c].method = method /\ dao[c].pc = "idle"
    BY DEF Enter, Call, RpcTake, RpcIs, At
  <1>5. ManagerTypeOK'
    BY <1>1, <1>2, <1>3, <1>4 DEF ManagerTypeOK, RpcBecomes
  <1>6. at'[c] = s /\ s # NoServer /\ \A d \in Calls \ {c} : at'[d] = at[d]
    BY <1>1, <1>4, ServersAssumption DEF ManagerTypeOK
  <1>7. StepOf(c)
    BY <1>2, <1>3, <1>4, <1>6 DEF StepOf, Becomes, RpcBecomes, At
  <1>8. rpc[c].replies = {} /\ ~rpc[c].ok /\ OwnedBy(c, rows) = {}
    BY <1>1, <1>4 DEF CallFits, RpcFits, RowFits
  <1>9. MethodFits(c)'
    BY <1>2 DEF MethodFits, Becomes, At
  <1>10. ThreadFits(c)'
    BY <1>2, <1>3, <1>4, <1>6 DEF ThreadFits, Becomes, RpcBecomes, At
  <1>11. RpcFits(c)'
    BY <1>1, <1>2, <1>3, <1>4, <1>8 DEF CallFits, RpcFits, Becomes, RpcBecomes, At
  <1>12. RowFits(c)' /\ RereadFits(c)' /\ ReadFits(c)' /\ AnswerFits(c)'
    BY <1>2, <1>3, <1>4, <1>8
       DEF RowFits, RereadFits, ReadFits, AnswerFits, Becomes, RpcBecomes, At
  <1> QED
    BY <1>5, <1>7, <1>9, <1>10, <1>11, <1>12, StepOfKeeps DEF CallFits

\* A method of the DAO returns to its handler, having stored nothing or not
\* telling: it speaks of committed rows only, a creation only of its own.
LEMMA HandlerReturnKeeps ==
    ASSUME ManagerIInv, DaoTypeOK', UNCHANGED <<rpc, serverVars>>,
           NEW c \in Calls, Served(c), ~At(c, "idle"), ~At(c, "returned"),
           NEW outcome, NEW users, Return(c, outcome, users),
           \/ rows' = rows
           \/ At(c, "commit") /\ rows' = rows \cup {NewRow(c)},
           nextId' \in {nextId, nextId + 1}, users \subseteq rows,
           \/ /\ dao[c].op = "createUser"
              /\ outcome \in {"user", "null", "fault"}
              /\ Unwrapped' => outcome # "fault"
              /\ Unwrapped' /\ outcome = "user" => users = OwnedBy(c, rows') /\ users # {}
           \/ /\ dao[c].op = "getUserById"
              /\ outcome \in {"user", "throw", "fault"}
              /\ outcome = "user" => \E u \in rows : users = {u} /\ u.id = dao[c].id
           \/ dao[c].op = "getUsers" /\ outcome \in {"users", "throw"}
    PROVE  ManagerIInv'
  <1>1. ManagerTypeOK /\ CallFits(c)
    BY DEF ManagerIInv
  <1>2. Becomes(c, dao[c].op, "returned", dao[c].id, outcome, users)
    BY <1>1, ReturnBecomes DEF ManagerTypeOK
  <1>3. /\ rpc' = rpc /\ at' = at /\ up' = up /\ counter' = counter /\ kills' = kills
        /\ at[c] \in up /\ at[c] # NoServer
    BY <1>1, ServersAssumption DEF serverVars, Served, ManagerTypeOK
  <1>4. ManagerTypeOK'
    BY <1>1, <1>3 DEF ManagerTypeOK
  <1>5. StepOf(c)
    BY <1>2, <1>3 DEF StepOf, Becomes, At
  <1>6. ~rpc[c].ok /\ rpc[c].phase \in {"open", "ended"} /\ rows \subseteq rows'
    BY <1>1 DEF CallFits, ThreadFits, RpcFits
  <1>7. MethodFits(c)'
    BY <1>2 DEF MethodFits, Becomes, At
  <1>8. ThreadFits(c)'
    BY <1>1, <1>2, <1>3 DEF CallFits, ThreadFits, Becomes, At
  <1>9. RpcFits(c)'
    BY <1>1, <1>2, <1>3, <1>6 DEF CallFits, RpcFits, Becomes, At
  <1>10. RowFits(c)'
    <2>1. CASE dao[c].op = "createUser"
      BY <1>1, <1>2, <1>3, <2>1 DEF CallFits, ThreadFits, RowFits, Becomes, At
    <2>2. CASE dao[c].op # "createUser"
      <3>1. rows' = rows
        BY <1>1, <2>2 DEF CallFits, MethodFits
      <3> QED
        BY <1>1, <1>2, <1>3, <3>1 DEF CallFits, RowFits, Becomes, At
    <2> QED
      BY <2>1, <2>2
  <1>11. RereadFits(c)'
    BY <1>2 DEF RereadFits, Becomes, At
  <1>12. ReadFits(c)'
    BY <1>1, <1>2, <1>3, <1>6 DEF CallFits, ReadFits, Becomes, At
  <1>13. AnswerFits(c)'
    BY <1>3, <1>6 DEF AnswerFits
  <1> QED
    BY <1>4, <1>5, <1>7, <1>8, <1>9, <1>10, <1>11, <1>12, <1>13, StepOfKeeps DEF CallFits

\* A handler whose DAO works (HandlerDaoStep: all of DaoStep).
LEMMA HandlerDaoKeeps ==
    ASSUME ManagerIInv, NEW c \in Calls, HandlerDaoStep(c)
    PROVE  ManagerIInv'
  <1>1. /\ ManagerTypeOK /\ CallFits(c) /\ DaoStep(c)
        /\ UNCHANGED <<rpc, serverVars>> /\ Served(c)
    BY DEF ManagerIInv, HandlerDaoStep
  <1>2. DaoTypeOK'
    BY <1>1, TypeStep DEF DaoNext, ManagerTypeOK
  <1>3. /\ rpc' = rpc /\ at' = at /\ up' = up /\ counter' = counter /\ kills' = kills
        /\ at[c] \in up /\ at[c] # NoServer
    BY <1>1, ServersAssumption DEF serverVars, Served, ManagerTypeOK
  <1>4. ManagerTypeOK'
    BY <1>1, <1>2, <1>3 DEF ManagerTypeOK
  <1>5. /\ ~At(c, "idle") => rpc[c].phase \in {"open", "ended"} /\ ~rpc[c].ok
        /\ At(c, "commit") \/ At(c, "persist") =>
              dao[c].op = "createUser" /\ rpc[c].method = "CreateUser" /\ OwnedBy(c, rows) = {}
    BY <1>1 DEF CallFits, MethodFits, ThreadFits, RpcFits, RowFits, At
  <1>6. CASE Persist(c)
    <2>1. Becomes(c, dao[c].op, "commit", nextId, dao[c].outcome, dao[c].users)
      BY <1>1, <1>6 DEF Persist, Becomes, ManagerTypeOK, DaoTypeOK, DaoRecord
    <2>2. rows' = rows /\ nextId' = nextId + 1 /\ At(c, "persist")
      BY <1>6 DEF Persist
    <2>3. StepOf(c)
      BY <1>3, <2>1, <2>2 DEF StepOf, Becomes, At
    <2>4. MethodFits(c)' /\ ThreadFits(c)' /\ RpcFits(c)'
      BY <1>1, <1>3, <1>5, <2>1, <2>2
         DEF CallFits, MethodFits, ThreadFits, RpcFits, Becomes, At
    <2>5. RowFits(c)' /\ RereadFits(c)' /\ ReadFits(c)' /\ AnswerFits(c)'
      BY <1>1, <1>3, <1>5, <2>1, <2>2
         DEF CallFits, RowFits, RereadFits, ReadFits, AnswerFits, Becomes, At
    <2> QED
      BY <1>4, <2>3, <2>4, <2>5, StepOfKeeps DEF CallFits
  <1>7. CASE PersistFails(c)
    BY <1>1, <1>2, <1>5, <1>7, HandlerReturnKeeps DEF PersistFails, At
  <1>8. CASE Commit(c)
    <2>1. /\ Becomes(c, dao[c].op, "query", Narrow(dao[c].id), dao[c].outcome, dao[c].users)
          /\ rows' = rows \cup {NewRow(c)} /\ nextId' = nextId /\ At(c, "commit")
      BY <1>1, <1>8 DEF Commit, Becomes, ManagerTypeOK, DaoTypeOK, DaoRecord
    <2>2. dao[c].id \in Nat /\ (dao[c].id < IdModulus => Narrow(dao[c].id) = dao[c].id)
      BY <1>1, NarrowKeepsSmallIds DEF ManagerTypeOK, DaoTypeOK, DaoRecord
    <2>3. StepOf(c)
      BY <1>3, <2>1 DEF StepOf, Becomes, At
    <2>4. MethodFits(c)' /\ ThreadFits(c)' /\ RpcFits(c)'
      BY <1>1, <1>3, <1>5, <2>1
         DEF CallFits, MethodFits, ThreadFits, RpcFits, Becomes, At
    <2>5. RowFits(c)'
      BY <1>3, <1>5, <2>1 DEF RowFits, Becomes, At
    <2>6. RereadFits(c)'
      <3>1. Unwrapped' => dao[c].id < IdModulus
        <4>1. NewRow(c) \in rows' /\ NewRow(c).id = dao[c].id
          BY <2>1 DEF NewRow
        <4> QED
          BY <4>1 DEF Unwrapped
      <3> QED
        BY <2>1, <2>2, <3>1 DEF RereadFits, Becomes, At, NewRow
    <2>7. ReadFits(c)' /\ AnswerFits(c)'
      BY <1>1, <1>3, <1>5, <2>1 DEF CallFits, ReadFits, AnswerFits, Becomes, At
    <2> QED
      BY <1>4, <2>3, <2>4, <2>5, <2>6, <2>7, StepOfKeeps DEF CallFits
  <1>9. CASE CommitFails(c)
    BY <1>1, <1>2, <1>5, <1>9, HandlerReturnKeeps DEF CommitFails, At
  <1>10. CASE QueryById(c)
    <2> DEFINE found == {u \in rows : u.id = dao[c].id}
    <2>1. /\ found \subseteq rows /\ At(c, "query") /\ UNCHANGED <<rows, nextId>>
          /\ \/ found # {} /\ Return(c, "user", found)
             \/ found = {} /\ Return(c, "fault", {})
      BY <1>10 DEF QueryById
    <2>2. dao[c].op \in {"createUser", "getUserById"}
      BY <1>1, <2>1 DEF CallFits, MethodFits
    <2>3. dao[c].op = "createUser" /\ Unwrapped => found = OwnedBy(c, rows) /\ found # {}
      <3>1. SUFFICES ASSUME dao[c].op = "createUser", Unwrapped
                     PROVE  found = OwnedBy(c, rows) /\ found # {}
        OBVIOUS
      <3>2. NewRow(c) \in rows
        BY <1>1, <2>1, <3>1 DEF CallFits, RereadFits
      <3>3. \A u \in rows : u.id = dao[c].id \/ u.name = c => u = NewRow(c)
        BY <3>2 DEF ManagerIInv, RowsKeyed, NewRow
      <3> QED
        BY <3>2, <3>3 DEF NewRow, OwnedBy
    <2>4. found # {} => \E u \in rows : found = {u} /\ u.id = dao[c].id
      <3>1. ASSUME NEW u \in found
            PROVE  found = {u} /\ u.id = dao[c].id
        BY DEF ManagerIInv, RowsKeyed
      <3> QED
        BY <3>1
    <2>5. Unwrapped' <=> Unwrapped
      BY <2>1 DEF Unwrapped
    <2> HIDE DEF found
    <2>6. CASE found # {} /\ Return(c, "user", found)
      BY <1>1, <1>2, <2>1, <2>2, <2>3, <2>4, <2>5, <2>6, HandlerReturnKeeps DEF At
    <2>7. CASE found = {} /\ Return(c, "fault", {})
      BY <1>1, <1>2, <2>1, <2>2, <2>3, <2>5, <2>7, HandlerReturnKeeps DEF At
    <2> QED
      BY <2>1, <2>6, <2>7
  <1>11. CASE QueryByIdFails(c)
    <2>1. dao[c].op \in {"createUser", "getUserById"}
      BY <1>1, <1>11 DEF CallFits, MethodFits, QueryByIdFails
    <2> QED
      BY <1>1, <1>2, <1>11, <2>1, HandlerReturnKeeps DEF QueryByIdFails, At
  <1>12. CASE GetUsers(c)
    <2>1. dao[c].op = "getUsers"
      BY <1>1, <1>12 DEF CallFits, MethodFits, GetUsers
    <2> QED
      BY <1>1, <1>2, <1>12, <2>1, HandlerReturnKeeps DEF GetUsers, At
  <1>13. CASE GetUsersFails(c)
    <2>1. dao[c].op = "getUsers"
      BY <1>1, <1>13 DEF CallFits, MethodFits, GetUsersFails
    <2> QED
      BY <1>1, <1>2, <1>13, <2>1, HandlerReturnKeeps DEF GetUsersFails, At
  <1> QED
    BY <1>1, <1>6, <1>7, <1>8, <1>9, <1>10, <1>11, <1>12, <1>13 DEF DaoStep

\* One user of ReadUsers' loop (WriteUser).
LEMMA WriteUserKeeps ==
    ASSUME ManagerIInv, NEW c \in Calls, WriteUser(c)
    PROVE  ManagerIInv'
  <1>1. /\ ManagerTypeOK /\ CallFits(c)
        /\ Served(c) /\ At(c, "returned") /\ dao[c].outcome = "users"
        /\ UNCHANGED <<rows, nextId, serverVars>>
    BY DEF ManagerIInv, WriteUser, DaoGave
  <1>2. PICK u \in dao[c].users : /\ RpcWrite(c, u)
                                  /\ dao' = [dao EXCEPT ![c].users = @ \ {u}]
    BY DEF WriteUser
  <1>3. dao[c].users \subseteq rows /\ dao[c].op = "getUsers" /\ u \in rows /\ u \in User
    BY <1>1 DEF CallFits, ReadFits, MethodFits, ManagerTypeOK, DaoTypeOK
  <1>4. Becomes(c, dao[c].op, "returned", dao[c].id, "users", dao[c].users \ {u}) /\ DaoTypeOK'
    <2>1. [dao[c] EXCEPT !.users = @ \ {u}] \in DaoRecord
      BY <1>1 DEF ManagerTypeOK, DaoTypeOK, DaoRecord
    <2>2. dao' = [dao EXCEPT ![c] = [dao[c] EXCEPT !.users = @ \ {u}]]
      BY <1>2
    <2>3. DaoTypeOK'
      BY <1>1, <2>1, <2>2, UpdateType DEF ManagerTypeOK, DaoTypeOK
    <2> QED
      BY <1>1, <2>2, <2>3 DEF Becomes, At, ManagerTypeOK, DaoTypeOK, DaoRecord
  <1>5. IF RpcIs(c, "open")
        THEN RpcBecomes(c, "open", rpc[c].method, rpc[c].id, rpc[c].replies \cup {u}, rpc[c].ok)
        ELSE rpc' = rpc
    BY <1>1, <1>2, <1>3, RpcWriteBecomes DEF ManagerTypeOK
  <1>6. /\ rpc' \in [Calls -> RpcRecord]
        /\ rpc'[c].phase = rpc[c].phase /\ rpc'[c].method = rpc[c].method
        /\ rpc'[c].ok = rpc[c].ok /\ rpc'[c].id = rpc[c].id
        /\ rpc[c].replies \subseteq rpc'[c].replies
        /\ rpc'[c].replies \subseteq rpc[c].replies \cup {u}
        /\ \A d \in Calls \ {c} : rpc'[d] = rpc[d]
    BY <1>1, <1>5 DEF RpcBecomes, RpcIs, ManagerTypeOK
  <1>7. ManagerTypeOK'
    BY <1>1, <1>4, <1>6 DEF ManagerTypeOK, serverVars
  <1>8. StepOf(c)
    BY <1>1, <1>4, <1>6 DEF StepOf, Becomes, At, serverVars
  <1>9. /\ at[c] # NoServer /\ rpc[c].method = "ReadUsers" /\ ~rpc[c].ok
        /\ rpc[c].phase \in {"open", "ended"}
    BY <1>1, <1>3, ServersAssumption
       DEF CallFits, ThreadFits, RpcFits, Served, ManagerTypeOK, At
  <1>10. MethodFits(c)' /\ ThreadFits(c)'
    BY <1>1, <1>3, <1>4, <1>6
       DEF CallFits, MethodFits, ThreadFits, Becomes, At, serverVars
  <1>11. RpcFits(c)' /\ RowFits(c)'
    BY <1>1, <1>4, <1>6, <1>9 DEF CallFits, RpcFits, RowFits, Becomes, At
  <1>12. RereadFits(c)' /\ ReadFits(c)' /\ AnswerFits(c)'
    BY <1>1, <1>3, <1>4, <1>6, <1>9
       DEF CallFits, RereadFits, ReadFits, AnswerFits, Becomes, At
  <1> QED
    BY <1>7, <1>8, <1>10, <1>11, <1>12, StepOfKeeps DEF CallFits

\* A handler that returns leaves its thread free.  With OK it answers a unary
\* call as the DAO answered it (ReturnUsers, ReturnUser, HandlerThrows).
LEMMA LeaveKeeps ==
    ASSUME ManagerIInv, NEW c \in Calls, Served(c), At(c, "returned"),
           NEW ok \in BOOLEAN, NEW response, Leave(c, ok, response),
           \/ ok = FALSE /\ response = {}
           \/ ok = TRUE /\ response = {} /\ dao[c].op = "getUsers"
           \/ /\ ok = TRUE /\ response = dao[c].users
              /\ dao[c].op # "getUsers" /\ dao[c].outcome = "user"
    PROVE  ManagerIInv'
  <1>1. /\ ManagerTypeOK /\ CallFits(c)
        /\ UNCHANGED <<rows, nextId, up, counter, kills>>
        /\ at' = [at EXCEPT ![c] = NoServer] /\ dao' = [dao EXCEPT ![c] = Idle]
    BY DEF ManagerIInv, Leave
  <1>2. /\ response \subseteq rows /\ response \in SUBSET User
        /\ rpc[c].method = "ReadUsers" <=> dao[c].op = "getUsers"
        /\ rpc[c].method = "ReadUser" <=> dao[c].op = "getUserById"
        /\ rpc[c].method = "CreateUser" <=> dao[c].op = "createUser"
        /\ dao[c].op \in {"createUser", "getUserById", "getUsers"}
    BY <1>1 DEF CallFits, ReadFits, ThreadFits, MethodFits, ManagerTypeOK, DaoTypeOK, At
  <1>3. Becomes(c, "none", "idle", 0, "none", {}) /\ DaoTypeOK'
    <2>1. Idle \in DaoRecord
      BY DEF Idle, DaoRecord
    <2> QED
      BY <1>1, <2>1 DEF Becomes, ManagerTypeOK, DaoTypeOK, Idle
  <1>4. IF RpcIs(c, "open")
        THEN RpcBecomes(c, "ended", rpc[c].method, rpc[c].id, rpc[c].replies \cup response, ok)
        ELSE rpc' = rpc
    BY <1>1, <1>2, RpcFinishBecomes DEF Leave, ManagerTypeOK
  <1>5. rpc' \in [Calls -> RpcRecord] /\ \A d \in Calls \ {c} : rpc'[d] = rpc[d]
    BY <1>1, <1>4 DEF RpcBecomes, ManagerTypeOK
  <1>6. ManagerTypeOK'
    BY <1>1, <1>3, <1>5 DEF ManagerTypeOK
  <1>7. at'[c] = NoServer /\ \A d \in Calls \ {c} : at'[d] = at[d]
    BY <1>1 DEF ManagerTypeOK
  <1>8. StepOf(c)
    BY <1>1, <1>3, <1>5, <1>7 DEF StepOf, Becomes, At
  <1>9. MethodFits(c)' /\ ThreadFits(c)' /\ RereadFits(c)'
    BY <1>3, <1>7 DEF MethodFits, ThreadFits, RereadFits, Becomes, At
  <1>10. CASE RpcIs(c, "open")
    <2>1. /\ rpc'[c].phase = "ended" /\ rpc'[c].method = rpc[c].method /\ rpc'[c].id = rpc[c].id
          /\ rpc'[c].replies = rpc[c].replies \cup response /\ (rpc'[c].ok <=> ok)
      BY <1>4, <1>10 DEF RpcBecomes
    <2>2. RpcFits(c)' /\ RowFits(c)'
      BY <1>1, <1>3, <1>10, <2>1 DEF CallFits, RpcFits, RowFits, Becomes, RpcIs, At
    <2>3. ReadFits(c)'
      BY <1>1, <1>2, <1>3, <2>1 DEF CallFits, ReadFits, Becomes, At
    <2>4. rpc[c].method # "ReadUsers" => rpc[c].replies = {}
      BY <1>1, <1>10 DEF CallFits, RpcFits, RpcIs
    <2>5. AnswerFits(c)'
      <3>1. SUFFICES ASSUME ok
                     PROVE  AnswerFits(c)'
        BY <2>1 DEF AnswerFits
      <3>2. CASE rpc[c].method = "CreateUser"
        BY <1>1, <1>2, <2>1, <2>4, <3>1, <3>2
           DEF CallFits, RereadFits, AnswerFits, Unwrapped
      <3>3. CASE rpc[c].method = "ReadUser"
        <4>1. PICK u \in rows : dao[c].users = {u} /\ u.id = dao[c].id
          BY <1>1, <1>2, <3>1, <3>3 DEF CallFits, ReadFits
        <4>2. dao[c].id = rpc[c].id
          BY <1>1, <1>2, <3>3 DEF CallFits, ThreadFits, At
        <4> QED
          BY <1>1, <1>2, <2>1, <2>4, <3>1, <3>3, <4>1, <4>2 DEF AnswerFits
      <3>4. CASE rpc[c].method = "ReadUsers"
        BY <2>1, <3>4 DEF AnswerFits
      <3> QED
        BY <1>2, <3>2, <3>3, <3>4
    <2> QED
      BY <1>6, <1>8, <1>9, <2>2, <2>3, <2>5, StepOfKeeps DEF CallFits
  <1>11. CASE ~RpcIs(c, "open")
    <2>1. rpc' = rpc /\ ~rpc[c].ok /\ rpc[c].phase = "ended"
      BY <1>1, <1>4, <1>11 DEF CallFits, RpcFits, ThreadFits, RpcIs, At
    <2>2. RpcFits(c)' /\ RowFits(c)' /\ ReadFits(c)' /\ AnswerFits(c)'
      BY <1>1, <1>3, <2>1
         DEF CallFits, RpcFits, RowFits, ReadFits, AnswerFits, Becomes, At
    <2> QED
      BY <1>6, <1>8, <1>9, <2>2, StepOfKeeps DEF CallFits
  <1> QED
    BY <1>10, <1>11

-----------------------------------------------------------------------------
(***************************************************************************)
(* The steps of the environment.                                           *)
(***************************************************************************)

\* A replica that dies takes its calls with it, all but the commits that are
\* on their way (Crash, by Kill or NullDereference).
LEMMA CrashKeeps ==
    ASSUME ManagerIInv, NEW s \in Servers, Crash(s), kills' \in 0 .. MaxKills
    PROVE  ManagerIInv'
  <1> DEFINE dying == {c \in Calls : at[c] = s}
  <1>1. /\ ManagerTypeOK /\ \A c \in Calls : CallFits(c)
        /\ up' = up \ {s} /\ counter' = [counter EXCEPT ![s] = 0]
        /\ RpcBreak(dying) /\ UNCHANGED <<rows, nextId>>
    BY DEF ManagerIInv, Crash
  <1>2. \A c \in Calls : /\ c \in dying => at[c] = s /\ at'[c] = NoServer
                         /\ c \notin dying => at[c] # s /\ at'[c] = at[c]
    BY DEF Crash
  <1>3. \A c \in Calls : dao'[c] = IF c \in dying /\ ~At(c, "commit") THEN Idle ELSE dao[c]
    BY DEF Crash
  <1>4. /\ rpc' \in [Calls -> RpcRecord]
        /\ \A d \in Calls :
              \/ rpc'[d] = rpc[d] /\ (d \in dying => rpc[d].phase \in {"unused", "ended"})
              \/ /\ d \in dying
                 /\ rpc[d].phase \in {"sent", "open"}
                 /\ rpc'[d].phase = "ended"
                 /\ rpc'[d].method = rpc[d].method
                 /\ rpc'[d].id = rpc[d].id
                 /\ rpc'[d].replies = {}
                 /\ rpc'[d].ok = FALSE
    BY <1>1, RpcBreakBecomes DEF ManagerTypeOK
  <1> HIDE DEF dying
  <1>5. Idle \in DaoRecord
    BY DEF Idle, DaoRecord
  <1>6. ManagerTypeOK'
    <2>1. dao' \in [Calls -> DaoRecord]
      BY <1>1, <1>5 DEF Crash, ManagerTypeOK, DaoTypeOK
    <2>2. at' \in [Calls -> Servers \cup {NoServer}]
      BY <1>1 DEF Crash, ManagerTypeOK
    <2> QED
      BY <1>1, <1>4, <2>1, <2>2 DEF ManagerTypeOK, DaoTypeOK
  <1>7. \A c \in Calls : At(c, "commit")' => At(c, "commit") /\ dao'[c] = dao[c]
    BY <1>3 DEF At, Idle
  <1>8. SequenceAhead' /\ PendingFresh' /\ RowsKeyed'
    BY <1>1, <1>7 DEF ManagerIInv, SequenceAhead, PendingFresh, RowsKeyed, IdsOf
  <1>9. ASSUME NEW c \in Calls
        PROVE  CallFits(c)'
    <2>1. CASE c \notin dying
      BY <1>1, <1>2, <1>3, <1>4, <2>1, UntouchedFits
    <2>2. CASE c \in dying
      <3>1. CallFits(c) /\ s # NoServer /\ at[c] # NoServer /\ ~At(c, "idle") /\ ~rpc[c].ok
        BY <1>1, <1>2, <2>2, ServersAssumption DEF CallFits, ThreadFits, RpcFits
      <3>2. \/ At(c, "commit") /\ dao'[c] = dao[c]
            \/ dao'[c] = Idle /\ ~At(c, "commit")
        BY <1>3, <2>2
      <3>3. /\ rpc'[c].phase = "ended" /\ rpc'[c].method = rpc[c].method
            /\ rpc'[c].replies \subseteq rpc[c].replies /\ ~rpc'[c].ok /\ rpc'[c].id = rpc[c].id
            /\ rpc[c].phase # "unused"
        BY <1>4, <2>2, <3>1 DEF CallFits, ThreadFits
      <3>4. MethodFits(c)' /\ ThreadFits(c)'
        BY <1>2, <2>2, <3>1, <3>2, <3>3
           DEF CallFits, MethodFits, ThreadFits, At, Idle
      <3>5. RpcFits(c)' /\ AnswerFits(c)'
        BY <3>1, <3>3 DEF CallFits, RpcFits, AnswerFits
      <3>6. RowFits(c)' /\ RereadFits(c)' /\ ReadFits(c)'
        BY <1>1, <3>1, <3>2, <3>3
           DEF CallFits, RowFits, RereadFits, ReadFits, At, Idle
      <3> QED
        BY <3>4, <3>5, <3>6 DEF CallFits
    <2> QED
      BY <2>1, <2>2
  <1> QED
    BY <1>6, <1>8, <1>9 DEF ManagerIInv

\* A replica comes back without any call (Restart).
LEMMA RestartKeeps ==
    ASSUME ManagerIInv, NEW s \in Servers, Restart(s)
    PROVE  ManagerIInv'
  <1>1. /\ up' = up \cup {s} /\ UNCHANGED <<rpc, rows, nextId, dao, at, counter, kills>>
    BY DEF Restart, daoVars
  <1>2. ManagerTypeOK' /\ SequenceAhead' /\ PendingFresh' /\ RowsKeyed'
    BY <1>1 DEF ManagerIInv, ManagerTypeOK, DaoTypeOK, SequenceAhead, PendingFresh, RowsKeyed, At
  <1>3. \A c \in Calls : CallFits(c)'
    BY <1>1, UntouchedFits
  <1> QED
    BY <1>2, <1>3 DEF ManagerIInv

\* The database ends a transaction that nobody waits for (OrphanEnds).
LEMMA OrphanKeeps ==
    ASSUME ManagerIInv, NEW c \in Calls, OrphanEnds(c)
    PROVE  ManagerIInv'
  <1>1. /\ ManagerTypeOK /\ CallFits(c) /\ At(c, "commit") /\ at[c] = NoServer
        /\ rows' = rows \/ rows' = rows \cup {NewRow(c)}
        /\ dao' = [dao EXCEPT ![c] = Idle]
        /\ nextId' = nextId /\ rpc' = rpc /\ up' = up /\ at' = at
        /\ counter' = counter /\ kills' = kills
    BY DEF ManagerIInv, OrphanEnds, serverVars
  <1>2. Idle \in DaoRecord /\ NewRow(c) \in User
    BY <1>1 DEF Idle, DaoRecord, NewRow, User, ManagerTypeOK, DaoTypeOK
  <1>3. Becomes(c, "none", "idle", 0, "none", {})
    BY <1>1 DEF Becomes, ManagerTypeOK, DaoTypeOK, Idle
  <1>4. ManagerTypeOK'
    BY <1>1, <1>2 DEF ManagerTypeOK, DaoTypeOK
  <1>5. StepOf(c)
    BY <1>1, <1>3 DEF StepOf, Becomes, At
  <1>6. MethodFits(c)' /\ ThreadFits(c)' /\ RereadFits(c)'
    BY <1>1, <1>3 DEF MethodFits, ThreadFits, RereadFits, Becomes, At
  <1>7. /\ rpc[c].method = "CreateUser" /\ rpc[c].phase \in {"open", "ended"} /\ ~rpc[c].ok
        /\ rows \subseteq rows'
    BY <1>1 DEF CallFits, MethodFits, ThreadFits, RpcFits, At
  <1>8. RpcFits(c)' /\ RowFits(c)' /\ ReadFits(c)' /\ AnswerFits(c)'
    BY <1>1, <1>3, <1>7
       DEF CallFits, RpcFits, RowFits, ReadFits, AnswerFits, Becomes, At
  <1> QED
    BY <1>4, <1>5, <1>6, <1>8, StepOfKeeps DEF CallFits

\* A call that is broken on the way ends, whatever its handler goes on to do
\* (Disconnect and Unavailable).
LEMMA BreakKeeps ==
    ASSUME ManagerIInv, NEW c \in Calls, rpc[c].phase \in {"sent", "open"},
           RpcBreak({c}), UNCHANGED <<daoVars, serverVars>>
    PROVE  ManagerIInv'
  <1>1. /\ ManagerTypeOK /\ CallFits(c)
        /\ UNCHANGED <<rows, nextId, dao, up, at, counter, kills>>
    BY DEF ManagerIInv, daoVars, serverVars
  <1>2. /\ rpc' \in [Calls -> RpcRecord]
        /\ \A d \in Calls \ {c} : rpc'[d] = rpc[d]
        /\ rpc'[c].phase = "ended" /\ rpc'[c].method = rpc[c].method
        /\ rpc'[c].id = rpc[c].id /\ rpc'[c].replies = {} /\ ~rpc'[c].ok
    <2> DEFINE broken == {c}
    <2>1. c \in broken /\ \A d \in Calls \ {c} : d \notin broken
      OBVIOUS
    <2>2. RpcBreak(broken) /\ rpc \in [Calls -> RpcRecord]
      BY <1>1 DEF ManagerTypeOK
    <2> HIDE DEF broken
    <2> QED
      BY <2>1, <2>2, RpcBreakBecomes
  <1>3. ManagerTypeOK'
    BY <1>1, <1>2 DEF ManagerTypeOK, DaoTypeOK
  <1>4. StepOf(c)
    BY <1>1, <1>2 DEF StepOf, At
  <1>5. MethodFits(c)' /\ ThreadFits(c)' /\ RereadFits(c)'
    BY <1>1, <1>2 DEF CallFits, MethodFits, ThreadFits, RereadFits, Unwrapped, At, NewRow
  <1>6. RpcFits(c)' /\ RowFits(c)' /\ ReadFits(c)' /\ AnswerFits(c)'
    BY <1>1, <1>2 DEF CallFits, RpcFits, RowFits, ReadFits, AnswerFits, At
  <1> QED
    BY <1>3, <1>4, <1>5, <1>6, StepOfKeeps DEF CallFits

-----------------------------------------------------------------------------
(***************************************************************************)
(* The steps of the clients, which the gateway takes as well.              *)
(***************************************************************************)

\* A call is sent, once (RpcStart).
LEMMA StartKeeps ==
    ASSUME ManagerIInv, NEW c \in Calls, NEW method \in Methods, NEW id \in Nat,
           RpcStart(c, method, id), UNCHANGED <<daoVars, serverVars>>
    PROVE  ManagerIInv'
  <1>1. /\ ManagerTypeOK /\ CallFits(c) /\ rpc[c].phase = "unused"
        /\ UNCHANGED <<rows, nextId, dao, up, at, counter, kills>>
    BY DEF ManagerIInv, daoVars, serverVars, RpcStart, RpcIs
  <1>2. RpcBecomes(c, "sent", method, id, rpc[c].replies, rpc[c].ok)
    BY <1>1, RpcStartBecomes DEF ManagerTypeOK
  <1>3. ManagerTypeOK'
    BY <1>1, <1>2 DEF ManagerTypeOK, DaoTypeOK, RpcBecomes
  <1>4. StepOf(c)
    BY <1>1, <1>2 DEF StepOf, RpcBecomes, At
  <1>5. At(c, "idle") /\ ~rpc[c].ok /\ rpc[c].replies = {} /\ OwnedBy(c, rows) = {}
    BY <1>1 DEF CallFits, ThreadFits, RpcFits, RowFits
  <1>6. MethodFits(c)' /\ ThreadFits(c)' /\ RereadFits(c)'
    BY <1>1, <1>2, <1>5
       DEF CallFits, MethodFits, ThreadFits, RereadFits, At, RpcBecomes
  <1>7. RpcFits(c)' /\ RowFits(c)' /\ ReadFits(c)' /\ AnswerFits(c)'
    BY <1>1, <1>2, <1>5
       DEF CallFits, RpcFits, RowFits, ReadFits, AnswerFits, At, RpcBecomes, Methods
  <1> QED
    BY <1>3, <1>4, <1>6, <1>7, StepOfKeeps DEF CallFits

\* A reply of a stream is read (RpcRead).
LEMMA ReadKeeps ==
    ASSUME ManagerIInv, NEW c \in Calls, NEW u, RpcRead(c, u), rpc[c].method = "ReadUsers",
           UNCHANGED <<daoVars, serverVars>>
    PROVE  ManagerIInv'
  <1>1. /\ ManagerTypeOK /\ CallFits(c)
        /\ UNCHANGED <<rows, nextId, dao, up, at, counter, kills>>
    BY DEF ManagerIInv, daoVars, serverVars
  <1>2. RpcBecomes(c, rpc[c].phase, rpc[c].method, rpc[c].id, rpc[c].replies \ {u}, rpc[c].ok)
    BY <1>1, RpcReadBecomes DEF ManagerTypeOK
  <1>3. ManagerTypeOK'
    BY <1>1, <1>2 DEF ManagerTypeOK, DaoTypeOK, RpcBecomes
  <1>4. StepOf(c)
    BY <1>1, <1>2 DEF StepOf, RpcBecomes, At
  <1>5. MethodFits(c)' /\ ThreadFits(c)' /\ RereadFits(c)'
    BY <1>1, <1>2
       DEF CallFits, MethodFits, ThreadFits, RereadFits, Unwrapped, At, NewRow, RpcBecomes
  <1>6. RpcFits(c)'
    BY <1>1, <1>2 DEF CallFits, RpcFits, At, RpcBecomes
  <1>7. RowFits(c)' /\ ReadFits(c)'
    BY <1>1, <1>2 DEF CallFits, RowFits, ReadFits, At, RpcBecomes
  <1>8. AnswerFits(c)'
    BY <1>2 DEF AnswerFits, RpcBecomes
  <1> QED
    BY <1>3, <1>4, <1>5, <1>6, <1>7, <1>8, StepOfKeeps DEF CallFits

-----------------------------------------------------------------------------
(***************************************************************************)
(* The invariant holds throughout, and what follows from it.               *)
(***************************************************************************)

\* At first no call is made, no replica is occupied and nothing is stored.
LEMMA ManagerIInvInit == ManagerInit => ManagerIInv
  <1> SUFFICES ASSUME ManagerInit
               PROVE  ManagerIInv
    OBVIOUS
  <1>1. /\ rpc = [c \in Calls |-> Unused] /\ dao = [c \in Calls |-> Idle]
        /\ rows = {} /\ nextId = 1 /\ up = Servers
        /\ at = [c \in Calls |-> NoServer] /\ counter = [s \in Servers |-> 0] /\ kills = 0
    BY DEF ManagerInit, RpcInit, DaoInit
  <1>2. ManagerTypeOK
    BY <1>1, MaxKillsAssumption
       DEF ManagerTypeOK, DaoTypeOK, DaoRecord, RpcRecord, Idle, Unused
  <1>3. SequenceAhead /\ PendingFresh /\ RowsKeyed
    BY <1>1 DEF SequenceAhead, PendingFresh, RowsKeyed, At, Idle
  <1>4. ASSUME NEW c \in Calls
        PROVE  CallFits(c)
    <2>1. MethodFits(c) /\ ThreadFits(c) /\ RereadFits(c)
      BY <1>1 DEF MethodFits, ThreadFits, RereadFits, At, Idle
    <2>2. RpcFits(c) /\ RowFits(c) /\ ReadFits(c) /\ AnswerFits(c)
      BY <1>1 DEF RpcFits, RowFits, ReadFits, AnswerFits, OwnedBy, At, Idle, Unused
    <2> QED
      BY <2>1, <2>2 DEF CallFits
  <1> QED
    BY <1>2, <1>3, <1>4 DEF ManagerIInv

\* A step that changes nothing of the manager keeps the invariant.
LEMMA ManagerIdleKeeps == ManagerIInv /\ UNCHANGED managerVars => ManagerIInv'
  <1> SUFFICES ASSUME ManagerIInv, UNCHANGED managerVars
               PROVE  ManagerIInv'
    OBVIOUS
  <1>1. UNCHANGED <<rpc, rows, nextId, dao, up, at, counter, kills>>
    BY DEF managerVars, daoVars, serverVars
  <1>2. ManagerTypeOK' /\ SequenceAhead' /\ PendingFresh' /\ RowsKeyed'
    BY <1>1 DEF ManagerIInv, ManagerTypeOK, DaoTypeOK, SequenceAhead, PendingFresh, RowsKeyed, At
  <1>3. \A c \in Calls : CallFits(c)'
    BY <1>1, UntouchedFits
  <1> QED
    BY <1>2, <1>3 DEF ManagerIInv

\* Every step of a replica, of the database or of the network keeps the
\* invariant (all of ManagerNext), whoever the clients are.
LEMMA ManagerStepKeeps == ManagerIInv /\ ManagerNext => ManagerIInv'
  <1> SUFFICES ASSUME ManagerIInv, ManagerNext
               PROVE  ManagerIInv'
    OBVIOUS
  <1>1. ASSUME NEW c \in Calls, NEW s \in Servers,
               ReadUsers(c, s) \/ ReadUser(c, s) \/ CreateUser(c, s)
        PROVE  ManagerIInv'
    <2>1. CASE ReadUsers(c, s)
      BY <2>1, EnterKeeps DEF ReadUsers, CallGetUsers
    <2>2. CASE ReadUser(c, s)
      <3>1. rpc[c].id \in Nat
        BY DEF ManagerIInv, ManagerTypeOK, RpcRecord
      <3> QED
        BY <2>2, <3>1, EnterKeeps DEF ReadUser, CallGetUserById
    <2>3. CASE CreateUser(c, s)
      BY <2>3, EnterKeeps DEF CreateUser, CallCreateUser
    <2> QED
      BY <1>1, <2>1, <2>2, <2>3
  <1>2. ASSUME NEW c \in Calls, NEW outcome, DaoGave(c, outcome)
        PROVE  /\ Served(c) /\ At(c, "returned") /\ dao[c].outcome = outcome
               /\ at[c] \in Servers
               /\ outcome = "user" => dao[c].op # "getUsers"
               /\ outcome = "users" => dao[c].op = "getUsers"
    BY <1>2 DEF DaoGave, Served, ManagerIInv, ManagerTypeOK, CallFits, MethodFits
  <1>3. ASSUME NEW c \in Calls, ReturnUsers(c) \/ ReturnUser(c) \/ HandlerThrows(c)
        PROVE  ManagerIInv'
    <2>1. CASE ReturnUsers(c)
      BY <1>2, <2>1, LeaveKeeps DEF ReturnUsers
    <2>2. CASE ReturnUser(c)
      BY <1>2, <2>2, LeaveKeeps DEF ReturnUser
    <2>3. CASE HandlerThrows(c)
      BY <1>2, <2>3, LeaveKeeps DEF HandlerThrows
    <2> QED
      BY <1>3, <2>1, <2>2, <2>3
  <1>4. ASSUME NEW c \in Calls, NullDereference(c)
        PROVE  ManagerIInv'
    <2>1. kills' \in 0 .. MaxKills
      BY <1>4 DEF NullDereference, ManagerIInv, ManagerTypeOK
    <2> QED
      BY <1>2, <1>4, <2>1, CrashKeeps DEF NullDereference
  <1>5. ASSUME NEW c \in Calls, Disconnect(c) \/ Unavailable(c)
        PROVE  ManagerIInv'
    BY <1>5, BreakKeeps DEF Disconnect, Unavailable, RpcIs
  <1>6. ASSUME NEW c \in Calls, Handler(c)
        PROVE  ManagerIInv'
    BY <1>1, <1>3, <1>4, <1>5, <1>6, HandlerDaoKeeps, WriteUserKeeps, OrphanKeeps DEF Handler
  <1>7. ASSUME NEW s \in Servers, Kill(s)
        PROVE  ManagerIInv'
    <2>1. kills' \in 0 .. MaxKills
      BY <1>7, MaxKillsAssumption DEF Kill, ManagerIInv, ManagerTypeOK
    <2> QED
      BY <1>7, <2>1, CrashKeeps DEF Kill
  <1> QED
    BY <1>5, <1>6, <1>7, RestartKeeps DEF ManagerNext, Environment

\* A client's call is one of the three methods (Request).
LEMMA RequestKeeps ==
    ASSUME ManagerIInv, NEW c \in Calls, Request(c)
    PROVE  ManagerIInv'
  <1>1. ASSUME NEW m \in {"ReadUsers", "CreateUser"}, RpcStart(c, m, 0)
        PROVE  ManagerIInv'
    BY <1>1, StartKeeps DEF Request, Methods
  <1>2. ASSUME NEW id \in LookupIds, RpcStart(c, "ReadUser", id)
        PROVE  ManagerIInv'
    <2>1. id \in Nat
      BY LookupIdsAssumption
    <2> QED
      BY <1>2, <2>1, StartKeeps DEF Request, Methods
  <1> QED
    BY <1>1, <1>2 DEF Request

\* The inductive invariant holds of the manager under any clients.
THEOREM ManagerInvariance == ManagerSpec => []ManagerIInv
  <1>1. ManagerIInv /\ [ManagerNext \/ (\E c \in Calls : Request(c)) \/ Quiet]_managerVars
            => ManagerIInv'
    BY ManagerStepKeeps, RequestKeeps, ManagerIdleKeeps DEF Quiet
  <1> QED
    BY <1>1, ManagerIInvInit, PTL DEF ManagerSpec

\* The variables of the manager always have their types.
THEOREM ManagerTypes == ManagerSpec => []ManagerTypeOK
  <1>1. ManagerIInv => ManagerTypeOK
    BY DEF ManagerIInv
  <1> QED
    BY <1>1, ManagerInvariance, PTL

\* The invariant says what a finished creation has left in the table.
LEMMA IInvCreatedIsStored == ManagerIInv => CreatedIsStored
  BY DEF ManagerIInv, CallFits, AnswerFits, CreatedIsStored

\* The invariant says whose rows the table holds.
LEMMA IInvStoredOnRequest == ManagerIInv => StoredOnRequest
  <1> SUFFICES ASSUME ManagerIInv, NEW u \in rows
               PROVE  rpc[u.name].method = "CreateUser" /\ rpc[u.name].phase # "sent"
    BY DEF StoredOnRequest, ManagerIInv
  <1>1. u.name \in Calls /\ u \in OwnedBy(u.name, rows)
    BY DEF ManagerIInv, ManagerTypeOK, DaoTypeOK, User, OwnedBy
  <1> QED
    BY <1>1 DEF ManagerIInv, CallFits, RowFits

\* CreateUser's OK is true and stays true: its reply is the row of that call,
\* for any number of replicas, calls, kills and broken connections.
THEOREM OkMeansStored == ManagerSpec => []CreatedIsStored
  BY ManagerInvariance, IInvCreatedIsStored, PTL

\* Nothing is stored that was not asked for, and nothing twice.
THEOREM StoredOncePerRequest == ManagerSpec => []StoredOnRequest
  BY ManagerInvariance, IInvStoredOnRequest, PTL

-----------------------------------------------------------------------------
(***************************************************************************)
(* What a step of the manager is to the other end of the remote calls.     *)
(***************************************************************************)

\* The stream of a list is being written.
Streams(c) == RpcIs(c, "open") /\ At(c, "returned") /\ dao[c].outcome = "users"

\* What is on its way to the client of a list, or will be.
OnItsWay(c) == rpc[c].replies \cup dao[c].users

\* A call that has been sent stays what it is, and once it has ended nothing
\* of it changes.  A list begins with the whole table, loses nothing while it
\* is written, and ends well only when all is written.
ClientSees(c) ==
    /\ rpc[c].phase = "unused" <=> rpc'[c].phase = "unused"
    /\ rpc'[c].method = rpc[c].method /\ rpc'[c].id = rpc[c].id
    /\ rpc[c].phase = "ended" => rpc'[c] = rpc[c]
    /\ rpc[c].phase = "open" => rpc'[c].phase \in {"open", "ended"}
    /\ Streams(c)' => \/ dao'[c].users = rows
                      \/ Streams(c) /\ OnItsWay(c) \subseteq OnItsWay(c)'
    /\ rpc'[c].ok /\ rpc[c].method = "ReadUsers" =>
          \/ rpc'[c] = rpc[c]
          \/ Streams(c) /\ OnItsWay(c) \subseteq rpc'[c].replies
    /\ At(c, "persist")' => At(c, "persist") \/ rpc[c].phase = "sent"

\* And of the table and the sequence: one row of one commit, one id of one
\* creation that leaves its persist.
ManagerEffect ==
    /\ \A c \in Calls : ClientSees(c)
    /\ \/ rows' = rows
       \/ \E c \in Calls : At(c, "commit") /\ rows' = rows \cup {NewRow(c)}
    /\ \/ nextId' = nextId
       \/ nextId' = nextId + 1 /\ \E c \in Calls : At(c, "persist") /\ ~At(c, "persist")'

\* The client of a call that a step leaves alone sees nothing of it.
LEMMA UntouchedSees ==
    ASSUME ManagerIInv, NEW d \in Calls, dao'[d] = dao[d], rpc'[d] = rpc[d]
    PROVE  ClientSees(d)
  BY DEF ClientSees, Streams, OnItsWay, RpcIs, At

\* The calls that a step of call c does not touch see nothing of it.
LEMMA EffectOf ==
    ASSUME ManagerIInv, NEW c \in Calls, ClientSees(c),
           \A d \in Calls \ {c} : dao'[d] = dao[d] /\ rpc'[d] = rpc[d],
           \/ rows' = rows
           \/ At(c, "commit") /\ rows' = rows \cup {NewRow(c)},
           \/ nextId' = nextId
           \/ nextId' = nextId + 1 /\ At(c, "persist") /\ ~At(c, "persist")'
    PROVE  ManagerEffect
  <1>1. \A d \in Calls : ClientSees(d)
    BY UntouchedSees
  <1> QED
    BY <1>1 DEF ManagerEffect

\* A handler that takes its call shows its client nothing yet (Enter).
LEMMA EnterEffect ==
    ASSUME ManagerIInv, NEW c \in Calls, NEW s \in Servers,
           NEW method, NEW op, NEW pc, NEW id,
           Enter(c, s, method), Call(c, op, pc, id), pc # "returned"
    PROVE  ManagerEffect
  <1>1. RpcBecomes(c, "open", rpc[c].method, rpc[c].id, rpc[c].replies, rpc[c].ok)
    BY RpcTakeBecomes DEF Enter, ManagerIInv, ManagerTypeOK
  <1>2. Becomes(c, op, pc, id, "none", {})
    BY CallBecomes DEF ManagerIInv, ManagerTypeOK
  <1>3. rpc[c].phase = "sent" /\ rows' = rows /\ nextId' = nextId /\ ~rpc[c].ok
    BY DEF Enter, RpcTake, RpcIs, Call, ManagerIInv, CallFits, RpcFits
  <1>4. ClientSees(c)
    BY <1>1, <1>2, <1>3 DEF ClientSees, Streams, OnItsWay, RpcIs, At, RpcBecomes, Becomes
  <1> QED
    BY <1>1, <1>2, <1>3, <1>4, EffectOf DEF RpcBecomes, Becomes

\* The DAO's steps reach the client only in that a list takes the whole table.
LEMMA DaoEffect ==
    ASSUME ManagerIInv, NEW c \in Calls, HandlerDaoStep(c)
    PROVE  ManagerEffect
  <1>1. rpc' = rpc /\ DaoStep(c)
    BY DEF HandlerDaoStep
  <1>2. \A d \in Calls \ {c} : dao'[d] = dao[d]
    BY <1>1 DEF DaoStep, Persist, PersistFails, Commit, CommitFails, QueryById, QueryByIdFails,
       GetUsers, GetUsersFails, Return, ManagerIInv, ManagerTypeOK, DaoTypeOK
  <1>3. ASSUME NEW outcome, NEW users, Return(c, outcome, users), outcome = "users" => users = rows
        PROVE  ClientSees(c) /\ ~At(c, "persist")'
    <2>1. Becomes(c, dao[c].op, "returned", dao[c].id, outcome, users)
      BY <1>3, ReturnBecomes DEF ManagerIInv, ManagerTypeOK
    <2> QED
      BY <1>1, <1>3, <2>1 DEF ClientSees, Streams, OnItsWay, RpcIs, At, Becomes
  <1>4. CASE Persist(c)
    <2>1. dao'[c].pc = "commit" /\ rows' = rows /\ nextId' = nextId + 1 /\ At(c, "persist")
      BY <1>4 DEF Persist, ManagerIInv, ManagerTypeOK, DaoTypeOK, DaoRecord
    <2>2. ClientSees(c)
      BY <1>1, <2>1 DEF ClientSees, Streams, RpcIs, At
    <2> QED
      BY <1>1, <1>2, <2>1, <2>2, EffectOf DEF At
  <1>5. CASE Commit(c)
    <2>1. /\ dao'[c].pc = "query" /\ rows' = rows \cup {NewRow(c)} /\ nextId' = nextId
          /\ At(c, "commit")
      BY <1>5 DEF Commit, ManagerIInv, ManagerTypeOK, DaoTypeOK, DaoRecord
    <2>2. ClientSees(c)
      BY <1>1, <2>1 DEF ClientSees, Streams, RpcIs, At
    <2> QED
      BY <1>1, <1>2, <2>1, <2>2, EffectOf
  <1>6. CASE PersistFails(c)
    BY <1>1, <1>2, <1>3, <1>6, EffectOf DEF PersistFails
  <1>7. CASE CommitFails(c)
    BY <1>1, <1>2, <1>3, <1>7, EffectOf DEF CommitFails
  <1>8. CASE QueryById(c) \/ QueryByIdFails(c) \/ GetUsers(c) \/ GetUsersFails(c)
    <2>1. ClientSees(c) /\ rows' = rows /\ nextId' = nextId
      BY <1>3, <1>8 DEF QueryById, QueryByIdFails, GetUsers, GetUsersFails
    <2> QED
      BY <1>1, <1>2, <2>1, EffectOf
  <1> QED
    BY <1>1, <1>4, <1>5, <1>6, <1>7, <1>8 DEF DaoStep

\* ReadUsers writes users of the one moment that its query saw (WriteUser).
LEMMA WriteUserEffect ==
    ASSUME ManagerIInv, NEW c \in Calls, WriteUser(c)
    PROVE  ManagerEffect
  <1>1. /\ At(c, "returned") /\ dao[c].outcome = "users" /\ rows' = rows /\ nextId' = nextId
        /\ rpc \in [Calls -> RpcRecord] /\ dao \in [Calls -> DaoRecord]
        /\ dao[c].users \in SUBSET User
    BY DEF WriteUser, DaoGave, ManagerIInv, ManagerTypeOK, DaoTypeOK, DaoRecord
  <1>2. PICK u \in dao[c].users : /\ RpcWrite(c, u)
                                  /\ dao' = [dao EXCEPT ![c].users = @ \ {u}]
    BY DEF WriteUser
  <1>3. /\ dao'[c].users = dao[c].users \ {u} /\ dao'[c].pc = "returned"
        /\ dao'[c].outcome = "users" /\ \A d \in Calls \ {c} : dao'[d] = dao[d]
    BY <1>1, <1>2 DEF At, DaoRecord
  <1>4. IF RpcIs(c, "open")
        THEN RpcBecomes(c, "open", rpc[c].method, rpc[c].id, rpc[c].replies \cup {u}, rpc[c].ok)
        ELSE rpc' = rpc
    BY <1>1, <1>2, RpcWriteBecomes
  <1>5. ~rpc[c].ok
    BY <1>1 DEF ManagerIInv, CallFits, RpcFits, At
  <1>6. ClientSees(c)
    <2>1. CASE RpcIs(c, "open")
      BY <1>1, <1>3, <1>4, <1>5, <2>1
         DEF ClientSees, Streams, OnItsWay, RpcIs, At, RpcBecomes
    <2>2. CASE ~RpcIs(c, "open")
      BY <1>1, <1>3, <1>4, <1>5, <2>2 DEF ClientSees, Streams, RpcIs, At
    <2> QED
      BY <2>1, <2>2
  <1> QED
    BY <1>1, <1>3, <1>4, <1>6, EffectOf DEF RpcBecomes

\* A list that ends with OK has been written to the end.
LEMMA LeaveEffect ==
    ASSUME ManagerIInv, NEW c \in Calls, At(c, "returned"),
           NEW ok \in BOOLEAN, NEW response \in SUBSET User, Leave(c, ok, response),
           ok /\ rpc[c].method = "ReadUsers" => dao[c].outcome = "users" /\ dao[c].users = {}
    PROVE  ManagerEffect
  <1>1. /\ rows' = rows /\ nextId' = nextId /\ rpc \in [Calls -> RpcRecord]
        /\ dao'[c].pc = "idle" /\ \A d \in Calls \ {c} : dao'[d] = dao[d]
    BY DEF Leave, ManagerIInv, ManagerTypeOK, DaoTypeOK, Idle
  <1>2. IF RpcIs(c, "open")
        THEN RpcBecomes(c, "ended", rpc[c].method, rpc[c].id, rpc[c].replies \cup response, ok)
        ELSE rpc' = rpc
    BY <1>1, RpcFinishBecomes DEF Leave
  <1>3. ClientSees(c)
    <2>1. CASE RpcIs(c, "open")
      <3>1. /\ rpc'[c].phase = "ended" /\ rpc'[c].method = rpc[c].method
            /\ rpc'[c].id = rpc[c].id /\ rpc[c].replies \subseteq rpc'[c].replies
            /\ rpc'[c].ok <=> ok
        BY <1>2, <2>1 DEF RpcBecomes
      <3>2. rpc'[c].ok /\ rpc[c].method = "ReadUsers" =>
                Streams(c) /\ OnItsWay(c) \subseteq rpc'[c].replies
        BY <2>1, <3>1 DEF Streams, OnItsWay
      <3> QED
        BY <1>1, <2>1, <3>1, <3>2 DEF ClientSees, Streams, RpcIs, At
    <2>2. CASE ~RpcIs(c, "open")
      BY <1>1, <1>2, <2>2 DEF ClientSees, Streams, RpcIs, At
    <2> QED
      BY <2>1, <2>2
  <1> QED
    BY <1>1, <1>2, <1>3, EffectOf DEF RpcBecomes

\* A broken call has failed, and what was on its way is lost.
LEMMA BreakEffect ==
    ASSUME ManagerIInv, NEW broken, RpcBreak(broken), UNCHANGED <<rows, nextId>>,
           \A d \in Calls : dao'[d] \in {dao[d], Idle}
    PROVE  ManagerEffect
  <1>1. ASSUME NEW d \in Calls
        PROVE  ClientSees(d)
    <2>1. \/ rpc'[d] = rpc[d]
          \/ /\ rpc[d].phase \in {"sent", "open"}
             /\ rpc'[d].phase = "ended" /\ rpc'[d].method = rpc[d].method
             /\ rpc'[d].id = rpc[d].id /\ rpc'[d].ok = FALSE
      BY RpcBreakBecomes DEF ManagerIInv, ManagerTypeOK
    <2>2. dao'[d] = dao[d] \/ dao'[d].pc = "idle"
      BY DEF Idle
    <2>3. CASE rpc'[d] = rpc[d]
      BY <2>2, <2>3 DEF ClientSees, Streams, OnItsWay, RpcIs, At
    <2>4. CASE /\ rpc[d].phase \in {"sent", "open"}
               /\ rpc'[d].phase = "ended" /\ rpc'[d].method = rpc[d].method
               /\ rpc'[d].id = rpc[d].id /\ rpc'[d].ok = FALSE
      BY <2>2, <2>4 DEF ClientSees, Streams, RpcIs, At
    <2> QED
      BY <2>1, <2>3, <2>4
  <1> QED
    BY <1>1 DEF ManagerEffect

\* The transaction of a dead replica ends without anybody being told; its row may
\* be committed (OrphanEnds).
LEMMA OrphanEffect ==
    ASSUME ManagerIInv, NEW c \in Calls, OrphanEnds(c)
    PROVE  ManagerEffect
  <1>1. /\ At(c, "commit") /\ rows' \in {rows, rows \cup {NewRow(c)}} /\ nextId' = nextId
        /\ rpc' = rpc /\ dao'[c].pc = "idle" /\ \A d \in Calls \ {c} : dao'[d] = dao[d]
    BY DEF OrphanEnds, ManagerIInv, ManagerTypeOK, DaoTypeOK, Idle
  <1>2. ClientSees(c)
    BY <1>1 DEF ClientSees, Streams, RpcIs, At
  <1> QED
    BY <1>1, <1>2, EffectOf

\* All of ManagerNext.
LEMMA ManagerHasEffect == ManagerIInv /\ ManagerNext => ManagerEffect
  <1> SUFFICES ASSUME ManagerIInv, ManagerNext
               PROVE  ManagerEffect
    OBVIOUS
  <1>1. ASSUME NEW c \in Calls, NEW s \in Servers,
               ReadUsers(c, s) \/ ReadUser(c, s) \/ CreateUser(c, s)
        PROVE  ManagerEffect
    BY <1>1, EnterEffect DEF ReadUsers, CallGetUsers, ReadUser, CallGetUserById, CreateUser,
       CallCreateUser
  <1>2. ASSUME NEW c \in Calls, ReturnUsers(c) \/ ReturnUser(c) \/ HandlerThrows(c)
        PROVE  ManagerEffect
    <2>1. At(c, "returned") /\ dao[c].users \in SUBSET User
      BY <1>2 DEF ReturnUsers, ReturnUser, HandlerThrows, DaoGave, ManagerIInv, ManagerTypeOK,
         DaoTypeOK, DaoRecord
    <2>2. CASE ReturnUsers(c)
      BY <2>1, <2>2, LeaveEffect DEF ReturnUsers, DaoGave
    <2>3. CASE ReturnUser(c)
      <3>1. rpc[c].method # "ReadUsers"
        BY <2>1, <2>3 DEF ReturnUser, DaoGave, ManagerIInv, CallFits, MethodFits, ThreadFits, At
      <3> QED
        BY <2>1, <2>3, <3>1, LeaveEffect DEF ReturnUser
    <2>4. CASE HandlerThrows(c)
      BY <2>1, <2>4, LeaveEffect DEF HandlerThrows
    <2> QED
      BY <1>2, <2>2, <2>3, <2>4
  <1>3. ASSUME NEW s, Crash(s)
        PROVE  ManagerEffect
    <2>1. \A d \in Calls : dao'[d] \in {dao[d], Idle}
      BY <1>3 DEF Crash
    <2> QED
      BY <1>3, <2>1, BreakEffect DEF Crash
  <1>4. ASSUME NEW c \in Calls, Disconnect(c) \/ Unavailable(c)
        PROVE  ManagerEffect
    <2>1. RpcBreak({c}) /\ UNCHANGED <<rows, nextId, dao>>
      BY <1>4 DEF Disconnect, Unavailable, daoVars
    <2> QED
      BY <2>1, BreakEffect
  <1>5. ASSUME NEW s \in Servers, Restart(s)
        PROVE  ManagerEffect
    BY <1>5, UntouchedSees DEF Restart, daoVars, ManagerEffect
  <1>6. ASSUME NEW c \in Calls, Handler(c)
        PROVE  ManagerEffect
    BY <1>1, <1>2, <1>3, <1>4, <1>6, DaoEffect, WriteUserEffect, OrphanEffect
       DEF Handler, NullDereference
  <1> QED
    BY <1>3, <1>4, <1>5, <1>6 DEF ManagerNext, Environment, Kill
=============================================================================

-------------------------- MODULE UserSystemProofs --------------------------
(***************************************************************************)
(* What a client of the REST interface can rely on, for any number of      *)
(* requests, workers and replicas and any pattern of crashes: the answers  *)
(* of the gateway are true of the table, and the whole system implements   *)
(* UserApi.                                                                *)
(*                                                                         *)
(* The invariant adds to ManagerIInv, call by call, how far a session and  *)
(* its remote call have got together (SessionFits), and to all of them how *)
(* many ids the sequence can have given out (IdsCounted).                  *)
(***************************************************************************)
EXTENDS UserSystem, UserManagerProofs, FiniteSetTheorems

-----------------------------------------------------------------------------
(***************************************************************************)
(* The inductive invariant.                                                *)
(***************************************************************************)

\* A session calls once, and its kind decides what.
SessionCalls(c) ==
    /\ In(c, "new") => session[c] = New /\ before[c] = {}
    /\ In(c, "new") \/ In(c, "fetching") => rpc[c].phase = "unused"
    /\ In(c, "fetching") => session[c].kind = "post"
    /\ In(c, "calling") => rpc[c].phase # "unused"
    /\ rpc[c].phase # "unused" =>
          \/ session[c].kind = "list" /\ rpc[c].method = "ReadUsers"
          \/ session[c].kind = "post" /\ rpc[c].method = "CreateUser"
          \/ /\ session[c].kind = "get" /\ rpc[c].method = "ReadUser"
             /\ rpc[c].id = Strtoull(session[c].id)
    /\ ~In(c, "new") =>
          \/ session[c].kind \in {"list", "post"} /\ session[c].id = 0
          \/ session[c].kind = "get" /\ session[c].id \in LookupIds

\* Only a closed session has an outcome, and each outcome has its reason.
OutcomeFits(c) ==
    /\ session[c].outcome = "none" <=> ~In(c, "closed")
    /\ session[c].outcome \in {"bad body", "timeout"} =>
          rpc[c].phase = "unused" /\ session[c].kind = "post"
    /\ session[c].outcome = "ok" => rpc[c].phase = "ended"
    /\ session[c].outcome = "ok" /\ session[c].kind # "list" =>
          rpc[c].ok /\ session[c].users = rpc[c].replies
    /\ session[c].outcome = "User not found!" => session[c].kind = "get"

\* The replies that a list is still to get, with those that it has, are all
\* that was stored when it began, unless the stream breaks.
ListFits(c) ==
    /\ before[c] \subseteq rows
    /\ session[c].kind = "list" =>
          /\ session[c].users \subseteq rows
          /\ In(c, "calling") /\ RpcIs(c, "open") /\ At(c, "returned") /\ dao[c].outcome = "users" =>
                before[c] \subseteq session[c].users \cup rpc[c].replies \cup dao[c].users
          /\ In(c, "calling") /\ rpc[c].ok =>
                before[c] \subseteq session[c].users \cup rpc[c].replies
          /\ session[c].outcome = "ok" /\ rpc[c].ok => before[c] \subseteq session[c].users

SessionFits(c) ==
    /\ SessionCalls(c)
    /\ OutcomeFits(c)
    /\ ListFits(c)

\* The calls that can have taken an id from the sequence.
PastPersist == {c \in Calls : rpc[c].phase \in {"open", "ended"} /\ ~At(c, "persist")}

IdsCounted == nextId <= Cardinality(PastPersist) + 1

SystemIInv ==
    /\ SystemTypeOK
    /\ ManagerIInv
    /\ IdsCounted
    /\ \A c \in Calls : SessionFits(c)

-----------------------------------------------------------------------------
(***************************************************************************)
(* Ids: the sequence gives out one per creation, so none is near 2^64.     *)
(***************************************************************************)

\* A call that has taken an id, or can take none any more, is counted for good.
LEMMA IdsStayCounted ==
    ASSUME IdsCounted, nextId \in Nat, PastPersist \subseteq PastPersist',
           \/ nextId' = nextId
           \/ nextId' = nextId + 1 /\ \E c \in PastPersist' : c \notin PastPersist
    PROVE  IdsCounted'
  <1>1. IsFiniteSet(PastPersist) /\ IsFiniteSet(PastPersist')
    BY FS_Subset, IdsStayBelowUint64Max DEF PastPersist
  <1>2. Cardinality(PastPersist) \in Nat /\ Cardinality(PastPersist') \in Nat
    BY <1>1, FS_CardinalityType
  <1>3. Cardinality(PastPersist) <= Cardinality(PastPersist')
    BY <1>1, FS_Subset
  <1>4. PastPersist # PastPersist' => Cardinality(PastPersist) + 1 <= Cardinality(PastPersist')
    <2>1. Cardinality(PastPersist) = Cardinality(PastPersist') => PastPersist = PastPersist'
      BY <1>1, FS_Subset
    <2> QED
      BY <1>2, <1>3, <2>1
  <1>5. CASE nextId' = nextId
    BY <1>2, <1>3, <1>5 DEF IdsCounted
  <1>6. CASE nextId' = nextId + 1 /\ \E c \in PastPersist' : c \notin PastPersist
    <2>1. PastPersist # PastPersist'
      BY <1>6
    <2> QED
      BY <1>2, <1>4, <1>6, <2>1 DEF IdsCounted
  <1> QED
    BY <1>5, <1>6

\* strtoull represents the id of every stored user.
LEMMA IdsFit ==
    ASSUME SystemIInv, NEW u \in rows
    PROVE  u.id \in Nat /\ u.id < Uint64Max
  <1>1. u.id \in 1 .. (nextId - 1) /\ nextId \in Nat /\ u.id \in Nat
    BY DEF SystemIInv, ManagerIInv, ManagerTypeOK, DaoTypeOK, SequenceAhead, User
  <1>2. PastPersist \in SUBSET Calls
    BY DEF PastPersist
  <1>3. /\ Cardinality(PastPersist) <= Cardinality(Calls)
        /\ Cardinality(PastPersist) \in Nat /\ Cardinality(Calls) \in Nat
    BY <1>2, FS_Subset, FS_CardinalityType, IdsStayBelowUint64Max
  <1>4. nextId <= Cardinality(PastPersist) + 1
    BY DEF SystemIInv, IdsCounted
  <1> QED
    BY <1>1, <1>3, <1>4, IdsStayBelowUint64Max, Uint64MaxAssumption

-----------------------------------------------------------------------------
(***************************************************************************)
(* The manager works: no session moves, but its answer is coming.          *)
(***************************************************************************)
LEMMA ManagerStepFits ==
    ASSUME SystemIInv, ManagerNext, GatewayIdle
    PROVE  SystemIInv'
  <1>1. ManagerIInv' /\ ManagerEffect
    BY ManagerStepKeeps, ManagerHasEffect DEF SystemIInv
  <1>2. /\ session' = session /\ before' = before /\ gatewayUp' = gatewayUp
        /\ gatewayCount' = gatewayCount /\ gatewayKills' = gatewayKills
    BY DEF GatewayIdle, gatewayVars
  <1>3. SystemTypeOK'
    BY <1>1, <1>2 DEF SystemIInv, SystemTypeOK, ManagerIInv
  <1>4. rows \subseteq rows'
    BY <1>1 DEF ManagerEffect
  <1>5. IdsCounted'
    <2>1. ASSUME NEW c \in Calls
          PROVE  /\ c \in PastPersist => c \in PastPersist'
                 /\ At(c, "persist") /\ ~At(c, "persist")' =>
                        c \in PastPersist' /\ c \notin PastPersist
      <3>1. /\ ClientSees(c)
            /\ rpc[c].phase \in {"unused", "sent", "open", "ended"}
            /\ At(c, "persist") => rpc[c].phase \in {"open", "ended"}
        BY <1>1 DEF ManagerEffect, SystemIInv, ManagerIInv, ManagerTypeOK, RpcRecord,
           CallFits, ThreadFits, At
      <3> QED
        BY <3>1 DEF ClientSees, PastPersist, At
    <2>2. \/ nextId' = nextId
          \/ nextId' = nextId + 1 /\ \E c \in PastPersist' : c \notin PastPersist
      BY <1>1, <2>1 DEF ManagerEffect
    <2>3. PastPersist \subseteq PastPersist'
      BY <2>1 DEF PastPersist
    <2> QED
      BY <2>2, <2>3, IdsStayCounted
         DEF SystemIInv, ManagerIInv, ManagerTypeOK, DaoTypeOK
  <1>6. ASSUME NEW c \in Calls
        PROVE  SessionFits(c)'
    <2>1. /\ SessionFits(c) /\ ClientSees(c) /\ RpcFits(c)'
          /\ rpc[c].phase \in {"unused", "sent", "open", "ended"}
      BY <1>1 DEF SystemIInv, ManagerIInv, ManagerTypeOK, RpcRecord, CallFits, ManagerEffect
    <2>2. SessionCalls(c)'
      BY <1>2, <2>1 DEF SessionFits, SessionCalls, ClientSees, In
    <2>3. OutcomeFits(c)'
      BY <1>2, <2>1 DEF SessionFits, OutcomeFits, ClientSees, In
    <2>4. before[c] \subseteq rows
      BY <2>1 DEF SessionFits, ListFits
    <2>5. ASSUME session[c].kind = "list"
          PROVE  /\ session[c].users \subseteq rows
                 /\ In(c, "calling") /\ Streams(c)' =>
                        before[c] \subseteq session[c].users \cup OnItsWay(c)'
                 /\ In(c, "calling") /\ rpc'[c].ok =>
                        before[c] \subseteq session[c].users \cup rpc'[c].replies
                 /\ session[c].outcome = "ok" /\ rpc'[c].ok => before[c] \subseteq session[c].users
      <3>1. /\ session[c].users \subseteq rows
            /\ In(c, "calling") /\ Streams(c) =>
                   before[c] \subseteq session[c].users \cup OnItsWay(c)
            /\ In(c, "calling") /\ rpc[c].ok =>
                   before[c] \subseteq session[c].users \cup rpc[c].replies
            /\ session[c].outcome = "ok" /\ rpc[c].ok => before[c] \subseteq session[c].users
        BY <2>1, <2>5 DEF SessionFits, ListFits, Streams, OnItsWay
      <3>2. In(c, "calling") => rpc[c].method = "ReadUsers"
        BY <2>1, <2>5 DEF SessionFits, SessionCalls
      <3>3. session[c].outcome = "ok" => rpc'[c] = rpc[c]
        BY <2>1 DEF SessionFits, OutcomeFits, ClientSees
      <3>4. Streams(c)' => \/ dao'[c].users = rows
                           \/ Streams(c) /\ OnItsWay(c) \subseteq OnItsWay(c)'
        BY <2>1 DEF ClientSees
      <3>5. dao'[c].users \subseteq OnItsWay(c)'
        BY DEF OnItsWay
      <3>6. rpc'[c].ok /\ In(c, "calling") =>
                \/ rpc'[c] = rpc[c]
                \/ Streams(c) /\ OnItsWay(c) \subseteq rpc'[c].replies
        BY <2>1, <3>2 DEF ClientSees
      <3>7. In(c, "calling") /\ Streams(c)' =>
                before[c] \subseteq session[c].users \cup OnItsWay(c)'
        <4>1. CASE dao'[c].users = rows
          BY <2>4, <3>5, <4>1
        <4>2. CASE Streams(c) /\ OnItsWay(c) \subseteq OnItsWay(c)'
          BY <3>1, <4>2
        <4> QED
          BY <3>4, <4>1, <4>2
      <3>8. In(c, "calling") /\ rpc'[c].ok =>
                before[c] \subseteq session[c].users \cup rpc'[c].replies
        BY <3>1, <3>6
      <3> QED
        BY <3>1, <3>3, <3>7, <3>8
    <2>6. ListFits(c)'
      BY <1>2, <1>4, <2>4, <2>5 DEF ListFits, In, Streams, OnItsWay, RpcIs, At
    <2> QED
      BY <2>2, <2>3, <2>6 DEF SessionFits
  <1> QED
    BY <1>1, <1>3, <1>5, <1>6 DEF SystemIInv

-----------------------------------------------------------------------------
(***************************************************************************)
(* The gateway works: at most one session moves, or all that wait are      *)
(* reset.                                                                  *)
(***************************************************************************)

\* A session that a step of the gateway does not touch.
LEMMA UntouchedSession ==
    ASSUME SystemIInv, ManagerIdle, Remember, NEW d \in Calls,
           session'[d] = session[d], rpc'[d] = rpc[d]
    PROVE  SessionFits(d)'
  <1>1. SessionFits(d) /\ rows' = rows /\ dao' = dao
    BY DEF SystemIInv, ManagerIdle, daoVars
  <1>2. before'[d] = before[d]
    BY DEF Remember
  <1>3. SessionCalls(d)'
    BY <1>1, <1>2 DEF SessionFits, SessionCalls, In
  <1>4. OutcomeFits(d)'
    BY <1>1 DEF SessionFits, OutcomeFits, In
  <1>5. ListFits(d)'
    BY <1>1, <1>2 DEF SessionFits, ListFits, In, RpcIs, At
  <1> QED
    BY <1>3, <1>4, <1>5 DEF SessionFits

\* The session of c is replaced, field by field.
SessionBecomes(c, pc, kind, id, users, outcome) ==
    /\ session' \in [Calls -> SessionRecord]
    /\ session'[c].pc = pc
    /\ session'[c].kind = kind
    /\ session'[c].id = id
    /\ session'[c].users = users
    /\ session'[c].outcome = outcome
    /\ \A d \in Calls \ {c} : session'[d] = session[d]

\* What the gateway keeps of a step in which session c moves: it may send the
\* remote call, or read a reply of it, and nothing else changes.
LEMMA SessionStepFits ==
    ASSUME SystemIInv, ManagerIInv', ManagerIdle, Remember, NEW c \in Calls,
           session' \in [Calls -> SessionRecord],
           gatewayUp' = gatewayUp, gatewayCount' \in Nat, gatewayKills' = gatewayKills,
           \A d \in Calls \ {c} : session'[d] = session[d] /\ rpc'[d] = rpc[d],
           \/ rpc'[c].phase = rpc[c].phase
           \/ rpc[c].phase = "unused",
           SessionFits(c)'
    PROVE  SystemIInv'
  <1>1. before' \in [Calls -> SUBSET User]
    BY DEF Remember, SystemIInv, SystemTypeOK, ManagerTypeOK, DaoTypeOK
  <1>2. SystemTypeOK'
    BY <1>1 DEF SystemIInv, SystemTypeOK, ManagerIInv
  <1>3. \A d \in Calls : SessionFits(d)'
    BY UntouchedSession
  <1>4. IdsCounted'
    <2>1. dao' = dao /\ nextId' = nextId /\ nextId \in Nat
      BY DEF ManagerIdle, daoVars, SystemIInv, ManagerIInv, ManagerTypeOK, DaoTypeOK
    <2>2. ASSUME NEW d \in PastPersist
          PROVE  d \in PastPersist'
      <3>1. rpc'[d].phase = rpc[d].phase
        BY <2>2 DEF PastPersist
      <3> QED
        BY <2>1, <3>1 DEF PastPersist, At
    <2> QED
      BY <2>1, <2>2, IdsStayCounted DEF SystemIInv
  <1> QED
    BY <1>2, <1>3, <1>4 DEF SystemIInv

\* A handler of the controller calls the user manager (Serve).
LEMMA ServeFits ==
    ASSUME SystemIInv, ManagerIdle, Remember, NEW c \in Calls,
           In(c, "new") \/ In(c, "fetching"),
           NEW kind, NEW id, NEW method, NEW rpcId, Serve(c, kind, id, method, rpcId),
           \/ kind = "list" /\ id = 0 /\ method = "ReadUsers" /\ rpcId = 0
           \/ kind = "post" /\ id = 0 /\ method = "CreateUser" /\ rpcId = 0
           \/ kind = "get" /\ id \in LookupIds /\ method = "ReadUser" /\ rpcId = Strtoull(id)
    PROVE  SystemIInv'
  <1>1. id \in Nat /\ rpcId \in Nat /\ method \in Methods
    <2>1. CASE id = 0 /\ rpcId = 0
      BY <2>1 DEF Methods
    <2>2. CASE id \in LookupIds /\ method = "ReadUser" /\ rpcId = Strtoull(id)
      BY <2>2, LookupIdsAssumption, Uint64MaxAssumption DEF Strtoull, Methods
    <2> QED
      BY <2>1, <2>2
  <1>2. /\ RpcStart(c, method, rpcId) /\ gatewayUp' = gatewayUp /\ gatewayKills' = gatewayKills
        /\ gatewayCount' = gatewayCount + 1 /\ rpc[c].phase = "unused"
        /\ session' = [session EXCEPT ![c] = [New EXCEPT !.pc = "calling", !.kind = kind, !.id = id]]
    BY DEF Serve, RpcStart, RpcIs
  <1>3. ManagerIInv' /\ CallFits(c)'
    BY <1>1, <1>2, StartKeeps DEF SystemIInv, ManagerIdle, ManagerIInv
  <1>4. RpcBecomes(c, "sent", method, rpcId, rpc[c].replies, rpc[c].ok)
    BY <1>1, <1>2, RpcStartBecomes DEF SystemIInv, ManagerIInv, ManagerTypeOK
  <1>5. SessionBecomes(c, "calling", kind, id, {}, "none")
    <2> DEFINE r == [New EXCEPT !.pc = "calling", !.kind = kind, !.id = id]
    <2>1. /\ r \in SessionRecord
          /\ r.pc = "calling" /\ r.kind = kind /\ r.id = id
          /\ r.users = {} /\ r.outcome = "none"
      BY <1>1 DEF New, SessionRecord
    <2>2. session' = [session EXCEPT ![c] = r]
      BY <1>2
    <2> HIDE DEF r
    <2> QED
      BY <2>1, <2>2 DEF SessionBecomes, SystemIInv, SystemTypeOK
  <1>6. /\ session'[c].pc = "calling" /\ session'[c].kind = kind /\ session'[c].id = id
        /\ session'[c].users = {} /\ session'[c].outcome = "none"
        /\ rpc'[c].phase = "sent" /\ rpc'[c].method = method /\ rpc'[c].id = rpcId
    BY <1>4, <1>5 DEF SessionBecomes, RpcBecomes
  <1>7. SessionCalls(c)' /\ OutcomeFits(c)'
    BY <1>6 DEF SessionCalls, OutcomeFits, In
  <1>8. ListFits(c)'
    <2>1. before'[c] \subseteq rows'
      BY DEF Remember, ManagerIdle, daoVars, SystemIInv, SessionFits, ListFits
    <2>2. ~rpc'[c].ok
      BY <1>3, <1>6 DEF CallFits, RpcFits
    <2> QED
      BY <1>6, <2>1, <2>2 DEF ListFits, In, RpcIs
  <1>9. gatewayCount' \in Nat
    BY <1>2 DEF SystemIInv, SystemTypeOK
  <1> QED
    BY <1>2, <1>3, <1>4, <1>5, <1>7, <1>8, <1>9, SessionStepFits
       DEF SessionFits, SessionBecomes, RpcBecomes

\* A session that waits for its body, or is closed without any call
\* (AwaitBody, RejectBody, FetchTimesOut).
LEMMA NoCallFits ==
    ASSUME SystemIInv, ManagerIdle, Remember, NEW c \in Calls,
           In(c, "new") \/ In(c, "fetching"),
           NEW pc, NEW outcome, NEW users \in SUBSET User,
           <<pc, outcome>> \in {<<"fetching", "none">>, <<"closed", "bad body">>,
                                <<"closed", "timeout">>},
           SessionBecomes(c, pc, "post", 0, users, outcome),
           UNCHANGED <<rpc, gatewayUp, gatewayCount, gatewayKills>>
    PROVE  SystemIInv'
  <1>1. ManagerIInv'
    BY ManagerIdleKeeps DEF SystemIInv, ManagerIdle, managerVars
  <1>2. /\ session'[c].pc = pc /\ session'[c].kind = "post" /\ session'[c].outcome = outcome
        /\ session'[c].id = 0 /\ rpc'[c] = rpc[c] /\ rpc[c].phase = "unused"
    <2>1. rpc[c].phase = "unused"
      BY DEF SystemIInv, SessionFits, SessionCalls
    <2> QED
      BY <2>1 DEF SessionBecomes
  <1>3. SessionCalls(c)' /\ OutcomeFits(c)'
    BY <1>2 DEF SessionCalls, OutcomeFits, In
  <1>4. ListFits(c)'
    <2>1. before'[c] \subseteq rows'
      BY DEF Remember, ManagerIdle, daoVars, SystemIInv, SessionFits, ListFits
    <2> QED
      BY <1>2, <2>1 DEF ListFits
  <1>5. gatewayCount' \in Nat
    BY DEF SystemIInv, SystemTypeOK
  <1> QED
    BY <1>1, <1>3, <1>4, <1>5, SessionStepFits DEF SessionFits, SessionBecomes

\* A reply moves from the stream into the list (ReadStream).
LEMMA ReadStreamFits ==
    ASSUME SystemIInv, ManagerIdle, Remember, NEW c \in Calls, ReadStream(c)
    PROVE  SystemIInv'
  <1>1. /\ In(c, "calling") /\ session[c].kind = "list" /\ SessionFits(c) /\ CallFits(c)
        /\ session \in [Calls -> SessionRecord] /\ session[c] \in SessionRecord
        /\ rpc \in [Calls -> RpcRecord]
        /\ UNCHANGED <<gatewayUp, gatewayCount, gatewayKills, rows, dao>>
        /\ gatewayCount \in Nat
    BY DEF ReadStream, SystemIInv, SystemTypeOK, ManagerIInv, ManagerTypeOK, ManagerIdle, daoVars
  <1>2. PICK u \in rpc[c].replies : /\ RpcRead(c, u)
                                    /\ session' = [session EXCEPT ![c].users = @ \cup {u}]
    BY DEF ReadStream
  <1>3. rpc[c].method = "ReadUsers" /\ rpc[c].phase # "unused" /\ session[c].outcome = "none"
    BY <1>1 DEF SessionFits, SessionCalls, OutcomeFits, In
  <1>4. u \in rows /\ u \in User
    BY <1>1 DEF CallFits, ReadFits, SystemIInv, ManagerIInv, ManagerTypeOK, DaoTypeOK
  <1>5. RpcBecomes(c, rpc[c].phase, rpc[c].method, rpc[c].id, rpc[c].replies \ {u}, rpc[c].ok)
    BY <1>1, <1>2, RpcReadBecomes
  <1>6. ManagerIInv'
    BY <1>2, <1>3, ReadKeeps DEF SystemIInv, ManagerIdle
  <1>7. SessionBecomes(c, "calling", "list", session[c].id, session[c].users \cup {u}, "none")
    <2> DEFINE r == [session[c] EXCEPT !.users = @ \cup {u}]
    <2>1. /\ r \in SessionRecord
          /\ r.pc = "calling" /\ r.kind = "list" /\ r.id = session[c].id
          /\ r.users = session[c].users \cup {u} /\ r.outcome = "none"
      BY <1>1, <1>3, <1>4 DEF SessionRecord, In
    <2>2. session' = [session EXCEPT ![c] = r]
      BY <1>2
    <2> HIDE DEF r
    <2> QED
      BY <1>1, <2>1, <2>2 DEF SessionBecomes
  <1>8. SessionCalls(c)'
    BY <1>1, <1>3, <1>5, <1>7
       DEF SessionFits, SessionCalls, SessionBecomes, RpcBecomes, In
  <1>9. OutcomeFits(c)'
    BY <1>7 DEF OutcomeFits, SessionBecomes, In
  <1>10. ListFits(c)'
    <2>1. before'[c] = before[c]
      BY <1>1 DEF Remember, In
    <2>2. /\ session'[c].pc = "calling" /\ session'[c].outcome = "none"
          /\ session'[c].users = session[c].users \cup {u}
          /\ rpc'[c].phase = rpc[c].phase /\ (rpc'[c].ok <=> rpc[c].ok)
          /\ rpc'[c].replies = rpc[c].replies \ {u}
      BY <1>5, <1>7 DEF SessionBecomes, RpcBecomes
    <2>3. \A S : before[c] \subseteq session[c].users \cup rpc[c].replies \cup S
                   => before'[c] \subseteq session'[c].users \cup rpc'[c].replies \cup S
      BY <2>1, <2>2
    <2>4. /\ before[c] \subseteq rows /\ session[c].users \subseteq rows
          /\ RpcIs(c, "open") /\ At(c, "returned") /\ dao[c].outcome = "users" =>
                before[c] \subseteq session[c].users \cup rpc[c].replies \cup dao[c].users
          /\ rpc[c].ok => before[c] \subseteq session[c].users \cup rpc[c].replies
      BY <1>1 DEF SessionFits, ListFits
    <2>5. before'[c] \subseteq rows' /\ session'[c].users \subseteq rows'
      BY <1>1, <1>4, <2>1, <2>2, <2>4
    <2>6. RpcIs(c, "open")' /\ At(c, "returned")' /\ dao'[c].outcome = "users" =>
             before'[c] \subseteq session'[c].users \cup rpc'[c].replies \cup dao'[c].users
      BY <1>1, <2>2, <2>3, <2>4 DEF RpcIs, At
    <2>7. rpc'[c].ok => before'[c] \subseteq session'[c].users \cup rpc'[c].replies
      BY <2>1, <2>2, <2>4
    <2> QED
      BY <2>2, <2>5, <2>6, <2>7 DEF ListFits
  <1> QED
    BY <1>1, <1>5, <1>6, <1>7, <1>8, <1>9, <1>10, SessionStepFits
       DEF SessionFits, SessionBecomes, RpcBecomes

\* A session whose remote call is over is closed, with what its stub makes of
\* the status and the replies (Finish).
LEMMA FinishFits ==
    ASSUME SystemIInv, ManagerIdle, Remember, NEW c \in Calls,
           NEW kind, NEW outcome, NEW users, Finish(c, kind, outcome, users),
           \/ kind = "list" /\ outcome = "ok" /\ users = session[c].users
           \/ kind \in {"get", "post"} /\ outcome = "ok" /\ rpc[c].ok /\ users = rpc[c].replies
           \/ kind = "get" /\ outcome = "User not found!" /\ users = {}
           \/ kind = "post" /\ outcome = "User is invalid!" /\ users = {}
    PROVE  SystemIInv'
  <1>1. /\ In(c, "calling") /\ session[c].kind = kind /\ RpcDone(c)
        /\ SessionFits(c) /\ CallFits(c) /\ session[c] \in SessionRecord
        /\ UNCHANGED <<rpc, gatewayUp, gatewayCount, gatewayKills, rows, dao>>
        /\ gatewayCount \in Nat /\ session \in [Calls -> SessionRecord]
    BY DEF Finish, SystemIInv, SystemTypeOK, ManagerIInv, ManagerIdle, daoVars
  <1>2. ManagerIInv'
    BY <1>1, ManagerIdleKeeps DEF SystemIInv, ManagerIdle, managerVars
  <1>3. users \in SUBSET User
    BY <1>1 DEF SessionRecord, SystemIInv, ManagerIInv, ManagerTypeOK, RpcRecord
  <1>4. SessionBecomes(c, "closed", kind, session[c].id, users, outcome)
    <2> DEFINE r == [session[c] EXCEPT !.pc = "closed", !.outcome = outcome, !.users = users]
    <2>1. /\ r \in SessionRecord
          /\ r.pc = "closed" /\ r.kind = kind /\ r.id = session[c].id
          /\ r.users = users /\ r.outcome = outcome
      BY <1>1, <1>3 DEF SessionRecord
    <2>2. session' = [session EXCEPT ![c] = r]
      BY DEF Finish, Close
    <2> HIDE DEF r
    <2> QED
      BY <1>1, <2>1, <2>2 DEF SessionBecomes
  <1>5. /\ session'[c].pc = "closed" /\ session'[c].kind = session[c].kind
        /\ session'[c].id = session[c].id /\ session'[c].users = users
        /\ session'[c].outcome = outcome /\ rpc'[c] = rpc[c] /\ rpc[c].phase = "ended"
    BY <1>1, <1>4 DEF SessionBecomes, RpcDone, RpcIs
  <1>6. SessionCalls(c)'
    BY <1>1, <1>5 DEF SessionFits, SessionCalls, In
  <1>7. OutcomeFits(c)'
    BY <1>1, <1>5 DEF OutcomeFits, In
  <1>8. ListFits(c)'
    <2>1. before'[c] = before[c] /\ before[c] \subseteq rows
      BY <1>1 DEF Remember, In, SessionFits, ListFits
    <2>2. ASSUME kind = "list"
          PROVE  users \subseteq rows /\ (rpc[c].ok => before[c] \subseteq users)
      <3>1. users = session[c].users /\ rpc[c].method = "ReadUsers"
        BY <1>1, <2>2 DEF SessionFits, SessionCalls, In
      <3>2. rpc[c].replies = {}
        BY <1>1, <3>1 DEF RpcDone
      <3> QED
        BY <1>1, <2>2, <3>1, <3>2 DEF SessionFits, ListFits
    <2> QED
      BY <1>1, <1>5, <2>1, <2>2 DEF ListFits, In
  <1> QED
    BY <1>1, <1>2, <1>4, <1>6, <1>7, <1>8, SessionStepFits DEF SessionFits, SessionBecomes

\* The gateway dies: whoever waits is reset (GatewayCrash).
LEMMA GatewayCrashFits ==
    ASSUME SystemIInv, ManagerIdle, Remember, GatewayCrash,
           gatewayKills' \in 0 .. MaxGatewayKills
    PROVE  SystemIInv'
  <1>1. /\ gatewayUp' = FALSE /\ gatewayCount' = 0
        /\ UNCHANGED <<rpc, rows, nextId, dao>>
        /\ session \in [Calls -> SessionRecord]
    BY DEF GatewayCrash, ManagerIdle, daoVars, SystemIInv, SystemTypeOK
  <1>2. ManagerIInv'
    BY <1>1, ManagerIdleKeeps DEF SystemIInv, ManagerIdle, managerVars
  <1>3. ASSUME NEW c \in Calls
        PROVE  \/ session'[c] = session[c] /\ (In(c, "new") \/ In(c, "closed"))
               \/ /\ ~In(c, "new") /\ ~In(c, "closed")
                  /\ session'[c].pc = "closed" /\ session'[c].kind = session[c].kind
                  /\ session'[c].id = session[c].id /\ session'[c].users = {}
                  /\ session'[c].outcome = "reset"
    BY <1>1 DEF GatewayCrash, SessionRecord
  <1>4. session' \in [Calls -> SessionRecord]
    <2>1. \A c \in Calls : [session[c] EXCEPT !.pc = "closed", !.outcome = "reset", !.users = {}]
                               \in SessionRecord
      BY <1>1 DEF SessionRecord
    <2> QED
      BY <1>1, <2>1 DEF GatewayCrash
  <1>5. SystemTypeOK'
    <2>1. before' \in [Calls -> SUBSET User]
      BY DEF Remember, SystemIInv, SystemTypeOK, ManagerTypeOK, DaoTypeOK
    <2> QED
      BY <1>1, <1>2, <1>4, <2>1 DEF SystemTypeOK, ManagerIInv
  <1>6. IdsCounted'
    BY <1>1 DEF SystemIInv, IdsCounted, PastPersist, At
  <1>7. ASSUME NEW c \in Calls
        PROVE  SessionFits(c)'
    <2>1. CASE session'[c] = session[c]
      BY <1>1, <2>1, UntouchedSession
    <2>2. CASE /\ ~In(c, "new") /\ ~In(c, "closed")
               /\ session'[c].pc = "closed" /\ session'[c].kind = session[c].kind
               /\ session'[c].id = session[c].id /\ session'[c].users = {}
               /\ session'[c].outcome = "reset"
      <3>1. SessionFits(c)
        BY DEF SystemIInv
      <3>2. SessionCalls(c)'
        BY <1>1, <2>2, <3>1 DEF SessionFits, SessionCalls, In
      <3>3. OutcomeFits(c)'
        BY <2>2 DEF OutcomeFits, In
      <3>4. ListFits(c)'
        <4>1. before'[c] \subseteq rows'
          BY <1>1, <3>1 DEF Remember, SessionFits, ListFits
        <4> QED
          BY <2>2, <4>1 DEF ListFits, In
      <3> QED
        BY <3>2, <3>3, <3>4 DEF SessionFits
    <2> QED
      BY <1>3, <2>1, <2>2
  <1> QED
    BY <1>2, <1>5, <1>6, <1>7 DEF SystemIInv

\* A gateway that comes back, or a system at rest, moves no session.
LEMMA NoSessionMoves ==
    ASSUME SystemIInv, UNCHANGED <<rpc, session, before, gatewayCount, gatewayKills>>, ManagerIdle,
           gatewayUp' \in BOOLEAN
    PROVE  SystemIInv'
  <1>1. ManagerIInv'
    BY ManagerIdleKeeps DEF SystemIInv, ManagerIdle, managerVars
  <1>2. /\ rows' = rows /\ dao' = dao /\ nextId' = nextId /\ rpc' = rpc
        /\ session' = session /\ before' = before
    BY DEF ManagerIdle, daoVars
  <1>3. SystemTypeOK'
    BY <1>1, <1>2 DEF SystemTypeOK, ManagerIInv, SystemIInv
  <1>4. IdsCounted'
    BY <1>2 DEF SystemIInv, IdsCounted, PastPersist, At
  <1>5. ASSUME NEW c \in Calls
        PROVE  SessionFits(c)'
    <2>1. SessionFits(c)
      BY DEF SystemIInv
    <2>2. SessionCalls(c)'
      BY <1>2, <2>1 DEF SessionFits, SessionCalls, In
    <2>3. OutcomeFits(c)'
      BY <1>2, <2>1 DEF SessionFits, OutcomeFits, In
    <2>4. ListFits(c)'
      BY <1>2, <2>1 DEF SessionFits, ListFits, In, RpcIs, At
    <2> QED
      BY <2>2, <2>3, <2>4 DEF SessionFits
  <1> QED
    BY <1>1, <1>3, <1>4, <1>5 DEF SystemIInv

\* A session that is not yet calling (AwaitBody, RejectBody, FetchTimesOut)
\* is brought into the form of NoCallFits.
LEMMA NoCallBecomes ==
    ASSUME SystemIInv, NEW c \in Calls,
           AwaitBody(c) \/ RejectBody(c) \/ FetchTimesOut(c)
    PROVE  /\ UNCHANGED <<rpc, gatewayUp, gatewayCount, gatewayKills>>
           /\ In(c, "new") \/ In(c, "fetching")
           /\ \/ SessionBecomes(c, "fetching", "post", 0, {}, "none")
              \/ SessionBecomes(c, "closed", "post", 0, {}, "bad body")
              \/ SessionBecomes(c, "closed", "post", 0, {}, "timeout")
  <1>1. /\ session \in [Calls -> SessionRecord] /\ session[c] \in SessionRecord
        /\ SessionCalls(c)
    BY DEF SystemIInv, SystemTypeOK, SessionFits
  <1>2. ASSUME NEW r \in SessionRecord, session' = [session EXCEPT ![c] = r]
        PROVE  SessionBecomes(c, r.pc, r.kind, r.id, r.users, r.outcome)
    BY <1>1, <1>2 DEF SessionBecomes
  <1>3. CASE AwaitBody(c)
    <2> DEFINE r == [New EXCEPT !.pc = "fetching", !.kind = "post"]
    <2>1. /\ r \in SessionRecord /\ r.pc = "fetching" /\ r.kind = "post" /\ r.id = 0
          /\ r.users = {} /\ r.outcome = "none"
      BY DEF New, SessionRecord
    <2>2. session' = [session EXCEPT ![c] = r]
      BY <1>3 DEF AwaitBody
    <2> HIDE DEF r
    <2>3. SessionBecomes(c, r.pc, r.kind, r.id, r.users, r.outcome)
      BY <1>2, <2>1, <2>2
    <2> QED
      BY <1>3, <2>1, <2>3 DEF AwaitBody
  <1>4. CASE RejectBody(c)
    <2> DEFINE r == [New EXCEPT !.pc = "closed", !.kind = "post", !.outcome = "bad body"]
    <2>1. /\ r \in SessionRecord /\ r.pc = "closed" /\ r.kind = "post" /\ r.id = 0
          /\ r.users = {} /\ r.outcome = "bad body"
      BY DEF New, SessionRecord
    <2>2. session' = [session EXCEPT ![c] = r]
      BY <1>4 DEF RejectBody
    <2> HIDE DEF r
    <2>3. SessionBecomes(c, r.pc, r.kind, r.id, r.users, r.outcome)
      BY <1>2, <2>1, <2>2
    <2> QED
      BY <1>4, <2>1, <2>3 DEF RejectBody, BodyAt
  <1>5. CASE FetchTimesOut(c)
    <2> DEFINE r == [session[c] EXCEPT !.pc = "closed", !.outcome = "timeout", !.users = {}]
    <2>1. session[c].kind = "post" /\ session[c].id = 0 /\ In(c, "fetching")
      BY <1>1, <1>5 DEF FetchTimesOut, SessionCalls, In
    <2>2. /\ r \in SessionRecord /\ r.pc = "closed" /\ r.kind = "post" /\ r.id = 0
          /\ r.users = {} /\ r.outcome = "timeout"
      BY <1>1, <2>1 DEF SessionRecord
    <2>3. session' = [session EXCEPT ![c] = r]
      BY <1>5 DEF FetchTimesOut, Close
    <2> HIDE DEF r
    <2>4. SessionBecomes(c, r.pc, r.kind, r.id, r.users, r.outcome)
      BY <1>2, <2>2, <2>3
    <2> QED
      BY <1>5, <2>2, <2>4 DEF FetchTimesOut
  <1> QED
    BY <1>3, <1>4, <1>5

\* Every step of the gateway keeps the invariant (all of GatewayNext).
LEMMA GatewayStepFits ==
    ASSUME SystemIInv, GatewayNext, ManagerIdle, Remember
    PROVE  SystemIInv'
  <1>1. ASSUME NEW c \in Calls, GetAllUsers(c)
        PROVE  SystemIInv'
    BY <1>1, ServeFits DEF GetAllUsers
  <1>2. ASSUME NEW c \in Calls, GetUser(c)
        PROVE  SystemIInv'
    BY <1>2, ServeFits DEF GetUser
  <1>3. ASSUME NEW c \in Calls, PostUser(c)
        PROVE  SystemIInv'
    BY <1>3, ServeFits DEF PostUser, BodyAt
  <1>4. ASSUME NEW c \in Calls, AwaitBody(c) \/ RejectBody(c) \/ FetchTimesOut(c)
        PROVE  SystemIInv'
    <2>1. /\ UNCHANGED <<rpc, gatewayUp, gatewayCount, gatewayKills>>
          /\ In(c, "new") \/ In(c, "fetching")
          /\ \/ SessionBecomes(c, "fetching", "post", 0, {}, "none")
             \/ SessionBecomes(c, "closed", "post", 0, {}, "bad body")
             \/ SessionBecomes(c, "closed", "post", 0, {}, "timeout")
      BY <1>4, NoCallBecomes
    <2>2. {} \in SUBSET User
      OBVIOUS
    <2>3. CASE SessionBecomes(c, "fetching", "post", 0, {}, "none")
      BY <2>1, <2>2, <2>3, NoCallFits
    <2>4. CASE SessionBecomes(c, "closed", "post", 0, {}, "bad body")
      BY <2>1, <2>2, <2>4, NoCallFits
    <2>5. CASE SessionBecomes(c, "closed", "post", 0, {}, "timeout")
      BY <2>1, <2>2, <2>5, NoCallFits
    <2> QED
      BY <2>1, <2>3, <2>4, <2>5
  <1>5. ASSUME NEW c \in Calls, FinishGetUsers(c) \/ FinishGetUser(c) \/ FinishPostUser(c)
        PROVE  SystemIInv'
    BY <1>5, FinishFits DEF FinishGetUsers, FinishGetUser, FinishPostUser
  <1>6. ASSUME NEW c \in Calls, DanglingCallback(c)
        PROVE  SystemIInv'
    <2>1. gatewayKills' \in 0 .. MaxGatewayKills
      BY <1>6 DEF DanglingCallback, SystemIInv, SystemTypeOK
    <2> QED
      BY <1>6, <2>1, GatewayCrashFits DEF DanglingCallback
  <1>7. ASSUME KillGateway
        PROVE  SystemIInv'
    <2>1. gatewayKills' \in 0 .. MaxGatewayKills
      BY <1>7, MaxGatewayKillsAssumption DEF KillGateway, SystemIInv, SystemTypeOK
    <2> QED
      BY <1>7, <2>1, GatewayCrashFits DEF KillGateway
  <1>8. ASSUME RestartGateway
        PROVE  SystemIInv'
    <2>1. before' = before
      BY <1>8 DEF RestartGateway, Remember, SystemIInv, SystemTypeOK
    <2> QED
      BY <1>8, <2>1, NoSessionMoves DEF RestartGateway
  <1> QED
    BY <1>1, <1>2, <1>3, <1>4, <1>5, <1>6, <1>7, <1>8, ReadStreamFits
       DEF GatewayNext, Arrive, Proceed

\* At first every session is new and no call is made.
LEMMA SystemIInvInit == SystemInit => SystemIInv
  <1> SUFFICES ASSUME SystemInit
               PROVE  SystemIInv
    OBVIOUS
  <1>1. /\ ManagerIInv /\ rpc = [c \in Calls |-> Unused] /\ dao = [c \in Calls |-> Idle]
        /\ rows = {} /\ nextId = 1
        /\ session = [c \in Calls |-> New] /\ before = [c \in Calls |-> {}]
        /\ gatewayUp = TRUE /\ gatewayCount = 0 /\ gatewayKills = 0
    BY ManagerIInvInit DEF SystemInit, ManagerInit, RpcInit, DaoInit, GatewayInit
  <1>2. SystemTypeOK
    BY <1>1, MaxGatewayKillsAssumption DEF SystemTypeOK, ManagerIInv, SessionRecord, New
  <1>3. PastPersist = {}
    BY <1>1 DEF PastPersist, Unused
  <1>4. IdsCounted
    BY <1>1, <1>3, FS_EmptySet DEF IdsCounted
  <1>5. ASSUME NEW c \in Calls
        PROVE  SessionFits(c)
    BY <1>1 DEF SessionFits, SessionCalls, OutcomeFits, ListFits, In, New, Unused
  <1> QED
    BY <1>1, <1>2, <1>4, <1>5 DEF SystemIInv

\* A step of the manager, a step of the gateway and a stutter keep the invariant.
LEMMA SystemStepFits == SystemIInv /\ [SystemNext]_systemVars => SystemIInv'
  <1> SUFFICES ASSUME SystemIInv, [SystemNext]_systemVars
               PROVE  SystemIInv'
    OBVIOUS
  <1>1. ASSUME UNCHANGED systemVars
        PROVE  SystemIInv'
    <2>1. /\ UNCHANGED <<rpc, session, before, gatewayCount, gatewayKills>> /\ ManagerIdle
          /\ gatewayUp' \in BOOLEAN
      BY <1>1 DEF systemVars, managerVars, gatewayVars, ManagerIdle, SystemIInv, SystemTypeOK
    <2> QED
      BY <2>1, NoSessionMoves
  <1> QED
    BY <1>1, ManagerStepFits, GatewayStepFits DEF SystemNext, AllAnswered

-----------------------------------------------------------------------------
(***************************************************************************)
(* The theorems.                                                           *)
(***************************************************************************)

\* The inductive invariant holds of the whole system.
THEOREM SystemInvariance == SystemSpec => []SystemIInv
  BY SystemIInvInit, SystemStepFits, PTL DEF SystemSpec

\* The variables of the system always have their types.
THEOREM SystemTypes == SystemSpec => []SystemTypeOK
  <1>1. SystemIInv => SystemTypeOK
    BY DEF SystemIInv
  <1> QED
    BY <1>1, SystemInvariance, PTL

\* The invariant bears out a 200 answer to POST /users.
LEMMA IInvCreateAnswers == SystemIInv => CreateAnswersOwnUser
  <1> SUFFICES ASSUME SystemIInv, Unwrapped, NEW c \in Calls, Answered(c, "post")
               PROVE  session[c].users # {} /\ session[c].users = OwnedBy(c, rows)
    BY DEF CreateAnswersOwnUser
  <1>1. SessionFits(c) /\ CallFits(c)
    BY DEF SystemIInv, ManagerIInv
  <1>2. rpc[c].phase = "ended" /\ rpc[c].ok /\ session[c].users = rpc[c].replies
    BY <1>1 DEF Answered, SessionFits, OutcomeFits
  <1>3. rpc[c].method = "CreateUser"
    BY <1>1, <1>2 DEF Answered, SessionFits, SessionCalls
  <1> QED
    BY <1>1, <1>2, <1>3 DEF CallFits, AnswerFits

\* What strtoull does to an id is undone by the ids that the table can hold.
LEMMA StrtoullExact ==
    ASSUME NEW digits \in Nat, NEW id \in Nat, id < Uint64Max, id = Strtoull(digits)
    PROVE  id = digits
  BY Uint64MaxAssumption DEF Strtoull

\* A lookup that is answered shows the one user of the id in the path.
LEMMA AnsweredGet ==
    ASSUME SystemIInv, NEW c \in Calls, rpc[c].ok, session[c].kind = "get"
    PROVE  \E u \in rows : rpc[c].replies = {u} /\ u.id = session[c].id
  <1>1. SessionFits(c) /\ CallFits(c)
    BY DEF SystemIInv, ManagerIInv
  <1>2. rpc[c].phase = "ended"
    BY <1>1 DEF CallFits, RpcFits
  <1>3. rpc[c].method = "ReadUser" /\ rpc[c].id = Strtoull(session[c].id)
    BY <1>1, <1>2 DEF SessionFits, SessionCalls
  <1>4. PICK u \in rows : rpc[c].replies = {u} /\ u.id = rpc[c].id
    BY <1>1, <1>3 DEF CallFits, AnswerFits
  <1>5. session[c].id \in Nat
    BY DEF SystemIInv, SystemTypeOK, SessionRecord
  <1> QED
    BY <1>3, <1>4, <1>5, IdsFit, StrtoullExact

\* The invariant bears out a 200 answer to GET /users/{id}.
LEMMA IInvReadAnswers == SystemIInv => ReadAnswersRequestedUser
  <1> SUFFICES ASSUME SystemIInv, NEW c \in Calls, Answered(c, "get")
               PROVE  /\ Cardinality(session[c].users) = 1
                      /\ \A u \in session[c].users : u \in rows /\ u.id = session[c].id
    BY DEF ReadAnswersRequestedUser
  <1>1. rpc[c].ok /\ session[c].users = rpc[c].replies
    BY DEF Answered, SystemIInv, SessionFits, OutcomeFits
  <1>2. PICK u \in rows : session[c].users = {u} /\ u.id = session[c].id
    BY <1>1, AnsweredGet DEF Answered
  <1>3. Cardinality({u}) = 1
    BY FS_Singleton
  <1> QED
    BY <1>2, <1>3

\* The invariant bears out a 200 answer to GET /users.
LEMMA IInvListAnswers == SystemIInv => ListAnswersAllUsers
  BY DEF SystemIInv, SessionFits, ListFits, ListAnswersAllUsers, Answered

\* The invariant says which requests the rows come from.
LEMMA IInvRowsFromPosts == SystemIInv => RowsComeFromPosts
  <1> SUFFICES ASSUME SystemIInv, NEW u \in rows
               PROVE  /\ session[u.name].kind = "post"
                      /\ session[u.name].outcome \notin {"bad body", "timeout"}
    BY DEF RowsComeFromPosts, SystemIInv, ManagerIInv
  <1>1. u.name \in Calls /\ u \in OwnedBy(u.name, rows)
    BY DEF SystemIInv, ManagerIInv, ManagerTypeOK, DaoTypeOK, User, OwnedBy
  <1>2. rpc[u.name].method = "CreateUser" /\ rpc[u.name].phase \in {"open", "ended"}
    BY <1>1 DEF SystemIInv, ManagerIInv, CallFits, RowFits
  <1> QED
    BY <1>1, <1>2 DEF SystemIInv, SessionFits, SessionCalls, OutcomeFits

\* A POST that is answered 200 shows the user that it stored.
THEOREM PostShowsItsUser == SystemSpec => []CreateAnswersOwnUser
  BY SystemInvariance, IInvCreateAnswers, PTL

\* A GET of an id that is answered 200 shows the user of that id, also where
\* the id does not fit the integer that carries it.
THEOREM GetShowsItsUser == SystemSpec => []ReadAnswersRequestedUser
  BY SystemInvariance, IInvReadAnswers, PTL

\* A list shows stored users only and, unless its stream broke, all that were
\* stored when it was asked for.
THEOREM ListShowsTheTable == SystemSpec => []ListAnswersAllUsers
  BY SystemInvariance, IInvListAnswers, PTL

\* Every row is of a POST whose body was accepted, one row of each.
THEOREM RowsOfPosts == SystemSpec => []RowsComeFromPosts
  BY SystemInvariance, IInvRowsFromPosts, PTL

\* What the manager guarantees under any clients, it guarantees behind the
\* gateway.
THEOREM SystemOkMeansStored == SystemSpec => [](CreatedIsStored /\ StoredOnRequest)
  <1>1. SystemIInv => CreatedIsStored /\ StoredOnRequest
    BY IInvCreatedIsStored, IInvStoredOnRequest DEF SystemIInv
  <1> QED
    BY <1>1, SystemInvariance, PTL

\* Fewer calls than a uint16_t has values cannot use up its values.
LEMMA FewCallsFit ==
    ASSUME SystemIInv, Cardinality(Calls) < IdModulus
    PROVE  Unwrapped
  <1>1. PastPersist \in SUBSET Calls
    BY DEF PastPersist
  <1>2. /\ Cardinality(PastPersist) <= Cardinality(Calls)
        /\ Cardinality(PastPersist) \in Nat /\ Cardinality(Calls) \in Nat
    BY <1>1, FS_Subset, FS_CardinalityType, IdsStayBelowUint64Max
  <1>3. nextId <= Cardinality(PastPersist) + 1 /\ nextId \in Nat
    BY DEF SystemIInv, IdsCounted, ManagerIInv, ManagerTypeOK, DaoTypeOK
  <1>4. \A u \in rows : u.id \in 1 .. (nextId - 1)
    BY DEF SystemIInv, ManagerIInv, SequenceAhead
  <1> QED
    BY <1>2, <1>3, <1>4, IdModulusAssumption DEF Unwrapped

-----------------------------------------------------------------------------
(***************************************************************************)
(* The system implements UserApi.                                          *)
(***************************************************************************)

\* What an action of session c does to the abstract state: it keeps the client
\* waiting, or closes the session and with it tells the answer.
LEMMA BarOfOpen ==
    ASSUME NEW c \in Calls, NEW pc, pc # "closed", NEW kind, NEW id, NEW users, NEW outcome,
           SessionBecomes(c, pc, kind, id, users, outcome)
    PROVE  /\ apiRequest' = [apiRequest EXCEPT ![c] = [kind |-> kind, id |-> id]]
           /\ apiAnswer' = [apiAnswer EXCEPT ![c] = Api!Waiting]
  BY DEF SessionBecomes, apiRequest, apiAnswer, In, Api!Waiting, Api!Answer

\* What a session looks like to the REST interface once it is closed.
LEMMA BarOfClosed ==
    ASSUME NEW c \in Calls, NEW kind, NEW id, NEW users, NEW outcome,
           SessionBecomes(c, "closed", kind, id, users, outcome)
    PROVE  /\ apiRequest' = [apiRequest EXCEPT ![c] = [kind |-> kind, id |-> id]]
           /\ apiAnswer' = [apiAnswer EXCEPT ![c] = Api!Answer(outcome, users)]
  BY DEF SessionBecomes, apiRequest, apiAnswer, In, Api!Answer

\* A session that is not closed waits for its answer, and one that is new has
\* not asked for anything.
LEMMA BarOfState ==
    ASSUME SystemIInv, NEW c \in Calls
    PROVE  /\ apiRequest[c] = [kind |-> session[c].kind, id |-> session[c].id]
           /\ ~In(c, "closed") <=> apiAnswer[c] = Api!Waiting
           /\ apiAnswer[c].outcome = session[c].outcome
           /\ In(c, "new") <=> apiRequest[c] = Api!NoRequest
  <1>1. SessionFits(c)
    BY DEF SystemIInv
  <1>2. apiRequest[c] = [kind |-> session[c].kind, id |-> session[c].id]
    BY DEF apiRequest
  <1>3. ~In(c, "closed") <=> session[c].outcome = "none"
    BY <1>1 DEF SessionFits, OutcomeFits
  <1>4. ASSUME In(c, "closed")
        PROVE  apiAnswer[c].outcome = session[c].outcome /\ apiAnswer[c] # Api!Waiting
    <2>1. apiAnswer[c].outcome = session[c].outcome
      BY <1>4 DEF apiAnswer
    <2>2. Api!Waiting.outcome = "none"
      BY DEF Api!Waiting, Api!Answer
    <2> QED
      BY <1>3, <1>4, <2>1, <2>2
  <1>5. ASSUME ~In(c, "closed")
        PROVE  apiAnswer[c].outcome = session[c].outcome /\ apiAnswer[c] = Api!Waiting
    BY <1>3, <1>5 DEF apiAnswer, Api!Waiting, Api!Answer
  <1>6. In(c, "new") => apiRequest[c] = Api!NoRequest
    BY <1>1, <1>2 DEF SessionFits, SessionCalls, New, Api!NoRequest
  <1>7. ~In(c, "new") => apiRequest[c] # Api!NoRequest
    BY <1>1, <1>2 DEF SessionFits, SessionCalls, Api!NoRequest
  <1> QED
    BY <1>2, <1>4, <1>5, <1>6, <1>7

\* To replace an element of a bar by itself is to leave the bar as it is.
LEMMA BarSame ==
    ASSUME NEW c \in Calls
    PROVE  /\ [apiRequest EXCEPT ![c] = apiRequest[c]] = apiRequest
           /\ [apiAnswer EXCEPT ![c] = apiAnswer[c]] = apiAnswer
  BY DEF apiRequest, apiAnswer

\* A commit is the moment at which a POST takes effect, before its answer or
\* after it (Commit, CommitFails and OrphanEnds).
LEMMA CommitStores ==
    ASSUME SystemIInv, NEW c \in Calls, At(c, "commit"), rows' = rows \cup {NewRow(c)},
           session' = session
    PROVE  Api!Store(c)
  <1>1. /\ SessionFits(c) /\ CallFits(c) /\ dao[c].id \notin IdsOf(rows)
    BY DEF SystemIInv, ManagerIInv, PendingFresh
  <1>2. /\ rpc[c].method = "CreateUser" /\ rpc[c].phase \in {"open", "ended"} /\ ~rpc[c].ok
        /\ OwnedBy(c, rows) = {}
    BY <1>1 DEF CallFits, MethodFits, ThreadFits, RpcFits, RowFits, At
  <1>3. session[c].kind = "post"
    BY <1>1, <1>2 DEF SessionFits, SessionCalls
  <1>4. session[c].outcome \in {"none", "User is invalid!", "reset"}
    <2>1. session[c].outcome \in {"none", "ok", "User not found!", "User is invalid!",
                                  "bad body", "timeout", "reset"}
      BY DEF SystemIInv, SystemTypeOK, SessionRecord
    <2> QED
      BY <1>1, <1>2, <1>3, <2>1 DEF SessionFits, OutcomeFits
  <1>5. UNCHANGED <<apiRequest, apiAnswer>>
    BY DEF apiRequest, apiAnswer, In
  <1>6. apiRequest[c].kind = "post"
    BY <1>3 DEF apiRequest
  <1>7. apiAnswer[c].outcome \in {"none", "User is invalid!", "reset"}
    BY <1>4, BarOfState
  <1>8. \E u \in rows' : u.name = c /\ u.id \notin IdsOf(rows) /\ rows' = rows \cup {u}
    BY <1>1 DEF NewRow
  <1> QED
    BY <1>2, <1>5, <1>6, <1>7, <1>8 DEF Api!Store, Api!OwnedBy, Api!IdsOf, OwnedBy, IdsOf

\* Whatever else the manager does, clients see nothing of it (ManagerNext).
LEMMA ManagerRefines ==
    ASSUME SystemIInv, ManagerNext, GatewayIdle
    PROVE  (\E c \in Calls : Api!Store(c)) \/ UNCHANGED <<rows, apiRequest, apiAnswer>>
  <1>1. session' = session /\ ManagerEffect
    BY ManagerHasEffect DEF GatewayIdle, gatewayVars, SystemIInv
  <1>2. UNCHANGED <<apiRequest, apiAnswer>>
    BY <1>1 DEF apiRequest, apiAnswer, In
  <1> QED
    BY <1>1, <1>2, CommitStores DEF ManagerEffect

\* A request comes in, or a worker takes it up again when its body is there.
LEMMA ComeRefines ==
    ASSUME SystemIInv, UNCHANGED rows, NEW c \in Calls, NEW pc, NEW kind, NEW id,
           pc # "closed", [kind |-> kind, id |-> id] \in Api!Requests,
           \/ In(c, "new")
           \/ In(c, "fetching") /\ kind = "post" /\ id = 0,
           SessionBecomes(c, pc, kind, id, {}, "none")
    PROVE  Api!Come(c) \/ UNCHANGED <<rows, apiRequest, apiAnswer>>
  <1>1. /\ apiRequest' = [apiRequest EXCEPT ![c] = [kind |-> kind, id |-> id]]
        /\ apiAnswer' = [apiAnswer EXCEPT ![c] = Api!Waiting]
    BY BarOfOpen
  <1>2. apiAnswer[c] = Api!Waiting
    BY BarOfState DEF In
  <1>3. UNCHANGED apiAnswer
    BY <1>1, <1>2, BarSame
  <1>4. CASE In(c, "new")
    <2>1. apiRequest[c] = Api!NoRequest
      BY <1>4, BarOfState
    <2> QED
      BY <1>1, <1>3, <2>1 DEF Api!Come
  <1>5. CASE In(c, "fetching") /\ kind = "post" /\ id = 0
    <2>1. session[c].kind = "post" /\ session[c].id = 0
      BY <1>5 DEF SystemIInv, SessionFits, SessionCalls, In
    <2>2. apiRequest[c] = [kind |-> kind, id |-> id]
      BY <1>5, <2>1, BarOfState
    <2> QED
      BY <1>1, <1>3, <2>2, BarSame
  <1> QED
    BY <1>4, <1>5

\* Serve brings a session into the form of ComeRefines.
LEMMA ServeBecomes ==
    ASSUME SystemIInv, NEW c \in Calls, NEW kind \in {"list", "get", "post"}, NEW id \in Nat,
           NEW method, NEW rpcId, Serve(c, kind, id, method, rpcId)
    PROVE  SessionBecomes(c, "calling", kind, id, {}, "none")
  <1> DEFINE r == [New EXCEPT !.pc = "calling", !.kind = kind, !.id = id]
  <1>1. /\ r \in SessionRecord
        /\ r.pc = "calling" /\ r.kind = kind /\ r.id = id
        /\ r.users = {} /\ r.outcome = "none"
    BY DEF New, SessionRecord
  <1>2. session' = [session EXCEPT ![c] = r]
    BY DEF Serve
  <1> HIDE DEF r
  <1> QED
    BY <1>1, <1>2 DEF SessionBecomes, SystemIInv, SystemTypeOK

\* Finish brings a session into the form of FinishRefines.
LEMMA FinishBecomes ==
    ASSUME SystemIInv, NEW c \in Calls, NEW kind,
           NEW outcome \in {"ok", "User not found!", "User is invalid!"}, NEW users \in SUBSET User,
           Finish(c, kind, outcome, users)
    PROVE  SessionBecomes(c, "closed", session[c].kind, session[c].id, users, outcome)
  <1> DEFINE r == [session[c] EXCEPT !.pc = "closed", !.outcome = outcome, !.users = users]
  <1>1. /\ r \in SessionRecord
        /\ r.pc = "closed" /\ r.kind = session[c].kind /\ r.id = session[c].id
        /\ r.users = users /\ r.outcome = outcome
    BY DEF SystemIInv, SystemTypeOK, SessionRecord
  <1>2. session' = [session EXCEPT ![c] = r]
    BY DEF Finish, Close
  <1> HIDE DEF r
  <1> QED
    BY <1>1, <1>2 DEF SessionBecomes, SystemIInv, SystemTypeOK

\* A session that is closed with an answer tells it to one that waits.
LEMMA ClosedTells ==
    ASSUME SystemIInv, UNCHANGED rows, NEW c \in Calls, In(c, "calling"), NEW outcome, NEW users,
           SessionBecomes(c, "closed", session[c].kind, session[c].id, users, outcome)
    PROVE  /\ Api!Asks(c, session[c].kind) /\ UNCHANGED apiRequest
           /\ Api!Tell(c, Api!Answer(outcome, users))
  <1>1. apiAnswer[c] = Api!Waiting
    BY BarOfState DEF In
  <1>2. apiRequest[c] = [kind |-> session[c].kind, id |-> session[c].id]
    BY DEF apiRequest
  <1>3. apiRequest' = [apiRequest EXCEPT ![c] = [kind |-> session[c].kind, id |-> session[c].id]]
    BY BarOfClosed
  <1>4. apiAnswer' = [apiAnswer EXCEPT ![c] = Api!Answer(outcome, users)]
    BY BarOfClosed
  <1>5. UNCHANGED apiRequest
    BY <1>2, <1>3, BarSame
  <1>6. apiRequest[c].kind = session[c].kind
    BY DEF apiRequest
  <1> QED
    BY <1>1, <1>4, <1>5, <1>6 DEF Api!Asks, Api!Tell

\* Every answer that comes of a remote call is one that UserApi may give
\* (FinishGetUsers, FinishGetUser, FinishPostUser), while ids fit in 16 bits.
LEMMA FinishRefines ==
    ASSUME SystemIInv, Unwrapped, UNCHANGED rows, NEW c \in Calls,
           FinishGetUsers(c) \/ FinishGetUser(c) \/ FinishPostUser(c)
    PROVE  Api!ShowList(c) \/ Api!ShowOne(c) \/ Api!Refuse(c)
  <1>1. /\ SessionFits(c) /\ CallFits(c)
        /\ session[c].users \in SUBSET User /\ rpc[c].replies \in SUBSET User
    BY DEF SystemIInv, SystemTypeOK, SessionRecord, ManagerIInv, ManagerTypeOK, RpcRecord
  <1>2. ASSUME NEW kind, NEW outcome \in {"ok", "User not found!", "User is invalid!"},
               NEW users \in SUBSET User, Finish(c, kind, outcome, users)
        PROVE  /\ session[c].kind = kind
               /\ Api!Asks(c, kind) /\ UNCHANGED apiRequest
               /\ Api!Tell(c, Api!Answer(outcome, users))
    <2>1. SessionBecomes(c, "closed", session[c].kind, session[c].id, users, outcome)
      BY <1>2, FinishBecomes
    <2>2. In(c, "calling") /\ session[c].kind = kind
      BY <1>2 DEF Finish
    <2>3. /\ Api!Asks(c, session[c].kind) /\ UNCHANGED apiRequest
          /\ Api!Tell(c, Api!Answer(outcome, users))
      BY <2>1, <2>2, ClosedTells
    <2> QED
      BY <2>2, <2>3
  <1>3. CASE FinishGetUsers(c)
    <2>1. /\ session[c].kind = "list"
          /\ Api!Asks(c, "list") /\ UNCHANGED apiRequest
          /\ Api!Tell(c, Api!Answer("ok", session[c].users))
      BY <1>1, <1>2, <1>3 DEF FinishGetUsers
    <2>2. session[c].users \in SUBSET rows
      BY <1>1, <2>1 DEF SessionFits, ListFits
    <2> QED
      BY <2>1, <2>2 DEF Api!ShowList
  <1>4. ASSUME rpc[c].ok, Finish(c, "get", "ok", rpc[c].replies)
        PROVE  Api!ShowOne(c)
    <2>1. /\ session[c].kind = "get"
          /\ Api!Asks(c, "get") /\ UNCHANGED apiRequest
          /\ Api!Tell(c, Api!Answer("ok", rpc[c].replies))
      BY <1>1, <1>2, <1>4
    <2>2. PICK u \in rows : rpc[c].replies = {u} /\ u.id = session[c].id
      BY <1>4, <2>1, AnsweredGet
    <2>3. apiRequest[c].id = u.id
      BY <2>2 DEF apiRequest
    <2> QED
      BY <2>1, <2>2, <2>3 DEF Api!ShowOne
  <1>5. ASSUME rpc[c].ok, Finish(c, "post", "ok", rpc[c].replies)
        PROVE  Api!ShowOne(c)
    <2>1. /\ session[c].kind = "post"
          /\ Api!Asks(c, "post") /\ UNCHANGED apiRequest
          /\ Api!Tell(c, Api!Answer("ok", rpc[c].replies))
      BY <1>1, <1>2, <1>5
    <2>2. rpc[c].method = "CreateUser"
      BY <1>1, <1>5, <2>1 DEF SessionFits, SessionCalls, Finish, In
    <2>3. rpc[c].replies # {} /\ rpc[c].replies = OwnedBy(c, rows)
      BY <1>1, <1>5, <2>2 DEF CallFits, AnswerFits
    <2>4. PICK u \in rows : u.name = c
      BY <2>3 DEF OwnedBy
    <2>5. rpc[c].replies = {u}
      BY <2>3, <2>4 DEF OwnedBy, SystemIInv, ManagerIInv, RowsKeyed
    <2> QED
      BY <2>1, <2>4, <2>5 DEF Api!ShowOne
  <1>6. ASSUME Finish(c, "get", "User not found!", {})
        PROVE  Api!Refuse(c)
    <2>1. {} \in SUBSET User
      OBVIOUS
    <2>2. /\ Api!Asks(c, "get") /\ UNCHANGED apiRequest
          /\ Api!Tell(c, Api!Answer("User not found!", {}))
      BY <1>2, <1>6, <2>1
    <2> QED
      BY <2>2 DEF Api!Refuse
  <1>7. ASSUME Finish(c, "post", "User is invalid!", {})
        PROVE  Api!Refuse(c)
    <2>1. {} \in SUBSET User
      OBVIOUS
    <2>2. /\ Api!Asks(c, "post") /\ UNCHANGED apiRequest
          /\ Api!Tell(c, Api!Answer("User is invalid!", {}))
      BY <1>2, <1>7, <2>1
    <2> QED
      BY <2>2 DEF Api!Refuse
  <1> QED
    BY <1>3, <1>4, <1>5, <1>6, <1>7 DEF FinishGetUser, FinishPostUser

\* What a client is told whose body was refused.
LEMMA BodyAnswered ==
    ASSUME NEW c \in Calls, NEW why, SessionBecomes(c, "closed", "post", 0, {}, why)
    PROVE  apiAnswer' = [apiAnswer EXCEPT ![c] = Api!Answer(why, {})]
  BY DEF SessionBecomes, apiAnswer, In, Api!Answer

\* A body that is not there or is no user is refused for good (RejectBody,
\* FetchTimesOut).
LEMMA RefuseBodyRefines ==
    ASSUME SystemIInv, UNCHANGED rows, NEW c \in Calls, In(c, "new") \/ In(c, "fetching"),
           NEW why, why \in {"bad body", "timeout"},
           SessionBecomes(c, "closed", "post", 0, {}, why)
    PROVE  Api!RefuseBody(c)
  <1>1. SessionFits(c) /\ CallFits(c)
    BY DEF SystemIInv, ManagerIInv
  <1>2. rpc[c].phase = "unused" /\ OwnedBy(c, rows) = {}
    BY <1>1 DEF SessionFits, SessionCalls, CallFits, RowFits
  <1>3. session[c].kind \in {"none", "post"}
    <2>1. CASE In(c, "new")
      <3>1. session[c] = New
        BY <1>1, <2>1 DEF SessionFits, SessionCalls
      <3>2. New.kind = "none"
        BY DEF New
      <3> QED
        BY <3>1, <3>2
    <2>2. CASE In(c, "fetching")
      BY <1>1, <2>2 DEF SessionFits, SessionCalls
    <2> QED
      BY <2>1, <2>2
  <1>4. apiAnswer[c] = Api!Waiting
    BY BarOfState DEF In
  <1>5. Api!Asks(c, "post") \/ Api!Asks(c, "none")
    BY <1>3, <1>4 DEF Api!Asks, apiRequest
  <1>6. apiRequest' = [apiRequest EXCEPT ![c] = [kind |-> "post", id |-> 0]]
    BY BarOfClosed
  <1>7. apiAnswer' = [apiAnswer EXCEPT ![c] = Api!Answer(why, {})]
    BY BodyAnswered
  <1>8. Api!Tell(c, Api!Answer(why, {}))
    BY <1>7 DEF Api!Tell
  <1>9. Api!OwnedBy(c, rows) = {}
    BY <1>2 DEF Api!OwnedBy, OwnedBy
  <1> QED
    BY <1>5, <1>6, <1>8, <1>9 DEF Api!RefuseBody

\* The gateway's death is the reset of all who wait.
LEMMA CrashRefines ==
    ASSUME SystemIInv, UNCHANGED rows, GatewayCrash
    PROVE  Api!Reset
  <1>1. ASSUME NEW c \in Calls
        PROVE  /\ session'[c].kind = session[c].kind /\ session'[c].id = session[c].id
               /\ In(c, "new") \/ In(c, "closed") => session'[c] = session[c]
               /\ ~(In(c, "new") \/ In(c, "closed")) =>
                     /\ session'[c].pc = "closed" /\ session'[c].outcome = "reset"
                     /\ session'[c].users = {}
    BY DEF GatewayCrash, SystemIInv, SystemTypeOK, SessionRecord
  <1>2. UNCHANGED apiRequest
    BY <1>1 DEF apiRequest
  <1>3. ASSUME NEW c \in Calls
        PROVE  apiAnswer'[c] = IF apiRequest[c] # Api!NoRequest /\ apiAnswer[c] = Api!Waiting
                               THEN Api!Answer("reset", {}) ELSE apiAnswer[c]
    <2>1. CASE In(c, "new") \/ In(c, "closed")
      <3>1. ~(apiRequest[c] # Api!NoRequest /\ apiAnswer[c] = Api!Waiting)
        BY <2>1, BarOfState DEF In
      <3>2. apiAnswer'[c] = apiAnswer[c]
        BY <1>1, <2>1 DEF apiAnswer, In
      <3> QED
        BY <3>1, <3>2
    <2>2. CASE ~(In(c, "new") \/ In(c, "closed"))
      <3>1. apiRequest[c] # Api!NoRequest /\ apiAnswer[c] = Api!Waiting
        BY <2>2, BarOfState
      <3>2. apiAnswer'[c] = Api!Answer("reset", {})
        BY <1>1, <2>2 DEF apiAnswer, In, Api!Answer
      <3> QED
        BY <3>1, <3>2
    <2> QED
      BY <2>1, <2>2
  <1>4. apiAnswer' = [c \in Calls |-> apiAnswer'[c]]
    BY DEF apiAnswer
  <1>5. apiAnswer' = [c \in Calls |-> IF apiRequest[c] # Api!NoRequest /\ apiAnswer[c] = Api!Waiting
                                      THEN Api!Answer("reset", {}) ELSE apiAnswer[c]]
    BY <1>3, <1>4
  <1> QED
    BY <1>2, <1>5 DEF Api!Reset

\* A reply that the stub reads is not an answer yet.
LEMMA ReadStreamRefines ==
    ASSUME SystemIInv, UNCHANGED rows, NEW c \in Calls, ReadStream(c)
    PROVE  UNCHANGED <<rows, apiRequest, apiAnswer>>
  <1>1. /\ session[c].pc = "calling" /\ session'[c].pc = "calling"
        /\ session'[c].kind = session[c].kind /\ session'[c].id = session[c].id
        /\ \A d \in Calls \ {c} : session'[d] = session[d]
    BY DEF ReadStream, In, SystemIInv, SystemTypeOK, SessionRecord
  <1> QED
    BY <1>1 DEF apiRequest, apiAnswer, In

\* A request that goes to the user manager has come in (GetAllUsers, GetUser,
\* PostUser).
LEMMA RequestRefines ==
    ASSUME SystemIInv, UNCHANGED rows, NEW c \in Calls,
           GetAllUsers(c) \/ GetUser(c) \/ PostUser(c)
    PROVE  Api!Come(c) \/ UNCHANGED <<rows, apiRequest, apiAnswer>>
  <1>1. CASE GetAllUsers(c)
    <2>1. SessionBecomes(c, "calling", "list", 0, {}, "none") /\ In(c, "new")
      BY <1>1, ServeBecomes DEF GetAllUsers
    <2>2. [kind |-> "list", id |-> 0] \in Api!Requests
      BY DEF Api!Requests
    <2> QED
      BY <2>1, <2>2, ComeRefines
  <1>2. CASE GetUser(c)
    <2>1. PICK id \in LookupIds : Serve(c, "get", id, "ReadUser", Strtoull(id))
      BY <1>2 DEF GetUser
    <2>2. id \in Nat
      BY LookupIdsAssumption
    <2>3. SessionBecomes(c, "calling", "get", id, {}, "none") /\ In(c, "new")
      BY <1>2, <2>1, <2>2, ServeBecomes DEF GetUser
    <2>4. [kind |-> "get", id |-> id] \in Api!Requests
      BY DEF Api!Requests
    <2> QED
      BY <2>3, <2>4, ComeRefines
  <1>3. CASE PostUser(c)
    <2>1. SessionBecomes(c, "calling", "post", 0, {}, "none") /\ (In(c, "new") \/ In(c, "fetching"))
      BY <1>3, ServeBecomes DEF PostUser, BodyAt
    <2>2. [kind |-> "post", id |-> 0] \in Api!Requests
      BY DEF Api!Requests
    <2> QED
      BY <2>1, <2>2, ComeRefines
  <1> QED
    BY <1>1, <1>2, <1>3

\* A request that never gets to the user manager waits for its body, or is
\* refused for it (AwaitBody, RejectBody, FetchTimesOut).
LEMMA BodyRefines ==
    ASSUME SystemIInv, UNCHANGED rows, NEW c \in Calls,
           AwaitBody(c) \/ RejectBody(c) \/ FetchTimesOut(c)
    PROVE  \/ Api!Come(c)
           \/ Api!RefuseBody(c)
           \/ UNCHANGED <<rows, apiRequest, apiAnswer>>
  <1>1. /\ In(c, "new") \/ In(c, "fetching")
        /\ \/ SessionBecomes(c, "fetching", "post", 0, {}, "none")
           \/ SessionBecomes(c, "closed", "post", 0, {}, "bad body")
           \/ SessionBecomes(c, "closed", "post", 0, {}, "timeout")
    BY NoCallBecomes
  <1>2. CASE SessionBecomes(c, "fetching", "post", 0, {}, "none")
    <2>1. [kind |-> "post", id |-> 0] \in Api!Requests
      BY DEF Api!Requests
    <2> QED
      BY <1>1, <1>2, <2>1, ComeRefines
  <1>3. CASE SessionBecomes(c, "closed", "post", 0, {}, "bad body")
    BY <1>1, <1>3, RefuseBodyRefines
  <1>4. CASE SessionBecomes(c, "closed", "post", 0, {}, "timeout")
    BY <1>1, <1>4, RefuseBodyRefines
  <1> QED
    BY <1>1, <1>2, <1>3, <1>4

\* Every step of the gateway is one of UserApi, or shows a client nothing.
LEMMA GatewayRefines ==
    ASSUME SystemIInv, Unwrapped, UNCHANGED rows, GatewayNext
    PROVE  \/ Api!Reset
           \/ \E c \in Calls : Api!Serve(c)
           \/ UNCHANGED <<rows, apiRequest, apiAnswer>>
  <1>1. ASSUME NEW c \in Calls, Arrive(c) \/ Proceed(c)
        PROVE  Api!Reset \/ Api!Serve(c) \/ UNCHANGED <<rows, apiRequest, apiAnswer>>
    <2>1. CASE GetAllUsers(c) \/ GetUser(c) \/ PostUser(c)
      BY <2>1, RequestRefines DEF Api!Serve
    <2>2. CASE AwaitBody(c) \/ RejectBody(c) \/ FetchTimesOut(c)
      BY <2>2, BodyRefines DEF Api!Serve
    <2>3. CASE DanglingCallback(c)
      BY <2>3, CrashRefines DEF DanglingCallback
    <2>4. CASE ReadStream(c)
      BY <2>4, ReadStreamRefines
    <2>5. CASE FinishGetUsers(c) \/ FinishGetUser(c) \/ FinishPostUser(c)
      BY <2>5, FinishRefines DEF Api!Serve
    <2> QED
      BY <1>1, <2>1, <2>2, <2>3, <2>4, <2>5 DEF Arrive, Proceed
  <1>2. CASE KillGateway
    BY <1>2, CrashRefines DEF KillGateway
  <1>3. CASE RestartGateway
    BY <1>3 DEF RestartGateway, apiRequest, apiAnswer, In
  <1> QED
    BY <1>1, <1>2, <1>3 DEF GatewayNext

\* While every id fits, a step of the system is a step of the REST interface on
\* one table, or none.
LEMMA StepServes ==
    ASSUME SystemIInv, [SystemNext]_systemVars, Unwrapped
    PROVE  \/ Api!Reset
           \/ \E c \in Calls : Api!Serve(c)
           \/ UNCHANGED <<rows, apiRequest, apiAnswer>>
  <1>1. CASE ManagerNext /\ GatewayIdle
    BY <1>1, ManagerRefines DEF Api!Serve
  <1>2. CASE GatewayNext /\ ManagerIdle
    BY <1>2, GatewayRefines DEF ManagerIdle, daoVars
  <1>3. CASE UNCHANGED systemVars
    BY <1>3 DEF systemVars, managerVars, daoVars, gatewayVars, apiRequest, apiAnswer, In
  <1> QED
    BY <1>1, <1>2, <1>3 DEF SystemNext, AllAnswered

\* Every step of the system, whoever takes it, is a step of UserApi or none.
LEMMA SystemRefines ==
    ASSUME SystemIInv, [SystemNext]_systemVars
    PROVE  [Api!Next]_(Api!apiVars)
  <1> SUFFICES ASSUME Unwrapped'
               PROVE  [Api!Next]_(Api!apiVars)
    BY DEF Api!Next, voidBar
  <1>1. rows \subseteq rows'
    <2>1. CASE ManagerNext
      BY <2>1, ManagerHasEffect DEF SystemIInv, ManagerEffect
    <2>2. CASE UNCHANGED rows
      BY <2>2
    <2> QED
      BY <2>1, <2>2 DEF SystemNext, ManagerIdle, AllAnswered, systemVars, managerVars, daoVars
  <1>2. Unwrapped
    BY <1>1 DEF Unwrapped
  <1>3. UNCHANGED voidBar
    BY <1>2 DEF voidBar
  <1>4. \/ Api!Reset
        \/ \E c \in Calls : Api!Serve(c)
        \/ UNCHANGED <<rows, apiRequest, apiAnswer>>
    BY <1>2, StepServes
  <1> QED
    BY <1>3, <1>4 DEF Api!Next, Api!apiVars

\* At first nothing is stored, asked or answered.
LEMMA SystemInitRefines == SystemInit => Api!Init
  BY DEF SystemInit, ManagerInit, DaoInit, GatewayInit, Api!Init, New, In, Unwrapped, voidBar,
     apiRequest, apiAnswer, Api!NoRequest, Api!Waiting, Api!Answer

\* The whole system is a UserApi: whatever crashes, and however the steps of
\* requests, replicas and transactions fall, clients see one table in one place,
\* until an id is stored that the narrow integer cannot hold.
THEOREM SystemRefinement == SystemSpec => ImplementsApi
  <1>1. SystemInit => SystemIInv /\ Api!Init
    BY SystemIInvInit, SystemInitRefines
  <1>2. SystemIInv /\ [SystemNext]_systemVars => SystemIInv' /\ [Api!Next]_(Api!apiVars)
    BY SystemStepFits, SystemRefines
  <1> QED
    BY <1>1, <1>2, PTL DEF SystemSpec, ImplementsApi, Api!Spec

\* The REST interface without its terms: no id outgrows anything.
Plain == INSTANCE UserApi
    WITH users <- rows, request <- apiRequest, answer <- apiAnswer, void <- FALSE

\* A step under the terms, seen without them.
LEMMA PlainStep ==
    ASSUME \/ Api!Reset
           \/ \E c \in Calls : Api!Serve(c)
           \/ UNCHANGED <<rows, apiRequest, apiAnswer>>
    PROVE  [Plain!Next]_(Plain!apiVars)
  <1>1. Api!Reset => Plain!Reset
    BY DEF Api!Reset, Plain!Reset, Api!NoRequest, Plain!NoRequest, Api!Waiting, Plain!Waiting,
       Api!Answer, Plain!Answer
  <1>2. ASSUME NEW c \in Calls, Api!Serve(c)
        PROVE  Plain!Serve(c)
    <2>1. Api!Come(c) => Plain!Come(c)
      BY DEF Api!Come, Plain!Come, Api!Requests, Plain!Requests, Api!NoRequest, Plain!NoRequest
    <2>2. Api!Store(c) => Plain!Store(c)
      BY Zenon DEF Api!Store, Plain!Store, Api!OwnedBy, Plain!OwnedBy, Api!IdsOf, Plain!IdsOf
    <2>3. Api!ShowOne(c) => Plain!ShowOne(c)
      BY DEF Api!ShowOne, Plain!ShowOne, Api!Asks, Plain!Asks, Api!Tell, Plain!Tell,
         Api!Waiting, Plain!Waiting, Api!Answer, Plain!Answer
    <2>4. Api!ShowList(c) => Plain!ShowList(c)
      BY DEF Api!ShowList, Plain!ShowList, Api!Asks, Plain!Asks, Api!Tell, Plain!Tell,
         Api!Waiting, Plain!Waiting, Api!Answer, Plain!Answer
    <2>5. Api!Refuse(c) => Plain!Refuse(c)
      BY Zenon DEF Api!Refuse, Plain!Refuse, Api!Asks, Plain!Asks, Api!Tell, Plain!Tell,
         Api!Waiting, Plain!Waiting, Api!Answer, Plain!Answer
    <2>6. Api!RefuseBody(c) => Plain!RefuseBody(c)
      BY Zenon DEF Api!RefuseBody, Plain!RefuseBody, Api!Asks, Plain!Asks, Api!Tell, Plain!Tell,
         Api!Waiting, Plain!Waiting, Api!Answer, Plain!Answer, Api!OwnedBy, Plain!OwnedBy
    <2> QED
      BY <1>2, <2>1, <2>2, <2>3, <2>4, <2>5, <2>6 DEF Api!Serve, Plain!Serve
  <1> QED
    BY <1>1, <1>2 DEF Plain!Next, Plain!apiVars

\* As long as there are fewer calls than a uint16_t has values, the system keeps
\* the promise of the REST interface without terms: every client of every one of
\* its executions, with all that dies and breaks in it, is served from one table.
THEOREM FewCallsNeedNoTerms ==
    ASSUME Cardinality(Calls) < IdModulus
    PROVE  SystemSpec => Plain!Spec
  <1>1. SystemInit => SystemIInv /\ Plain!Init
    BY SystemIInvInit, SystemInitRefines DEF Api!Init, Plain!Init, Api!NoRequest,
       Plain!NoRequest, Api!Waiting, Plain!Waiting, Api!Answer, Plain!Answer
  <1>2. SystemIInv /\ [SystemNext]_systemVars => SystemIInv' /\ [Plain!Next]_(Plain!apiVars)
    BY SystemStepFits, FewCallsFit, StepServes, PlainStep
  <1> QED
    BY <1>1, <1>2, PTL DEF SystemSpec, Plain!Spec

-----------------------------------------------------------------------------
(***************************************************************************)
(* The counters of the two services.                                       *)
(***************************************************************************)

\* The calls that are past the server's door: taken by a thread, or broken.
Taken == {c \in Calls : rpc[c].phase \in {"open", "ended"}}

\* Each count of a replica stands for a call that it has taken, and each count of
\* the gateway for a request that a handler has taken up, as long as none is lost.
CountIInv ==
    /\ SystemIInv
    /\ IsFiniteSet(ServerCounts)
    /\ Cardinality(ServerCounts) <= Cardinality(Taken)
    /\ gatewayKills = 0 /\ (\A c \in Calls : session[c].outcome # "reset") =>
          gatewayCount = Cardinality(Handled)

\* Replicas that count no further, or forget what they have counted.
LEMMA CountsFade ==
    ASSUME SystemIInv, \A s \in Servers : counter'[s] \in {counter[s], 0}
    PROVE  ServerCounts' \subseteq ServerCounts
  <1>1. ASSUME NEW s \in Servers, NEW n \in 1 .. counter'[s]
        PROVE  n \in 1 .. counter[s]
    <2>1. counter[s] \in Nat
      BY DEF SystemIInv, ManagerIInv, ManagerTypeOK
    <2>2. CASE counter'[s] = counter[s]
      BY <2>2
    <2>3. CASE counter'[s] = 0
      BY <2>3
    <2> QED
      BY <2>2, <2>3
  <1> QED
    BY <1>1 DEF ServerCounts

\* A replica that counts one request more.
LEMMA CountsGrow ==
    ASSUME SystemIInv, NEW s \in Servers, counter' = [counter EXCEPT ![s] = @ + 1]
    PROVE  ServerCounts' \subseteq ServerCounts \cup {<<s, counter[s] + 1>>}
  <1>1. ASSUME NEW r \in Servers, NEW n \in 1 .. counter'[r]
        PROVE  n \in 1 .. counter[r] \/ (r = s /\ n = counter[s] + 1)
    <2>1. counter[r] \in Nat /\ counter \in [Servers -> Nat]
      BY DEF SystemIInv, ManagerIInv, ManagerTypeOK
    <2>2. CASE r = s
      <3>1. counter'[r] = counter[s] + 1
        BY <2>1, <2>2
      <3> QED
        BY <2>1, <2>2, <3>1
    <2>3. CASE r # s
      <3>1. counter'[r] = counter[r]
        BY <2>1, <2>3
      <3> QED
        BY <3>1
    <2> QED
      BY <2>2, <2>3
  <1> QED
    BY <1>1 DEF ServerCounts

\* A step of the manager counts a call that it takes, or counts nothing.
LEMMA ManagerCounts ==
    ASSUME SystemIInv, ManagerNext
    PROVE  \/ \A s \in Servers : counter'[s] \in {counter[s], 0}
           \/ \E s \in Servers, c \in Calls :
                 /\ counter' = [counter EXCEPT ![s] = @ + 1]
                 /\ rpc[c].phase = "sent" /\ rpc'[c].phase = "open"
  <1>1. ASSUME NEW c \in Calls, NEW s \in Servers,
               ReadUsers(c, s) \/ ReadUser(c, s) \/ CreateUser(c, s)
        PROVE  /\ counter' = [counter EXCEPT ![s] = @ + 1]
               /\ rpc[c].phase = "sent" /\ rpc'[c].phase = "open"
    <2>1. PICK m \in Methods : Enter(c, s, m)
      BY <1>1 DEF ReadUsers, ReadUser, CreateUser, Methods
    <2>2. RpcBecomes(c, "open", rpc[c].method, rpc[c].id, rpc[c].replies, rpc[c].ok)
      BY <2>1, RpcTakeBecomes DEF Enter, SystemIInv, ManagerIInv, ManagerTypeOK
    <2> QED
      BY <2>1, <2>2 DEF Enter, RpcTake, RpcIs, RpcBecomes
  <1>2. ASSUME NEW s, Crash(s)
        PROVE  \A r \in Servers : counter'[r] \in {counter[r], 0}
    BY <1>2 DEF Crash, SystemIInv, ManagerIInv, ManagerTypeOK
  <1>3. ASSUME NEW c \in Calls, Handler(c)
        PROVE  \/ counter' = counter
               \/ \E s : Crash(s)
               \/ \E s \in Servers : ReadUsers(c, s) \/ ReadUser(c, s) \/ CreateUser(c, s)
    BY <1>3 DEF Handler, HandlerDaoStep, WriteUser, ReturnUsers, ReturnUser, HandlerThrows, Leave,
       NullDereference, OrphanEnds, Unavailable, serverVars
  <1>4. ASSUME Environment
        PROVE  counter' = counter \/ \E s : Crash(s)
    BY <1>4 DEF Environment, Kill, Restart, Disconnect, serverVars
  <1> QED
    BY <1>1, <1>2, <1>3, <1>4 DEF ManagerNext

\* One more element makes a finite set one larger at most, and a new one does.
LEMMA OneMore ==
    ASSUME NEW counted, IsFiniteSet(counted), NEW one
    PROVE  /\ IsFiniteSet(counted \cup {one})
           /\ Cardinality(counted \cup {one}) <= Cardinality(counted) + 1
           /\ one \notin counted => Cardinality(counted \cup {one}) = Cardinality(counted) + 1
  <1>1. Cardinality(counted) \in Nat
    BY FS_CardinalityType
  <1>2. /\ IsFiniteSet(counted \cup {one})
        /\ Cardinality(counted \cup {one})
             = IF one \in counted THEN Cardinality(counted) ELSE Cardinality(counted) + 1
    BY FS_AddElement
  <1>3. CASE one \in counted
    BY <1>1, <1>2, <1>3
  <1>4. CASE one \notin counted
    BY <1>1, <1>2, <1>4
  <1> QED
    BY <1>3, <1>4

\* Finite sets of calls.
LEMMA CallsCounted ==
    ASSUME NEW s \in SUBSET Calls, NEW t \in SUBSET Calls, s \subseteq t
    PROVE  /\ IsFiniteSet(s) /\ IsFiniteSet(t)
           /\ Cardinality(s) \in Nat /\ Cardinality(t) \in Nat
           /\ Cardinality(s) <= Cardinality(t)
           /\ s # t => Cardinality(s) + 1 <= Cardinality(t)
  <1>1. IsFiniteSet(s) /\ IsFiniteSet(t)
    BY FS_Subset, IdsStayBelowUint64Max
  <1>2. Cardinality(s) \in Nat /\ Cardinality(t) \in Nat
    BY <1>1, FS_CardinalityType
  <1>3. Cardinality(s) <= Cardinality(t) /\ (Cardinality(s) = Cardinality(t) => s = t)
    BY <1>1, FS_Subset
  <1> QED
    BY <1>1, <1>2, <1>3

\* The manager's steps.
LEMMA ManagerCountsFit ==
    ASSUME CountIInv, ManagerNext, GatewayIdle
    PROVE  CountIInv'
  <1>1. SystemIInv /\ SystemIInv' /\ ManagerEffect
    BY ManagerStepFits, ManagerHasEffect DEF CountIInv, SystemIInv
  <1>2. ASSUME NEW c \in Calls
        PROVE  rpc[c].phase \in {"open", "ended"} => rpc'[c].phase \in {"open", "ended"}
    BY <1>1 DEF ManagerEffect, ClientSees
  <1>3. Taken \subseteq Taken'
    BY <1>2 DEF Taken
  <1>4. /\ Cardinality(Taken) \in Nat /\ Cardinality(Taken') \in Nat
        /\ Cardinality(Taken) <= Cardinality(Taken')
        /\ Taken # Taken' => Cardinality(Taken) + 1 <= Cardinality(Taken')
    <2>1. Taken \in SUBSET Calls /\ Taken' \in SUBSET Calls
      BY DEF Taken
    <2> QED
      BY <1>3, <2>1, CallsCounted
  <1>5. IsFiniteSet(ServerCounts) /\ Cardinality(ServerCounts) \in Nat
    BY FS_CardinalityType DEF CountIInv
  <1>6. IsFiniteSet(ServerCounts') /\ Cardinality(ServerCounts') <= Cardinality(Taken')
    <2>1. CASE \A s \in Servers : counter'[s] \in {counter[s], 0}
      <3>1. ServerCounts' \subseteq ServerCounts
        BY <1>1, <2>1, CountsFade
      <3>2. /\ IsFiniteSet(ServerCounts') /\ Cardinality(ServerCounts') \in Nat
            /\ Cardinality(ServerCounts') <= Cardinality(ServerCounts)
        BY <1>5, <3>1, FS_Subset, FS_CardinalityType
      <3> QED
        BY <1>4, <1>5, <3>2 DEF CountIInv
    <2>2. ASSUME NEW s \in Servers, NEW c \in Calls,
                 counter' = [counter EXCEPT ![s] = @ + 1],
                 rpc[c].phase = "sent", rpc'[c].phase = "open"
          PROVE  IsFiniteSet(ServerCounts') /\ Cardinality(ServerCounts') <= Cardinality(Taken')
      <3> DEFINE more == ServerCounts \cup {<<s, counter[s] + 1>>}
      <3>1. ServerCounts' \subseteq more
        BY <1>1, <2>2, CountsGrow
      <3>2. IsFiniteSet(more) /\ Cardinality(more) <= Cardinality(ServerCounts) + 1
        BY <1>5, OneMore
      <3>3. Cardinality(more) \in Nat
        BY <3>2, FS_CardinalityType
      <3> HIDE DEF more
      <3>4. /\ IsFiniteSet(ServerCounts') /\ Cardinality(ServerCounts') \in Nat
            /\ Cardinality(ServerCounts') <= Cardinality(more)
        BY <3>1, <3>2, FS_Subset, FS_CardinalityType
      <3>5. Taken # Taken'
        BY <2>2 DEF Taken
      <3> QED
        BY <1>4, <1>5, <3>2, <3>3, <3>4, <3>5 DEF CountIInv
    <2> QED
      BY <1>1, <2>1, <2>2, ManagerCounts
  <1>7. gatewayKills' = 0 /\ (\A c \in Calls : session'[c].outcome # "reset") =>
            gatewayCount' = Cardinality(Handled')
    <2>1. session' = session /\ gatewayKills' = gatewayKills /\ gatewayCount' = gatewayCount
      BY DEF GatewayIdle, gatewayVars
    <2>2. Handled' = Handled
      BY <2>1 DEF Handled, In
    <2> QED
      BY <2>1, <2>2 DEF CountIInv
  <1> QED
    BY <1>1, <1>6, <1>7 DEF CountIInv

\* What a step that replaces one session does to the requests taken up.
LEMMA HandledBecomes ==
    ASSUME NEW c \in Calls, NEW pc, NEW kind, NEW id, NEW users, NEW outcome,
           SessionBecomes(c, pc, kind, id, users, outcome)
    PROVE  Handled' = IF TakenUp(session'[c]) THEN Handled \cup {c} ELSE Handled \ {c}
  <1>1. \A d \in Calls \ {c} : session'[d] = session[d]
    BY DEF SessionBecomes
  <1> QED
    BY <1>1 DEF Handled

\* The gateway's counter goes up with every request that a handler takes up, and
\* only a death of the gateway sets it back.
LEMMA GatewayCounts ==
    ASSUME SystemIInv, GatewayNext
    PROVE  \/ /\ gatewayCount' = gatewayCount + 1
              /\ \E c \in Calls \ Handled : Handled' = Handled \cup {c}
           \/ gatewayCount' = gatewayCount /\ Handled' = Handled
           \/ gatewayKills' # 0
           \/ \E c \in Calls : session'[c].outcome = "reset"
  <1>1. ASSUME NEW c \in Calls, BodyAt(c), NEW kind \in {"list", "get", "post"}, NEW id \in Nat,
               NEW method, NEW rpcId, Serve(c, kind, id, method, rpcId)
        PROVE  /\ gatewayCount' = gatewayCount + 1
               /\ \E d \in Calls \ Handled : Handled' = Handled \cup {d}
    <2>1. SessionBecomes(c, "calling", kind, id, {}, "none")
      BY <1>1, ServeBecomes
    <2>2. TakenUp(session'[c])
      BY <2>1 DEF SessionBecomes, TakenUp
    <2>3. ~TakenUp(session[c])
      BY <1>1 DEF BodyAt, In, TakenUp
    <2>4. Handled' = Handled \cup {c} /\ c \notin Handled
      BY <2>1, <2>2, <2>3, HandledBecomes DEF Handled
    <2>5. gatewayCount' = gatewayCount + 1
      BY <1>1 DEF Serve
    <2> QED
      BY <2>4, <2>5
  <1>2. ASSUME NEW c \in Calls, GetAllUsers(c) \/ GetUser(c) \/ PostUser(c)
        PROVE  /\ gatewayCount' = gatewayCount + 1
               /\ \E d \in Calls \ Handled : Handled' = Handled \cup {d}
    <2>1. \A id \in LookupIds : id \in Nat
      BY LookupIdsAssumption
    <2> QED
      BY <1>1, <1>2, <2>1 DEF GetAllUsers, GetUser, PostUser, BodyAt
  <1>3. ASSUME NEW c \in Calls, AwaitBody(c) \/ RejectBody(c) \/ FetchTimesOut(c)
        PROVE  gatewayCount' = gatewayCount /\ Handled' = Handled
    <2>1. \/ SessionBecomes(c, "fetching", "post", 0, {}, "none")
          \/ SessionBecomes(c, "closed", "post", 0, {}, "bad body")
          \/ SessionBecomes(c, "closed", "post", 0, {}, "timeout")
      BY <1>3, NoCallBecomes
    <2>2. ~TakenUp(session'[c])
      BY <2>1 DEF SessionBecomes, TakenUp
    <2>3. ~TakenUp(session[c])
      BY <1>3, NoCallBecomes DEF In, TakenUp
    <2>4. Handled' = Handled \ {c}
      BY <2>1, <2>2, HandledBecomes
    <2>5. gatewayCount' = gatewayCount
      BY <1>3 DEF AwaitBody, RejectBody, FetchTimesOut
    <2> QED
      BY <2>3, <2>4, <2>5 DEF Handled
  <1>4. ASSUME NEW c \in Calls, ReadStream(c)
        PROVE  gatewayCount' = gatewayCount /\ Handled' = Handled
    <2>1. /\ session'[c].pc = session[c].pc /\ session'[c].outcome = session[c].outcome
          /\ \A d \in Calls \ {c} : session'[d] = session[d]
      BY <1>4 DEF ReadStream, SystemIInv, SystemTypeOK, SessionRecord
    <2>2. \A d \in Calls : TakenUp(session'[d]) <=> TakenUp(session[d])
      BY <2>1 DEF TakenUp
    <2>3. gatewayCount' = gatewayCount
      BY <1>4 DEF ReadStream
    <2> QED
      BY <2>2, <2>3 DEF Handled
  <1>5. ASSUME NEW c \in Calls, NEW kind, NEW users \in SUBSET User,
               NEW outcome \in {"ok", "User not found!", "User is invalid!"},
               Finish(c, kind, outcome, users)
        PROVE  gatewayCount' = gatewayCount /\ Handled' = Handled
    <2>1. SessionBecomes(c, "closed", session[c].kind, session[c].id, users, outcome)
      BY <1>5, FinishBecomes
    <2>2. TakenUp(session'[c])
      BY <1>5, <2>1 DEF SessionBecomes, TakenUp
    <2>3. TakenUp(session[c])
      BY <1>5 DEF Finish, In, TakenUp, SystemIInv, SessionFits, OutcomeFits
    <2>4. Handled' = Handled \cup {c}
      BY <2>1, <2>2, HandledBecomes
    <2>5. gatewayCount' = gatewayCount
      BY <1>5 DEF Finish
    <2> QED
      BY <2>3, <2>4, <2>5 DEF Handled
  <1>6. ASSUME NEW c \in Calls, FinishGetUsers(c) \/ FinishGetUser(c) \/ FinishPostUser(c)
        PROVE  gatewayCount' = gatewayCount /\ Handled' = Handled
    <2>1. session[c].users \in SUBSET User /\ rpc[c].replies \in SUBSET User
      BY DEF SystemIInv, SystemTypeOK, ManagerIInv, ManagerTypeOK, SessionRecord, RpcRecord
    <2> QED
      BY <1>5, <1>6, <2>1 DEF FinishGetUsers, FinishGetUser, FinishPostUser
  <1>7. ASSUME NEW c \in Calls, DanglingCallback(c)
        PROVE  session'[c].outcome = "reset"
    BY <1>7 DEF DanglingCallback, GatewayCrash, In, SystemIInv, SystemTypeOK, SessionRecord
  <1>8. ASSUME KillGateway
        PROVE  gatewayKills' # 0
    <2>1. gatewayKills \in Nat
      BY MaxGatewayKillsAssumption DEF SystemIInv, SystemTypeOK
    <2> QED
      BY <1>8, <2>1 DEF KillGateway
  <1>9. ASSUME RestartGateway
        PROVE  gatewayCount' = gatewayCount /\ Handled' = Handled
    BY <1>9 DEF RestartGateway, Handled
  <1> QED
    BY <1>2, <1>3, <1>4, <1>6, <1>7, <1>8, <1>9 DEF GatewayNext, Arrive, Proceed

\* A closed session stays as it is, whatever the gateway goes on to do.
LEMMA ClosedStays ==
    ASSUME SystemIInv, GatewayNext, NEW c \in Calls, In(c, "closed")
    PROVE  session'[c] = session[c]
  <1>1. ASSUME NEW d \in Calls, NEW r, ~In(d, "closed"), session' = [session EXCEPT ![d] = r]
        PROVE  session'[c] = session[c]
    BY <1>1 DEF SystemIInv, SystemTypeOK
  <1>2. ASSUME NEW d \in Calls, In(d, "new") \/ In(d, "fetching"),
               NEW kind, NEW id, NEW method, NEW rpcId, Serve(d, kind, id, method, rpcId)
        PROVE  session'[c] = session[c]
    BY <1>1, <1>2 DEF Serve, In
  <1>3. ASSUME NEW d \in Calls, GetAllUsers(d) \/ GetUser(d) \/ PostUser(d)
        PROVE  session'[c] = session[c]
    BY <1>2, <1>3 DEF GetAllUsers, GetUser, PostUser, BodyAt
  <1>4. ASSUME NEW d \in Calls, AwaitBody(d) \/ RejectBody(d) \/ FetchTimesOut(d) \/ ReadStream(d)
        PROVE  session'[c] = session[c]
    <2>1. ~In(d, "closed") /\ \E r : session' = [session EXCEPT ![d] = r]
      BY <1>4 DEF AwaitBody, RejectBody, BodyAt, FetchTimesOut, Close, ReadStream, In
    <2> QED
      BY <1>1, <2>1
  <1>5. ASSUME NEW d \in Calls, FinishGetUsers(d) \/ FinishGetUser(d) \/ FinishPostUser(d)
        PROVE  session'[c] = session[c]
    <2>1. ~In(d, "closed") /\ \E r : session' = [session EXCEPT ![d] = r]
      BY <1>5 DEF FinishGetUsers, FinishGetUser, FinishPostUser, Finish, Close, In
    <2> QED
      BY <1>1, <2>1
  <1>6. ASSUME GatewayCrash
        PROVE  session'[c] = session[c]
    BY <1>6 DEF GatewayCrash
  <1> QED
    BY <1>3, <1>4, <1>5, <1>6
       DEF GatewayNext, Arrive, Proceed, DanglingCallback, KillGateway, RestartGateway

\* What is reset stays reset, and kills are not undone.
LEMMA LossesStay ==
    ASSUME SystemIInv, GatewayNext, gatewayKills' = 0,
           \A c \in Calls : session'[c].outcome # "reset"
    PROVE  gatewayKills = 0 /\ (\A c \in Calls : session[c].outcome # "reset")
  <1>1. ASSUME NEW c \in Calls
        PROVE  session[c].outcome # "reset"
    <2>1. session[c].outcome = "reset" => In(c, "closed")
      BY DEF SystemIInv, SessionFits, OutcomeFits
    <2> QED
      BY <2>1, ClosedStays
  <1>2. gatewayKills' = gatewayKills \/ gatewayKills' = gatewayKills + 1
    BY DEF GatewayNext, Arrive, Proceed, GetAllUsers, GetUser, PostUser, Serve, AwaitBody,
       RejectBody, FetchTimesOut, DanglingCallback, ReadStream, FinishGetUsers, FinishGetUser,
       FinishPostUser, Finish, KillGateway, RestartGateway
  <1>3. gatewayKills \in Nat
    BY MaxGatewayKillsAssumption DEF SystemIInv, SystemTypeOK
  <1> QED
    BY <1>1, <1>2, <1>3

\* The gateway does not turn a call back that it has sent.
LEMMA SentStays ==
    ASSUME SystemIInv, GatewayNext, NEW c \in Calls, rpc[c].phase # "unused"
    PROVE  rpc'[c].phase = rpc[c].phase
  <1>1. ASSUME NEW d \in Calls, NEW kind, NEW id, NEW method, NEW rpcId,
               Serve(d, kind, id, method, rpcId)
        PROVE  rpc'[c] = rpc[c]
    BY <1>1 DEF Serve, RpcStart, RpcIs, SystemIInv, ManagerIInv, ManagerTypeOK
  <1>2. ASSUME NEW d \in Calls, GetAllUsers(d) \/ GetUser(d) \/ PostUser(d)
        PROVE  rpc'[c] = rpc[c]
    BY <1>1, <1>2 DEF GetAllUsers, GetUser, PostUser
  <1>3. ASSUME NEW d \in Calls, ReadStream(d)
        PROVE  rpc'[c].phase = rpc[c].phase
    <2>1. PICK u : RpcRead(d, u)
      BY <1>3 DEF ReadStream
    <2> QED
      BY <2>1, RpcReadBecomes DEF RpcBecomes, SystemIInv, ManagerIInv, ManagerTypeOK
  <1> QED
    BY <1>2, <1>3 DEF GatewayNext, Arrive, Proceed, AwaitBody, RejectBody, FetchTimesOut,
       DanglingCallback, GatewayCrash, FinishGetUsers, FinishGetUser, FinishPostUser, Finish,
       KillGateway, RestartGateway

\* The gateway's steps.
LEMMA GatewayCountsFit ==
    ASSUME CountIInv, GatewayNext, ManagerIdle, Remember
    PROVE  CountIInv'
  <1>1. SystemIInv /\ SystemIInv'
    BY GatewayStepFits DEF CountIInv
  <1>2. ServerCounts' = ServerCounts
    BY DEF ManagerIdle, serverVars, ServerCounts
  <1>3. Cardinality(ServerCounts) \in Nat
    BY FS_CardinalityType DEF CountIInv
  <1>4. Cardinality(ServerCounts') <= Cardinality(Taken')
    <2>1. ASSUME NEW c \in Taken
          PROVE  rpc'[c].phase = rpc[c].phase
      <3>1. c \in Calls /\ rpc[c].phase # "unused"
        BY <2>1 DEF Taken
      <3> QED
        BY <1>1, <3>1, SentStays
    <2>2. Taken \subseteq Taken' /\ Taken' \in SUBSET Calls /\ Taken \in SUBSET Calls
      BY <2>1 DEF Taken
    <2>3. /\ Cardinality(Taken) \in Nat /\ Cardinality(Taken') \in Nat
          /\ Cardinality(Taken) <= Cardinality(Taken')
      BY <2>2, CallsCounted
    <2> QED
      BY <1>2, <1>3, <2>3 DEF CountIInv
  <1>5. ASSUME gatewayKills' = 0, \A c \in Calls : session'[c].outcome # "reset"
        PROVE  gatewayCount' = Cardinality(Handled')
    <2>1. gatewayCount = Cardinality(Handled)
      BY <1>1, <1>5, LossesStay DEF CountIInv
    <2>2. CASE gatewayCount' = gatewayCount /\ Handled' = Handled
      BY <2>1, <2>2
    <2>3. ASSUME NEW c \in Calls \ Handled, gatewayCount' = gatewayCount + 1,
                 Handled' = Handled \cup {c}
          PROVE  gatewayCount' = Cardinality(Handled')
      <3>1. Handled \in SUBSET Calls
        BY DEF Handled
      <3>2. IsFiniteSet(Handled)
        BY <3>1, CallsCounted
      <3>3. Cardinality(Handled \cup {c}) = Cardinality(Handled) + 1
        BY <2>3, <3>2, OneMore
      <3> QED
        BY <2>1, <2>3, <3>3
    <2> QED
      BY <1>1, <1>5, <2>2, <2>3, GatewayCounts
  <1> QED
    BY <1>1, <1>2, <1>4, <1>5 DEF CountIInv

\* At first nothing is counted.
LEMMA CountIInvInit == SystemInit => CountIInv
  <1> SUFFICES ASSUME SystemInit
               PROVE  CountIInv
    OBVIOUS
  <1>1. rpc = [c \in Calls |-> Unused] /\ counter = [s \in Servers |-> 0] /\ gatewayCount = 0
    BY DEF SystemInit, ManagerInit, RpcInit, GatewayInit
  <1>2. ServerCounts = {} /\ Taken = {}
    BY <1>1 DEF ServerCounts, Taken, Unused
  <1>3. Handled = {}
    BY DEF Handled, TakenUp, SystemInit, GatewayInit, New
  <1> QED
    BY <1>1, <1>2, <1>3, SystemIInvInit, FS_EmptySet DEF CountIInv

\* Every step keeps the counts in step.
LEMMA CountStepFits == CountIInv /\ [SystemNext]_systemVars => CountIInv'
  <1> SUFFICES ASSUME CountIInv, [SystemNext]_systemVars
               PROVE  CountIInv'
    OBVIOUS
  <1>1. ASSUME UNCHANGED systemVars
        PROVE  CountIInv'
    <2>1. SystemIInv'
      BY <1>1, SystemStepFits DEF CountIInv
    <2> QED
      BY <1>1, <2>1 DEF CountIInv, ServerCounts, Taken, Handled, systemVars, managerVars, serverVars,
         gatewayVars
  <1> QED
    BY <1>1, ManagerCountsFit, GatewayCountsFit DEF SystemNext, AllAnswered

\* While the gateway has lost no count, it has counted exactly the requests that
\* a handler has taken up, and the replicas have counted no more.
THEOREM CountsAgree == SystemSpec => []CountersAgree
  <1>1. CountIInv => CountersAgree
    <2> SUFFICES ASSUME CountIInv, gatewayKills = 0, \A c \in Calls : session[c].outcome # "reset"
                 PROVE  /\ gatewayCount = Cardinality(Handled)
                        /\ Cardinality(ServerCounts) <= gatewayCount
      BY DEF CountersAgree
    <2>1. gatewayCount = Cardinality(Handled)
      BY DEF CountIInv
    <2>2. ASSUME NEW c \in Taken
          PROVE  c \in Handled
      <3>1. c \in Calls /\ rpc[c].phase # "unused" /\ SessionFits(c) /\ session[c].outcome # "reset"
        BY <2>2 DEF Taken, CountIInv, SystemIInv
      <3>2. session[c].pc \in {"calling", "closed"}
        BY <3>1 DEF SessionFits, SessionCalls, In, CountIInv, SystemIInv, SystemTypeOK, SessionRecord
      <3> QED
        BY <3>1, <3>2 DEF SessionFits, OutcomeFits, Handled, TakenUp
    <2>3. Taken \in SUBSET Calls /\ Handled \in SUBSET Calls /\ Taken \subseteq Handled
      BY <2>2 DEF Taken, Handled
    <2>4. /\ Cardinality(Taken) \in Nat /\ Cardinality(Handled) \in Nat
          /\ Cardinality(Taken) <= Cardinality(Handled)
      BY <2>3, CallsCounted
    <2>5. Cardinality(ServerCounts) \in Nat /\ Cardinality(ServerCounts) <= Cardinality(Taken)
      BY FS_CardinalityType DEF CountIInv
    <2> QED
      BY <2>1, <2>4, <2>5
  <1> QED
    BY <1>1, CountIInvInit, CountStepFits, PTL DEF SystemSpec
=============================================================================

----------------------- MODULE InMemoryUserDaoProofs -----------------------
(***************************************************************************)
(* What InMemoryUserDao keeps for any number of calls: its types, whatever *)
(* races; and, as long as no two calls meet in the sequence or in the map, *)
(* everything that IUserDao promises, however calls overlap otherwise.     *)
(***************************************************************************)
EXTENDS InMemoryUserDao, TLAPS

Stored == [id : Nat, name : Calls \cup {"user1", "user2", "user3"}]

CallRecord ==
    [op      : {"none", "createUser", "getUserById", "getUsers"},
     pc      : {"idle", "sequence", "increment", "map", "insert", "copy", "returned"},
     id      : Nat,
     seen    : SUBSET Stored,
     outcome : {"none", "user", "users", "throw", "fault"},
     users   : SUBSET Stored]

-----------------------------------------------------------------------------
\* The users of the constructor are users.
LEMMA MemoryBegins == MemoryInit => MemoryTypeOK
  <1> SUFFICES ASSUME MemoryInit PROVE MemoryTypeOK
      OBVIOUS
  <1>1. Seeds \subseteq Stored
      BY DEF Seeds, Stored
  <1> QED
      BY <1>1 DEF MemoryInit, MemoryTypeOK, Stored, NotCalled

\* The types, by the names of this module.
LEMMA Types ==
    MemoryTypeOK <=> /\ users \subseteq Stored
                     /\ idSequence \in Nat
                     /\ call \in [Calls -> CallRecord]
                     /\ raced \in BOOLEAN
  BY DEF MemoryTypeOK, Stored, CallRecord

\* A call that goes on inside changes its record only, and that as Goes says.
LEMMA GoesBecomes ==
    ASSUME MemoryTypeOK, NEW c \in Calls, NEW pc, NEW id, NEW seen, Goes(c, pc, id, seen)
    PROVE  \E r : /\ call' = [call EXCEPT ![c] = r]
                  /\ r.op = call[c].op /\ r.users = call[c].users /\ r.outcome = call[c].outcome
                  /\ r.pc = pc /\ r.id = id /\ r.seen = seen
  <1> DEFINE r == [call[c] EXCEPT !.pc = pc, !.id = id, !.seen = seen]
  <1>1. call[c] \in CallRecord
      BY Types
  <1>2. call' = [call EXCEPT ![c] = r]
      BY DEF Goes
  <1>3. /\ r.op = call[c].op /\ r.users = call[c].users /\ r.outcome = call[c].outcome
        /\ r.pc = pc /\ r.id = id /\ r.seen = seen
      BY <1>1 DEF CallRecord
  <1> HIDE DEF r
  <1> QED
      BY <1>2, <1>3

\* A step of one call touches its own record and the map.
LEMMA MemoryStepKeeps ==
    ASSUME NEW c \in Calls, MemoryTypeOK, MemoryStep(c)
    PROVE  MemoryTypeOK'
  <1>t. /\ users \subseteq Stored
        /\ idSequence \in Nat
        /\ call \in [Calls -> CallRecord]
        /\ raced \in BOOLEAN
      BY Types
  <1>r. /\ call[c] \in CallRecord
        /\ call[c].seen \subseteq Stored
        /\ call[c].id \in Nat
      BY <1>t DEF CallRecord
  <1>n. ASSUME users' \subseteq Stored, idSequence' \in Nat, call' \in [Calls -> CallRecord],
               raced' \in BOOLEAN
        PROVE  MemoryTypeOK'
      BY <1>n DEF MemoryTypeOK, Stored, CallRecord
  <1>1. ASSUME NEW op \in {"createUser", "getUserById", "getUsers"}, NEW pc \in {"sequence", "map"},
               NEW id \in Nat, Enter(c, op, pc, id)
        PROVE  MemoryTypeOK'
      <2>1. [NotCalled EXCEPT !.op = op, !.pc = pc, !.id = id] \in CallRecord
          BY <1>1 DEF NotCalled, CallRecord
      <2> QED
          BY <1>t, <1>n, <1>1, <2>1 DEF Enter
  <1>2. CASE CallGetUsers(c) \/ CallCreateUser(c) \/ CallGetUserById(c)
      BY <1>1, <1>2, LookupIdsAssumption DEF CallGetUsers, CallCreateUser, CallGetUserById
  <1>3. ASSUME NEW pc \in {"increment", "map", "insert", "copy"}, NEW id \in Nat,
               NEW seen \in SUBSET Stored, Goes(c, pc, id, seen),
               users' \subseteq Stored, idSequence' \in Nat, raced' \in BOOLEAN
        PROVE  MemoryTypeOK'
      <2>1. [call[c] EXCEPT !.pc = pc, !.id = id, !.seen = seen] \in CallRecord
          BY <1>r, <1>3 DEF CallRecord
      <2> QED
          BY <1>t, <1>n, <1>3, <2>1 DEF Goes
  <1>4. CASE ReadSequence(c)
      BY <1>t, <1>3, <1>4 DEF ReadSequence, Meets
  <1>5. CASE WriteSequence(c)
      BY <1>t, <1>r, <1>3, <1>5 DEF WriteSequence
  <1>6. CASE FindPlace(c)
      BY <1>t, <1>r, <1>3, <1>6 DEF FindPlace, Meets
  <1>7. CASE Insert(c)
      <2> DEFINE new   == [id |-> call[c].id, name |-> c]
                 taken == {u \in call[c].seen : u.id = call[c].id}
      <2>1. new \in Stored /\ taken \subseteq Stored
          BY <1>r DEF Stored
      <2>2. UNCHANGED idSequence /\ UNCHANGED raced
          BY <1>7 DEF Insert
      <2>3. CASE /\ \E lost \in SUBSET (users \ call[c].seen) : users' = (users \ lost) \cup {new}
                 /\ Goes(c, "copy", call[c].id, {new})
          <3> HIDE DEF new, taken
          <3>1. {new} \in SUBSET Stored /\ users' \subseteq Stored
              BY <1>t, <2>1, <2>3
          <3> QED
              BY <1>t, <1>r, <1>3, <2>2, <2>3, <3>1
      <2>4. CASE UNCHANGED users /\ \E u \in taken : Goes(c, "copy", call[c].id, {u})
          <3> HIDE DEF new, taken
          <3>1. PICK u \in taken : Goes(c, "copy", call[c].id, {u})
              BY <2>4
          <3>2. {u} \in SUBSET Stored
              BY <2>1
          <3> QED
              BY <1>t, <1>r, <1>3, <2>2, <2>4, <3>1, <3>2
      <2> QED
          BY <1>7, <2>3, <2>4 DEF Insert
  <1>8. ASSUME NEW outcome \in {"user", "users", "throw", "fault"}, NEW s \in SUBSET Stored,
               Return(c, outcome, s), UNCHANGED users, raced' \in BOOLEAN
        PROVE  MemoryTypeOK'
      <2>1. [call[c] EXCEPT !.pc = "returned", !.seen = {}, !.outcome = outcome, !.users = s]
               \in CallRecord
          BY <1>r, <1>8 DEF CallRecord
      <2> QED
          BY <1>t, <1>n, <1>8, <2>1 DEF Return
  <1>9. CASE CopyResult(c)
      BY <1>t, <1>r, <1>8, <1>9 DEF CopyResult
  <1>10. CASE GetUserById(c)
      <2>1. /\ UNCHANGED users /\ raced' \in BOOLEAN
            /\ (\E u \in users : Return(c, "user", {u})) \/ Return(c, "throw", {})
          BY <1>10 DEF GetUserById, Meets
      <2>2. \A u \in users : {u} \in SUBSET Stored
          BY <1>t
      <2>3. {} \in SUBSET Stored
          OBVIOUS
      <2>4. CASE \E u \in users : Return(c, "user", {u})
          BY <1>8, <2>1, <2>2, <2>4
      <2>5. CASE Return(c, "throw", {})
          BY <1>8, <2>1, <2>3, <2>5
      <2> QED
          BY <2>1, <2>4, <2>5
  <1>11. CASE GetUsers(c)
      BY <1>t, <1>8, <1>11 DEF GetUsers, Meets
  <1>12. CASE RaceInMap(c)
      BY <1>t, <1>8, <1>12 DEF RaceInMap
  <1> QED
      BY <1>2, <1>4, <1>5, <1>6, <1>7, <1>9, <1>10, <1>11, <1>12 DEF MemoryStep

\* Nothing changes while nobody steps.
LEMMA MemoryStutters == MemoryTypeOK /\ UNCHANGED memoryVars => MemoryTypeOK'
  BY DEF memoryVars, MemoryTypeOK

\* Every variable keeps its type, with races too.
THEOREM MemoryTypes == MemorySpec => []MemoryTypeOK
  <1>1. MemoryTypeOK /\ [\E c \in Calls : MemoryStep(c)]_memoryVars => MemoryTypeOK'
      BY MemoryStutters, MemoryStepKeeps
  <1> QED
      BY <1>1, MemoryBegins, PTL DEF MemorySpec

-----------------------------------------------------------------------------
(***************************************************************************)
(* Calls that overlap and do not meet.  What one of them has read of the   *)
(* sequence or of the map, between its read and its write, is what they    *)
(* still hold; the id that it carries from the sequence to the map is no   *)
(* other call's and no user's, and the sequence is past it.                *)
(***************************************************************************)

\* Where a call r of caller c is, with the map at `map' and the sequence at next.
Fits(c, r, map, next) ==
    /\ r.op = "none" <=> r.pc = "idle"
    /\ r.pc = "idle" => r = NotCalled
    /\ r.pc # "returned" => r.users = {}
    /\ r.op = "getUserById" => r.id \in LookupIds
    /\ r.pc \in {"sequence", "increment", "insert", "copy"} => r.op = "createUser"
    /\ r.op # "createUser" \/ r.pc \in {"sequence", "increment", "map", "insert"} =>
          OwnedBy(c, map) = {}
    /\ r.pc = "increment" => r.id = next
    /\ r.op = "createUser" /\ r.pc \in {"map", "insert"} => r.id < next /\ r.id \notin IdsOf(map)
    /\ r.pc = "insert" => r.seen = map
    /\ r.pc = "copy" => r.seen = OwnedBy(c, map) /\ r.seen # {}

\* The call carries an id from the sequence to the map.
Carries(r) == r.op = "createUser" /\ r.pc \in {"map", "insert"}

\* Two calls do not meet, and carry different ids.
ApartFrom(r, q) ==
    /\ ~(r.pc = "increment" /\ q.pc = "increment")
    /\ ~(r.pc = "insert" /\ q.pc = "insert")
    /\ Carries(r) /\ Carries(q) => r.id # q.id

Keyed(map) == \A u, v \in map : u.id = v.id => u = v

RaceFree ==
    ~raced =>
        /\ \A c, d \in Calls : c # d => ApartFrom(call[c], call[d])
        /\ \A u \in users : u.id < idSequence
        /\ Keyed(users)
        /\ \A c \in Calls : Fits(c, call[c], users, idSequence)

\* What a record of a call looks like in the directory.
RequestOf(r) == [op |-> r.op, id |-> IF r.op = "getUserById" THEN r.id ELSE 0]

AnswerOf(r) ==
    [state |-> IF r.pc # "returned" THEN "pending"
               ELSE IF r.outcome \in {"user", "users"} THEN "served"
               ELSE "failed",
     users |-> r.users]

\* At first nobody is inside.
LEMMA RaceFreeBegins == MemoryInit => RaceFree
  <1> SUFFICES ASSUME MemoryInit PROVE RaceFree
      OBVIOUS
  <1>1. \A c \in Calls : OwnedBy(c, Seeds) = {}
      BY SeedNamesAssumption DEF OwnedBy
  <1>2. (\A u \in Seeds : u.id < 3) /\ Keyed(Seeds)
      BY DEF Seeds, Keyed
  <1>3. \A c \in Calls : Fits(c, NotCalled, Seeds, 3)
      BY <1>1 DEF Fits, NotCalled
  <1>4. ApartFrom(NotCalled, NotCalled)
      BY DEF ApartFrom, Carries, NotCalled
  <1> QED
      BY <1>2, <1>3, <1>4 DEF MemoryInit, RaceFree

\* Only the bars of the call that steps change.
LEMMA BarsBecome ==
    ASSUME call \in [Calls -> CallRecord], NEW c \in Calls, NEW r, call' = [call EXCEPT ![c] = r]
    PROVE  /\ requestBar' = [requestBar EXCEPT ![c] = RequestOf(r)]
           /\ answerBar' = [answerBar EXCEPT ![c] = AnswerOf(r)]
  <1>1. \A d \in Calls : call'[d] = IF d = c THEN r ELSE call[d]
      OBVIOUS
  <1> QED
      BY <1>1 DEF requestBar, answerBar, RequestOf, AnswerOf

\* A record that looks the same to the directory.
LEMMA BarsKeep ==
    ASSUME call \in [Calls -> CallRecord], NEW c \in Calls, NEW r, call' = [call EXCEPT ![c] = r],
           RequestOf(r) = RequestOf(call[c]), AnswerOf(r) = AnswerOf(call[c])
    PROVE  UNCHANGED <<requestBar, answerBar>>
  <1>1. \A d \in Calls : RequestOf(call'[d]) = RequestOf(call[d]) /\ AnswerOf(call'[d]) = AnswerOf(call[d])
      OBVIOUS
  <1>2. /\ requestBar = [d \in Calls |-> RequestOf(call[d])]
        /\ answerBar = [d \in Calls |-> AnswerOf(call[d])]
      BY DEF requestBar, answerBar, RequestOf, AnswerOf
  <1>3. /\ requestBar' = [d \in Calls |-> RequestOf(call'[d])]
        /\ answerBar' = [d \in Calls |-> AnswerOf(call'[d])]
      BY DEF requestBar, answerBar, RequestOf, AnswerOf
  <1> QED
      BY <1>1, <1>2, <1>3

\* A step that leaves its own call as r keeps what calls that do not meet keep,
\* if r fits and the others go on to fit beside it.
LEMMA RaceFreeGoesOn ==
    ASSUME MemoryTypeOK, RaceFree, ~raced, NEW c \in Calls, NEW r,
           call' = [call EXCEPT ![c] = r],
           \A d \in Calls \ {c} : ApartFrom(r, call[d]),
           \A d \in Calls \ {c} : Fits(d, call[d], users', idSequence'),
           \A u \in users' : u.id < idSequence',
           Keyed(users'),
           Fits(c, r, users', idSequence')
    PROVE  RaceFree'
  <1>1. call \in [Calls -> CallRecord]
      BY Types
  <1>2. \A d \in Calls : call'[d] = IF d = c THEN r ELSE call[d]
      BY <1>1
  <1>3. \A d \in Calls : Fits(d, call'[d], users', idSequence')
      BY <1>2
  <1>4. \A d \in Calls \ {c} : ApartFrom(call[d], r)
      BY DEF ApartFrom
  <1>5. \A d, e \in Calls : d # e => ApartFrom(call[d], call[e])
      BY DEF RaceFree
  <1>6. \A d, e \in Calls : d # e => ApartFrom(call'[d], call'[e])
      BY <1>2, <1>4, <1>5
  <1> QED
      BY <1>3, <1>6 DEF RaceFree

\* A step on the way to no race is one that meets nobody.
LEMMA StillRaceFree ==
    ASSUME MemoryTypeOK, NEW c \in Calls, MemoryStep(c), ~raced'
    PROVE  /\ ~raced /\ raced' = raced
           /\ ReadSequence(c) => ~Meets(c, "increment")
           /\ FindPlace(c) => ~Meets(c, "insert")
           /\ ~RaceInMap(c)
  <1>1. raced \in BOOLEAN /\ raced' \in BOOLEAN
      BY MemoryStepKeeps, Types DEF MemoryTypeOK
  <1>2. ~RaceInMap(c)
      BY DEF RaceInMap
  <1>3. /\ ReadSequence(c) => ~raced /\ ~Meets(c, "increment")
        /\ FindPlace(c) => ~raced /\ ~Meets(c, "insert")
      BY DEF ReadSequence, FindPlace
  <1>4. GetUserById(c) \/ GetUsers(c) => ~raced
      BY DEF GetUserById, GetUsers
  <1>5. CallGetUsers(c) \/ CallGetUserById(c) \/ CallCreateUser(c) \/ WriteSequence(c) \/ Insert(c)
           \/ CopyResult(c) => ~raced
      BY DEF CallGetUsers, CallGetUserById, CallCreateUser, Enter, WriteSequence, Insert, CopyResult
  <1>6. ~raced
      BY <1>2, <1>3, <1>4, <1>5 DEF MemoryStep
  <1>7. raced' = FALSE /\ raced = FALSE
      BY <1>1, <1>6
  <1> QED
      BY <1>2, <1>3, <1>6, <1>7

\* What a call knows while nothing has raced.
LEMMA Knows ==
    ASSUME MemoryTypeOK, RaceFree, ~raced, NEW c \in Calls
    PROVE  /\ \A d \in Calls \ {c} : ApartFrom(call[c], call[d]) /\ Fits(d, call[d], users, idSequence)
           /\ \A u \in users : u.id < idSequence /\ u.id \in Nat
           /\ Keyed(users)
           /\ Fits(c, call[c], users, idSequence)
           /\ call \in [Calls -> CallRecord]
           /\ call[c] \in CallRecord
           /\ call[c].id \in Nat
           /\ idSequence \in Nat
           /\ users \subseteq Stored
  <1>1. call \in [Calls -> CallRecord] /\ idSequence \in Nat /\ users \subseteq Stored
      BY Types
  <1>2. call[c] \in CallRecord /\ call[c].id \in Nat
      BY <1>1 DEF CallRecord
  <1>3. \A u \in users : u.id \in Nat
      BY <1>1 DEF Stored
  <1> QED
      BY <1>1, <1>2, <1>3 DEF RaceFree

\* Entering is asking the directory.
LEMMA EntersAsks ==
    ASSUME MemoryTypeOK, RaceFree, ~raced, NEW c \in Calls,
           CallGetUsers(c) \/ CallGetUserById(c) \/ CallCreateUser(c)
    PROVE  RaceFree' /\ Directory!Ask(c)
  <1>1. PICK op \in {"createUser", "getUserById", "getUsers"}, pc \in {"sequence", "map"}, id \in Nat :
           /\ Enter(c, op, pc, id)
           /\ pc = "sequence" <=> op = "createUser"
           /\ IF op = "getUserById" THEN id \in LookupIds ELSE id = 0
      BY LookupIdsAssumption DEF CallGetUsers, CallGetUserById, CallCreateUser
  <1> DEFINE r == [NotCalled EXCEPT !.op = op, !.pc = pc, !.id = id]
  <1>2. /\ r.op = op /\ r.pc = pc /\ r.id = id /\ r.seen = {} /\ r.outcome = "none" /\ r.users = {}
        /\ call[c] = NotCalled /\ call' = [call EXCEPT ![c] = r]
        /\ UNCHANGED <<users, idSequence>>
      BY <1>1 DEF Enter, NotCalled
  <1> HIDE DEF r
  <1>3. /\ \A d \in Calls \ {c} : Fits(d, call[d], users, idSequence)
        /\ \A u \in users : u.id < idSequence
        /\ Keyed(users)
        /\ Fits(c, call[c], users, idSequence)
        /\ call \in [Calls -> CallRecord]
      BY Knows
  <1>4. OwnedBy(c, users) = {}
      <2>1. call[c].op = "none"
          BY <1>2 DEF NotCalled
      <2> QED
          BY <1>3, <2>1 DEF Fits
  <1>5. Fits(c, r, users, idSequence)
      BY <1>1, <1>2, <1>4 DEF Fits
  <1>6. \A d \in Calls \ {c} : ApartFrom(r, call[d])
      BY <1>1, <1>2 DEF ApartFrom, Carries
  <1>7. RaceFree'
      BY <1>2, <1>3, <1>5, <1>6, RaceFreeGoesOn
  <1>8. /\ requestBar' = [requestBar EXCEPT ![c] = RequestOf(r)]
        /\ answerBar' = [answerBar EXCEPT ![c] = AnswerOf(r)]
      BY <1>2, <1>3, BarsBecome
  <1>9. requestBar[c] = Directory!NoRequest /\ answerBar[c] = Directory!Pending
      BY <1>2 DEF requestBar, answerBar, NotCalled, Directory!NoRequest, Directory!Pending
  <1>10. RequestOf(r) \in Directory!Requests /\ AnswerOf(r) = answerBar[c]
      BY <1>1, <1>2, <1>9 DEF RequestOf, AnswerOf, Directory!Requests, Directory!Pending
  <1>11. answerBar' = answerBar
      BY <1>8, <1>10 DEF answerBar
  <1> QED
      BY <1>2, <1>7, <1>8, <1>9, <1>10, <1>11 DEF Directory!Ask

\* Drawing an id and looking for the place are nothing to the directory.
LEMMA MovesUnseen ==
    ASSUME MemoryTypeOK, RaceFree, ~raced, NEW c \in Calls,
           \/ ReadSequence(c) /\ ~Meets(c, "increment")
           \/ WriteSequence(c)
           \/ FindPlace(c) /\ ~Meets(c, "insert")
    PROVE  /\ RaceFree'
           /\ UNCHANGED <<users, requestBar, answerBar>>
  <1>1. UNCHANGED users
      BY DEF ReadSequence, WriteSequence, FindPlace
  <1>2. /\ \A d \in Calls \ {c} :
              ApartFrom(call[c], call[d]) /\ Fits(d, call[d], users, idSequence)
        /\ \A u \in users : u.id < idSequence /\ u.id \in Nat
        /\ Keyed(users)
        /\ Fits(c, call[c], users, idSequence)
        /\ call \in [Calls -> CallRecord]
        /\ call[c].id \in Nat
        /\ idSequence \in Nat
      BY Knows
  <1>3. PICK pc, id, seen : Goes(c, pc, id, seen) /\
           \/ /\ call[c].pc = "sequence" /\ pc = "increment" /\ id = idSequence /\ seen = {}
              /\ idSequence' = idSequence /\ ~Meets(c, "increment")
           \/ /\ call[c].pc = "increment" /\ pc = "map" /\ id = call[c].id /\ seen = {}
              /\ idSequence' = call[c].id + 1
           \/ /\ call[c].pc = "map" /\ pc = "insert" /\ id = call[c].id /\ seen = users
              /\ call[c].op = "createUser" /\ idSequence' = idSequence /\ ~Meets(c, "insert")
      BY DEF ReadSequence, WriteSequence, FindPlace
  <1>4. PICK r : /\ call' = [call EXCEPT ![c] = r]
                 /\ r.op = call[c].op /\ r.users = call[c].users /\ r.outcome = call[c].outcome
                 /\ r.pc = pc /\ r.id = id /\ r.seen = seen
      BY <1>3, GoesBecomes
  <1>5. call[c].op = "createUser" /\ OwnedBy(c, users) = {} /\ call[c].users = {}
      BY <1>2, <1>3 DEF Fits
  <1>6. /\ \A u \in users' : u.id < idSequence'
        /\ Fits(c, r, users', idSequence')
        /\ \A d \in Calls \ {c} : Fits(d, call[d], users', idSequence') /\ ApartFrom(r, call[d])
      <2>1. CASE call[c].pc = "sequence"
          <3>1. idSequence' = idSequence /\ r.pc = "increment" /\ r.id = idSequence
              BY <1>3, <1>4, <2>1
          <3>2. Fits(c, r, users', idSequence')
              BY <1>1, <1>4, <1>5, <3>1 DEF Fits
          <3>3. \A d \in Calls \ {c} : ApartFrom(r, call[d])
              BY <1>3, <2>1, <3>1 DEF ApartFrom, Carries, Meets
          <3> QED
              BY <1>1, <1>2, <3>1, <3>2, <3>3
      <2>2. CASE call[c].pc = "increment"
          <3>1. call[c].id = idSequence /\ idSequence' = idSequence + 1 /\ r.pc = "map"
                    /\ r.id = idSequence
              BY <1>2, <1>3, <1>4, <2>2 DEF Fits
          <3>2. \A u \in users : u.id < idSequence + 1 /\ u.id # idSequence
              BY <1>2
          <3>3. Fits(c, r, users', idSequence')
              BY <1>1, <1>2, <1>4, <1>5, <3>1, <3>2 DEF Fits, IdsOf
          <3>4. ASSUME NEW d \in Calls \ {c}
                PROVE  Fits(d, call[d], users', idSequence') /\ ApartFrom(r, call[d])
              <4>1. /\ ApartFrom(call[c], call[d]) /\ Fits(d, call[d], users, idSequence)
                    /\ call[d].id \in Nat
                  BY <1>2 DEF CallRecord
              <4>2. call[d].pc # "increment"
                  BY <2>2, <4>1 DEF ApartFrom
              <4>3. call[d].id < idSequence => call[d].id < idSequence + 1 /\ call[d].id # idSequence
                  BY <1>2, <4>1
              <4>4. Fits(d, call[d], users', idSequence')
                  BY <1>1, <3>1, <4>1, <4>2, <4>3 DEF Fits
              <4>5. ApartFrom(r, call[d])
                  BY <3>1, <4>1, <4>3 DEF ApartFrom, Carries, Fits
              <4> QED
                  BY <4>4, <4>5
          <3> QED
              BY <1>1, <3>1, <3>2, <3>3, <3>4
      <2>3. CASE call[c].pc = "map"
          <3>1. idSequence' = idSequence /\ r.pc = "insert" /\ r.id = call[c].id /\ r.seen = users
              BY <1>3, <1>4, <2>3
          <3>2. call[c].id < idSequence /\ call[c].id \notin IdsOf(users)
              BY <1>2, <1>5, <2>3 DEF Fits
          <3>3. Fits(c, r, users', idSequence')
              BY <1>1, <1>4, <1>5, <3>1, <3>2 DEF Fits
          <3>4. \A d \in Calls \ {c} : call[d].pc # "insert"
              BY <1>3, <2>3 DEF Meets
          <3>5. \A d \in Calls \ {c} : ApartFrom(r, call[d])
              BY <1>2, <1>4, <1>5, <2>3, <3>1, <3>4 DEF ApartFrom, Carries
          <3> QED
              BY <1>1, <1>2, <3>1, <3>3, <3>5
      <2> QED
          BY <1>3, <2>1, <2>2, <2>3
  <1>7. RaceFree'
      BY <1>1, <1>2, <1>4, <1>6, RaceFreeGoesOn
  <1>8. RequestOf(r) = RequestOf(call[c]) /\ AnswerOf(r) = AnswerOf(call[c])
      BY <1>3, <1>4, <1>5 DEF RequestOf, AnswerOf
  <1>9. UNCHANGED <<requestBar, answerBar>>
      BY <1>2, <1>4, <1>8, BarsKeep
  <1> QED
      BY <1>1, <1>7, <1>9

\* Linking the new user in is the moment of a creation: nobody has its id, and
\* nobody else has linked anything since the place was looked for.
LEMMA InsertsOnce ==
    ASSUME MemoryTypeOK, RaceFree, ~raced, NEW c \in Calls, Insert(c)
    PROVE  RaceFree' /\ Directory!Insert(c)
  <1>1. call[c].pc = "insert" /\ UNCHANGED idSequence
      BY DEF Insert
  <1>2. /\ \A d \in Calls \ {c} :
              ApartFrom(call[c], call[d]) /\ Fits(d, call[d], users, idSequence)
        /\ \A u \in users : u.id < idSequence /\ u.id \in Nat
        /\ Keyed(users)
        /\ Fits(c, call[c], users, idSequence)
        /\ call \in [Calls -> CallRecord]
        /\ call[c].id \in Nat
      BY Knows
  <1>3. /\ call[c].op = "createUser" /\ call[c].users = {} /\ call[c].seen = users
        /\ OwnedBy(c, users) = {} /\ call[c].id < idSequence /\ call[c].id \notin IdsOf(users)
      BY <1>1, <1>2 DEF Fits
  <1> DEFINE new == [id |-> call[c].id, name |-> c]
  <1>4. users' = users \cup {new} /\ Goes(c, "copy", call[c].id, {new})
      <2>1. {u \in call[c].seen : u.id = call[c].id} = {}
          BY <1>3 DEF IdsOf
      <2>2. SUBSET (users \ call[c].seen) = {{}}
          BY <1>3
      <2> QED
          BY <1>3, <2>1, <2>2 DEF Insert
  <1>5. new.id = call[c].id /\ new.name = c
      OBVIOUS
  <1> HIDE DEF new
  <1>6. PICK r : /\ call' = [call EXCEPT ![c] = r]
                 /\ r.op = call[c].op /\ r.users = call[c].users /\ r.outcome = call[c].outcome
                 /\ r.pc = "copy" /\ r.id = call[c].id /\ r.seen = {new}
      BY <1>4, GoesBecomes
  <1>7. /\ OwnedBy(c, users') = {new}
        /\ \A d \in Calls \ {c} : OwnedBy(d, users') = OwnedBy(d, users)
      BY <1>3, <1>4, <1>5 DEF OwnedBy
  <1>8. /\ \A u \in users' : u.id < idSequence'
        /\ Keyed(users')
      BY <1>1, <1>2, <1>3, <1>4, <1>5 DEF Keyed, IdsOf
  <1>9. Fits(c, r, users', idSequence')
      BY <1>3, <1>6, <1>7 DEF Fits
  <1>10. ASSUME NEW d \in Calls \ {c}
         PROVE  Fits(d, call[d], users', idSequence') /\ ApartFrom(r, call[d])
      <2>1. ApartFrom(call[c], call[d]) /\ Fits(d, call[d], users, idSequence)
          BY <1>2
      <2>2. call[d].pc # "insert" /\ (Carries(call[d]) => call[d].id # new.id)
          BY <1>1, <1>3, <1>5, <2>1 DEF ApartFrom, Carries
      <2>3. OwnedBy(d, users') = OwnedBy(d, users)
          BY <1>7
      <2>4. Carries(call[d]) => call[d].id \notin IdsOf(users')
          BY <1>4, <2>1, <2>2 DEF IdsOf, Fits, Carries
      <2>5. Fits(d, call[d], users', idSequence')
          BY <1>1, <2>1, <2>2, <2>3, <2>4 DEF Fits, Carries
      <2>6. ApartFrom(r, call[d])
          BY <1>6 DEF ApartFrom, Carries
      <2> QED
          BY <2>5, <2>6
  <1>11. RaceFree'
      BY <1>6, <1>8, <1>9, <1>10, RaceFreeGoesOn
  <1>12. RequestOf(r) = RequestOf(call[c]) /\ AnswerOf(r) = AnswerOf(call[c])
      BY <1>1, <1>3, <1>6 DEF RequestOf, AnswerOf
  <1>13. UNCHANGED <<requestBar, answerBar>>
      BY <1>2, <1>6, <1>12, BarsKeep
  <1>14. Directory!Waits(c, "createUser")
      BY <1>1, <1>3 DEF Directory!Waits, Directory!Pending, requestBar, answerBar
  <1>15. new.id \notin IdsOf(users)
      BY <1>3, <1>5
  <1> QED
      BY <1>3, <1>4, <1>5, <1>11, <1>13, <1>14, <1>15
         DEF Directory!Insert, Directory!OwnedBy, Directory!IdsOf, OwnedBy, IdsOf

\* A call that returns takes its answer with it and leaves the map alone.
LEMMA ReturnTells ==
    ASSUME MemoryTypeOK, RaceFree, ~raced, NEW c \in Calls, call[c].pc \in {"map", "copy"},
           NEW outcome \in {"user", "users", "throw"}, NEW s, UNCHANGED users,
           outcome = "throw" => s = {}, Return(c, outcome, s),
           call[c].op = "createUser" => call[c].pc = "copy"
    PROVE  /\ RaceFree'
           /\ Directory!Tell(c, IF outcome = "throw" THEN Directory!Failed ELSE Directory!Served(s))
  <1> DEFINE r == [call[c] EXCEPT !.pc = "returned", !.seen = {}, !.outcome = outcome, !.users = s]
  <1>1. UNCHANGED idSequence /\ call' = [call EXCEPT ![c] = r]
      BY DEF Return
  <1>2. /\ \A d \in Calls \ {c} : Fits(d, call[d], users, idSequence)
        /\ \A u \in users : u.id < idSequence
        /\ Keyed(users)
        /\ Fits(c, call[c], users, idSequence)
        /\ call \in [Calls -> CallRecord] /\ call[c] \in CallRecord
      BY Knows
  <1>3. /\ r.op = call[c].op /\ r.id = call[c].id /\ r.pc = "returned" /\ r.outcome = outcome
        /\ r.users = s
      BY <1>2 DEF CallRecord
  <1> HIDE DEF r
  <1>4. Fits(c, r, users', idSequence')
      <2>1. call[c].op # "none"
          BY <1>2 DEF Fits
      <2> QED
          BY <1>1, <1>2, <1>3, <2>1 DEF Fits
  <1>5. \A d \in Calls \ {c} : ApartFrom(r, call[d])
      BY <1>3 DEF ApartFrom, Carries
  <1>6. RaceFree'
      BY <1>1, <1>2, <1>4, <1>5, RaceFreeGoesOn
  <1>7. /\ requestBar' = [requestBar EXCEPT ![c] = RequestOf(r)]
        /\ answerBar' = [answerBar EXCEPT ![c] = AnswerOf(r)]
      BY <1>1, <1>2, BarsBecome
  <1>8. AnswerOf(r) = IF outcome = "throw" THEN Directory!Failed ELSE Directory!Served(s)
      BY <1>3 DEF AnswerOf, Directory!Failed, Directory!Served
  <1>9. \A d \in Calls : RequestOf(call'[d]) = RequestOf(call[d])
      BY <1>1, <1>2, <1>3 DEF RequestOf
  <1>10. /\ requestBar = [d \in Calls |-> RequestOf(call[d])]
         /\ requestBar' = [d \in Calls |-> RequestOf(call'[d])]
      BY DEF requestBar, RequestOf
  <1> QED
      BY <1>6, <1>7, <1>8, <1>9, <1>10 DEF Directory!Tell

\* What the directory knows of a call that is inside.
LEMMA InsideWaits ==
    ASSUME MemoryTypeOK, RaceFree, ~raced, NEW c \in Calls, call[c].pc \in {"map", "copy"}
    PROVE  /\ Directory!Waits(c, call[c].op)
           /\ requestBar[c].id = IF call[c].op = "getUserById" THEN call[c].id ELSE 0
  <1>1. Fits(c, call[c], users, idSequence)
      BY Knows
  <1>2. call[c].users = {} /\ call[c].pc # "returned"
      BY <1>1 DEF Fits
  <1> QED
      BY <1>2 DEF Directory!Waits, Directory!Pending, requestBar, answerBar

\* Each answer is one that the directory may give.
LEMMA AnswersServed ==
    ASSUME MemoryTypeOK, RaceFree, ~raced, NEW c \in Calls,
           CopyResult(c) \/ GetUserById(c) \/ GetUsers(c)
    PROVE  RaceFree' /\ Directory!Serve(c)
  <1>1. call[c].pc \in {"map", "copy"} /\ UNCHANGED users
      BY DEF CopyResult, GetUserById, GetUsers
  <1>2. Fits(c, call[c], users, idSequence)
      BY Knows
  <1>3. /\ Directory!Waits(c, call[c].op)
        /\ requestBar[c].id = IF call[c].op = "getUserById" THEN call[c].id ELSE 0
      BY <1>1, InsideWaits
  <1>4. CASE CopyResult(c)
      <2>1. /\ call[c].op = "createUser" /\ call[c].seen = OwnedBy(c, users) /\ call[c].seen # {}
            /\ Return(c, "user", call[c].seen) /\ call[c].pc = "copy"
          BY <1>2, <1>4 DEF CopyResult, Fits
      <2>2. RaceFree' /\ Directory!Tell(c, Directory!Served(call[c].seen))
          BY <1>1, <2>1, ReturnTells
      <2> QED
          BY <1>3, <2>1, <2>2
             DEF Directory!Serve, Directory!AnswerCreated, Directory!OwnedBy, OwnedBy
  <1>5. CASE GetUserById(c)
      <2>0. call[c].op = "getUserById" /\ call[c].pc = "map"
          BY <1>5 DEF GetUserById
      <2>1. ASSUME NEW u \in users, u.id = call[c].id, Return(c, "user", {u})
            PROVE  RaceFree' /\ Directory!Serve(c)
          <3>1. RaceFree' /\ Directory!Tell(c, Directory!Served({u}))
              BY <1>1, <2>0, <2>1, ReturnTells
          <3> QED
              BY <1>3, <2>0, <2>1, <3>1 DEF Directory!Serve, Directory!AnswerFound
      <2>2. CASE Return(c, "throw", {})
          <3>1. RaceFree' /\ Directory!Tell(c, Directory!Failed)
              BY <1>1, <2>0, <2>2, ReturnTells
          <3>2. requestBar[c] # Directory!NoRequest /\ answerBar[c] = Directory!Pending
              BY <1>3, <2>0 DEF Directory!Waits, Directory!NoRequest
          <3> QED
              BY <3>1, <3>2 DEF Directory!Serve, Directory!Fail
      <2> QED
          BY <1>5, <2>1, <2>2 DEF GetUserById
  <1>6. CASE GetUsers(c)
      <2>1. RaceFree' /\ Directory!Tell(c, Directory!Served(users))
          BY <1>1, <1>6, ReturnTells DEF GetUsers
      <2> QED
          BY <1>3, <1>6, <2>1 DEF GetUsers, Directory!Serve, Directory!AnswerAll
  <1> QED
      BY <1>4, <1>5, <1>6

\* Every step of calls that do not meet is a step of the directory, or nothing
\* to it.
LEMMA RaceFreeStep ==
    ASSUME MemoryTypeOK, RaceFree, NEW c \in Calls, MemoryStep(c)
    PROVE  RaceFree' /\ [Directory!Next]_(Directory!directoryVars)
  <1>1. CASE raced'
      BY <1>1 DEF RaceFree, Directory!Next
  <1>2. CASE ~raced'
      <2>1. /\ ~raced /\ raced' = raced
            /\ ReadSequence(c) => ~Meets(c, "increment")
            /\ FindPlace(c) => ~Meets(c, "insert")
            /\ ~RaceInMap(c)
          BY <1>2, StillRaceFree
      <2>2. RaceFree' /\ (Directory!Serve(c) \/ UNCHANGED <<users, requestBar, answerBar>>)
          <3>1. CASE CallGetUsers(c) \/ CallGetUserById(c) \/ CallCreateUser(c)
              BY <2>1, <3>1, EntersAsks DEF Directory!Serve
          <3>2. CASE ReadSequence(c) \/ WriteSequence(c) \/ FindPlace(c)
              BY <2>1, <3>2, MovesUnseen
          <3>3. CASE Insert(c)
              BY <2>1, <3>3, InsertsOnce DEF Directory!Serve
          <3>4. CASE CopyResult(c) \/ GetUserById(c) \/ GetUsers(c)
              BY <2>1, <3>4, AnswersServed
          <3> QED
              BY <2>1, <3>1, <3>2, <3>3, <3>4 DEF MemoryStep
      <2> QED
          BY <2>1, <2>2 DEF Directory!Next, Directory!directoryVars
  <1> QED
      BY <1>1, <1>2

\* However calls overlap, the in-memory map is the directory that IUserDao
\* promises, until two calls meet in the increment or in the map.
THEOREM RaceFreeRefinement == MemorySpec => RaceFreeImplementsDirectory
  <1>1. MemoryInit => MemoryTypeOK /\ RaceFree /\ Directory!Init
      <2>1. MemoryInit => Directory!Init
          BY DEF MemoryInit, Directory!Init, requestBar, answerBar, NotCalled, Directory!NoRequest,
             Directory!Pending
      <2> QED
          BY <2>1, MemoryBegins, RaceFreeBegins
  <1>2. /\ MemoryTypeOK /\ RaceFree
        /\ [\E c \in Calls : MemoryStep(c)]_memoryVars
        => /\ MemoryTypeOK' /\ RaceFree'
           /\ [Directory!Next]_(Directory!directoryVars)
      <2>1. CASE UNCHANGED memoryVars
          <3>1. RaceFree => RaceFree'
              BY <2>1 DEF memoryVars, RaceFree
          <3>2. UNCHANGED Directory!directoryVars
              BY <2>1 DEF memoryVars, Directory!directoryVars, requestBar, answerBar
          <3> QED
              BY <2>1, <3>1, <3>2, MemoryStutters
      <2>2. ASSUME MemoryTypeOK, RaceFree, NEW c \in Calls, MemoryStep(c)
            PROVE  /\ MemoryTypeOK' /\ RaceFree'
                   /\ [Directory!Next]_(Directory!directoryVars)
          BY <2>2, MemoryStepKeeps, RaceFreeStep
      <2> QED
          BY <2>1, <2>2
  <1> QED
      BY <1>1, <1>2, PTL DEF MemorySpec, RaceFreeImplementsDirectory, Directory!Spec
=============================================================================

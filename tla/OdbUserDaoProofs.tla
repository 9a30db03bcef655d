-------------------------- MODULE OdbUserDaoProofs --------------------------
(***************************************************************************)
(* What OdbUserDao guarantees for any number of callers, any lookups and   *)
(* any width of the narrow id, proved from its inductive invariant DaoInv. *)
(***************************************************************************)
EXTENDS OdbUserDao, TLAPS

-----------------------------------------------------------------------------
(***************************************************************************)
(* Lemmas about the operators.                                             *)
(***************************************************************************)

\* An id below the modulus survives `std::uint16_t id = persist(...)'.
LEMMA NarrowKeepsSmallIds ==
    ASSUME NEW id \in Nat, id < IdModulus
    PROVE  Narrow(id) = id
  BY IdModulusAssumption DEF Narrow

\* The narrow id is a natural number.
LEMMA NarrowIsNat ==
    ASSUME NEW id \in Nat
    PROVE  Narrow(id) \in Nat
  BY IdModulusAssumption DEF Narrow

\* One operation is replaced and the others stay (every action's update of dao).
LEMMA UpdateType ==
    ASSUME DaoTypeOK, NEW c \in Calls, NEW r \in DaoRecord, dao' = [dao EXCEPT ![c] = r]
    PROVE  dao' \in [Calls -> DaoRecord]
  BY DEF DaoTypeOK

\* A call and a return make records of the type (Call and Return).
LEMMA CallType ==
    ASSUME DaoTypeOK, NEW c \in Calls, NEW id \in Nat,
           NEW op \in {"createUser", "getUserById", "getUsers"},
           NEW pc \in {"persist", "query", "scan"},
           Call(c, op, pc, id)
    PROVE  DaoTypeOK'
  <1>1. [Idle EXCEPT !.op = op, !.pc = pc, !.id = id] \in DaoRecord
    BY DEF Idle, DaoRecord
  <1>2. dao' \in [Calls -> DaoRecord]
    BY <1>1, UpdateType DEF Call
  <1> QED
    BY <1>2 DEF Call, DaoTypeOK

\* A method that returns keeps the type of its record.
LEMMA ReturnType ==
    ASSUME DaoTypeOK, NEW c \in Calls,
           NEW outcome \in {"user", "users", "null", "throw", "fault"},
           NEW users \in SUBSET User,
           Return(c, outcome, users)
    PROVE  dao' \in [Calls -> DaoRecord]
  <1>1. [dao[c] EXCEPT !.pc = "returned", !.outcome = outcome, !.users = users] \in DaoRecord
    BY DEF DaoTypeOK, DaoRecord
  <1>2. dao' = [dao EXCEPT ![c] = [dao[c] EXCEPT !.pc = "returned", !.outcome = outcome,
                                                 !.users = users]]
    BY DEF Return, DaoTypeOK
  <1> QED
    BY <1>1, <1>2, UpdateType

-----------------------------------------------------------------------------
(***************************************************************************)
(* Type correctness.                                                       *)
(***************************************************************************)

\* Every step keeps the types of the variables (all of DaoNext).
LEMMA TypeStep == DaoTypeOK /\ [DaoNext]_daoVars => DaoTypeOK'
  <1> SUFFICES ASSUME DaoTypeOK, [DaoNext]_daoVars
               PROVE  DaoTypeOK'
    OBVIOUS
  <1>1. CASE UNCHANGED daoVars
    BY <1>1 DEF daoVars, DaoTypeOK
  <1>2. ASSUME NEW c \in Calls, DaoCall(c)
        PROVE  DaoTypeOK'
    <2>1. CASE CallCreateUser(c)
      BY <2>1, CallType DEF CallCreateUser
    <2>2. ASSUME NEW id \in LookupIds, CallGetUserById(c, id)
          PROVE  DaoTypeOK'
      <3>1. id \in Nat
        BY LookupIdsAssumption
      <3> QED
        BY <2>2, <3>1, CallType DEF CallGetUserById
    <2>3. CASE CallGetUsers(c)
      BY <2>3, CallType DEF CallGetUsers
    <2> QED
      BY <1>2, <2>1, <2>2, <2>3 DEF DaoCall
  <1>3. ASSUME NEW c \in Calls, DaoStep(c)
        PROVE  DaoTypeOK'
    <2>1. CASE Persist(c)
      <3>1. [dao[c] EXCEPT !.pc = "commit", !.id = nextId] \in DaoRecord
        BY DEF DaoTypeOK, DaoRecord
      <3>2. dao' = [dao EXCEPT ![c] = [dao[c] EXCEPT !.pc = "commit", !.id = nextId]]
        BY <2>1 DEF Persist, DaoTypeOK
      <3>3. dao' \in [Calls -> DaoRecord]
        BY <3>1, <3>2, UpdateType
      <3> QED
        BY <2>1, <3>3 DEF Persist, DaoTypeOK
    <2>2. CASE PersistFails(c)
      <3>1. dao' \in [Calls -> DaoRecord]
        BY <2>2, ReturnType DEF PersistFails
      <3>2. nextId' \in Nat \ {0}
        BY <2>2 DEF PersistFails, DaoTypeOK
      <3> QED
        BY <2>2, <3>1, <3>2 DEF PersistFails, DaoTypeOK
    <2>3. NewRow(c) \in User
      BY DEF NewRow, User, DaoTypeOK, DaoRecord
    <2>4. CASE Commit(c)
      <3>1. Narrow(dao[c].id) \in Nat
        BY NarrowIsNat DEF DaoTypeOK, DaoRecord
      <3>2. [dao[c] EXCEPT !.pc = "query", !.id = Narrow(dao[c].id)] \in DaoRecord
        BY <3>1 DEF DaoTypeOK, DaoRecord
      <3>3. dao' = [dao EXCEPT ![c] = [dao[c] EXCEPT !.pc = "query", !.id = Narrow(dao[c].id)]]
        BY <2>4 DEF Commit, DaoTypeOK
      <3>4. dao' \in [Calls -> DaoRecord]
        BY <3>2, <3>3, UpdateType
      <3> QED
        BY <2>3, <2>4, <3>4 DEF Commit, DaoTypeOK
    <2>5. CASE CommitFails(c)
      <3>1. dao' \in [Calls -> DaoRecord]
        BY <2>5, ReturnType DEF CommitFails
      <3> QED
        BY <2>3, <2>5, <3>1 DEF CommitFails, DaoTypeOK
    <2>6. CASE QueryById(c)
      <3>1. {u \in rows : u.id = dao[c].id} \in SUBSET User
        BY DEF DaoTypeOK
      <3>2. dao' \in [Calls -> DaoRecord]
        BY <2>6, <3>1, ReturnType DEF QueryById
      <3> QED
        BY <2>6, <3>2 DEF QueryById, DaoTypeOK
    <2>7. CASE QueryByIdFails(c)
      <3>1. dao' \in [Calls -> DaoRecord]
        BY <2>7, ReturnType DEF QueryByIdFails
      <3> QED
        BY <2>7, <3>1 DEF QueryByIdFails, DaoTypeOK
    <2>8. CASE GetUsers(c)
      <3>1. dao' \in [Calls -> DaoRecord]
        BY <2>8, ReturnType DEF GetUsers, DaoTypeOK
      <3> QED
        BY <2>8, <3>1 DEF GetUsers, DaoTypeOK
    <2>9. CASE GetUsersFails(c)
      <3>1. dao' \in [Calls -> DaoRecord]
        BY <2>9, ReturnType DEF GetUsersFails
      <3> QED
        BY <2>9, <3>1 DEF GetUsersFails, DaoTypeOK
    <2> QED
      BY <1>3, <2>1, <2>2, <2>4, <2>5, <2>6, <2>7, <2>8, <2>9 DEF DaoStep
  <1> QED
    BY <1>1, <1>2, <1>3 DEF DaoNext

\* The variables of OdbUserDao always have their types.
THEOREM TypeCorrect == DaoSpec => []DaoTypeOK
  <1>1. DaoInit => DaoTypeOK
    BY DEF DaoInit, DaoTypeOK, DaoRecord, Idle
  <1> QED
    BY <1>1, TypeStep, PTL DEF DaoSpec

-----------------------------------------------------------------------------
(***************************************************************************)
(* The inductive invariant.                                                *)
(***************************************************************************)

\* The fields of the operation of call c are replaced; every other operation
\* stays.  Each action is first brought into this form.
Becomes(c, op, pc, id, outcome, users) ==
    /\ dao'[c].op = op
    /\ dao'[c].pc = pc
    /\ dao'[c].id = id
    /\ dao'[c].outcome = outcome
    /\ dao'[c].users = users
    /\ \A d \in Calls \ {c} : dao'[d] = dao[d]

\* What a beginning method makes of its record.
LEMMA CallBecomes ==
    ASSUME DaoTypeOK, NEW c \in Calls, NEW op, NEW pc, NEW id, Call(c, op, pc, id)
    PROVE  Becomes(c, op, pc, id, "none", {})
  BY DEF Call, Becomes, DaoTypeOK, Idle

\* What a returning method makes of its record.
LEMMA ReturnBecomes ==
    ASSUME DaoTypeOK, NEW c \in Calls, NEW outcome, NEW users, Return(c, outcome, users)
    PROVE  Becomes(c, dao[c].op, "returned", dao[c].id, outcome, users)
  BY DEF Return, Becomes, DaoTypeOK, DaoRecord

\* A call that begins owns no row and disturbs nothing (Call).
LEMMA CallInv ==
    ASSUME DaoInv, DaoTypeOK', NEW c \in Calls, NEW op, NEW pc, NEW id,
           <<op, pc>> \in {<<"createUser", "persist">>, <<"getUserById", "query">>,
                           <<"getUsers", "scan">>},
           Call(c, op, pc, id)
    PROVE  DaoInv'
  <1>1. Becomes(c, op, pc, id, "none", {})
    BY CallBecomes DEF DaoInv
  <1>2. UNCHANGED <<rows, nextId>> /\ dao[c].pc = "idle" /\ dao[c].op = "none"
    BY DEF Call, At, DaoInv, PcFitsOp
  <1>3. PcFitsOp'
    BY <1>1, <1>2 DEF DaoInv, PcFitsOp, Becomes, At
  <1>4. SequenceAhead'
    BY <1>1, <1>2 DEF DaoInv, SequenceAhead, Becomes, At
  <1>5. PendingFresh'
    BY <1>1, <1>2 DEF DaoInv, PendingFresh, Becomes, At, IdsOf
  <1>6. RowsHaveCreators'
    BY <1>1, <1>2 DEF DaoInv, RowsHaveCreators, Becomes, DaoTypeOK, User
  <1>7. RowsKeyed'
    BY <1>2 DEF DaoInv, RowsKeyed
  <1>8. RereadFinds'
    BY <1>1, <1>2 DEF DaoInv, RereadFinds, Unwrapped, Becomes, At, NewRow
  <1>9. CreateReturnsOwnUser'
    BY <1>1, <1>2 DEF DaoInv, CreateReturnsOwnUser, Unwrapped, Becomes, At, OwnedBy
  <1>10. ReadsAreDurable'
    BY <1>1, <1>2 DEF DaoInv, ReadsAreDurable, Becomes, At
  <1> QED
    BY <1>3, <1>4, <1>5, <1>6, <1>7, <1>8, <1>9, <1>10 DEF DaoInv

\* A method that returns without storing anything may tell of committed rows
\* only, and a creation only of its own (Return).
LEMMA ReturnInv ==
    ASSUME DaoInv, DaoTypeOK', NEW c \in Calls, NEW outcome, NEW users,
           ~At(c, "idle"), ~At(c, "returned"), Return(c, outcome, users),
           rows' = rows, nextId' \in {nextId, nextId + 1},
           users \subseteq rows,
           dao[c].op = "createUser" =>
               /\ outcome \in {"user", "null"} \/ ~Unwrapped
               /\ outcome = "user" /\ Unwrapped => users = OwnedBy(c, rows) /\ users # {}
    PROVE  DaoInv'
  <1>1. Becomes(c, dao[c].op, "returned", dao[c].id, outcome, users)
    BY ReturnBecomes DEF DaoInv
  <1>2. Unwrapped' <=> Unwrapped
    BY DEF Unwrapped
  <1>3. PcFitsOp'
    BY <1>1 DEF DaoInv, PcFitsOp, Becomes, At
  <1>4. SequenceAhead'
    BY <1>1 DEF DaoInv, SequenceAhead, Becomes, At, DaoTypeOK
  <1>5. PendingFresh'
    BY <1>1 DEF DaoInv, PendingFresh, Becomes, At, IdsOf
  <1>6. RowsHaveCreators'
    BY <1>1 DEF DaoInv, RowsHaveCreators, Becomes, DaoTypeOK, User
  <1>7. RowsKeyed'
    BY DEF DaoInv, RowsKeyed
  <1>8. RereadFinds'
    BY <1>1, <1>2 DEF DaoInv, RereadFinds, Becomes, At, NewRow
  <1>9. CreateReturnsOwnUser'
    BY <1>1, <1>2 DEF DaoInv, CreateReturnsOwnUser, Becomes, At, OwnedBy
  <1>10. ReadsAreDurable'
    BY <1>1 DEF DaoInv, ReadsAreDurable, Becomes, At
  <1> QED
    BY <1>3, <1>4, <1>5, <1>6, <1>7, <1>8, <1>9, <1>10 DEF DaoInv

\* The sequence gives the creation an id that no one has had (Persist).
LEMMA PersistInv ==
    ASSUME DaoInv, DaoTypeOK', NEW c \in Calls, Persist(c)
    PROVE  DaoInv'
  <1>1. Becomes(c, dao[c].op, "commit", nextId, dao[c].outcome, dao[c].users)
    BY DEF Persist, Becomes, DaoInv, DaoTypeOK, DaoRecord
  <1>2. rows' = rows /\ nextId' = nextId + 1 /\ dao[c].pc = "persist"
    BY DEF Persist, At
  <1>3. Unwrapped' <=> Unwrapped
    BY <1>2 DEF Unwrapped
  <1>4. PcFitsOp'
    BY <1>1, <1>2 DEF DaoInv, PcFitsOp, Becomes, At
  <1>5. SequenceAhead'
    BY <1>1, <1>2 DEF DaoInv, SequenceAhead, Becomes, At, DaoTypeOK
  <1>6. nextId \notin IdsOf(rows)
    BY DEF DaoInv, SequenceAhead, DaoTypeOK, IdsOf
  <1>7. \A d \in Calls : At(d, "commit") => dao[d].id # nextId
    BY DEF DaoInv, SequenceAhead, DaoTypeOK
  <1>8. PendingFresh'
    BY <1>1, <1>2, <1>6, <1>7 DEF DaoInv, PendingFresh, Becomes, At, IdsOf
  <1>9. RowsHaveCreators'
    BY <1>1, <1>2 DEF DaoInv, RowsHaveCreators, Becomes, DaoTypeOK, User
  <1>10. RowsKeyed'
    BY <1>2 DEF DaoInv, RowsKeyed
  <1>11. RereadFinds'
    BY <1>1, <1>2, <1>3 DEF DaoInv, RereadFinds, Becomes, At, NewRow
  <1>12. CreateReturnsOwnUser'
    BY <1>1, <1>2, <1>3 DEF DaoInv, CreateReturnsOwnUser, Becomes, At, OwnedBy
  <1>13. ReadsAreDurable'
    BY <1>1, <1>2 DEF DaoInv, ReadsAreDurable, Becomes, At
  <1> QED
    BY <1>4, <1>5, <1>8, <1>9, <1>10, <1>11, <1>12, <1>13 DEF DaoInv

\* The new row collides with none, and its creation is past the commit
\* (Commit, and CommitFails where the database did commit).
LEMMA NewRowInv ==
    ASSUME DaoInv, DaoTypeOK', NEW c \in Calls, At(c, "commit"),
           NEW id, NEW pc, NEW outcome, NEW users,
           Becomes(c, "createUser", pc, id, outcome, users),
           rows' = rows \cup {NewRow(c)}, nextId' = nextId,
           \/ pc = "query" /\ (dao[c].id < IdModulus => id = dao[c].id)
           \/ pc = "returned" /\ outcome = "null" /\ users = {}
    PROVE  DaoInv'
  <1>1. /\ dao[c].op = "createUser"
        /\ dao[c].pc = "commit"
        /\ dao[c].id \in 1 .. (nextId - 1)
        /\ dao[c].id \notin IdsOf(rows)
        /\ OwnedBy(c, rows) = {}
    BY DEF DaoInv, PcFitsOp, SequenceAhead, PendingFresh, RowsHaveCreators, At, OwnedBy
  <1>2. Unwrapped' => Unwrapped /\ dao[c].id < IdModulus
    <2>1. NewRow(c) \in rows' /\ NewRow(c).id = dao[c].id
      BY DEF NewRow
    <2> QED
      BY <2>1 DEF Unwrapped
  <1>3. PcFitsOp'
    BY DEF DaoInv, PcFitsOp, Becomes, At
  <1>4. SequenceAhead'
    BY <1>1 DEF DaoInv, SequenceAhead, Becomes, At, NewRow
  <1>5. PendingFresh'
    BY <1>1 DEF DaoInv, PendingFresh, Becomes, At, NewRow, IdsOf
  <1>6. RowsHaveCreators'
    BY <1>1 DEF DaoInv, RowsHaveCreators, Becomes, NewRow, DaoTypeOK, User
  <1>7. RowsKeyed'
    BY <1>1 DEF DaoInv, RowsKeyed, NewRow, IdsOf, OwnedBy
  <1>8. RereadFinds'
    <2>1. SUFFICES ASSUME Unwrapped', NEW d \in Calls, (dao[d].op = "createUser")',
                          At(d, "query")'
                   PROVE  NewRow(d)' \in rows'
      BY DEF RereadFinds
    <2>2. CASE d = c
      BY <1>2, <2>1, <2>2 DEF Becomes, At, NewRow
    <2>3. CASE d # c
      BY <1>2, <2>1, <2>3 DEF DaoInv, RereadFinds, Becomes, At, NewRow
    <2> QED
      BY <2>2, <2>3
  <1>9. CreateReturnsOwnUser'
    <2>1. \A d \in Calls \ {c} : OwnedBy(d, rows') = OwnedBy(d, rows)
      BY DEF OwnedBy, NewRow
    <2> QED
      BY <1>2, <2>1 DEF DaoInv, CreateReturnsOwnUser, Becomes, At
  <1>10. ReadsAreDurable'
    BY DEF DaoInv, ReadsAreDurable, Becomes, At
  <1> QED
    BY <1>3, <1>4, <1>5, <1>6, <1>7, <1>8, <1>9, <1>10 DEF DaoInv

\* Every step keeps the invariant (all of DaoNext).
LEMMA DaoInvStep == DaoInv /\ [DaoNext]_daoVars => DaoInv'
  <1> SUFFICES ASSUME DaoInv, [DaoNext]_daoVars
               PROVE  DaoInv'
    OBVIOUS
  <1>1. DaoTypeOK'
    BY TypeStep DEF DaoInv
  <1>2. CASE UNCHANGED daoVars
    BY <1>2 DEF daoVars, DaoInv, DaoTypeOK, PcFitsOp, SequenceAhead, PendingFresh,
       RowsHaveCreators, RowsKeyed, RereadFinds, CreateReturnsOwnUser, ReadsAreDurable,
       Unwrapped, At, NewRow, OwnedBy, IdsOf
  <1>3. ASSUME NEW c \in Calls, DaoCall(c)
        PROVE  DaoInv'
    <2>1. CASE CallCreateUser(c)
      BY <1>1, <2>1, CallInv DEF CallCreateUser
    <2>2. ASSUME NEW id \in LookupIds, CallGetUserById(c, id)
          PROVE  DaoInv'
      BY <1>1, <2>2, CallInv DEF CallGetUserById
    <2>3. CASE CallGetUsers(c)
      BY <1>1, <2>3, CallInv DEF CallGetUsers
    <2> QED
      BY <1>3, <2>1, <2>2, <2>3 DEF DaoCall
  <1>4. ASSUME NEW c \in Calls, DaoStep(c)
        PROVE  DaoInv'
    <2>1. CASE Persist(c)
      BY <1>1, <2>1, PersistInv
    <2>2. CASE PersistFails(c)
      BY <1>1, <2>2, ReturnInv DEF PersistFails, At
    <2>3. CASE Commit(c)
      <3>1. dao[c].op = "createUser"
        BY <2>3 DEF Commit, DaoInv, PcFitsOp
      <3>2. Becomes(c, "createUser", "query", Narrow(dao[c].id), dao[c].outcome, dao[c].users)
        BY <2>3, <3>1 DEF Commit, Becomes, DaoInv, DaoTypeOK, DaoRecord
      <3>3. dao[c].id < IdModulus => Narrow(dao[c].id) = dao[c].id
        BY NarrowKeepsSmallIds DEF DaoInv, DaoTypeOK, DaoRecord
      <3> QED
        BY <1>1, <2>3, <3>2, <3>3, NewRowInv DEF Commit
    <2>4. CASE CommitFails(c)
      <3>1. CASE rows' = rows
        BY <1>1, <2>4, <3>1, ReturnInv DEF CommitFails, At
      <3>2. CASE rows' = rows \cup {NewRow(c)}
        <4>1. dao[c].op = "createUser"
          BY <2>4 DEF CommitFails, DaoInv, PcFitsOp
        <4>2. Becomes(c, "createUser", "returned", dao[c].id, "null", {})
          BY <2>4, <4>1, ReturnBecomes DEF CommitFails, DaoInv
        <4> QED
          BY <1>1, <2>4, <3>2, <4>2, NewRowInv DEF CommitFails
      <3> QED
        BY <2>4, <3>1, <3>2 DEF CommitFails
    <2>5. CASE QueryById(c)
      <3> DEFINE found == {u \in rows : u.id = dao[c].id}
      <3>1. /\ found \subseteq rows
            /\ At(c, "query") /\ rows' = rows /\ nextId' = nextId
            /\ \/ found # {} /\ Return(c, "user", found)
               \/ found = {} /\ Return(c, "fault", {})
        BY <2>5 DEF QueryById
      <3>2. dao[c].op = "createUser" /\ Unwrapped => found = OwnedBy(c, rows) /\ found # {}
        <4>1. SUFFICES ASSUME dao[c].op = "createUser", Unwrapped
                       PROVE  found = OwnedBy(c, rows) /\ found # {}
          OBVIOUS
        <4>2. NewRow(c) \in rows
          BY <3>1, <4>1 DEF DaoInv, RereadFinds
        <4>3. \A u \in rows : u.id = dao[c].id \/ u.name = c => u = NewRow(c)
          BY <4>2 DEF DaoInv, RowsKeyed, NewRow
        <4> QED
          BY <4>2, <4>3 DEF NewRow, OwnedBy
      <3> HIDE DEF found
      <3>3. CASE found # {} /\ Return(c, "user", found)
        BY <1>1, <3>1, <3>2, <3>3, ReturnInv DEF At
      <3>4. CASE found = {} /\ Return(c, "fault", {})
        BY <1>1, <3>1, <3>2, <3>4, ReturnInv DEF At
      <3> QED
        BY <3>1, <3>3, <3>4
    <2>6. CASE QueryByIdFails(c)
      BY <1>1, <2>6, ReturnInv DEF QueryByIdFails, At
    <2>7. CASE GetUsers(c)
      BY <1>1, <2>7, ReturnInv DEF GetUsers, At, DaoInv, PcFitsOp
    <2>8. CASE GetUsersFails(c)
      BY <1>1, <2>8, ReturnInv DEF GetUsersFails, At, DaoInv, PcFitsOp
    <2> QED
      BY <1>4, <2>1, <2>2, <2>3, <2>4, <2>5, <2>6, <2>7, <2>8 DEF DaoStep
  <1> QED
    BY <1>2, <1>3, <1>4 DEF DaoNext

\* At first no method has begun and nothing is stored or waiting.
LEMMA DaoInvInit == DaoInit => DaoInv
  BY DEF DaoInit, DaoInv, DaoTypeOK, DaoRecord, Idle, PcFitsOp, SequenceAhead, PendingFresh,
     RowsHaveCreators, RowsKeyed, RereadFinds, CreateReturnsOwnUser, ReadsAreDurable, At

\* The inductive invariant holds throughout.
THEOREM Invariance == DaoSpec => []DaoInv
  BY DaoInvInit, DaoInvStep, PTL DEF DaoSpec

\* The table has one row per id and at most one per creation.
THEOREM OneRowPerCreation == DaoSpec => []RowsKeyed
  <1>1. DaoInv => RowsKeyed
    BY DEF DaoInv
  <1> QED
    BY <1>1, Invariance, PTL

\* As long as no id has outgrown the narrow integer, createUser returns the
\* user that it stored, or nullptr, and never faults.
THEOREM CreationReturnsItsUser == DaoSpec => []CreateReturnsOwnUser
  <1>1. DaoInv => CreateReturnsOwnUser
    BY DEF DaoInv
  <1> QED
    BY <1>1, Invariance, PTL

\* What a read has returned stays in the table.
THEOREM DurableReads == DaoSpec => []ReadsAreDurable
  <1>1. DaoInv => ReadsAreDurable
    BY DEF DaoInv
  <1> QED
    BY <1>1, Invariance, PTL

-----------------------------------------------------------------------------
(***************************************************************************)
(* OdbUserDao implements UserDirectory.                                    *)
(***************************************************************************)

\* A method has nothing to show before it returns.
BlankUntilReturn == \A c \in Calls : ~At(c, "returned") => dao[c].users = {}

\* No step hands users to a method before it returns.
LEMMA BlankStep == DaoInv /\ BlankUntilReturn /\ [DaoNext]_daoVars => BlankUntilReturn'
  <1> SUFFICES ASSUME DaoInv, BlankUntilReturn, [DaoNext]_daoVars
               PROVE  BlankUntilReturn'
    OBVIOUS
  <1>1. CASE UNCHANGED daoVars
    BY <1>1 DEF daoVars, BlankUntilReturn, At
  <1>2. ASSUME NEW c \in Calls, NEW op, NEW pc, NEW id, Call(c, op, pc, id)
        PROVE  BlankUntilReturn'
    <2>1. Becomes(c, op, pc, id, "none", {})
      BY <1>2, CallBecomes DEF DaoInv
    <2> QED
      BY <2>1 DEF Becomes, BlankUntilReturn, At
  <1>3. ASSUME NEW c \in Calls, NEW outcome, NEW users, Return(c, outcome, users)
        PROVE  BlankUntilReturn'
    <2>1. Becomes(c, dao[c].op, "returned", dao[c].id, outcome, users)
      BY <1>3, ReturnBecomes DEF DaoInv
    <2> QED
      BY <2>1 DEF Becomes, BlankUntilReturn, At
  <1>4. ASSUME NEW c \in Calls, Persist(c) \/ Commit(c)
        PROVE  BlankUntilReturn'
    <2>1. dao'[c].users = dao[c].users /\ ~At(c, "returned")
      BY <1>4 DEF Persist, Commit, At, DaoInv, DaoTypeOK, DaoRecord
    <2>2. \A d \in Calls \ {c} : dao'[d] = dao[d]
      BY <1>4 DEF Persist, Commit, DaoInv, DaoTypeOK
    <2> QED
      BY <2>1, <2>2 DEF BlankUntilReturn, At
  <1> QED
    BY <1>1, <1>2, <1>3, <1>4
       DEF DaoNext, DaoCall, DaoStep, CallCreateUser, CallGetUserById, CallGetUsers,
           PersistFails, CommitFails, QueryById, QueryByIdFails, GetUsers, GetUsersFails

\* What a step that replaces one operation does to the abstract state.
LEMMA BarOfBecomes ==
    ASSUME NEW c \in Calls, NEW op, NEW pc, NEW id, NEW outcome, NEW users,
           Becomes(c, op, pc, id, outcome, users)
    PROVE  /\ requestBar' = [requestBar EXCEPT ![c] =
                                [op |-> op, id |-> IF op = "getUserById" THEN id ELSE 0]]
           /\ answerBar' = [answerBar EXCEPT ![c] =
                               [state |-> IF pc # "returned" THEN "pending"
                                          ELSE IF outcome \in {"user", "users"} THEN "served"
                                          ELSE "failed",
                                users |-> users]]
  BY DEF Becomes, requestBar, answerBar, At

\* A method that is called is an operation asked for (Call).
LEMMA CallRefines ==
    ASSUME DaoInv, BlankUntilReturn, NEW c \in Calls, NEW op, NEW pc, NEW id,
           <<op, pc>> \in {<<"createUser", "persist">>, <<"getUserById", "query">>,
                           <<"getUsers", "scan">>},
           IF op = "getUserById" THEN id \in LookupIds ELSE id = 0,
           Call(c, op, pc, id)
    PROVE  Directory!Ask(c)
  <1>1. Becomes(c, op, pc, id, "none", {})
    BY CallBecomes DEF DaoInv
  <1>2. UNCHANGED rows /\ At(c, "idle") /\ dao[c].op = "none"
    BY DEF Call, DaoInv, PcFitsOp
  <1>3. answerBar[c] = [state |-> "pending", users |-> {}]
    BY <1>2 DEF answerBar, BlankUntilReturn, At
  <1>4. UNCHANGED answerBar
    <2>1. op # "none" /\ pc # "returned"
      OBVIOUS
    <2>2. answerBar' = [answerBar EXCEPT ![c] = answerBar[c]]
      BY <1>1, <1>3, <2>1, BarOfBecomes
    <2>3. [answerBar EXCEPT ![c] = answerBar[c]] = answerBar
      BY DEF answerBar
    <2> QED
      BY <2>2, <2>3
  <1>5. requestBar[c] = Directory!NoRequest
    BY <1>2 DEF requestBar, Directory!NoRequest
  <1>6. [op |-> op, id |-> IF op = "getUserById" THEN id ELSE 0] \in Directory!Requests
    BY DEF Directory!Requests
  <1> QED
    BY <1>1, <1>2, <1>4, <1>5, <1>6, BarOfBecomes DEF Directory!Ask

\* A method that returns answers a request that was waiting (Return).
LEMMA ReturnBar ==
    ASSUME DaoInv, BlankUntilReturn, NEW c \in Calls, NEW outcome, NEW users,
           ~At(c, "idle"), ~At(c, "returned"), Return(c, outcome, users)
    PROVE  /\ Directory!Waits(c, dao[c].op)
           /\ requestBar[c] # Directory!NoRequest
           /\ UNCHANGED requestBar
           /\ answerBar' = [answerBar EXCEPT ![c] =
                 IF outcome \in {"user", "users"} THEN Directory!Served(users)
                 ELSE [state |-> "failed", users |-> users]]
  <1>1. Becomes(c, dao[c].op, "returned", dao[c].id, outcome, users)
    BY ReturnBecomes DEF DaoInv
  <1>2. dao[c].op \in {"createUser", "getUserById", "getUsers"}
    BY DEF DaoInv, PcFitsOp, DaoTypeOK, DaoRecord, At
  <1>3. Directory!Waits(c, dao[c].op) /\ requestBar[c] # Directory!NoRequest
    BY <1>2 DEF Directory!Waits, Directory!Pending, Directory!NoRequest, requestBar, answerBar,
       BlankUntilReturn
  <1>4. UNCHANGED requestBar
    <2>1. requestBar[c] = [op |-> dao[c].op,
                           id |-> IF dao[c].op = "getUserById" THEN dao[c].id ELSE 0]
      BY DEF requestBar
    <2>2. requestBar' = [requestBar EXCEPT ![c] = requestBar[c]]
      BY <1>1, <2>1, BarOfBecomes
    <2>3. [requestBar EXCEPT ![c] = requestBar[c]] = requestBar
      BY DEF requestBar
    <2> QED
      BY <2>2, <2>3
  <1> QED
    BY <1>1, <1>3, <1>4, BarOfBecomes DEF Directory!Served

\* A method that ends without a user is a call that failed (null pointers and
\* exceptions of all three).
LEMMA FailureRefines ==
    ASSUME DaoInv, BlankUntilReturn, NEW c \in Calls, NEW outcome \in {"null", "throw", "fault"},
           ~At(c, "idle"), ~At(c, "returned"), Return(c, outcome, {}), UNCHANGED rows
    PROVE  Directory!Fail(c)
  BY ReturnBar DEF Directory!Fail, Directory!Failed, Directory!Tell, Directory!Waits

\* The commit is the moment at which the user is stored (Commit, CommitFails).
LEMMA CommitRefines ==
    ASSUME DaoInv, BlankUntilReturn, NEW c \in Calls, At(c, "commit"),
           rows' = rows \cup {NewRow(c)}, UNCHANGED requestBar,
           answerBar' \in {answerBar, [answerBar EXCEPT ![c] = Directory!Failed]}
    PROVE  Directory!Insert(c)
  <1>1. /\ dao[c].op = "createUser"
        /\ dao[c].id \in 1 .. (nextId - 1)
        /\ dao[c].id \notin IdsOf(rows)
        /\ OwnedBy(c, rows) = {}
    BY DEF DaoInv, PcFitsOp, SequenceAhead, PendingFresh, RowsHaveCreators, At, OwnedBy
  <1>2. Directory!Waits(c, "createUser")
    BY <1>1 DEF Directory!Waits, Directory!Pending, requestBar, answerBar, BlankUntilReturn, At
  <1> QED
    BY <1>1, <1>2 DEF Directory!Insert, Directory!OwnedBy, Directory!IdsOf, OwnedBy, IdsOf, NewRow

\* Rows are never taken out of the table (all of DaoNext).
LEMMA RowsGrow == [DaoNext]_daoVars => rows \subseteq rows'
  BY DEF DaoNext, daoVars, DaoCall, CallCreateUser, CallGetUserById, CallGetUsers, Call, DaoStep,
     Persist, PersistFails, Commit, CommitFails, QueryById, QueryByIdFails, GetUsers, GetUsersFails

\* Every step is a step of the directory or leaves it as it is, while every
\* stored id has a name.
LEMMA StepRefines ==
    ASSUME DaoInv, BlankUntilReturn, Unwrapped', [DaoNext]_daoVars
    PROVE  [Directory!Next]_(Directory!directoryVars)
  <1> USE DEF Directory!directoryVars
  <1>0. Unwrapped
    BY RowsGrow DEF Unwrapped
  <1>1. CASE UNCHANGED daoVars
    BY <1>1 DEF daoVars, requestBar, answerBar, At, voidBar, Unwrapped
  <1>2. ASSUME NEW c \in Calls, DaoCall(c)
        PROVE  Directory!Ask(c)
    <2>1. CASE CallCreateUser(c)
      BY <2>1, CallRefines DEF CallCreateUser
    <2>2. ASSUME NEW id \in LookupIds, CallGetUserById(c, id)
          PROVE  Directory!Ask(c)
      BY <2>2, CallRefines DEF CallGetUserById
    <2>3. CASE CallGetUsers(c)
      BY <2>3, CallRefines DEF CallGetUsers
    <2> QED
      BY <1>2, <2>1, <2>2, <2>3 DEF DaoCall
  <1>3. ASSUME NEW c \in Calls, DaoStep(c)
        PROVE  Directory!Serve(c) \/ UNCHANGED <<rows, requestBar, answerBar>>
    <2>1. CASE Persist(c)
      <3>1. UNCHANGED rows /\ dao[c].op = "createUser" /\ dao[c].pc = "persist"
        BY <2>1 DEF Persist, DaoInv, PcFitsOp, At
      <3>2. Becomes(c, "createUser", "commit", nextId, dao[c].outcome, dao[c].users)
        BY <2>1, <3>1 DEF Persist, Becomes, DaoInv, DaoTypeOK, DaoRecord
      <3>3. UNCHANGED requestBar
        BY <3>1, <3>2 DEF Becomes, requestBar
      <3>4. UNCHANGED answerBar
        BY <3>1, <3>2 DEF Becomes, answerBar, At
      <3> QED
        BY <3>1, <3>3, <3>4
    <2>2. CASE PersistFails(c)
      BY <2>2, FailureRefines DEF PersistFails, At, Directory!Serve
    <2>3. CASE Commit(c)
      <3>1. dao[c].op = "createUser" /\ dao[c].pc = "commit"
        BY <2>3 DEF Commit, DaoInv, PcFitsOp, At
      <3>2. Becomes(c, "createUser", "query", Narrow(dao[c].id), dao[c].outcome, dao[c].users)
        BY <2>3, <3>1 DEF Commit, Becomes, DaoInv, DaoTypeOK, DaoRecord
      <3>3. UNCHANGED requestBar
        BY <3>1, <3>2 DEF Becomes, requestBar
      <3>4. UNCHANGED answerBar
        BY <3>1, <3>2 DEF Becomes, answerBar, At
      <3> QED
        BY <2>3, <3>3, <3>4, CommitRefines DEF Commit, Directory!Serve
    <2>4. CASE CommitFails(c)
      <3>1. CASE rows' = rows
        BY <2>4, <3>1, FailureRefines DEF CommitFails, At, Directory!Serve
      <3>2. CASE rows' = rows \cup {NewRow(c)}
        <4>1. /\ UNCHANGED requestBar
              /\ answerBar' = [answerBar EXCEPT ![c] = Directory!Failed]
          BY <2>4, ReturnBar DEF CommitFails, At, Directory!Failed
        <4> QED
          BY <2>4, <3>2, <4>1, CommitRefines DEF CommitFails, Directory!Serve
      <3> QED
        BY <2>4, <3>1, <3>2 DEF CommitFails
    <2>5. CASE QueryById(c)
      <3> DEFINE found == {u \in rows : u.id = dao[c].id}
      <3>1. /\ At(c, "query") /\ UNCHANGED rows
            /\ \/ found # {} /\ Return(c, "user", found)
               \/ found = {} /\ Return(c, "fault", {})
        BY <2>5 DEF QueryById
      <3>2. CASE found # {} /\ Return(c, "user", found)
        <4>1. dao[c].op \in {"createUser", "getUserById"}
          BY <3>1 DEF DaoInv, PcFitsOp
        <4>2. /\ Directory!Waits(c, dao[c].op)
              /\ Directory!Tell(c, Directory!Served(found))
          <5> HIDE DEF found
          <5> QED
            BY <3>1, <3>2, ReturnBar DEF Directory!Tell, At
        <4>3. CASE dao[c].op = "createUser"
          <5>1. NewRow(c) \in rows
            BY <1>0, <3>1, <4>3 DEF DaoInv, RereadFinds
          <5>2. \A u \in rows : u.id = dao[c].id \/ u.name = c => u = NewRow(c)
            BY <5>1 DEF DaoInv, RowsKeyed, NewRow
          <5>3. found = Directory!OwnedBy(c, rows) /\ found # {}
            BY <5>1, <5>2 DEF NewRow, Directory!OwnedBy
          <5>4. Directory!AnswerCreated(c)
            BY <4>2, <4>3, <5>3 DEF Directory!AnswerCreated
          <5> QED
            BY <5>4 DEF Directory!Serve
        <4>4. CASE dao[c].op = "getUserById"
          <5>1. PICK u \in rows : u.id = dao[c].id
            BY <3>2
          <5>2. found = {u}
            BY <5>1 DEF DaoInv, RowsKeyed
          <5>3. u.id = requestBar[c].id
            BY <4>4, <5>1 DEF requestBar
          <5>4. Directory!AnswerFound(c)
            BY <4>2, <4>4, <5>2, <5>3 DEF Directory!AnswerFound
          <5> QED
            BY <5>4 DEF Directory!Serve
        <4> QED
          BY <4>1, <4>3, <4>4
      <3>3. CASE found = {} /\ Return(c, "fault", {})
        BY <3>1, <3>3, FailureRefines DEF At, Directory!Serve
      <3> QED
        BY <3>1, <3>2, <3>3
    <2>6. CASE QueryByIdFails(c)
      BY <2>6, FailureRefines DEF QueryByIdFails, At, Directory!Serve
    <2>7. CASE GetUsers(c)
      <3>1. dao[c].op = "getUsers"
        BY <2>7 DEF GetUsers, DaoInv, PcFitsOp
      <3> QED
        BY <2>7, <3>1, ReturnBar
           DEF GetUsers, At, Directory!AnswerAll, Directory!Tell, Directory!Serve
    <2>8. CASE GetUsersFails(c)
      BY <2>8, FailureRefines DEF GetUsersFails, At, Directory!Serve
    <2> QED
      BY <1>3, <2>1, <2>2, <2>3, <2>4, <2>5, <2>6, <2>7, <2>8 DEF DaoStep
  <1>4. UNCHANGED voidBar
    BY <1>0 DEF voidBar
  <1> QED
    BY <1>1, <1>2, <1>3, <1>4 DEF DaoNext, Directory!Next, Directory!Serve

\* At first nobody has asked and the directory is empty.
LEMMA InitRefines == DaoInit => Directory!Init
  BY DEF DaoInit, Directory!Init, Idle, requestBar, answerBar, Directory!NoRequest,
     Directory!Pending, At, voidBar, Unwrapped

\* OdbUserDao is a UserDirectory: every operation takes effect at one moment and
\* answers accordingly, until an id is stored that the narrow integer cannot hold.
THEOREM Refinement == DaoSpec => ImplementsDirectory
  <1>1. DaoInit => DaoInv /\ BlankUntilReturn
    BY DaoInvInit DEF DaoInit, BlankUntilReturn, Idle
  <1>2. DaoInv /\ BlankUntilReturn /\ [DaoNext]_daoVars => (DaoInv /\ BlankUntilReturn)'
    BY DaoInvStep, BlankStep
  <1>3. DaoInv /\ BlankUntilReturn /\ [DaoNext]_daoVars
            => [Directory!Next]_(Directory!directoryVars)
    BY StepRefines DEF Directory!Next, voidBar
  <1> QED
    BY <1>1, <1>2, <1>3, InitRefines, PTL DEF DaoSpec, ImplementsDirectory, Directory!Spec
=============================================================================

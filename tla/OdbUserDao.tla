----------------------------- MODULE OdbUserDao -----------------------------
(***************************************************************************)
(* The data access object that the user manager runs on: OdbUserDao over a *)
(* PostgreSQL table.  Any number of handler threads are inside it at once, *)
(* each with a transaction of its own.  A step below is one round trip to  *)
(* the database, the granularity at which threads interleave.              *)
(*                                                                         *)
(* getUserById and getUsers read inside one transaction that writes        *)
(* nothing: begin, query and commit are one step, since no other thread    *)
(* can tell them apart and each of the three fails in the same way.        *)
(***************************************************************************)
EXTENDS UserTypes, Integers

CONSTANT IdModulus    \* 2^16: the values of the uint16_t that receives a new id

ASSUME IdModulusAssumption == IdModulus \in Nat \ {0}

VARIABLES
    rows,     \* the committed rows of the table User
    nextId,   \* the sequence behind the auto id: the id of the next INSERT
    dao       \* dao[c] = the DAO operation of call c

daoVars == <<rows, nextId, dao>>

Idle == [op |-> "none", pc |-> "idle", id |-> 0, outcome |-> "none", users |-> {}]

DaoInit ==
    /\ rows = {}
    /\ nextId = 1
    /\ dao = [c \in Calls |-> Idle]

At(c, pc) == dao[c].pc = pc

\* The method of call c returns users, the null pointer ("null"), throws an
\* odb::exception ("throw"), or dereferences the null pointer ("fault").
Return(c, outcome, users) ==
    dao' = [dao EXCEPT ![c] = [@ EXCEPT !.pc = "returned", !.outcome = outcome,
                                        !.users = users]]

Call(c, op, pc, id) ==
    /\ At(c, "idle")
    /\ dao' = [dao EXCEPT ![c] = [Idle EXCEPT !.op = op, !.pc = pc, !.id = id]]
    /\ UNCHANGED <<rows, nextId>>

CallCreateUser(c)      == Call(c, "createUser", "persist", 0)
CallGetUserById(c, id) == Call(c, "getUserById", "query", id)
CallGetUsers(c)        == Call(c, "getUsers", "scan", 0)

-----------------------------------------------------------------------------
\* Fault: the smallest id that is not in the table.
PersistSmallestFree(c) ==
    /\ At(c, "persist")
    /\ \E id \in 1 .. nextId :
          /\ \A j \in 1 .. nextId : j \notin IdsOf(rows) => id <= j
          /\ id \notin IdsOf(rows)
          /\ dao' = [dao EXCEPT ![c].pc = "commit", ![c].id = id]
    /\ nextId' = nextId + 1
    /\ UNCHANGED rows

\* createUser: begin and persist.  The INSERT takes its id from the sequence.
Persist(c) ==
    /\ At(c, "persist")
    /\ dao' = [dao EXCEPT ![c].pc = "commit", ![c].id = nextId]
    /\ nextId' = nextId + 1
    /\ UNCHANGED rows

\* begin or persist throws; createUser catches and returns nullptr.  A sequence
\* value that the failed INSERT took is not given back.
PersistFails(c) ==
    /\ At(c, "persist")
    /\ nextId' \in {nextId, nextId + 1}
    /\ Return(c, "null", {})
    /\ UNCHANGED rows

NewRow(c) == [id |-> dao[c].id, name |-> c]

\* Fault: a signed integer of the same width.
NarrowSigned(id) ==
    IF id % IdModulus <= IdModulus \div 2 THEN id % IdModulus ELSE (id % IdModulus) - IdModulus

\* std::uint16_t id = persist(...): what is left of a 64-bit id.
Narrow(id) == id % IdModulus

\* Fault: the transaction goes out of scope without t.commit().
CommitForgotten(c) ==
    /\ At(c, "commit")
    /\ dao' = [dao EXCEPT ![c].pc = "query", ![c].id = Narrow(@)]
    /\ UNCHANGED <<rows, nextId>>

\* The transaction commits; createUser goes on to getUserById(id).
Commit(c) ==
    /\ At(c, "commit")
    /\ rows' = rows \cup {NewRow(c)}
    /\ dao' = [dao EXCEPT ![c].pc = "query", ![c].id = Narrow(@)]
    /\ UNCHANGED nextId

\* Fault: a commit that throws is tried again as a new creation.
CommitRetried(c) ==
    /\ At(c, "commit")
    /\ rows' \in {rows, rows \cup {NewRow(c)}}
    /\ dao' = [dao EXCEPT ![c].pc = "persist", ![c].id = 0]
    /\ UNCHANGED nextId

\* commit throws: rolled back, or committed with the acknowledgement lost.
CommitFails(c) ==
    /\ At(c, "commit")
    /\ rows' \in {rows, rows \cup {NewRow(c)}}
    /\ Return(c, "null", {})
    /\ UNCHANGED nextId

-----------------------------------------------------------------------------
\* Fault: a query that falls back to any row.
QueryAnyRow(c) ==
    /\ At(c, "query")
    /\ \/ \E u \in rows : Return(c, "user", {u})
       \/ rows = {} /\ Return(c, "fault", {})
    /\ UNCHANGED <<rows, nextId>>

\* getUserById, called by the service or by createUser.  query_one yields the
\* null pointer when no row has the id, and it is dereferenced unchecked.
QueryById(c) ==
    /\ At(c, "query")
    /\ LET found == {u \in rows : u.id = dao[c].id} IN
       \/ found # {} /\ Return(c, "user", found)
       \/ found = {} /\ Return(c, "fault", {})
    /\ UNCHANGED <<rows, nextId>>

\* getUserById throws; only createUser has a handler around it.
QueryByIdFails(c) ==
    /\ At(c, "query")
    /\ Return(c, IF dao[c].op = "createUser" THEN "null" ELSE "throw", {})
    /\ UNCHANGED <<rows, nextId>>

\* Fault: rows that are not committed yet are read as well.
GetUsersUncommitted(c) ==
    /\ At(c, "scan")
    /\ Return(c, "users", rows \cup {NewRow(d) : d \in {e \in Calls : At(e, "commit")}})
    /\ UNCHANGED <<rows, nextId>>

GetUsers(c) ==
    /\ At(c, "scan")
    /\ Return(c, "users", rows)
    /\ UNCHANGED <<rows, nextId>>

GetUsersFails(c) ==
    /\ At(c, "scan")
    /\ Return(c, "throw", {})
    /\ UNCHANGED <<rows, nextId>>

DaoStep(c) ==
    \/ Persist(c)
    \/ PersistFails(c)
    \/ Commit(c)
    \/ CommitFails(c)
    \/ QueryById(c)
    \/ QueryByIdFails(c)
    \/ GetUsers(c)
    \/ GetUsersFails(c)

\* The DAO by itself, under callers that call it in every possible way.
DaoCall(c) ==
    \/ CallCreateUser(c)
    \/ \E id \in LookupIds : CallGetUserById(c, id)
    \/ CallGetUsers(c)

DaoNext == \E c \in Calls : DaoCall(c) \/ DaoStep(c)

DaoSpec == DaoInit /\ [][DaoNext]_daoVars

-----------------------------------------------------------------------------
(***************************************************************************)
(* Properties.                                                             *)
(***************************************************************************)

DaoRecord ==
    [op      : {"none", "createUser", "getUserById", "getUsers"},
     pc      : {"idle", "persist", "commit", "query", "scan", "returned"},
     id      : Nat,
     outcome : {"none", "user", "users", "null", "throw", "fault"},
     users   : SUBSET User]

\* Every variable has its type (the members of OdbUserDao and of User).
DaoTypeOK ==
    /\ rows \subseteq User
    /\ nextId \in Nat \ {0}
    /\ dao \in [Calls -> DaoRecord]

\* No user is stored under an id that a uint16_t cannot hold.
Unwrapped == \A u \in rows : u.id < IdModulus

\* However creations interleave and fail, the table has one row per id, and one
\* creation leaves at most one row (persist and commit in createUser).
RowsKeyed ==
    \A u, v \in rows : (u.id = v.id \/ u.name = v.name) => u = v

\* createUser hands its caller the very user it stored, and never dies on the
\* re-read, as long as ids fit in 16 bits (getUserById after commit).
CreateReturnsOwnUser ==
    Unwrapped => \A c \in Calls :
        dao[c].op = "createUser" /\ At(c, "returned") =>
            /\ dao[c].outcome \in {"user", "null"}
            /\ dao[c].outcome = "user" =>
                  dao[c].users = OwnedBy(c, rows) /\ dao[c].users # {}

\* What the service logs after every createUser that returns -- "User .. created"
\* -- taken at its word: the user that comes back is the one that was created.
CreatedUserIsTheOneReported ==
    \A c \in Calls :
        dao[c].op = "createUser" /\ dao[c].outcome = "user" =>
            \A u \in dao[c].users : u.name = c

\* A user that a reader was given is in the table for good: nothing returned
\* by a read was seen before its commit or disappears afterwards.
ReadsAreDurable ==
    \A c \in Calls : At(c, "returned") => dao[c].users \subseteq rows

-----------------------------------------------------------------------------
(***************************************************************************)
(* The inductive invariant: why the properties above hold.                 *)
(***************************************************************************)

\* An operation is where its method can be.
PcFitsOp == \A c \in Calls :
    /\ At(c, "idle") => dao[c].op = "none"
    /\ At(c, "persist") \/ At(c, "commit") => dao[c].op = "createUser"
    /\ At(c, "query") => dao[c].op \in {"createUser", "getUserById"}
    /\ At(c, "scan") => dao[c].op = "getUsers"

\* The sequence is ahead of every id it has given out, committed or not.
SequenceAhead ==
    /\ \A u \in rows : u.id \in 1 .. (nextId - 1)
    /\ \A c \in Calls : At(c, "commit") => dao[c].id \in 1 .. (nextId - 1)

\* A row that is yet to be committed will not collide with any other.
PendingFresh == \A c \in Calls : At(c, "commit") =>
    /\ dao[c].id \notin IdsOf(rows)
    /\ \A d \in Calls : At(d, "commit") /\ dao[d].id = dao[c].id => d = c

\* A row was committed by the creation whose name it bears.
RowsHaveCreators == \A u \in rows :
    /\ dao[u.name].op = "createUser"
    /\ dao[u.name].pc \in {"query", "returned"}

\* A creation that goes on to its re-read finds its row, unless its id wrapped.
RereadFinds ==
    Unwrapped => \A c \in Calls :
        dao[c].op = "createUser" /\ At(c, "query") => NewRow(c) \in rows

\* The invariant as a whole: an id is handed out once, stays ahead of the table
\* until its commit, and leads the re-read in createUser back to its own row.
DaoInv ==
    /\ DaoTypeOK
    /\ PcFitsOp
    /\ SequenceAhead
    /\ PendingFresh
    /\ RowsHaveCreators
    /\ RowsKeyed
    /\ RereadFinds
    /\ CreateReturnsOwnUser
    /\ ReadsAreDurable

-----------------------------------------------------------------------------
(***************************************************************************)
(* OdbUserDao implements UserDirectory, on terms that ids fit in 16 bits.  *)
(***************************************************************************)
requestBar ==
    [c \in Calls |->
        [op |-> dao[c].op,
         id |-> IF dao[c].op = "getUserById" THEN dao[c].id ELSE 0]]

answerBar ==
    [c \in Calls |->
        [state |-> IF ~At(c, "returned") THEN "pending"
                   ELSE IF dao[c].outcome \in {"user", "users"} THEN "served"
                   ELSE "failed",
         users |-> dao[c].users]]

\* The terms: every stored id fits in the integer that createUser reads it into.
voidBar == ~Unwrapped

Directory == INSTANCE UserDirectory
    WITH Seeds <- {},
         users <- rows, request <- requestBar, answer <- answerBar, void <- voidBar

\* OdbUserDao honours IUserDao: every operation takes effect at one moment and
\* answers accordingly (UserDirectory), whatever fails and interleaves, until
\* an id outgrows the narrow integer of createUser.
ImplementsDirectory == Directory!Spec
=============================================================================

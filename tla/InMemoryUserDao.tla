--------------------------- MODULE InMemoryUserDao ---------------------------
(***************************************************************************)
(* The other implementation of IUserDao: a hash map of users inside the    *)
(* process, filled with three users when it is built, and ids from the     *)
(* static sequence of getNextId.  main.cc of the user manager names it in  *)
(* a comment and builds OdbUserDao instead.                                *)
(*                                                                         *)
(* Neither the map nor the sequence is locked.  The increment and the      *)
(* insertion are each a read and a later write; a call that gets to the    *)
(* sequence or to the map between the two of another call races with it.   *)
(* What a race can leave behind is chosen among what the build can do: two *)
(* calls draw one id; a lookup of the place goes out of date, so that the  *)
(* map ends up with two users under one id, or without a user that was     *)
(* linked in meanwhile; or the caller faults.                              *)
(***************************************************************************)
EXTENDS UserTypes

Seeds == {[id |-> 0, name |-> "user1"], [id |-> 1, name |-> "user2"], [id |-> 2, name |-> "user3"]}

\* No caller is named like a user of the constructor, so that the name of a
\* user tells who stored it.
ASSUME SeedNamesAssumption == \A u \in Seeds : u.name \notin Calls

VARIABLES
    users,        \* the map: users, by their ids
    idSequence,   \* id_sequences["UserEntity"]
    call,         \* call[c] = the method that call c is inside
    raced         \* history: two calls have met in the sequence or in the map

memoryVars == <<users, idSequence, call, raced>>

\* seen: what a createUser has read of the map so far.
NotCalled ==
    [op |-> "none", pc |-> "idle", id |-> 0, seen |-> {}, outcome |-> "none", users |-> {}]

\* The constructor takes the first ids of the sequence, before any call.
MemoryInit ==
    /\ users = Seeds
    /\ idSequence = 3
    /\ call = [c \in Calls |-> NotCalled]
    /\ raced = FALSE

Enter(c, op, pc, id) ==
    /\ call[c] = NotCalled
    /\ call' = [call EXCEPT ![c] = [NotCalled EXCEPT !.op = op, !.pc = pc, !.id = id]]
    /\ UNCHANGED <<users, idSequence, raced>>

CallGetUsers(c)    == Enter(c, "getUsers", "map", 0)
CallGetUserById(c) == \E id \in LookupIds : Enter(c, "getUserById", "map", id)
CallCreateUser(c)  == Enter(c, "createUser", "sequence", 0)

Goes(c, pc, id, seen) ==
    call' = [call EXCEPT ![c] = [@ EXCEPT !.pc = pc, !.id = id, !.seen = seen]]

Return(c, outcome, s) ==
    /\ call' = [call EXCEPT ![c] = [@ EXCEPT !.pc = "returned", !.seen = {}, !.outcome = outcome,
                                             !.users = s]]
    /\ UNCHANGED idSequence

\* Another call is between its read and its write, at pc, when c gets there.
Meets(c, pc) == \E d \in Calls \ {c} : call[d].pc = pc

-----------------------------------------------------------------------------
\* id_sequences[key]++: the read ..
ReadSequence(c) ==
    /\ call[c].pc = "sequence"
    /\ Goes(c, "increment", idSequence, {})
    /\ raced' = (raced \/ Meets(c, "increment"))
    /\ UNCHANGED <<users, idSequence>>

\* .. and the write.
WriteSequence(c) ==
    /\ call[c].pc = "increment"
    /\ idSequence' = call[c].id + 1
    /\ Goes(c, "map", call[c].id, {})
    /\ UNCHANGED <<users, raced>>

\* users.insert: it looks for the id ..
FindPlace(c) ==
    /\ call[c].op = "createUser"
    /\ call[c].pc = "map"
    /\ Goes(c, "insert", call[c].id, users)
    /\ raced' = (raced \/ Meets(c, "insert"))
    /\ UNCHANGED <<users, idSequence>>

\* .. and, unless it has found the id taken, links the new user into the map as
\* that is by now.  Users whose links were made since may be lost.
Insert(c) ==
    /\ call[c].pc = "insert"
    /\ LET new   == [id |-> call[c].id, name |-> c]
           taken == {u \in call[c].seen : u.id = call[c].id}
       IN \/ /\ taken = {}
             /\ \E lost \in SUBSET (users \ call[c].seen) : users' = (users \ lost) \cup {new}
             /\ Goes(c, "copy", call[c].id, {new})
          \/ /\ UNCHANGED users
             /\ \E u \in taken : Goes(c, "copy", call[c].id, {u})
    /\ UNCHANGED <<idSequence, raced>>

\* Fault: the answer is a copy of the user that has the latest id.
CopyLatest(c) ==
    /\ call[c].pc = "copy"
    /\ UNCHANGED <<users, raced>>
    /\ Return(c, "user", {u \in users : u.id = idSequence - 1})

\* The answer is a copy of the user that has the id, whoever created it.
CopyResult(c) ==
    /\ call[c].pc = "copy"
    /\ UNCHANGED <<users, raced>>
    /\ Return(c, "user", call[c].seen)

\* Fault: users[id], which adds an empty user where there is none.
GetUserByIndex(c) ==
    /\ call[c].op = "getUserById"
    /\ call[c].pc = "map"
    /\ raced' = (raced \/ Meets(c, "insert"))
    /\ LET found == {u \in users : u.id = call[c].id}
           blank == [id |-> call[c].id, name |-> ""]
       IN \/ found # {} /\ UNCHANGED users /\ Return(c, "user", found)
          \/ found = {} /\ users' = users \cup {blank} /\ Return(c, "user", {blank})

\* users.at(id): a copy of a user with the id, or std::out_of_range.
GetUserById(c) ==
    /\ call[c].op = "getUserById"
    /\ call[c].pc = "map"
    /\ UNCHANGED users
    /\ raced' = (raced \/ Meets(c, "insert"))
    /\ LET found == {u \in users : u.id = call[c].id} IN
       \/ \E u \in found : Return(c, "user", {u})
       \/ found = {} /\ Return(c, "throw", {})

GetUsers(c) ==
    /\ call[c].op = "getUsers"
    /\ call[c].pc = "map"
    /\ UNCHANGED users
    /\ raced' = (raced \/ Meets(c, "insert"))
    /\ Return(c, "users", users)

\* A call that meets another in the map faults.
RaceInMap(c) ==
    /\ call[c].pc \in {"map", "insert"}
    /\ Meets(c, "insert")
    /\ raced' = TRUE
    /\ UNCHANGED users
    /\ Return(c, "fault", {})

MemoryStep(c) ==
    \/ CallGetUsers(c)
    \/ CallGetUserById(c)
    \/ CallCreateUser(c)
    \/ ReadSequence(c)
    \/ WriteSequence(c)
    \/ FindPlace(c)
    \/ Insert(c)
    \/ CopyResult(c)
    \/ GetUserById(c)
    \/ GetUsers(c)
    \/ RaceInMap(c)

MemorySpec == MemoryInit /\ [][\E c \in Calls : MemoryStep(c)]_memoryVars

-----------------------------------------------------------------------------
(***************************************************************************)
(* Properties.                                                             *)
(***************************************************************************)

\* Every variable has its type.
MemoryTypeOK ==
    LET Stored == [id : Nat, name : Calls \cup {"user1", "user2", "user3"}] IN
    /\ users \subseteq Stored
    /\ idSequence \in Nat
    /\ call \in [Calls ->
          [op      : {"none", "createUser", "getUserById", "getUsers"},
           pc      : {"idle", "sequence", "increment", "map", "insert", "copy", "returned"},
           id      : Nat,
           seen    : SUBSET Stored,
           outcome : {"none", "user", "users", "throw", "fault"},
           users   : SUBSET Stored]]
    /\ raced \in BOOLEAN

-----------------------------------------------------------------------------
(***************************************************************************)
(* InMemoryUserDao implements UserDirectory, on terms that no two calls    *)
(* meet in the sequence or in the map.                                     *)
(***************************************************************************)
requestBar ==
    [c \in Calls |->
        [op |-> call[c].op,
         id |-> IF call[c].op = "getUserById" THEN call[c].id ELSE 0]]

answerBar ==
    [c \in Calls |->
        [state |-> IF call[c].pc # "returned" THEN "pending"
                   ELSE IF call[c].outcome \in {"user", "users"} THEN "served"
                   ELSE "failed",
         users |-> call[c].users]]

Directory == INSTANCE UserDirectory
    WITH request <- requestBar, answer <- answerBar, void <- raced

\* However calls overlap, as long as no two of them meet inside the increment or
\* inside the map, InMemoryUserDao honours IUserDao: createUser gives out new ids
\* behind those of the constructor's users and answers with its own user, though
\* others draw ids and store between its three steps; and what is stored stays.
RaceFreeImplementsDirectory == Directory!Spec
=============================================================================

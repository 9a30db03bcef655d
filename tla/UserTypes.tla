----------------------------- MODULE UserTypes -----------------------------
(***************************************************************************)
(* The data that the two services exchange.  A user is stored by the user  *)
(* manager, sent as a UserResponse and shown by the gateway as a UserDto;  *)
(* the three carry the same id and name.  The password never leaves the    *)
(* user manager and `created' is rewritten by the mappers: neither decides *)
(* anything in the protocol, so both are abstracted away here.             *)
(*                                                                         *)
(* Every call that creates a user writes its own identifier as the name,   *)
(* so that a row, a reply or an answer can be traced to its origin.        *)
(***************************************************************************)
EXTENDS Naturals

CONSTANTS
    Calls,       \* the calls made on the user manager, each made once
    LookupIds    \* the ids that callers look up

ASSUME LookupIdsAssumption == LookupIds \subseteq Nat

User == [id : Nat, name : Calls]

IdsOf(users) == {u.id : u \in users}

OwnedBy(c, users) == {u \in users : u.name = c}
=============================================================================

# A TLA+ development of o11y-otel-instrumentation

`o11y-otel-instrumentation` is a two-service demonstration program: a REST
gateway and a gRPC user manager over PostgreSQL, instrumented with logs, traces
and metrics.  This directory holds TLA+ models of its behaviour, TLC
configurations that check them on small instances, and TLAPS proofs of what
holds for every instance.

## 1. The system

```
 HTTP client ──▶ gateway ──gRPC──▶ user manager (replicas) ──▶ PostgreSQL
                 restbed workers    server threads, handlers     table User
```

| Component (under `src/`) | State it keeps | Operations | Interacts with |
|---|---|---|---|
| `user_manager/src/OdbUserDao.cc` | rows of the table, the id sequence, one transaction per thread | `createUser`, `getUserById`, `getUsers` | called by handlers; one round trip to the database per step |
| `user_manager/src/InMemoryUserDao.cc`, `getNextId` in `common/src/services.cc` | an unlocked map, an unlocked sequence | the same three | an alternative that `main.cc` names in a comment |
| `user_manager/src/UserService.cc`, `main.cc` | `requestCounter`, handler threads | `ReadUsers` (stream), `ReadUser`, `CreateUser` | called over gRPC; calls the DAO; writes replies |
| `protos/User.proto` | remote calls under way | three methods | stub in the gateway, server in the user manager |
| `gateway/src/services.cc` | none of its own | the stub side of the three methods | blocks a gateway worker per call |
| `gateway/src/controllers.cc`, `common/.../RestController.h`, `http_helper.h` | `requestCounter`, HTTP sessions | `GET /users`, `POST /users`, `GET /users/{id}` | called by restbed workers; body callbacks |
| `common/src/mappers.cc`, `user_manager/src/mappers.cc`, `odb_pgsql_mappers.h`, `common/.../model` | none | time, protobuf, table and JSON conversions | on the way of every user |
| `common/src/observability.cc`, `tracer_commons.h` | per-thread context stacks, spans, exporters, sinks | set-up; scopes, inject, extract, log records | every handler |
| `common/src/commons.cc`, `config_parser.h`, both `main.cc`, `initDatabase` | `ConfigHolder` | options, YAML file, environment; the start of a service | before any request |

What makes it hard: handler threads of several replicas interleave at database
round trips; a round trip fails before or after it took effect; a null pointer
takes a whole process, and with it the calls of other clients; gRPC calls break
while their handler goes on; a gateway worker waits without a deadline; a
request body may arrive after the handler that asked for it has returned; ids
and times pass through 64-bit, 32-bit, 16-bit and text forms; instruments keep
the provider that was set when they were built, so the order of a service's
start matters; and a configuration file replaces all defaults at once.

What makes each part correct:

* **DAO** - one row per id and per creation; `createUser` returns the user it
  stored; reads show committed rows; each operation looks atomic.
* **User manager** - a call answered with OK is true of the table for good;
  nothing is stored twice; a crash ends its calls and nothing else; every call
  ends.
* **Gateway** - a 200 answer shows the user that was asked for, or created; a
  list is complete when its call ended well; a rejected request has no effect;
  every session ends; messages and counters say what happened.
* **Times** - the table keeps the time of creation; what the gateway shows is
  near it.
* **Tracing** - a span hangs under its own request's span and never under what
  an earlier request left on the thread; log records become events of a span of
  their own request that is still open, and bear its ids where their logger has
  any; spans end inside out, once, or die with their
  process; one trace per request.
* **Start** - a service that serves has what its configuration turns on and
  nothing else, on real instruments, and talks to the peers that it was told;
  only a mistake in the configuration keeps it from its port.

The hazards, with their lines, are listed in `PROJECT.json`.

## 2. Modules

| Module | Models | Uses |
|---|---|---|
| `UserTypes` | the data that is passed on | - |
| `UserDirectory` | abstract specification: what `IUserDao` promises | `UserTypes` |
| `OdbUserDao` | the DAO over PostgreSQL, its properties and inductive invariant | `UserTypes`, refines `UserDirectory` |
| `InMemoryUserDao` | the DAO over a hash map, with the races of calls that meet in it | `UserTypes`, refines `UserDirectory` |
| `UserRpc` | gRPC calls as both ends see them (external) | `UserTypes` |
| `UserManager` | handlers on replicas that crash and restart | `UserRpc`, `OdbUserDao` |
| `Gateway` | sessions on a bounded worker pool, handlers, stub | `UserRpc` |
| `UserApi` | abstract specification: what the REST interface promises | `UserTypes` |
| `UserSystem` | the whole path of a request | `UserManager`, `Gateway`, refines `UserApi` |
| `Tracing` | spans, scopes, context over the remote call, ids of log records | `UserRpc` |
| `ServiceStart` | configuration and start of both services | - |
| `UserTimes` | the time of creation from the clock to the answer | - |
| `OdbUserDaoProofs` | proofs about `OdbUserDao` and its refinement | `OdbUserDao` |
| `InMemoryUserDaoProofs` | proofs about `InMemoryUserDao` and its refinement | `InMemoryUserDao` |
| `UserRpcProofs` | lemmas: what each operation of `UserRpc` makes of a call's record | `UserRpc` |
| `UserManagerProofs` | proofs about `UserManager` | `UserManager`, the lemmas of `OdbUserDaoProofs`, `UserRpcProofs` |
| `UserSystemProofs` | proofs about `UserSystem` (with `Gateway`) and its refinement | `UserSystem`, the lemmas of `UserManagerProofs` |
| `TracingProofs` | proofs about `Tracing` | `Tracing`, `UserRpcProofs` |
| `ServiceStartProofs`, `UserTimesProofs` | proofs about the module of the name | |
| `MCOdbUserDao`, `MCInMemoryUserDao`, `MCUserManager`, `MCUserSystem`, `MCTracing`, `MCServiceStart`, `MCUserTimes` | model values, inputs and symmetry for TLC | |

### How state and actions correspond to the code

**Data.** A user is `[id, name]`.  Each creating call writes its own identifier
as the name, so a row or an answer can be traced to the call it came from.
Passwords decide nothing and are left out everywhere.  Time stamps decide
nothing in the protocol either; `UserTimes` follows them on their own.

**`UserDirectory`.** Every call of an `IUserDao` takes effect at one moment
between its start and its answer; a failed `createUser` may have stored its
user.  Each of the two implementations keeps this on terms: that ids fit into
16 bits (`OdbUserDao`), that no two calls meet inside the increment of the
sequence or inside the map (`InMemoryUserDao`).  `void`
becomes true when the terms are broken, and nothing is promised afterwards.

**`OdbUserDao`.** `rows` is the committed table, `nextId` the sequence behind
`id auto`, `dao[c]` the program counter and locals of the method that call `c`
is in.  A step is one round trip.  `Persist` is `begin` + `persist` (the INSERT
takes its id), `Commit` is `t.commit()`, whose success continues to
`getUserById(id)` with `id` narrowed to `uint16_t` (`Narrow`).  `...Fails` are
the `odb::exception`s: inside `createUser` they become `nullptr`, elsewhere they
leave the method.  `CommitFails` may have committed: the acknowledgement can be
lost.  `QueryById` on a missing id returns outcome `"fault"`: `*user` of a null
pointer.  A read-only transaction is one step, because nothing can be observed
between its begin and its commit.

**`InMemoryUserDao`.** `users` is the map, `idSequence` the entry of
`id_sequences`.  The map starts with the three users of the constructor
(`Seeds`).  Nothing is locked, so `id_sequences[key]++` is a read and a write
(`ReadSequence`, `WriteSequence`) and `users.insert` looks for the id and later
links the user in (`FindPlace`, `Insert`).  The look is at the map as it was
(`seen`), the link goes into the map as it is: two threads that carry one id,
after a lost increment, may both find it free and leave two users under it, and
a link that was made since the look may be lost.  A call that meets an insertion
may do anything to its caller (`RaceInMap`, outcome `"fault"`).  An insertion
that finds its id taken leaves the map alone and answers with the user that is
there: the second case of `Insert`.  `raced` is history: two calls have met,
one between the read and the write of another's increment, or in the map during
another's insertion.  Calls may overlap in every other way without it: others
draw ids, store and copy between any two of the three steps of a `createUser`.

**`UserRpc`.** One record per call: `unused`, `sent`, `open`, `ended`; `replies`
are messages written and not read yet.  Replies are kept as a set: no row is
written twice in a stream and nothing depends on their order.  A broken call
ends with an error at the client and drops what was not read; its handler is not
told and goes on.

**`UserManager`.** `at[c]` is the replica whose thread serves the call,
`counter[s]` its `RequestCounter`.  `Enter` is the first part of every handler
(taking the call, counting it), `ReadUsers`/`ReadUser`/`CreateUser` continue
into the DAO, `WriteUser`, `ReturnUsers`, `ReturnUser` and `HandlerThrows` are
how a handler replies.  `NullDereference` is `*newUser` (`UserService.cc:94`) or
`*user` (`OdbUserDao.cc:41`): the process dies (`Crash`).  After a crash the
database still ends an open transaction on its own (`OrphanEnds`), possibly by
committing it.  A stub that finds no replica fails at once (`Unavailable`):
the channel does not use wait-for-ready.

**`Gateway`.** `session[c]` is a restbed session: `new`, `fetching` (waiting for
a body), `calling` (a worker is blocked in the stub), `closed` with an
`outcome`: `"ok"` is 200, the quoted messages are the exceptions of the
controller.  `WorkerFor` is the worker limit.  `PostUser` and `RejectBody` apply
to a body that came with the headers (`"new"`) or later (`"fetching"`); the
later case goes through dangling references (`RestController.h:53`), undefined
behaviour, modelled as a choice between working and taking the gateway down
(`DanglingCallback`).  `Strtoull` is the saturating conversion of the path id.
When the gateway dies its remote calls stay where they are: the user manager
goes on with them.

**`UserSystem`, `UserApi`.** The two services together, with the history
variable `before[c]`: the table at the moment the session of `c` was accepted.
`UserApi` says what a client of the REST interface may see, with one table and
no services: a 200 tells the truth at one moment, a list may be cut short, and a
POST that was refused as "User is invalid!" or whose connection was reset may
still store its user, once, at any later time.  `ImplementsApi` maps `rows` and
`session` to it.

**`Tracing`.** A request has three spans: `Rest(c)` (the controller's scope),
`Client(c)` (the stub's) and `Server(c)` (the handler's).  `context[t]` is the
stack that `RuntimeContext` keeps for thread `t`; threads are reused, so what a
request leaves there meets the next.  `StartSpan` is the macro pair
`START_SPAN_BEGIN`/`START_SPAN_END` with the SDK's choice of a parent: the one
given if it is valid, else the active span.  `LeaveSpan` is the unwinding of the
scope and the span, with or without an earlier `End()`.  `CallStub` injects the
context that is active after the scope was opened.  `Extracted` is what
`GrpcServerCarrier::Get` makes of the header: the span that was injected, or
nothing, since the pointer it returns has no end (`observability.cc:275`).
`Record` is a log record: the ids of the active span, where it is written
through `default_logger` (`TraceIdAttrImpl`, `SpanIdAttrImpl`), and the event
that `SpanFeeder` adds to that span.  `OdbUserDao` has a logger of its own
(`OdbUserDao.h:14`), without these attributes: its one record, of a failed
creation (`OdbUserDao.cc:56`), becomes an event of the handler's span and bears
no ids.  `CreationFails` writes it, and goes on to the null pointer that kills
the process (`UserService.cc:94`).  `ServerDies` and `GatewayDies` are the other
crashes that `UserManager` and `Gateway` derive from the code,
here at any moment while a request is served.  The remote call is that of
`UserRpc`; what the DAO does is left to `UserManager`, and a handler here
succeeds, throws or dies.  Both simple span processors export a span when it
ends.

**`ServiceStart`.** `given` is what the process is started with: the command
line (well-formed or not), the options of the database, the file, and whether
`USER_MANAGER_HOST` is set.  `stage` is the call that `main` makes next, in the
order that `After` lists; the actions are those calls.  A configuration maps
each of the seven sections of `logs`, `traces` and `metrics` to what is written
there: nothing, a scalar or a map with `active`, a path or endpoint, and `mode`.
The two ways in which yaml-cpp is used decide what a section that is left out
does: `initTracer` goes through a `const` reference, where a missing key gives
an invalid node that throws when it is used, and `initLogging` and `initMetrics`
through a copy, where it comes into being, empty.  `tracing`, `sinks`, `metrics`
are what the three init functions set globally; `logger` and `counter` take what
is set at the moment they are built.  `database` and `channel` name the source
of each value that the connection gets.

**`UserTimes`.** A `ptime` is a number of microseconds.  `SecondClock` is
`second_clock::universal_time`, `Image` and `FromImage` the milliseconds of the
table, `ToTimestamp` the protobuf message, whose `nanos` is an int32 that is
given *all* nanoseconds since 1970 (`mappers.cc:48`; `Int32` wraps them),
`FromTimestamp` the way back, with C++'s division towards zero (`Quotient`).

## 3. Runs

| Run | Question | Bounds | Result |
|---|---|---|---|
| `dao` | DAO safety, the inductive invariant, and `UserDirectory` until an id wraps | 3 callers, modulus 3 | holds |
| `dao_wrap` | "User .. created" reports the created user | 3 callers, modulus 2 | **violated** |
| `memory` | the in-memory DAO under races; `UserDirectory` until two calls meet | 3 callers | holds |
| `lookup_kills` | a lookup of an unknown id is answered | 3 calls, no kill | **violated** |
| `system` | what REST answers and remote calls say is true | 3 requests, 2 workers, 2 replicas | holds |
| `system_kills` | the same under kills from outside; every session and call ends; `UserApi` | 2 requests, 1 worker, 1 replica, 1 kill each | holds |
| `invalid` | "User is invalid!" is true | 2 requests, 1 replica | **violated** |
| `tracing` | parents, log records, order and end of spans | 2 requests, 1 worker, 2 server threads | holds |
| `propagation` | one trace per request | as `tracing` | **violated** |
| `start` | a service serves as it was told, or does not serve | every file with a slip in one section, 7 sets of options | holds |
| `start_flags` | every database option reaches the database | as `start` | **violated** |
| `times` | the table keeps times; the gateway shows near ones in order | 2 users, 40 microseconds | holds |

The operators marked *Fault* in the modules are deliberate mistakes (a dropped
commit, a commit tried again, a loop that stops early, ...).  Put in the place
of the definition that follows them, each makes the property it is paired with
in `PROJECT.json` fail, which shows that the property can.

**Why the bounds are enough.** Three calls let one creation be overtaken at each
of its steps by another and be observed by a third. `IdModulus` stands for 2^16;
it is set so small that the sequence passes it (`dao`, `dao_wrap`) or so large
that it does not (the rest): what matters is only on which side of it an id
lies. Two replicas are needed for a call to survive the death of another
process (`system`); where the gateway and the replica are killed from outside
and liveness is checked (`system_kills`), one of each keeps the run short and
leaves the worst case in, in which there is nobody else to serve. One worker for
two requests gives contention, two for three gives both contention and parallel
requests. `Uint64Max` is 5 with a looked-up id of 7, on the two sides of
saturation; `IdsStayBelowUint64Max` states that table ids never come near it.
In `memory` the looked-up ids are one of the constructor's, one that a creation
takes, and one that nobody has.  In `tracing` what one request leaves on a
thread can only be met by the next one there: one worker serves both requests in
turn, and two server threads let the first handler go on while the gateway has
given its call up.  The files of `start` are the shipped one, an empty one and
one that turns everything on, each with any one section written in any of eight
ways, and a file that cannot be read; `ServiceStartProofs` covers the rest.  In
`times` a second has four microseconds, a millisecond two, a microsecond two
nanoseconds, and `nanos` holds -17 to 16: the clock passes the range more than
twice, and the range divides into neither unit, so the rounding shows.

Kills from outside are bounded (`MaxKills`, `MaxGatewayKills`); crashes that the
program brings on itself, restarts and broken connections are not.  Calls,
replicas and users are symmetric in the safety runs; runs with a liveness
property (`system_kills`, `tracing`) use no symmetry.  `dao`, `dao_wrap`,
`memory` and `times` switch deadlock checking off, because callers make one call
each and the clock stops at its bound; in the others `Quiet`, `AllAnswered`,
`AllReturned` and `Finished` let a finished system stutter, and any other
standstill is reported.

**Fairness.** `FairSystemSpec` assumes weak fairness of the server threads
(`Handler`) and of the gateway's workers and timer (`Proceed`): an operating
system schedules runnable threads, and each database round trip succeeds or
fails.  The second is an assumption on the environment: the code sets no timeout
on it.  A transaction whose client has died is ended by the database, and a stub
without a replica to connect to fails; both are guarantees of PostgreSQL and
gRPC.  `FairTracingSpec` assumes the same of the threads of both services.
Clients, kills, restarts and the network get no fairness.

## 4. What the violations show

1. `dao_wrap` - `uint16_t id = persist(...)` (`OdbUserDao.cc:48`): after 65535
   ids the re-read goes to a truncated id; the client is told of another user,
   or the process dies.
2. `lookup_kills` - an unknown id dereferences the null pointer of `query_one`
   (`OdbUserDao.cc:41`) and kills the replica; the intended answer is commented
   out at `UserService.cc:82`.
3. `invalid` - the stub maps every error to `nullptr` and the controller states
   it as a fact about the user: "User is invalid!" (`controllers.cc:72`) of a
   user that has been stored, and in the same way "User not found!" (`:59`).
4. `propagation` - `GrpcServerCarrier::Get` returns `it->second.data()`
   (`observability.cc:275`), which need not end in a zero; a header that is read
   past its end is no valid `traceparent`, and the trace of the request falls
   apart at the border of the services.  `SpansNest` holds all the same: a lost
   context makes a root span, never a child of another request.
5. `start_flags` - `parse_pgsql_config` counts `db_user`, a name that no option
   has (`commons.cc:122`): `--db-user`, first in the list of the comment above
   it, is accepted and dropped.

One more disagreement is stated by a property that holds instead of a run that
fails.  The counter of the gateway is described as the "total number of request
to Gateway Service" (`controllers.cc:16`; `README.md:23` of the repository has
"total number of request to the service"), but the body of a POST is parsed
(`RestController.h:56`) before the handler counts: a request that is rejected for
its body, or times out before it has one, is answered and not counted.
`CountersAgree` says what the counter does hold: each request that a handler has
taken up, once, and no other (`Handled`).

Other things that the models show and that no text in the repository denies, so
that they are no runs:

* A list that was cut short by a broken call is answered with 200
  (`services.cc:54`); `ListAnswersAllUsers` promises completeness only where the
  remote call ended well.
* The one log record of a failed creation bears no trace and span ids
  (`OdbUserDao.h:14`), and the span that it became an event of dies with the
  process, unexported.
* A time shown by the gateway is off by up to 2.147 s, either way, and two users
  created within 4.29 s may be shown in the wrong order; `ShownNearCreation` and
  `OrderKept` are what remains true.
* A file that leaves out a section of `traces` kills the service; one that
  leaves out a section of `logs` or `metrics` turns it off, the default of
  `logs.local` included (`Mistake`, `ServesAsConfigured`).
* Two creations that meet in `InMemoryUserDao` may be given one id, and then one
  of them may be answered with the other's user, be lost, or stand beside it in
  the map under the same id; nothing but the types remains true
  (`RaceFreeImplementsDirectory` ends there).
* Requests that wait for a worker wait for as long as the user manager takes
  (`main.cc:60` of the gateway).  `SessionsEnd` shows that a worker that is
  taken is given back; who gets it next is restbed's affair.
* A service whose port is taken dies (`main.cc:59` of the user manager);
  `ConfigurationDecides` speaks of what comes before.

## 5. Proofs

All are safety properties, for every value of the constants.

`OdbUserDaoProofs` (assumes `LookupIds \subseteq Nat`, `IdModulus` positive):
`TypeCorrect`, `Invariance` (the inductive invariant `DaoInv`),
`OneRowPerCreation`, `CreationReturnsItsUser`, `DurableReads`, and `Refinement`:
`DaoSpec => ImplementsDirectory`, the DAO implements the atomic directory until
an id outgrows its integer.  *Argument.* `RowsKeyed` is not inductive: a step
that commits a row must know that no other row has its id or its owner.
`DaoInv` adds that the sequence is ahead of every id in the table or waiting for
its commit (`SequenceAhead`), that waiting ids are distinct and not in the table
(`PendingFresh`), that a row's creation is past its commit (`RowsHaveCreators`,
so it cannot commit again), and that a creation on its way to the re-read has
its row under the very id it will ask for, unless the sequence has passed the
modulus (`RereadFinds`).  Each action is brought into the form `Becomes` (one
operation is replaced, the others stay); `CallInv`, `ReturnInv`, `PersistInv`
and `NewRowInv` preserve the invariant, and `DaoInvStep` puts the actions
together.  For the refinement, `Commit` is the moment at which `Insert` happens,
a return is the answer, everything else stutters; a step after which an id has
outgrown its integer makes `void` true and is allowed whatever it does.

`InMemoryUserDaoProofs` (assumes `LookupIds \subseteq Nat` and, for the
refinement, `SeedNamesAssumption`: no caller is named like a user of the
constructor): `MemoryTypes` and `RaceFreeRefinement`:
`MemorySpec => RaceFreeImplementsDirectory`.  *Argument.* `RaceFree` says that,
as long as no two calls have met, what a call has read of the sequence or of the
map between its read and its write is what they still hold, and that the id it
carries from the one to the other is no other call's and no user's, with the
sequence past it (`Fits`, `ApartFrom`).  A call that does meet another makes
`raced` true in the same step, after which nothing is claimed.  `Insert` is then
the moment of a creation, a return is the answer, and a race makes `void` true.

`UserManagerProofs` (assumes `NoServer \notin Servers`, `MaxKills` a number,
and what `OdbUserDaoProofs` does): `ManagerInvariance`, `ManagerTypes`, `OkMeansStored`
and `StoredOncePerRequest`.  *Argument.* The invariant of the DAO alone does not
survive here: a handler frees its DAO record when it returns, so a row can no
longer be explained by the record of its creation, and a crash leaves
transactions without a thread that may still commit.  `ManagerIInv` keeps
`SequenceAhead` and `PendingFresh` of the DAO and says the rest call by call:
that a row belongs to a remote call that has been taken and is past its commit
(`RowFits`), that a transaction without a thread is one at its commit
(`ThreadFits`), that a creation finds its own row again while ids fit
(`RereadFits`), that what is read and what is replied is stored (`ReadFits`),
and what OK says of the table (`AnswerFits`).  A step changes the part of one
call; for all others `UntouchedFits` does.

`UserSystemProofs` (assumes in addition `MaxGatewayKills` and `Uint64Max` numbers, and
`IdsStayBelowUint64Max`: finitely many calls, fewer than strtoull has values):
`SystemInvariance`, `SystemTypes`, `PostShowsItsUser`, `GetShowsItsUser`,
`ListShowsTheTable`, `RowsOfPosts`, `SystemOkMeansStored`,
`SystemRefinement`, `FewCallsNeedNoTerms` and `CountsAgree`.  *Argument.*
`SystemIInv` is `ManagerIInv` with, for every session, how far it and its remote
call have got together: that it calls once and for what it was asked
(`SessionCalls`), which outcome has which reason (`OutcomeFits`), and that the
users that a list has, with those still on the way to it, are all that were
stored when its session was accepted (`ListFits`).  A saturated path id is no id
of a user because the sequence has given out one id per creation at most
(`IdsCounted`).  The same count shows that with fewer calls than the narrow
integer has values every id fits (`FewCallsFit`), so that the system implements
`UserApi` without its terms (`FewCallsNeedNoTerms`).  Replicas still die of
failed creations then, since any `odb::exception` becomes the null pointer of
`UserService.cc:94`; the theorem says that what clients see of such a death is
one of the answers that `UserApi` allows.  The user manager is seen by the gateway through `ManagerEffect` only, what a step of
it may do to the table and to the replies on their way, so that the gateway's
steps need no case for every step of a handler.  For `SystemRefinement`:
`SystemSpec => ImplementsApi`, a commit is the moment at which a POST takes
effect, also a commit that its session never hears of; closing a session is the
answer; and all that other sessions, replicas and remote calls do stutters.
`CountIInv` adds that each count of a replica stands for a call that it has
taken, and that the gateway's counter is the number of requests taken up by a
handler (`Handled`), as long as no count is lost; a call implies such a request.
The counts of the replicas are compared as cardinalities (`ServerCounts`), since
a sum over all replicas would be a fold, and what a fold computes is out of the
prover's reach.

`TracingProofs` (assumes `ThreadsAssumption`, `NoCallAssumption`,
`NoSpanAssumption`): `TracingInvariance`, `TracingTypes`,
`ParentsAreOfTheRequest`, `RecordsAreOfTheRequest`, `InnerSpansEndFirst`.
*Argument.* The active span decides the parent, so `SpansNest` needs to know
what is on the stack of a thread that takes a request up: `TracingIInv` says it
exactly, for workers (`WorkerFits`) and for the threads of the server, whose
call may be broken behind their back (`HandlerFits`): nothing between requests,
and within one the spans of its own scopes, all of them live.  No two threads of
a process work for one call (`WorkOnce`), so a death or an end of one leaves the
spans of the others alone, and `TraceFits` puts the three spans of a request
beside its remote call.

`ServiceStartProofs` (assumes `InputsAssumption`: files are unreadable or map
the sections): `StartTypes`, `AsConfigured`, `RealInstruments`, `RightPeers`,
`OnlyConfigurationDecides`, for files that may be wrong in all sections at once
and for every set of options.  *Argument.* What a service has when it serves was
set by calls far back: `StartIInv` states, for each call, what holds at every
stage after it (the sets `PastFile`, `PastTracer`, ...).  `FailureIsMistake`,
`TracerDecides` and `OthersDecide` show that what an init function throws at is
a `Mistake` in its sections, and the other way round.

`UserTimesProofs` (assumes `UnitsAssumption`: the units are positive):
`TimesTypes`, `CreationIsKept`, `ShownIsNear`, `OrderIsKept`, for a second of
10^9 nanoseconds and 2^32 values of `nanos` among all others.  *Argument.*
Created times are whole seconds (`WholeSeconds`), and what the row, the message
and the answer hold are functions of them (`RowsFollow`, `AnswersFollow`).  A
whole second loses nothing to milliseconds (`Multiple`), a wrapped number is
within its range (`Int32Range`) and a quotient towards zero never exceeds what
was divided (`QuotientBound`), which bounds the error by half the range.

*TLC first.* Each inductive invariant was checked by TLC on the bounds of
section 3 before its proof; `DaoInv` still is, in the run `dao`.  Every
invariant and all three refinements that the passing runs check are stated by
one of the theorems above.

*Model-checked only*: the liveness properties `SessionsEnd`, `EveryCallEnds` and
`EverySpanEnds`, since fairness and ENABLED are out of the prover's reach.  The
theorems about `SystemSpec` and `Tracing` hold of the fair specifications too,
which are the same with fairness added.  What the violations of section 4 show
are counterexamples of TLC.

## 6. Plan

Done: the modules of section 2 with their runs, and the proofs of section 5.
Next, in order of importance:

1. Theorems on what remains true where section 4 shows a violation: which crash
   of a replica needs which lookup, what "User is invalid!" excludes, and when
   the trace of a request is one.
2. Action properties of the whole system (what a crash of one replica may do to
   the calls of the others), as runs with mutants and as theorems.
3. Shorter proofs: the case analysis of `ManagerStepKeeps` and of the gateway's
   actions repeats itself in places that one lemma could serve.

## 7. What is not modelled

* The text of JSON, log records and metrics; log formats, the rotation of files
  and export intervals; what exporters send and how they batch it.  No state of
  the program depends on them.
* Passwords, which are passed on and never looked at; NULL time stamps, since
  the column is NOT NULL.
* How PostgreSQL reads the image of a TIMESTAMP (`odb_pgsql_mappers.h:21`): the
  byte order and the epoch are the driver's and the server's; an INSERT that is
  refused is `PersistFails`.
* Build and deployment files, which have no behaviour of their own: replicas and
  restarts are parameters and actions of `UserManager`.
* restbed, gRPC, ODB, PostgreSQL, OpenTelemetry, Boost.Log, yaml-cpp and cxxopts
  are modelled only by what the code relies on.

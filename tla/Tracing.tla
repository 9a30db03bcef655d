------------------------------ MODULE Tracing ------------------------------
(***************************************************************************)
(* Traces of a request through both services.  The gateway opens a span    *)
(* around its handler (rest) and one around the remote call (client), the  *)
(* user manager one around its handler (server).  The active spans of a    *)
(* thread are a stack that outlives the request: the thread goes on to     *)
(* serve others.  A Scope pushes a span and, at its end, takes it off.     *)
(*                                                                         *)
(* A log record becomes, in the span sink, an event of the span that is    *)
(* active on its thread.  The ids of that span are attributes of the       *)
(* default logger, which the handlers use, and so are borne by its records *)
(* only: OdbUserDao has a logger of its own, which knows of no ids.        *)
(***************************************************************************)
EXTENDS UserRpc, Sequences

CONSTANTS
    GatewayThreads,    \* restbed's workers
    ServerThreads,     \* the threads of the user manager's gRPC server
    NoCall,
    NoSpan             \* no active span; the invalid span context

ASSUME ThreadsAssumption == GatewayThreads \cap ServerThreads = {}
ASSUME NoCallAssumption == NoCall \notin Calls

Threads == GatewayThreads \cup ServerThreads

Span == [call : Calls, side : {"rest", "client", "server"}]

ASSUME NoSpanAssumption == NoSpan \notin Span

Rest(c)   == [call |-> c, side |-> "rest"]
Client(c) == [call |-> c, side |-> "client"]
Server(c) == [call |-> c, side |-> "server"]

VARIABLES
    stage,      \* stage[c] = where the gateway is with the request of call c
    doing,      \* doing[t] = the call that thread t works for
    context,    \* context[t] = the active spans of thread t, the latest last
    span,       \* span[s] = what the SDK holds of span s
    metadata,   \* metadata[c] = the span in the header `traceparent' of call c
    records     \* the log records: their call and logger, the span whose ids they
                \* bear and the span that they became an event of

tracingVars == <<rpc, stage, doing, context, span, metadata, records>>

NotStarted == [state |-> "none", parent |-> NoSpan, trace |-> NoSpan]

TracingInit ==
    /\ RpcInit
    /\ stage = [c \in Calls |-> "new"]
    /\ doing = [t \in Threads |-> NoCall]
    /\ context = [t \in Threads |-> <<>>]
    /\ span = [s \in Span |-> NotStarted]
    /\ metadata = [c \in Calls |-> NoSpan]
    /\ records = {}

-----------------------------------------------------------------------------
\* The span on top of a stack of contexts: GetCurrentSpan.
Top(stack) == IF stack = <<>> THEN NoSpan ELSE stack[Len(stack)]

\* StartSpan and the Scope around it.  A parent that is not valid is replaced
\* by the span that is active on the thread; without one a new trace begins.
StartSpan(t, s, given) ==
    LET parent == IF given = NoSpan THEN Top(context[t]) ELSE given IN
    /\ span' = [span EXCEPT ![s] =
                   [state  |-> "live",
                    parent |-> parent,
                    trace  |-> IF parent = NoSpan THEN s ELSE span[parent].trace]]
    /\ context' = [context EXCEPT ![t] = Append(@, s)]

\* The end of a Scope takes its span off the stack, with all that is above it.
Below(stack, s) ==
    IF \E i \in DOMAIN stack : stack[i] = s
    THEN SubSeq(stack, 1, (CHOOSE i \in DOMAIN stack : stack[i] = s) - 1)
    ELSE stack

\* The Scope and then the span go out of scope; a span ends, and is exported,
\* once: at End() or at its destruction.
LeaveSpan(t, s) ==
    /\ context' = [context EXCEPT ![t] = Below(@, s)]
    /\ span' = [span EXCEPT ![s].state = "ended"]

Loggers == {"default", "dao"}

\* A log record about call c, written where stack and spans are as given.
Record(c, logger, stack, spans) ==
    [call   |-> c,
     logger |-> logger,
     ids    |-> IF logger = "default" THEN Top(stack) ELSE NoSpan,
     event  |-> IF Top(stack) # NoSpan /\ spans[Top(stack)].state = "live" THEN Top(stack)
                ELSE NoSpan]

-----------------------------------------------------------------------------
\* Fault: a Scope that is not bound to a variable and is over at once.
HandleUnbound(c, w) ==
    /\ stage[c] = "new"
    /\ doing[w] = NoCall
    /\ stage' = [stage EXCEPT ![c] = "rest"]
    /\ doing' = [doing EXCEPT ![w] = c]
    /\ span' = [span EXCEPT ![Rest(c)] =
                   [state |-> "ended", parent |-> Top(context[w]), trace |-> Rest(c)]]
    /\ UNCHANGED <<rpc, context, metadata, records>>

\* UserController::readUsers, readUser or createUser is entered on worker w.
Handle(c, w) ==
    /\ stage[c] = "new"
    /\ doing[w] = NoCall
    /\ stage' = [stage EXCEPT ![c] = "rest"]
    /\ doing' = [doing EXCEPT ![w] = c]
    /\ StartSpan(w, Rest(c), NoSpan)
    /\ UNCHANGED <<rpc, metadata, records>>

\* Inject, by GrpcClientCarrier::Set: the header names the active span.
Injected(stack) == Top(stack)

\* The stub opens its span, injects the context that is active now and sends
\* the request.
CallStub(c, w) ==
    /\ doing[w] = c
    /\ stage[c] = "rest"
    /\ stage' = [stage EXCEPT ![c] = "calling"]
    /\ StartSpan(w, Client(c), NoSpan)
    /\ metadata' = [metadata EXCEPT ![c] = Injected(context'[w])]
    /\ \E m \in Methods : RpcStart(c, m, 0)
    /\ UNCHANGED <<doing, records>>

\* The stub logs the status and returns, whatever the status is.
ReturnFromStub(c, w) ==
    /\ doing[w] = c
    /\ stage[c] = "calling"
    /\ RpcDone(c)
    /\ stage' = [stage EXCEPT ![c] = "back"]
    /\ records' = records \cup {Record(c, "default", context[w], span)}
    /\ LeaveSpan(w, Client(c))
    /\ UNCHANGED <<rpc, doing, metadata>>

\* The handler returns or throws.
ReturnFromHandler(c, w) ==
    /\ doing[w] = c
    /\ stage[c] = "back"
    /\ stage' = [stage EXCEPT ![c] = "done"]
    /\ doing' = [doing EXCEPT ![w] = NoCall]
    /\ LeaveSpan(w, Rest(c))
    /\ UNCHANGED <<rpc, metadata, records>>

-----------------------------------------------------------------------------
\* GrpcServerCarrier::Get returns the header from its first byte to the next
\* zero, wherever that is: what follows the header may spoil it.
Extracted(c) == {metadata[c], NoSpan}

\* A server thread enters a handler; all but CreateUser log the request.
EnterHandler(c, t) ==
    /\ doing[t] = NoCall
    /\ \E m \in Methods : RpcTake(c, m)
    /\ doing' = [doing EXCEPT ![t] = c]
    /\ \E p \in Extracted(c) : StartSpan(t, Server(c), p)
    /\ records' = IF rpc[c].method = "CreateUser" THEN records
                  ELSE records \cup {Record(c, "default", context'[t], span')}
    /\ UNCHANGED <<stage, metadata>>

\* Fault: the last record is written after the span has been left.
ReturnThenLog(c, t) ==
    /\ doing[t] = c
    /\ doing' = [doing EXCEPT ![t] = NoCall]
    /\ LeaveSpan(t, Server(c))
    /\ records' = records \cup {Record(c, "default", context'[t], span')}
    /\ RpcFinish(c, TRUE, {})
    /\ UNCHANGED <<stage, metadata>>

\* Fault: the span is closed by hand, and only on the way of HandlerThrows.
ReturnWithoutEnd(c, t) ==
    /\ doing[t] = c
    /\ doing' = [doing EXCEPT ![t] = NoCall]
    /\ records' = records \cup {Record(c, "default", context[t], span)}
    /\ context' = [context EXCEPT ![t] = Below(@, Server(c))]
    /\ RpcFinish(c, TRUE, {})
    /\ UNCHANGED <<stage, span, metadata>>

\* The handler logs its success, ends its span and returns.
ReturnOk(c, t) ==
    /\ doing[t] = c
    /\ doing' = [doing EXCEPT ![t] = NoCall]
    /\ records' = records \cup {Record(c, "default", context[t], span)}
    /\ LeaveSpan(t, Server(c))
    /\ RpcFinish(c, TRUE, {})
    /\ UNCHANGED <<stage, metadata>>

\* Fault: an exception leaves the span in the context of the thread.
ThrowAttached(c, t) ==
    /\ doing[t] = c
    /\ doing' = [doing EXCEPT ![t] = NoCall]
    /\ RpcFinish(c, FALSE, {})
    /\ UNCHANGED <<stage, context, span, metadata, records>>

\* An exception of the DAO leaves the handler, with no further record.  (None
\* leaves createUser: see CreationFails.)
HandlerThrows(c, t) ==
    /\ doing[t] = c
    /\ rpc[c].method # "CreateUser"
    /\ doing' = [doing EXCEPT ![t] = NoCall]
    /\ LeaveSpan(t, Server(c))
    /\ RpcFinish(c, FALSE, {})
    /\ UNCHANGED <<stage, metadata, records>>

-----------------------------------------------------------------------------
\* A process dies: its threads, and the spans that have not ended, are gone.
LoseThreads(threads) ==
    LET gone == UNION {{context[t][i] : i \in DOMAIN context[t]} : t \in threads} IN
    /\ \E t \in threads : doing[t] # NoCall
    /\ doing' = [t \in Threads |-> IF t \in threads THEN NoCall ELSE doing[t]]
    /\ context' = [t \in Threads |-> IF t \in threads THEN <<>> ELSE context[t]]
    /\ span' = [s \in Span |-> IF s \in gone THEN [span[s] EXCEPT !.state = "lost"] ELSE span[s]]
    /\ UNCHANGED metadata

LoseServer ==
    /\ LoseThreads(ServerThreads)
    /\ RpcBreak({c \in Calls : \E t \in ServerThreads : doing[t] = c})
    /\ UNCHANGED stage

\* The pointer of a row that is missing is dereferenced, or the process is killed.
ServerDies == LoseServer /\ UNCHANGED records

\* An exception of the database inside createUser: the DAO logs it, under the
\* span of the handler, and returns the null pointer that CreateUser
\* dereferences.
CreationFails(c, t) ==
    /\ doing[t] = c
    /\ rpc[c].method = "CreateUser"
    /\ records' = records \cup {Record(c, "dao", context[t], span)}
    /\ LoseServer

\* A late request body meets dangling references, or the process is killed.
GatewayDies ==
    /\ LoseThreads(GatewayThreads)
    /\ stage' = [c \in Calls |-> IF stage[c] = "new" THEN "new" ELSE "done"]
    /\ UNCHANGED <<rpc, records>>

Disconnect(c) ==
    /\ RpcIs(c, "sent") \/ RpcIs(c, "open")
    /\ RpcBreak({c})
    /\ UNCHANGED <<stage, doing, context, span, metadata, records>>

GatewayWork(c) == \E w \in GatewayThreads :
    CallStub(c, w) \/ ReturnFromStub(c, w) \/ ReturnFromHandler(c, w)

ServerWork(c) == \E t \in ServerThreads :
    EnterHandler(c, t) \/ ReturnOk(c, t) \/ HandlerThrows(c, t) \/ CreationFails(c, t)

\* Every request has been answered and every handler has returned.
AllReturned ==
    /\ \A c \in Calls : stage[c] = "done" /\ ~RpcIs(c, "sent")
    /\ \A t \in Threads : doing[t] = NoCall
    /\ UNCHANGED tracingVars

TracingNext ==
    \/ \E c \in Calls :
          \/ \E w \in GatewayThreads : Handle(c, w)
          \/ GatewayWork(c)
          \/ ServerWork(c)
          \/ Disconnect(c)
    \/ ServerDies
    \/ GatewayDies
    \/ AllReturned

TracingSpec == TracingInit /\ [][TracingNext]_tracingVars

\* Threads run.  Nothing is assumed of clients, crashes and the network.
FairTracingSpec ==
    /\ TracingSpec
    /\ \A c \in Calls : WF_tracingVars(GatewayWork(c)) /\ WF_tracingVars(ServerWork(c))

-----------------------------------------------------------------------------
(***************************************************************************)
(* Properties.                                                             *)
(***************************************************************************)

\* Every variable has its type; a thread has at most the spans of one request
\* active, two in the gateway and one in the user manager, however many requests
\* it has served.
TracingTypeOK ==
    /\ rpc \in [Calls -> RpcRecord]
    /\ stage \in [Calls -> {"new", "rest", "calling", "back", "done"}]
    /\ doing \in [Threads -> Calls \cup {NoCall}]
    /\ context \in [Threads -> Seq(Span)]
    /\ \A t \in GatewayThreads : Len(context[t]) <= 2
    /\ \A t \in ServerThreads : Len(context[t]) <= 1
    /\ span \in [Span -> [state  : {"none", "live", "ended", "lost"},
                         parent : Span \cup {NoSpan},
                         trace  : Span \cup {NoSpan}]]
    /\ metadata \in [Calls -> Span \cup {NoSpan}]
    /\ \A r \in records : r \in [call   : Calls,
                                logger : Loggers,
                                ids    : Span \cup {NoSpan},
                                event  : Span \cup {NoSpan}]

Begun(s) == span[s].state # "none"

\* "Parent-child relationship": a span hangs under the span of its own request
\* that encloses it, or begins a trace, never under what the request before it
\* left on the thread, however that one ended.
SpansNest == \A c \in Calls :
    /\ span[Rest(c)].parent = NoSpan
    /\ Begun(Client(c)) => span[Client(c)].parent = Rest(c)
    /\ span[Server(c)].parent \in {Client(c), NoSpan}

\* Every log record that is written in the middle of a request, the one of a
\* failing database included, becomes an event of a span of that very request,
\* which is still open.  A record of the default logger bears the ids of that
\* same span; one of the DAO's own logger bears none.
RecordsFindTheirSpan == \A r \in records :
    /\ r.event \in {Client(r.call), Server(r.call)}
    /\ r.ids = IF r.logger = "default" THEN r.event ELSE NoSpan

\* When a call ends well, the handler's span has ended, and been exported,
\* before the gateway's spans of that request do.
SpansEndInsideOut ==
    \A c \in Calls :
        /\ span[Rest(c)].state = "ended" => span[Client(c)].state = "ended"
        /\ rpc[c].ok /\ span[Client(c)].state = "ended" => span[Server(c)].state = "ended"

\* Every span that is started is exported, or lost with its process.
EverySpanEnds == \A s \in Span : span[s].state = "live" ~> span[s].state # "live"

-----------------------------------------------------------------------------
(***************************************************************************)
(* What the program says of itself and does not do.                        *)
(***************************************************************************)

\* "Showcase context propagation": the spans of a request, in both services,
\* are one trace.
ContextPropagates ==
    \A c \in Calls : Begun(Server(c)) => span[Server(c)].trace = span[Rest(c)].trace
=============================================================================

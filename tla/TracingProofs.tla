--------------------------- MODULE TracingProofs ---------------------------
(***************************************************************************)
(* What holds of the traces for any number of requests and threads: spans  *)
(* nest and end inside out, log records find their span, and no thread     *)
(* keeps a span beyond the request that it is of, whatever throws or dies. *)
(*                                                                         *)
(* The invariant says of each thread what exactly is on its stack, and     *)
(* that those spans are open (WorkerFits, HandlerFits); and of each        *)
(* request how its three spans stand to one another and to its remote call *)
(* (TraceFits).                                                            *)
(***************************************************************************)
EXTENDS Tracing, UserRpcProofs, SequenceTheorems

-----------------------------------------------------------------------------
(***************************************************************************)
(* The inductive invariant.                                                *)
(***************************************************************************)

\* A worker of the gateway has the spans active that its place in the handler
\* asks for, and no other.
WorkerFits(w) ==
    LET c == doing[w] IN
    IF c = NoCall THEN context[w] = <<>>
    ELSE /\ stage[c] \in {"rest", "calling", "back"}
         /\ span[Rest(c)].state = "live"
         /\ stage[c] = "rest" =>
               context[w] = <<Rest(c)>> /\ span[Client(c)].state = "none"
         /\ stage[c] = "calling" =>
               context[w] = <<Rest(c), Client(c)>> /\ span[Client(c)].state = "live"
         /\ stage[c] = "back" =>
               context[w] = <<Rest(c)>> /\ span[Client(c)].state = "ended"

\* So has a thread of the server, whose call may be broken behind its back.
HandlerFits(t) ==
    LET c == doing[t] IN
    IF c = NoCall THEN context[t] = <<>>
    ELSE /\ rpc[c].phase \in {"open", "ended"}
         /\ span[Server(c)].state = "live"
         /\ context[t] = <<Server(c)>>

\* One thread of each process at most works for a call.
WorkOnce ==
    \A t, u \in Threads :
        doing[t] = doing[u] /\ doing[t] # NoCall /\ (t \in ServerThreads <=> u \in ServerThreads)
            => t = u

\* The spans of a request and its remote call, side by side.
TraceFits(c) ==
    /\ stage[c] = "new" => span[Client(c)].state = "none"
    /\ span[Client(c)].state = "none" <=> rpc[c].phase = "unused"
    /\ rpc[c].phase \in {"unused", "sent"} => span[Server(c)].state = "none"
    /\ rpc[c].ok => rpc[c].phase = "ended" /\ span[Server(c)].state = "ended"
    /\ span[Rest(c)].state = "ended" => span[Client(c)].state = "ended"
    /\ metadata[c] \in {Client(c), NoSpan}
    /\ span[Rest(c)].parent = NoSpan
    /\ Begun(Client(c)) => span[Client(c)].parent = Rest(c)
    /\ span[Server(c)].parent \in {Client(c), NoSpan}

\* Every variable has its type, as in TracingTypeOK; how long a stack can get
\* follows from the rest.
SpanRecord == [state  : {"none", "live", "ended", "lost"},
               parent : Span \cup {NoSpan},
               trace  : Span \cup {NoSpan}]

Typed ==
    /\ rpc \in [Calls -> RpcRecord]
    /\ stage \in [Calls -> {"new", "rest", "calling", "back", "done"}]
    /\ doing \in [Threads -> Calls \cup {NoCall}]
    /\ context \in [Threads -> Seq(Span)]
    /\ span \in [Span -> SpanRecord]
    /\ metadata \in [Calls -> Span \cup {NoSpan}]

RecordFits(r) ==
    /\ r.call \in Calls
    /\ r.logger \in Loggers
    /\ r.event \in {Client(r.call), Server(r.call)}
    /\ r = [call |-> r.call, logger |-> r.logger, event |-> r.event,
            ids |-> IF r.logger = "default" THEN r.event ELSE NoSpan]

TracingIInv ==
    /\ Typed
    /\ \A w \in GatewayThreads : WorkerFits(w)
    /\ \A t \in ServerThreads : HandlerFits(t)
    /\ WorkOnce
    /\ \A c \in Calls : TraceFits(c)
    /\ \A r \in records : RecordFits(r)

-----------------------------------------------------------------------------
(***************************************************************************)
(* Lemmas about spans and stacks.                                          *)
(***************************************************************************)

\* The three spans of a request are spans, and differ from one another and from
\* those of any other request.
LEMMA SpansDiffer ==
    ASSUME NEW c \in Calls, NEW d \in Calls
    PROVE  /\ Rest(c) \in Span /\ Client(c) \in Span /\ Server(c) \in Span
           /\ Rest(c) # Client(d) /\ Rest(c) # Server(d) /\ Client(c) # Server(d)
           /\ c # d => Rest(c) # Rest(d) /\ Client(c) # Client(d) /\ Server(c) # Server(d)
           /\ Rest(c) # NoSpan /\ Client(c) # NoSpan /\ Server(c) # NoSpan
  <1>1. /\ Rest(c).call = c /\ Client(c).call = c /\ Server(c).call = c
        /\ Rest(c).side = "rest" /\ Client(c).side = "client" /\ Server(c).side = "server"
        /\ Rest(d).call = d /\ Client(d).call = d /\ Server(d).call = d
        /\ Rest(d).side = "rest" /\ Client(d).side = "client" /\ Server(d).side = "server"
    BY DEF Rest, Client, Server
  <1>2. Rest(c) \in Span /\ Client(c) \in Span /\ Server(c) \in Span
    BY DEF Rest, Client, Server, Span
  <1> QED
    BY <1>1, <1>2, NoSpanAssumption

\* Every span is one of the three of its request.
LEMMA SpanOfSide ==
    ASSUME NEW s \in Span
    PROVE  \E c \in Calls : s = Rest(c) \/ s = Client(c) \/ s = Server(c)
  BY DEF Span, Rest, Client, Server

\* What is on top of the stacks that come up.
LEMMA TopOfNone == Top(<<>>) = NoSpan
  BY DEF Top

\* Of one span:
LEMMA TopOfOne ==
    ASSUME NEW a
    PROVE  Top(<<a>>) = a
  BY DEF Top

\* Of two spans:
LEMMA TopOfTwo ==
    ASSUME NEW a, NEW b
    PROVE  Top(<<a, b>>) = b
  BY DEF Top

\* Sequences of one and of two spans.
LEMMA OneSpan ==
    ASSUME NEW a \in Span, NEW s \in Seq(Span), Len(s) = 1, s[1] = a
    PROVE  s = <<a>>
  <1> DEFINE one == <<a>>
  <1>1. one \in Seq(Span) /\ Len(one) = 1 /\ one[1] = a
    OBVIOUS
  <1> HIDE DEF one
  <1>2. \A i \in 1 .. Len(s) : s[i] = one[i]
    BY <1>1
  <1>3. s = one
    BY <1>1, <1>2, SeqEqual
  <1> QED
    BY <1>3 DEF one

\* A stack of two spans is the pair of them.
LEMMA TwoSpans ==
    ASSUME NEW a \in Span, NEW b \in Span, NEW s \in Seq(Span), Len(s) = 2, s[1] = a, s[2] = b
    PROVE  s = <<a, b>>
  <1> DEFINE two == <<a, b>>
  <1>1. two \in Seq(Span) /\ Len(two) = 2 /\ two[1] = a /\ two[2] = b
    OBVIOUS
  <1> HIDE DEF two
  <1>2. \A i \in 1 .. Len(s) : s[i] = two[i]
    BY <1>1
  <1>3. s = two
    BY <1>1, <1>2, SeqEqual
  <1> QED
    BY <1>3 DEF two

\* A Scope pushes on an empty stack.
LEMMA PushFirst ==
    ASSUME NEW a \in Span
    PROVE  Append(<<>>, a) = <<a>>
  BY AppendIsConcat, ConcatEmptySeq

\* A Scope pushes on a stack of one.
LEMMA PushSecond ==
    ASSUME NEW a \in Span, NEW b \in Span
    PROVE  Append(<<a>>, b) = <<a, b>>
  <1>1. /\ Append(<<a>>, b) \in Seq(Span) /\ Len(Append(<<a>>, b)) = 2
        /\ Append(<<a>>, b)[1] = a /\ Append(<<a>>, b)[2] = b
    <2>1. <<a>> \in Seq(Span) /\ Len(<<a>>) = 1 /\ <<a>>[1] = a
      OBVIOUS
    <2> QED
      BY <2>1, AppendProperties
  <1> DEFINE pushed == Append(<<a>>, b)
  <1> HIDE DEF pushed
  <1>2. pushed \in Seq(Span) /\ Len(pushed) = 2 /\ pushed[1] = a /\ pushed[2] = b
    BY <1>1 DEF pushed
  <1>3. pushed = <<a, b>>
    BY <1>2, TwoSpans
  <1> QED
    BY <1>3 DEF pushed

\* The end of a Scope that holds the i-th span takes that and the rest off.
LEMMA BelowIs ==
    ASSUME NEW stack, NEW i \in DOMAIN stack, \A j \in DOMAIN stack : stack[j] = stack[i] => j = i
    PROVE  Below(stack, stack[i]) = SubSeq(stack, 1, i - 1)
  <1>1. (CHOOSE j \in DOMAIN stack : stack[j] = stack[i]) = i
    OBVIOUS
  <1> QED
    BY <1>1 DEF Below

\* A Scope that is the last to have been opened takes its own span off.
LEMMA PopLast ==
    ASSUME NEW a \in Span
    PROVE  Below(<<a>>, a) = <<>>
  <1> DEFINE stack == <<a>>
  <1>1. DOMAIN stack = {1} /\ stack[1] = a
    OBVIOUS
  <1>2. Below(stack, stack[1]) = SubSeq(stack, 1, 1 - 1)
    <2> HIDE DEF stack
    <2> QED
      BY <1>1, BelowIs
  <1>3. SubSeq(stack, 1, 0) = <<>>
    BY SubSeqEmpty
  <1> QED
    BY <1>1, <1>2, <1>3

\* One that was opened inside another leaves the other on the stack.
LEMMA PopInner ==
    ASSUME NEW a \in Span, NEW b \in Span, a # b
    PROVE  Below(<<a, b>>, b) = <<a>>
  <1> DEFINE stack == <<a, b>>
  <1>1. DOMAIN stack = {1, 2} /\ stack[1] = a /\ stack[2] = b
    OBVIOUS
  <1>2. \A i \in 1 .. 1 : stack[i] \in Span
    BY <1>1
  <1> HIDE DEF stack
  <1>3. Below(stack, stack[2]) = SubSeq(stack, 1, 2 - 1)
    BY <1>1, BelowIs
  <1>4. /\ SubSeq(stack, 1, 1) \in Seq(Span)
        /\ Len(SubSeq(stack, 1, 1)) = IF 1 <= 1 THEN 1 - 1 + 1 ELSE 0
        /\ \A i \in 1 .. 1 - 1 + 1 : SubSeq(stack, 1, 1)[i] = stack[1 + i - 1]
    BY <1>2, SubSeqProperties
  <1>5. SubSeq(stack, 1, 1) = <<a>>
    <2>1. Len(SubSeq(stack, 1, 1)) = 1 /\ SubSeq(stack, 1, 1)[1] = a
      BY <1>1, <1>4
    <2> QED
      BY <1>4, <2>1, OneSpan
  <1> QED
    BY <1>1, <1>3, <1>5 DEF stack

\* A span starts on a thread (StartSpan).
LEMMA StartSpanBecomes ==
    ASSUME Typed, NEW t \in Threads, NEW s \in Span, NEW given \in Span \cup {NoSpan},
           Top(context[t]) \in Span \cup {NoSpan}, StartSpan(t, s, given)
    PROVE  /\ span' \in [Span -> SpanRecord]
           /\ span'[s].state = "live"
           /\ span'[s].parent = IF given = NoSpan THEN Top(context[t]) ELSE given
           /\ \A r \in Span \ {s} : span'[r] = span[r]
           /\ context' \in [Threads -> Seq(Span)]
           /\ context'[t] = Append(context[t], s)
           /\ \A u \in Threads \ {t} : context'[u] = context[u]
  <1> DEFINE parent == IF given = NoSpan THEN Top(context[t]) ELSE given
             r == [state |-> "live", parent |-> parent,
                   trace |-> IF parent = NoSpan THEN s ELSE span[parent].trace]
  <1>1. span \in [Span -> SpanRecord] /\ context \in [Threads -> Seq(Span)]
    BY DEF Typed
  <1>2. parent \in Span \cup {NoSpan}
    OBVIOUS
  <1>3. r \in SpanRecord /\ r.state = "live" /\ r.parent = parent
    <2> HIDE DEF parent
    <2> QED
      BY <1>1, <1>2 DEF SpanRecord
  <1>4. span' = [span EXCEPT ![s] = r] /\ context' = [context EXCEPT ![t] = Append(context[t], s)]
    BY DEF StartSpan
  <1>5. Append(context[t], s) \in Seq(Span)
    BY <1>1, AppendProperties
  <1> HIDE DEF r
  <1>6. /\ span' \in [Span -> SpanRecord] /\ span'[s] = r
        /\ \A q \in Span \ {s} : span'[q] = span[q]
    BY <1>1, <1>3, <1>4
  <1>7. /\ context' \in [Threads -> Seq(Span)]
        /\ context'[t] = Append(context[t], s)
        /\ \A u \in Threads \ {t} : context'[u] = context[u]
    BY <1>1, <1>4, <1>5
  <1> QED
    BY <1>3, <1>6, <1>7

\* A span ends on a thread (LeaveSpan).
LEMMA LeaveSpanBecomes ==
    ASSUME Typed, NEW t \in Threads, NEW s \in Span, Below(context[t], s) \in Seq(Span),
           LeaveSpan(t, s)
    PROVE  /\ span' \in [Span -> SpanRecord]
           /\ span'[s].state = "ended"
           /\ span'[s].parent = span[s].parent
           /\ \A r \in Span \ {s} : span'[r] = span[r]
           /\ context' \in [Threads -> Seq(Span)]
           /\ context'[t] = Below(context[t], s)
           /\ \A u \in Threads \ {t} : context'[u] = context[u]
  <1> DEFINE r == [span[s] EXCEPT !.state = "ended"]
  <1>1. span \in [Span -> SpanRecord] /\ context \in [Threads -> Seq(Span)]
    BY DEF Typed
  <1>2. r \in SpanRecord /\ r.state = "ended" /\ r.parent = span[s].parent
    BY <1>1 DEF SpanRecord
  <1>3. span' = [span EXCEPT ![s] = r] /\ context' = [context EXCEPT ![t] = Below(context[t], s)]
    BY DEF LeaveSpan
  <1> HIDE DEF r
  <1> QED
    BY <1>1, <1>2, <1>3

-----------------------------------------------------------------------------
(***************************************************************************)
(* What a step leaves alone.                                               *)
(***************************************************************************)

\* A worker fits as long as its stack, its handler and the two spans of its
\* request are left alone.
LEMMA WorkerStays ==
    ASSUME TracingIInv, NEW w \in GatewayThreads,
           doing'[w] = doing[w], context'[w] = context[w],
           doing[w] # NoCall =>
               /\ stage'[doing[w]] = stage[doing[w]]
               /\ span'[Rest(doing[w])] = span[Rest(doing[w])]
               /\ span'[Client(doing[w])] = span[Client(doing[w])]
    PROVE  WorkerFits(w)'
  <1>1. WorkerFits(w)
    BY DEF TracingIInv
  <1> QED
    BY <1>1 DEF WorkerFits

\* A server thread fits as long as its stack and its span are left alone.
LEMMA HandlerStays ==
    ASSUME TracingIInv, NEW t \in ServerThreads,
           doing'[t] = doing[t], context'[t] = context[t],
           doing[t] # NoCall =>
               /\ rpc[doing[t]].phase \in {"open", "ended"} =>
                      rpc'[doing[t]].phase \in {"open", "ended"}
               /\ span'[Server(doing[t])] = span[Server(doing[t])]
    PROVE  HandlerFits(t)'
  <1>1. HandlerFits(t)
    BY DEF TracingIInv
  <1> QED
    BY <1>1 DEF HandlerFits

\* So do the spans of a request.
LEMMA TraceStays ==
    ASSUME TracingIInv, NEW c \in Calls,
           stage'[c] = stage[c], rpc'[c] = rpc[c], metadata'[c] = metadata[c],
           span'[Rest(c)] = span[Rest(c)], span'[Client(c)] = span[Client(c)],
           span'[Server(c)] = span[Server(c)]
    PROVE  TraceFits(c)'
  <1>1. TraceFits(c)
    BY DEF TracingIInv
  <1> QED
    BY <1>1 DEF TraceFits, Begun

\* A thread is free again, or goes on: nobody works for its call but it.
LEMMA StillOnce ==
    ASSUME TracingIInv, NEW t \in Threads,
           \A u \in Threads \ {t} : doing'[u] = doing[u],
           \/ doing'[t] \in {doing[t], NoCall}
           \/ \A u \in Threads \ {t} :
                  (t \in ServerThreads <=> u \in ServerThreads) => doing[u] # doing'[t]
    PROVE  WorkOnce'
  BY DEF TracingIInv, WorkOnce, Threads

\* A step by which thread t does something about span s of call c: what is to be
\* shown of it is what becomes of t and of c.
LEMMA OneThreadSteps ==
    ASSUME TracingIInv, NEW c \in Calls, NEW t \in Threads,
           NEW s \in {Rest(c), Client(c), Server(c)},
           doing[t] = c \/ doing[t] = NoCall,
           Typed', \A r \in records' : RecordFits(r)',
           \A u \in Threads \ {t} : doing'[u] = doing[u] /\ context'[u] = context[u],
           \A q \in Span \ {s} : span'[q] = span[q],
           \A d \in Calls \ {c} :
               stage'[d] = stage[d] /\ rpc'[d] = rpc[d] /\ metadata'[d] = metadata[d],
           s = Server(c) <=> t \in ServerThreads,
           t \in ServerThreads => stage'[c] = stage[c],
           rpc[c].phase \in {"open", "ended"} => rpc'[c].phase \in {"open", "ended"},
           \A u \in Threads \ {t} :
               (t \in ServerThreads <=> u \in ServerThreads) => doing[u] # c,
           doing'[t] \in {c, NoCall},
           t \in GatewayThreads => WorkerFits(t)',
           t \in ServerThreads => HandlerFits(t)',
           TraceFits(c)'
    PROVE  TracingIInv'
  <1>1. ASSUME NEW w \in GatewayThreads
        PROVE  WorkerFits(w)'
    <2>1. CASE w = t
      BY <2>1
    <2>2. CASE w # t
      <3>1. doing'[w] = doing[w] /\ context'[w] = context[w]
        BY <2>2 DEF Threads
      <3>2. ASSUME doing[w] # NoCall
            PROVE  /\ stage'[doing[w]] = stage[doing[w]]
                   /\ span'[Rest(doing[w])] = span[Rest(doing[w])]
                   /\ span'[Client(doing[w])] = span[Client(doing[w])]
        <4>1. doing[w] \in Calls
          BY <3>2 DEF TracingIInv, Typed, Threads
        <4>2. w \notin ServerThreads
          BY ThreadsAssumption
        <4>3. CASE doing[w] = c
          <5>1. t \in ServerThreads /\ s = Server(c)
            BY <2>2, <4>2, <4>3 DEF Threads
          <5> QED
            BY <4>1, <4>3, <5>1, SpansDiffer
        <4>4. CASE doing[w] # c
          BY <4>1, <4>4, SpansDiffer
        <4> QED
          BY <4>3, <4>4
      <3> QED
        BY <3>1, <3>2, WorkerStays
    <2> QED
      BY <2>1, <2>2
  <1>2. ASSUME NEW u \in ServerThreads
        PROVE  HandlerFits(u)'
    <2>1. CASE u = t
      BY <2>1
    <2>2. CASE u # t
      <3>1. doing'[u] = doing[u] /\ context'[u] = context[u]
        BY <2>2 DEF Threads
      <3>2. ASSUME doing[u] # NoCall
            PROVE  /\ rpc[doing[u]].phase \in {"open", "ended"} =>
                          rpc'[doing[u]].phase \in {"open", "ended"}
                   /\ span'[Server(doing[u])] = span[Server(doing[u])]
        <4>1. doing[u] \in Calls
          BY <3>2 DEF TracingIInv, Typed, Threads
        <4>2. CASE doing[u] = c
          <5>1. t \notin ServerThreads /\ s # Server(c)
            BY <2>2, <4>2 DEF Threads
          <5> QED
            BY <4>1, <4>2, <5>1, SpansDiffer
        <4>3. CASE doing[u] # c
          BY <4>1, <4>3, SpansDiffer
        <4> QED
          BY <4>2, <4>3
      <3> QED
        BY <3>1, <3>2, HandlerStays
    <2> QED
      BY <2>1, <2>2
  <1>3. ASSUME NEW d \in Calls
        PROVE  TraceFits(d)'
    <2>1. CASE d = c
      BY <2>1
    <2>2. CASE d # c
      BY <2>2, SpansDiffer, TraceStays
    <2> QED
      BY <2>1, <2>2
  <1>4. WorkOnce'
    BY StillOnce
  <1> QED
    BY <1>1, <1>2, <1>3, <1>4 DEF TracingIInv

\* The thread that works for a call is the only one of its process.
LEMMA WorksAlone ==
    ASSUME TracingIInv, NEW c \in Calls, NEW t \in Threads, doing[t] = c
    PROVE  \A u \in Threads \ {t} : (t \in ServerThreads <=> u \in ServerThreads) => doing[u] # c
  BY NoCallAssumption DEF TracingIInv, WorkOnce

\* A thread of one process is not one of the other.
LEMMA Sides ==
    ASSUME NEW t \in Threads
    PROVE  t \in GatewayThreads <=> t \notin ServerThreads
  BY ThreadsAssumption DEF Threads

-----------------------------------------------------------------------------
(***************************************************************************)
(* The steps of the gateway.                                               *)
(***************************************************************************)

\* The handler's span is the first on its worker, and the root of its trace.
LEMMA HandleKeeps ==
    ASSUME TracingIInv, NEW c \in Calls, NEW w \in GatewayThreads, Handle(c, w)
    PROVE  TracingIInv'
  <1>1. w \in Threads /\ w \notin ServerThreads
    BY Sides DEF Threads
  <1>2. /\ Rest(c) \in Span /\ Rest(c) # NoSpan /\ Rest(c) # Client(c) /\ Rest(c) # Server(c)
        /\ Client(c) \in Span /\ Server(c) \in Span
    BY SpansDiffer
  <1>3. /\ Typed /\ WorkerFits(w) /\ TraceFits(c) /\ doing[w] = NoCall /\ stage[c] = "new"
        /\ context[w] = <<>>
    BY DEF Handle, TracingIInv, WorkerFits
  <1>4. /\ span' \in [Span -> SpanRecord]
        /\ span'[Rest(c)].state = "live" /\ span'[Rest(c)].parent = NoSpan
        /\ \A r \in Span \ {Rest(c)} : span'[r] = span[r]
        /\ context' \in [Threads -> Seq(Span)] /\ context'[w] = <<Rest(c)>>
        /\ \A u \in Threads \ {w} : context'[u] = context[u]
    <2>1. Top(context[w]) = NoSpan /\ Append(context[w], Rest(c)) = <<Rest(c)>>
      BY <1>2, <1>3, TopOfNone, PushFirst
    <2> QED
      BY <1>1, <1>2, <1>3, <2>1, StartSpanBecomes DEF Handle
  <1>5. Typed' /\ doing'[w] = c /\ stage'[c] = "rest"
    BY <1>1, <1>3, <1>4 DEF Handle, Typed
  <1>6. /\ \A u \in Threads \ {w} : doing'[u] = doing[u]
        /\ \A d \in Calls \ {c} :
               stage'[d] = stage[d] /\ rpc'[d] = rpc[d] /\ metadata'[d] = metadata[d]
        /\ rpc'[c] = rpc[c] /\ metadata'[c] = metadata[c]
    BY <1>1, <1>3 DEF Handle, Typed
  <1>7. WorkerFits(w)'
    BY <1>2, <1>3, <1>4, <1>5, NoCallAssumption DEF WorkerFits, TraceFits
  <1>8. TraceFits(c)'
    BY <1>2, <1>3, <1>4, <1>5, <1>6 DEF TraceFits, Begun
  <1>9. \A u \in Threads \ {w} : (w \in ServerThreads <=> u \in ServerThreads) => doing[u] # c
    BY <1>1, <1>3, Sides, NoCallAssumption DEF TracingIInv, WorkerFits
  <1>10. \A r \in records' : RecordFits(r)'
    BY DEF Handle, TracingIInv, RecordFits
  <1> QED
    BY <1>1, <1>2, <1>3, <1>4, <1>5, <1>6, <1>7, <1>8, <1>9, <1>10, OneThreadSteps

\* The client's span hangs under the handler's, and the header names it.
LEMMA CallStubKeeps ==
    ASSUME TracingIInv, NEW c \in Calls, NEW w \in GatewayThreads, CallStub(c, w)
    PROVE  TracingIInv'
  <1>1. w \in Threads /\ w \notin ServerThreads
    BY Sides DEF Threads
  <1>2. /\ Client(c) \in Span /\ Client(c) # NoSpan /\ Rest(c) # NoSpan
        /\ Rest(c) # Client(c) /\ Client(c) # Server(c)
        /\ Rest(c) \in Span /\ Server(c) \in Span
    BY SpansDiffer
  <1>3. /\ Typed /\ WorkerFits(w) /\ TraceFits(c) /\ doing[w] = c /\ stage[c] = "rest"
        /\ context[w] = <<Rest(c)>> /\ span[Rest(c)].state = "live"
    BY NoCallAssumption DEF CallStub, TracingIInv, WorkerFits
  <1>4. /\ span' \in [Span -> SpanRecord]
        /\ span'[Client(c)].state = "live" /\ span'[Client(c)].parent = Rest(c)
        /\ \A r \in Span \ {Client(c)} : span'[r] = span[r]
        /\ context' \in [Threads -> Seq(Span)] /\ context'[w] = <<Rest(c), Client(c)>>
        /\ \A u \in Threads \ {w} : context'[u] = context[u]
    <2>1. /\ Top(context[w]) = Rest(c)
          /\ Append(context[w], Client(c)) = <<Rest(c), Client(c)>>
      BY <1>2, <1>3, TopOfOne, PushSecond
    <2> QED
      BY <1>1, <1>2, <1>3, <2>1, StartSpanBecomes DEF CallStub
  <1>5. /\ rpc[c].phase = "unused" /\ rpc'[c].phase = "sent" /\ rpc'[c].ok = rpc[c].ok
        /\ rpc' \in [Calls -> RpcRecord] /\ \A d \in Calls \ {c} : rpc'[d] = rpc[d]
    <2>1. PICK m \in Methods : RpcStart(c, m, 0)
      BY DEF CallStub
    <2>2. RpcBecomes(c, "sent", m, 0, rpc[c].replies, rpc[c].ok)
      BY <1>3, <2>1, RpcStartBecomes DEF Typed
    <2> QED
      BY <2>1, <2>2 DEF RpcStart, RpcIs, RpcBecomes
  <1>6. /\ metadata' = [metadata EXCEPT ![c] = Client(c)]
        /\ stage' = [stage EXCEPT ![c] = "calling"] /\ doing' = doing /\ records' = records
    <2>1. Top(context'[w]) = Client(c)
      BY <1>4, TopOfTwo
    <2> QED
      BY <2>1 DEF CallStub, Injected
  <1>7. Typed' /\ stage'[c] = "calling" /\ metadata'[c] = Client(c)
    BY <1>2, <1>3, <1>4, <1>5, <1>6 DEF Typed
  <1>8. \A d \in Calls \ {c} :
            stage'[d] = stage[d] /\ rpc'[d] = rpc[d] /\ metadata'[d] = metadata[d]
    BY <1>3, <1>5, <1>6 DEF Typed
  <1>9. WorkerFits(w)'
    BY <1>2, <1>3, <1>4, <1>6, <1>7, NoCallAssumption DEF WorkerFits
  <1>10. TraceFits(c)'
    BY <1>2, <1>3, <1>4, <1>5, <1>7 DEF TraceFits, Begun
  <1>11. \A u \in Threads \ {w} : (w \in ServerThreads <=> u \in ServerThreads) => doing[u] # c
    BY <1>1, <1>3, WorksAlone
  <1>12. \A r \in records' : RecordFits(r)'
    BY <1>6 DEF TracingIInv, RecordFits
  <1> QED
    BY <1>1, <1>2, <1>3, <1>4, <1>5, <1>6, <1>7, <1>8, <1>9, <1>10, <1>11, <1>12, OneThreadSteps

\* A record of call c on a stack whose top is an open span of c fits, whoever
\* writes it.
LEMMA RecordsFit ==
    ASSUME NEW c \in Calls, NEW logger \in Loggers, NEW stack, NEW spans,
           Top(stack) \in {Client(c), Server(c)},
           spans[Top(stack)].state = "live"
    PROVE  RecordFits(Record(c, logger, stack, spans))
  <1> DEFINE ids == IF logger = "default" THEN Top(stack) ELSE NoSpan
             r   == [call |-> c, logger |-> logger, ids |-> ids, event |-> Top(stack)]
  <1>1. Top(stack) # NoSpan
    BY SpansDiffer
  <1>2. Record(c, logger, stack, spans) = r
    BY <1>1 DEF Record
  <1>3. r.call = c /\ r.logger = logger /\ r.event = Top(stack)
    OBVIOUS
  <1>4. r = [call |-> c, logger |-> logger, event |-> Top(stack), ids |-> ids]
    OBVIOUS
  <1>5. RecordFits(r)
    <2> HIDE DEF r
    <2> QED
      BY <1>3, <1>4 DEF RecordFits
  <1> QED
    BY <1>2, <1>5

\* The stub's record finds its span, which is over when the stub returns.
LEMMA ReturnFromStubKeeps ==
    ASSUME TracingIInv, NEW c \in Calls, NEW w \in GatewayThreads, ReturnFromStub(c, w)
    PROVE  TracingIInv'
  <1>1. w \in Threads /\ w \notin ServerThreads
    BY Sides DEF Threads
  <1>2. /\ Client(c) \in Span /\ Rest(c) # Client(c) /\ Client(c) # Server(c)
        /\ Rest(c) \in Span /\ Server(c) \in Span
    BY SpansDiffer
  <1>3. /\ Typed /\ WorkerFits(w) /\ TraceFits(c) /\ doing[w] = c /\ stage[c] = "calling"
        /\ context[w] = <<Rest(c), Client(c)>>
        /\ span[Rest(c)].state = "live" /\ span[Client(c)].state = "live"
        /\ rpc[c].phase = "ended"
    BY NoCallAssumption DEF ReturnFromStub, TracingIInv, WorkerFits, RpcDone, RpcIs
  <1>4. Below(context[w], Client(c)) = <<Rest(c)>> /\ <<Rest(c)>> \in Seq(Span)
    <2>1. Below(<<Rest(c), Client(c)>>, Client(c)) = <<Rest(c)>>
      BY <1>2, PopInner
    <2> QED
      BY <1>2, <1>3, <2>1
  <1>5. /\ span' \in [Span -> SpanRecord]
        /\ span'[Client(c)].state = "ended" /\ span'[Client(c)].parent = span[Client(c)].parent
        /\ \A r \in Span \ {Client(c)} : span'[r] = span[r]
        /\ context' \in [Threads -> Seq(Span)] /\ context'[w] = <<Rest(c)>>
        /\ \A u \in Threads \ {w} : context'[u] = context[u]
    BY <1>1, <1>2, <1>3, <1>4, LeaveSpanBecomes DEF ReturnFromStub
  <1>6. /\ stage' = [stage EXCEPT ![c] = "back"]
        /\ doing' = doing /\ rpc' = rpc /\ metadata' = metadata
    BY DEF ReturnFromStub
  <1>7. Typed' /\ stage'[c] = "back"
    BY <1>3, <1>5, <1>6 DEF Typed
  <1>8. \A d \in Calls \ {c} :
            stage'[d] = stage[d] /\ rpc'[d] = rpc[d] /\ metadata'[d] = metadata[d]
    BY <1>3, <1>6 DEF Typed
  <1>9. WorkerFits(w)'
    BY <1>2, <1>3, <1>5, <1>6, <1>7, NoCallAssumption DEF WorkerFits
  <1>10. TraceFits(c)'
    BY <1>2, <1>3, <1>5, <1>6, <1>7 DEF TraceFits, Begun
  <1>11. \A u \in Threads \ {w} : (w \in ServerThreads <=> u \in ServerThreads) => doing[u] # c
    BY <1>1, <1>3, WorksAlone
  <1>12. \A r \in records' : RecordFits(r)'
    <2>1. RecordFits(Record(c, "default", context[w], span))
      <3>1. Top(context[w]) = Client(c)
        BY <1>3, TopOfTwo
      <3> QED
        BY <1>3, <3>1, RecordsFit DEF Loggers
    <2>2. records' = records \cup {Record(c, "default", context[w], span)}
      BY DEF ReturnFromStub
    <2> QED
      BY <2>1, <2>2 DEF TracingIInv, RecordFits
  <1> QED
    BY <1>1, <1>2, <1>3, <1>5, <1>6, <1>7, <1>8, <1>9, <1>10, <1>11, <1>12, OneThreadSteps

\* The worker is left with an empty stack.
LEMMA ReturnFromHandlerKeeps ==
    ASSUME TracingIInv, NEW c \in Calls, NEW w \in GatewayThreads, ReturnFromHandler(c, w)
    PROVE  TracingIInv'
  <1>1. w \in Threads /\ w \notin ServerThreads
    BY Sides DEF Threads
  <1>2. /\ Rest(c) \in Span /\ Rest(c) # Client(c) /\ Rest(c) # Server(c)
        /\ Client(c) \in Span /\ Server(c) \in Span
    BY SpansDiffer
  <1>3. /\ Typed /\ WorkerFits(w) /\ TraceFits(c) /\ doing[w] = c /\ stage[c] = "back"
        /\ context[w] = <<Rest(c)>> /\ span[Client(c)].state = "ended"
    BY NoCallAssumption DEF ReturnFromHandler, TracingIInv, WorkerFits
  <1>4. Below(context[w], Rest(c)) = <<>> /\ <<>> \in Seq(Span)
    <2>1. Below(<<Rest(c)>>, Rest(c)) = <<>>
      BY <1>2, PopLast
    <2> QED
      BY <1>3, <2>1
  <1>5. /\ span' \in [Span -> SpanRecord]
        /\ span'[Rest(c)].state = "ended" /\ span'[Rest(c)].parent = span[Rest(c)].parent
        /\ \A r \in Span \ {Rest(c)} : span'[r] = span[r]
        /\ context' \in [Threads -> Seq(Span)] /\ context'[w] = <<>>
        /\ \A u \in Threads \ {w} : context'[u] = context[u]
    BY <1>1, <1>2, <1>3, <1>4, LeaveSpanBecomes DEF ReturnFromHandler
  <1>6. /\ stage' = [stage EXCEPT ![c] = "done"] /\ doing' = [doing EXCEPT ![w] = NoCall]
        /\ rpc' = rpc /\ metadata' = metadata /\ records' = records
    BY DEF ReturnFromHandler
  <1>7. Typed' /\ stage'[c] = "done" /\ doing'[w] = NoCall
    BY <1>1, <1>3, <1>5, <1>6 DEF Typed
  <1>8. /\ \A d \in Calls \ {c} :
               stage'[d] = stage[d] /\ rpc'[d] = rpc[d] /\ metadata'[d] = metadata[d]
        /\ \A u \in Threads \ {w} : doing'[u] = doing[u]
    BY <1>3, <1>6 DEF Typed
  <1>9. WorkerFits(w)'
    BY <1>5, <1>7 DEF WorkerFits
  <1>10. TraceFits(c)'
    BY <1>2, <1>3, <1>5, <1>6, <1>7 DEF TraceFits, Begun
  <1>11. \A u \in Threads \ {w} : (w \in ServerThreads <=> u \in ServerThreads) => doing[u] # c
    BY <1>1, <1>3, WorksAlone
  <1>12. \A r \in records' : RecordFits(r)'
    BY <1>6 DEF TracingIInv, RecordFits
  <1> QED
    BY <1>1, <1>2, <1>3, <1>5, <1>6, <1>7, <1>8, <1>9, <1>10, <1>11, <1>12, OneThreadSteps

-----------------------------------------------------------------------------
(***************************************************************************)
(* The steps of the user manager.                                          *)
(***************************************************************************)

\* The server's span hangs under the client's, or begins a trace where the
\* header is spoilt; the record that is written under it finds it open.
LEMMA EnterHandlerKeeps ==
    ASSUME TracingIInv, NEW c \in Calls, NEW t \in ServerThreads, EnterHandler(c, t)
    PROVE  TracingIInv'
  <1>1. t \in Threads /\ t \notin GatewayThreads
    BY Sides DEF Threads
  <1>2. /\ Server(c) \in Span /\ Server(c) # NoSpan /\ Client(c) # Server(c) /\ Rest(c) # Server(c)
        /\ Rest(c) \in Span /\ Client(c) \in Span
    BY SpansDiffer
  <1>3. /\ Typed /\ HandlerFits(t) /\ TraceFits(c) /\ doing[t] = NoCall /\ context[t] = <<>>
    BY DEF EnterHandler, TracingIInv, HandlerFits
  <1>4. /\ span' \in [Span -> SpanRecord]
        /\ span'[Server(c)].state = "live" /\ span'[Server(c)].parent \in {Client(c), NoSpan}
        /\ \A r \in Span \ {Server(c)} : span'[r] = span[r]
        /\ context' \in [Threads -> Seq(Span)] /\ context'[t] = <<Server(c)>>
        /\ \A u \in Threads \ {t} : context'[u] = context[u]
    <2>1. PICK p \in Extracted(c) : StartSpan(t, Server(c), p)
      BY DEF EnterHandler
    <2>2. p \in {Client(c), NoSpan} /\ p \in Span \cup {NoSpan}
      BY <1>2, <1>3 DEF Extracted, TraceFits
    <2>3. Top(context[t]) = NoSpan /\ Append(context[t], Server(c)) = <<Server(c)>>
      BY <1>2, <1>3, TopOfNone, PushFirst
    <2> QED
      BY <1>1, <1>2, <1>3, <2>1, <2>2, <2>3, StartSpanBecomes
  <1>5. /\ rpc[c].phase = "sent" /\ rpc'[c].phase = "open" /\ rpc'[c].ok = rpc[c].ok
        /\ rpc' \in [Calls -> RpcRecord] /\ \A d \in Calls \ {c} : rpc'[d] = rpc[d]
    <2>1. PICK m \in Methods : RpcTake(c, m)
      BY DEF EnterHandler
    <2>2. RpcBecomes(c, "open", rpc[c].method, rpc[c].id, rpc[c].replies, rpc[c].ok)
      BY <1>3, <2>1, RpcTakeBecomes DEF Typed
    <2> QED
      BY <2>1, <2>2 DEF RpcTake, RpcIs, RpcBecomes
  <1>6. doing' = [doing EXCEPT ![t] = c] /\ stage' = stage /\ metadata' = metadata
    BY DEF EnterHandler
  <1>7. Typed' /\ doing'[t] = c
    BY <1>1, <1>3, <1>4, <1>5, <1>6 DEF Typed
  <1>8. /\ \A d \in Calls \ {c} :
               stage'[d] = stage[d] /\ rpc'[d] = rpc[d] /\ metadata'[d] = metadata[d]
        /\ \A u \in Threads \ {t} : doing'[u] = doing[u]
    BY <1>3, <1>5, <1>6 DEF Typed
  <1>9. HandlerFits(t)'
    BY <1>4, <1>5, <1>7, NoCallAssumption DEF HandlerFits
  <1>10. TraceFits(c)'
    BY <1>2, <1>3, <1>4, <1>5, <1>6 DEF TraceFits, Begun
  <1>11. \A u \in Threads \ {t} : (t \in ServerThreads <=> u \in ServerThreads) => doing[u] # c
    BY <1>5, NoCallAssumption DEF TracingIInv, HandlerFits
  <1>12. \A r \in records' : RecordFits(r)'
    <2>1. RecordFits(Record(c, "default", context'[t], span'))
      <3>1. Top(context'[t]) = Server(c)
        BY <1>4, TopOfOne
      <3> QED
        BY <1>4, <3>1, RecordsFit DEF Loggers
    <2>2. records' \subseteq records \cup {Record(c, "default", context'[t], span')}
      BY DEF EnterHandler
    <2> QED
      BY <2>1, <2>2 DEF TracingIInv, RecordFits
  <1> QED
    BY <1>1, <1>2, <1>3, <1>4, <1>5, <1>6, <1>7, <1>8, <1>9, <1>10, <1>11, <1>12, OneThreadSteps

\* However a handler ends, its thread is left with an empty stack and its span
\* has ended before the client can learn of it.
LEMMA LeaveHandlerKeeps ==
    ASSUME TracingIInv, NEW c \in Calls, NEW t \in ServerThreads, NEW ok \in BOOLEAN,
           doing[t] = c, doing' = [doing EXCEPT ![t] = NoCall],
           LeaveSpan(t, Server(c)), RpcFinish(c, ok, {}),
           UNCHANGED <<stage, metadata>>,
           records' \subseteq records \cup {Record(c, "default", context[t], span)}
    PROVE  TracingIInv'
  <1>1. t \in Threads /\ t \notin GatewayThreads
    BY Sides DEF Threads
  <1>2. /\ Server(c) \in Span /\ Client(c) # Server(c) /\ Rest(c) # Server(c)
        /\ Rest(c) \in Span /\ Client(c) \in Span
    BY SpansDiffer
  <1>3. /\ Typed /\ HandlerFits(t) /\ TraceFits(c)
        /\ context[t] = <<Server(c)>> /\ span[Server(c)].state = "live"
        /\ rpc[c].phase \in {"open", "ended"}
    BY NoCallAssumption DEF TracingIInv, HandlerFits
  <1>4. Below(context[t], Server(c)) = <<>> /\ <<>> \in Seq(Span)
    <2>1. Below(<<Server(c)>>, Server(c)) = <<>>
      BY <1>2, PopLast
    <2> QED
      BY <1>3, <2>1
  <1>5. /\ span' \in [Span -> SpanRecord]
        /\ span'[Server(c)].state = "ended" /\ span'[Server(c)].parent = span[Server(c)].parent
        /\ \A r \in Span \ {Server(c)} : span'[r] = span[r]
        /\ context' \in [Threads -> Seq(Span)] /\ context'[t] = <<>>
        /\ \A u \in Threads \ {t} : context'[u] = context[u]
    BY <1>1, <1>2, <1>3, <1>4, LeaveSpanBecomes
  <1>6. /\ rpc' \in [Calls -> RpcRecord] /\ rpc'[c].phase = "ended"
        /\ \A d \in Calls \ {c} : rpc'[d] = rpc[d]
    <2>1. {} \in SUBSET User
      OBVIOUS
    <2>2. CASE RpcIs(c, "open")
      <3>1. RpcBecomes(c, "ended", rpc[c].method, rpc[c].id, rpc[c].replies \cup {}, ok)
        BY <1>3, <2>1, <2>2, RpcFinishBecomes DEF Typed
      <3> QED
        BY <3>1 DEF RpcBecomes
    <2>3. CASE ~RpcIs(c, "open")
      <3>1. rpc' = rpc
        BY <2>3 DEF RpcFinish
      <3> QED
        BY <1>3, <2>3, <3>1 DEF RpcIs, Typed
    <2> QED
      BY <2>2, <2>3
  <1>7. Typed' /\ doing'[t] = NoCall
    BY <1>1, <1>3, <1>5, <1>6 DEF Typed
  <1>8. /\ \A d \in Calls \ {c} :
               stage'[d] = stage[d] /\ rpc'[d] = rpc[d] /\ metadata'[d] = metadata[d]
        /\ \A u \in Threads \ {t} : doing'[u] = doing[u]
    BY <1>3, <1>6 DEF Typed
  <1>9. HandlerFits(t)'
    BY <1>5, <1>7 DEF HandlerFits
  <1>10. TraceFits(c)'
    BY <1>2, <1>3, <1>5, <1>6 DEF TraceFits, Begun
  <1>11. \A u \in Threads \ {t} : (t \in ServerThreads <=> u \in ServerThreads) => doing[u] # c
    BY <1>1, WorksAlone
  <1>12. \A r \in records' : RecordFits(r)'
    <2>1. RecordFits(Record(c, "default", context[t], span))
      <3>1. Top(context[t]) = Server(c)
        BY <1>3, TopOfOne
      <3> QED
        BY <1>3, <3>1, RecordsFit DEF Loggers
    <2> QED
      BY <2>1 DEF TracingIInv, RecordFits
  <1> QED
    BY <1>1, <1>2, <1>3, <1>5, <1>6, <1>7, <1>8, <1>9, <1>10, <1>11, <1>12, OneThreadSteps

-----------------------------------------------------------------------------
(***************************************************************************)
(* Crashes and broken connections.                                         *)
(***************************************************************************)

\* The spans that are lost are those that the threads have on their stacks, all
\* of them live, and of the sides of that process.
LEMMA LostSpans ==
    ASSUME TracingIInv, NEW threads \in {GatewayThreads, ServerThreads}, LoseThreads(threads)
    PROVE  /\ span' \in [Span -> SpanRecord] /\ context' \in [Threads -> Seq(Span)]
           /\ doing' \in [Threads -> Calls \cup {NoCall}]
           /\ \A t \in threads : doing'[t] = NoCall /\ context'[t] = <<>>
           /\ \A t \in Threads \ threads : doing'[t] = doing[t] /\ context'[t] = context[t]
           /\ \A s \in Span :
                 \/ span'[s] = span[s]
                 \/ /\ span[s].state = "live" /\ span'[s].state = "lost"
                    /\ span'[s].parent = span[s].parent
                    /\ \E t \in threads : \E c \in Calls :
                          /\ doing[t] = c
                          /\ \/ threads = GatewayThreads /\ s \in {Rest(c), Client(c)}
                             \/ threads = ServerThreads /\ s = Server(c)
  <1> DEFINE gone == UNION {{context[t][i] : i \in DOMAIN context[t]} : t \in threads}
  <1>1. Typed /\ threads \subseteq Threads
    BY DEF TracingIInv, Threads
  <1>2. ASSUME NEW s \in gone
        PROVE  /\ s \in Span /\ span[s].state = "live"
               /\ \E t \in threads : \E c \in Calls :
                     /\ doing[t] = c
                     /\ \/ threads = GatewayThreads /\ s \in {Rest(c), Client(c)}
                        \/ threads = ServerThreads /\ s = Server(c)
    <2>1. PICK t \in threads : \E i \in DOMAIN context[t] : s = context[t][i]
      OBVIOUS
    <2>2. PICK i \in DOMAIN context[t] : s = context[t][i]
      BY <2>1
    <2>3. doing[t] \in Calls
      <3>1. context[t] # <<>>
        BY <2>2
      <3> QED
        BY <1>1, <3>1 DEF TracingIInv, WorkerFits, HandlerFits, Typed
    <2>4. CASE threads = GatewayThreads
      <3>1. WorkerFits(t) /\ doing[t] # NoCall
        BY <2>3, <2>4, NoCallAssumption DEF TracingIInv
      <3>2. /\ Rest(doing[t]) \in Span /\ Client(doing[t]) \in Span
        BY <2>3, SpansDiffer
      <3>3. CASE context[t] = <<Rest(doing[t])>>
        <4>1. s = Rest(doing[t])
          BY <2>2, <3>3
        <4> QED
          BY <2>3, <2>4, <3>1, <3>2, <4>1 DEF WorkerFits
      <3>4. CASE stage[doing[t]] = "calling" /\ context[t] = <<Rest(doing[t]), Client(doing[t])>>
        <4>1. s \in {Rest(doing[t]), Client(doing[t])}
          BY <2>2, <3>4
        <4> QED
          BY <2>3, <2>4, <3>1, <3>2, <3>4, <4>1 DEF WorkerFits
      <3> QED
        BY <3>1, <3>3, <3>4 DEF WorkerFits
    <2>5. CASE threads = ServerThreads
      <3>1. HandlerFits(t) /\ doing[t] # NoCall
        BY <2>3, <2>5, NoCallAssumption DEF TracingIInv
      <3>2. context[t] = <<Server(doing[t])>> /\ Server(doing[t]) \in Span
        BY <2>3, <3>1, SpansDiffer DEF HandlerFits
      <3>3. s = Server(doing[t])
        BY <2>2, <3>2
      <3> QED
        BY <2>3, <2>5, <3>1, <3>2, <3>3 DEF HandlerFits
    <2> QED
      BY <2>4, <2>5
  <1>3. /\ doing' = [t \in Threads |-> IF t \in threads THEN NoCall ELSE doing[t]]
        /\ context' = [t \in Threads |-> IF t \in threads THEN <<>> ELSE context[t]]
        /\ span' = [s \in Span |-> IF s \in gone THEN [span[s] EXCEPT !.state = "lost"] ELSE span[s]]
    BY DEF LoseThreads
  <1>4. \A s \in Span : /\ [span[s] EXCEPT !.state = "lost"] \in SpanRecord
                        /\ [span[s] EXCEPT !.state = "lost"].state = "lost"
                        /\ [span[s] EXCEPT !.state = "lost"].parent = span[s].parent
    BY <1>1 DEF Typed, SpanRecord
  <1> HIDE DEF gone
  <1>5. span' \in [Span -> SpanRecord]
    BY <1>1, <1>3, <1>4 DEF Typed
  <1>6. /\ context' \in [Threads -> Seq(Span)] /\ doing' \in [Threads -> Calls \cup {NoCall}]
        /\ \A t \in threads : doing'[t] = NoCall /\ context'[t] = <<>>
        /\ \A t \in Threads \ threads : doing'[t] = doing[t] /\ context'[t] = context[t]
    BY <1>1, <1>3 DEF Typed
  <1>7. \A s \in Span : s \notin gone => span'[s] = span[s]
    BY <1>3
  <1>8. \A s \in gone : span'[s].state = "lost" /\ span'[s].parent = span[s].parent
    BY <1>2, <1>3, <1>4
  <1> QED
    BY <1>2, <1>5, <1>6, <1>7, <1>8

\* What a crash or a broken connection does to a request leaves its spans
\* standing to one another as before.
LEMMA TraceSurvives ==
    ASSUME TracingIInv, NEW c \in Calls,
           stage'[c] = "new" => stage[c] = "new",
           metadata'[c] = metadata[c],
           \/ rpc'[c] = rpc[c]
           \/ /\ rpc[c].phase \in {"sent", "open"}
              /\ rpc'[c].phase = "ended" /\ rpc'[c].ok = FALSE,
           \A s \in {Rest(c), Client(c), Server(c)} :
              \/ span'[s] = span[s]
              \/ /\ span[s].state = "live" /\ span'[s].state = "lost"
                 /\ span'[s].parent = span[s].parent
    PROVE  TraceFits(c)'
  <1>1. TraceFits(c)
    BY DEF TracingIInv
  <1> QED
    BY <1>1 DEF TraceFits, Begun

\* The gateway dies with its workers and their spans.
LEMMA GatewayDiesKeeps ==
    ASSUME TracingIInv, GatewayDies
    PROVE  TracingIInv'
  <1>1. /\ Typed /\ stage' = [c \in Calls |-> IF stage[c] = "new" THEN "new" ELSE "done"]
        /\ rpc' = rpc /\ metadata' = metadata /\ records' = records
    BY DEF GatewayDies, LoseThreads, TracingIInv
  <1>2. /\ span' \in [Span -> SpanRecord] /\ context' \in [Threads -> Seq(Span)]
        /\ doing' \in [Threads -> Calls \cup {NoCall}]
        /\ \A t \in GatewayThreads : doing'[t] = NoCall /\ context'[t] = <<>>
        /\ \A t \in Threads \ GatewayThreads : doing'[t] = doing[t] /\ context'[t] = context[t]
        /\ \A s \in Span :
              \/ span'[s] = span[s]
              \/ /\ span[s].state = "live" /\ span'[s].state = "lost"
                 /\ span'[s].parent = span[s].parent
                 /\ \E c \in Calls : s \in {Rest(c), Client(c)}
    BY LostSpans, ThreadsAssumption DEF GatewayDies
  <1>3. Typed'
    BY <1>1, <1>2 DEF Typed
  <1>4. ASSUME NEW w \in GatewayThreads
        PROVE  WorkerFits(w)'
    BY <1>2 DEF WorkerFits
  <1>5. ASSUME NEW t \in ServerThreads
        PROVE  HandlerFits(t)'
    <2>1. doing'[t] = doing[t] /\ context'[t] = context[t]
      BY <1>2, ThreadsAssumption DEF Threads
    <2>2. ASSUME doing[t] # NoCall
          PROVE  span'[Server(doing[t])] = span[Server(doing[t])]
      <3>1. doing[t] \in Calls
        BY <1>1, <2>2 DEF Typed, Threads
      <3> QED
        BY <1>2, <3>1, SpansDiffer
    <2> QED
      BY <1>1, <2>1, <2>2, HandlerStays
  <1>6. WorkOnce'
    BY <1>2 DEF TracingIInv, WorkOnce, Threads
  <1>7. ASSUME NEW c \in Calls
        PROVE  TraceFits(c)'
    <2>1. Rest(c) \in Span /\ Client(c) \in Span /\ Server(c) \in Span
      BY SpansDiffer
    <2>2. stage'[c] = "new" => stage[c] = "new"
      BY <1>1
    <2> QED
      BY <1>1, <1>2, <2>1, <2>2, TraceSurvives
  <1> QED
    BY <1>1, <1>3, <1>4, <1>5, <1>6, <1>7 DEF TracingIInv, RecordFits

\* The user manager dies with its threads and their spans; their calls break.
LEMMA LoseServerKeeps ==
    ASSUME TracingIInv, LoseServer, \A r \in records' : RecordFits(r)
    PROVE  TracingIInv'
  <1>1. /\ Typed /\ stage' = stage /\ metadata' = metadata
    BY DEF LoseServer, LoseThreads, TracingIInv
  <1>2. /\ span' \in [Span -> SpanRecord] /\ context' \in [Threads -> Seq(Span)]
        /\ doing' \in [Threads -> Calls \cup {NoCall}]
        /\ \A t \in ServerThreads : doing'[t] = NoCall /\ context'[t] = <<>>
        /\ \A t \in Threads \ ServerThreads : doing'[t] = doing[t] /\ context'[t] = context[t]
        /\ \A s \in Span :
              \/ span'[s] = span[s]
              \/ /\ span[s].state = "live" /\ span'[s].state = "lost"
                 /\ span'[s].parent = span[s].parent
                 /\ \E c \in Calls : s = Server(c)
    BY LostSpans, ThreadsAssumption DEF LoseServer
  <1>3. /\ rpc' \in [Calls -> RpcRecord]
        /\ \A c \in Calls :
              \/ rpc'[c] = rpc[c]
              \/ /\ rpc[c].phase \in {"sent", "open"}
                 /\ rpc'[c].phase = "ended" /\ rpc'[c].ok = FALSE
    BY <1>1, RpcBreakBecomes DEF LoseServer, Typed
  <1>4. Typed'
    BY <1>1, <1>2, <1>3 DEF Typed
  <1>5. ASSUME NEW w \in GatewayThreads
        PROVE  WorkerFits(w)'
    <2>1. doing'[w] = doing[w] /\ context'[w] = context[w]
      BY <1>2, ThreadsAssumption DEF Threads
    <2>2. ASSUME doing[w] # NoCall
          PROVE  /\ span'[Rest(doing[w])] = span[Rest(doing[w])]
                 /\ span'[Client(doing[w])] = span[Client(doing[w])]
      <3>1. doing[w] \in Calls
        BY <1>1, <2>2 DEF Typed, Threads
      <3> QED
        BY <1>2, <3>1, SpansDiffer
    <2> QED
      BY <1>1, <2>1, <2>2, WorkerStays
  <1>6. ASSUME NEW t \in ServerThreads
        PROVE  HandlerFits(t)'
    BY <1>2 DEF HandlerFits
  <1>7. WorkOnce'
    BY <1>2 DEF TracingIInv, WorkOnce, Threads
  <1>8. ASSUME NEW c \in Calls
        PROVE  TraceFits(c)'
    <2>1. Rest(c) \in Span /\ Client(c) \in Span /\ Server(c) \in Span
      BY SpansDiffer
    <2> QED
      BY <1>1, <1>2, <1>3, <2>1, TraceSurvives
  <1> QED
    BY <1>1, <1>4, <1>5, <1>6, <1>7, <1>8 DEF TracingIInv, RecordFits

\* It leaves the records as they are ..
LEMMA ServerDiesKeeps ==
    ASSUME TracingIInv, ServerDies
    PROVE  TracingIInv'
  BY LoseServerKeeps DEF ServerDies, TracingIInv

\* .. or with one more, which the DAO writes under the span of the handler.
LEMMA CreationFailsKeeps ==
    ASSUME TracingIInv, NEW c \in Calls, NEW t \in ServerThreads, CreationFails(c, t)
    PROVE  TracingIInv'
  <1>1. doing[t] = c /\ HandlerFits(t) /\ c # NoCall
    BY NoCallAssumption DEF CreationFails, TracingIInv
  <1>2. span[Server(c)].state = "live" /\ context[t] = <<Server(c)>>
    BY <1>1 DEF HandlerFits
  <1>3. Top(context[t]) = Server(c)
    BY <1>2, TopOfOne
  <1>4. RecordFits(Record(c, "dao", context[t], span))
    BY <1>2, <1>3, RecordsFit DEF Loggers
  <1>5. \A r \in records' : RecordFits(r)
    BY <1>4 DEF CreationFails, TracingIInv
  <1> QED
    BY <1>5, LoseServerKeeps DEF CreationFails

\* A connection breaks: the handler at the other end goes on.
LEMMA DisconnectKeeps ==
    ASSUME TracingIInv, NEW c \in Calls, Disconnect(c)
    PROVE  TracingIInv'
  <1>1. /\ Typed /\ stage' = stage /\ doing' = doing /\ context' = context /\ span' = span
        /\ metadata' = metadata /\ records' = records
    BY DEF Disconnect, TracingIInv
  <1>2. /\ rpc' \in [Calls -> RpcRecord]
        /\ \A d \in Calls :
              \/ rpc'[d] = rpc[d]
              \/ /\ rpc[d].phase \in {"sent", "open"}
                 /\ rpc'[d].phase = "ended" /\ rpc'[d].ok = FALSE
    BY <1>1, RpcBreakBecomes DEF Disconnect, Typed
  <1>3. Typed'
    BY <1>1, <1>2 DEF Typed
  <1>4. ASSUME NEW w \in GatewayThreads
        PROVE  WorkerFits(w)'
    BY <1>1, WorkerStays
  <1>5. ASSUME NEW t \in ServerThreads
        PROVE  HandlerFits(t)'
    <2>1. ASSUME doing[t] # NoCall, rpc[doing[t]].phase \in {"open", "ended"}
          PROVE  rpc'[doing[t]].phase \in {"open", "ended"}
      <3>1. doing[t] \in Calls
        BY <1>1, <2>1 DEF Typed, Threads
      <3> QED
        BY <1>2, <2>1, <3>1
    <2> QED
      BY <1>1, <2>1, HandlerStays
  <1>6. WorkOnce'
    BY <1>1 DEF TracingIInv, WorkOnce
  <1>7. ASSUME NEW d \in Calls
        PROVE  TraceFits(d)'
    BY <1>1, <1>2, TraceSurvives
  <1> QED
    BY <1>1, <1>3, <1>4, <1>5, <1>6, <1>7 DEF TracingIInv, RecordFits

-----------------------------------------------------------------------------
(***************************************************************************)
(* The theorems.                                                           *)
(***************************************************************************)

\* At first no thread works and no span has begun.
LEMMA TracingIInvInit == TracingInit => TracingIInv
  <1> SUFFICES ASSUME TracingInit
               PROVE  TracingIInv
    OBVIOUS
  <1>1. Typed
    <2>1. Unused \in RpcRecord
      BY DEF Unused, RpcRecord
    <2>2. NotStarted \in SpanRecord
      BY DEF NotStarted, SpanRecord
    <2>3. <<>> \in Seq(Span)
      OBVIOUS
    <2> QED
      BY <2>1, <2>2, <2>3 DEF TracingInit, RpcInit, Typed
  <1>2. \A w \in GatewayThreads : WorkerFits(w)
    BY DEF TracingInit, WorkerFits, Threads
  <1>3. \A t \in ServerThreads : HandlerFits(t)
    BY DEF TracingInit, HandlerFits, Threads
  <1>4. WorkOnce
    BY DEF TracingInit, WorkOnce
  <1>5. ASSUME NEW c \in Calls
        PROVE  TraceFits(c)
    <2>1. /\ span[Rest(c)] = NotStarted /\ span[Client(c)] = NotStarted
          /\ span[Server(c)] = NotStarted
      BY SpansDiffer DEF TracingInit
    <2>2. rpc[c] = Unused /\ metadata[c] = NoSpan
      BY DEF TracingInit, RpcInit
    <2> QED
      BY <2>1, <2>2 DEF TraceFits, Begun, NotStarted, Unused
  <1> QED
    BY <1>1, <1>2, <1>3, <1>4, <1>5 DEF TracingIInv, TracingInit

\* Every step keeps the invariant.
LEMMA TracingStepKeeps == TracingIInv /\ [TracingNext]_tracingVars => TracingIInv'
  <1> SUFFICES ASSUME TracingIInv, [TracingNext]_tracingVars
               PROVE  TracingIInv'
    OBVIOUS
  <1>1. ASSUME NEW c \in Calls, NEW w \in GatewayThreads, Handle(c, w)
        PROVE  TracingIInv'
    BY <1>1, HandleKeeps
  <1>2. ASSUME NEW c \in Calls, GatewayWork(c)
        PROVE  TracingIInv'
    BY <1>2, CallStubKeeps, ReturnFromStubKeeps, ReturnFromHandlerKeeps DEF GatewayWork
  <1>3. ASSUME NEW c \in Calls, ServerWork(c)
        PROVE  TracingIInv'
    <2>1. PICK t \in ServerThreads : EnterHandler(c, t) \/ ReturnOk(c, t) \/ HandlerThrows(c, t)
                                       \/ CreationFails(c, t)
      BY <1>3 DEF ServerWork
    <2>2. CASE EnterHandler(c, t)
      BY <2>2, EnterHandlerKeeps
    <2>3. CASE ReturnOk(c, t)
      BY <2>3, LeaveHandlerKeeps DEF ReturnOk
    <2>4. CASE HandlerThrows(c, t)
      BY <2>4, LeaveHandlerKeeps DEF HandlerThrows
    <2>5. CASE CreationFails(c, t)
      BY <2>5, CreationFailsKeeps
    <2> QED
      BY <2>1, <2>2, <2>3, <2>4, <2>5
  <1>4. ASSUME UNCHANGED tracingVars
        PROVE  TracingIInv'
    BY <1>4 DEF tracingVars, TracingIInv, Typed, WorkerFits, HandlerFits, WorkOnce, TraceFits,
       Begun, RecordFits
  <1> QED
    BY <1>1, <1>2, <1>3, <1>4, DisconnectKeeps, ServerDiesKeeps, GatewayDiesKeeps
       DEF TracingNext, AllReturned

\* The inductive invariant holds of every number of requests and threads.
THEOREM TracingInvariance == TracingSpec => []TracingIInv
  BY TracingIInvInit, TracingStepKeeps, PTL DEF TracingSpec

\* The stacks that come up are short.
LEMMA ShortStacks ==
    ASSUME NEW a, NEW b, NEW stack
    PROVE  /\ stack = <<>> => Len(stack) <= 1
           /\ stack = <<a>> => Len(stack) <= 1
           /\ stack = <<a, b>> => Len(stack) <= 2
  <1>1. Len(<<>>) = 0 /\ Len(<<a>>) = 1 /\ Len(<<a, b>>) = 2
    OBVIOUS
  <1>2. CASE stack = <<>>
    BY <1>1, <1>2
  <1>3. CASE stack = <<a>>
    BY <1>1, <1>3
  <1>4. CASE stack = <<a, b>>
    BY <1>1, <1>4
  <1> QED
    BY <1>2, <1>3, <1>4

\* What the invariant says of stacks bounds their length.
LEMMA IInvTracingTypes == TracingIInv => TracingTypeOK
  <1> SUFFICES ASSUME TracingIInv
               PROVE  TracingTypeOK
    OBVIOUS
  <1>1. ASSUME NEW w \in GatewayThreads
        PROVE  Len(context[w]) <= 2
    <2>1. \/ context[w] = <<>>
          \/ context[w] = <<Rest(doing[w])>>
          \/ context[w] = <<Rest(doing[w]), Client(doing[w])>>
      BY DEF TracingIInv, WorkerFits
    <2>2. Len(context[w]) <= 1 \/ Len(context[w]) <= 2
      BY <2>1, ShortStacks
    <2>3. Len(context[w]) \in Nat
      BY LenProperties DEF TracingIInv, Typed, Threads
    <2> QED
      BY <2>2, <2>3
  <1>2. ASSUME NEW t \in ServerThreads
        PROVE  Len(context[t]) <= 1
    <2>1. context[t] = <<>> \/ context[t] = <<Server(doing[t])>>
      BY DEF TracingIInv, HandlerFits
    <2> QED
      BY <2>1, ShortStacks
  <1>3. ASSUME NEW r \in records
        PROVE  r \in [call : Calls, logger : Loggers, ids : Span \cup {NoSpan},
                      event : Span \cup {NoSpan}]
    <2>1. RecordFits(r)
      BY DEF TracingIInv
    <2>2. r.call \in Calls /\ r.logger \in Loggers /\ r.event \in Span
      BY <2>1, SpansDiffer DEF RecordFits
    <2> DEFINE ids == IF r.logger = "default" THEN r.event ELSE NoSpan
    <2>3. ids \in Span \cup {NoSpan}
      BY <2>2
    <2>4. r = [call |-> r.call, logger |-> r.logger, event |-> r.event, ids |-> ids]
      BY <2>1 DEF RecordFits
    <2> HIDE DEF ids
    <2> QED
      BY <2>2, <2>3, <2>4
  <1> QED
    BY <1>1, <1>2, <1>3 DEF TracingIInv, Typed, SpanRecord, TracingTypeOK

\* No thread keeps more spans than those of the request that it serves, however
\* many it has served and however they ended.
THEOREM TracingTypes == TracingSpec => []TracingTypeOK
  BY TracingInvariance, IInvTracingTypes, PTL

\* A span hangs under the span of its own request that encloses it, or begins a
\* trace.
THEOREM ParentsAreOfTheRequest == TracingSpec => []SpansNest
  <1>1. TracingIInv => SpansNest
    BY DEF TracingIInv, TraceFits, SpansNest
  <1> QED
    BY <1>1, TracingInvariance, PTL

\* Every record of a request, that of a failing database included, becomes an
\* event of an open span of the request that it is about; those of the default
\* logger bear the ids of that span, and the DAO's own bears none.
THEOREM RecordsAreOfTheRequest == TracingSpec => []RecordsFindTheirSpan
  <1>1. TracingIInv => RecordsFindTheirSpan
    <2> SUFFICES ASSUME TracingIInv, NEW r \in records
                 PROVE  /\ r.event \in {Client(r.call), Server(r.call)}
                        /\ r.ids = IF r.logger = "default" THEN r.event ELSE NoSpan
      BY DEF RecordsFindTheirSpan
    <2>1. RecordFits(r)
      BY DEF TracingIInv
    <2> DEFINE ids == IF r.logger = "default" THEN r.event ELSE NoSpan
    <2>2. r = [call |-> r.call, logger |-> r.logger, event |-> r.event, ids |-> ids]
      BY <2>1 DEF RecordFits
    <2>3. r.ids = ids
      <3> HIDE DEF ids
      <3> QED
        BY <2>2
    <2> QED
      BY <2>1, <2>3 DEF RecordFits
  <1> QED
    BY <1>1, TracingInvariance, PTL

\* The spans of a request end from the inside to the outside.
THEOREM InnerSpansEndFirst == TracingSpec => []SpansEndInsideOut
  <1>1. TracingIInv => SpansEndInsideOut
    BY DEF TracingIInv, TraceFits, SpansEndInsideOut
  <1> QED
    BY <1>1, TracingInvariance, PTL
=============================================================================

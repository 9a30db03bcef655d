--------------------------- MODULE UserRpcProofs ---------------------------
(***************************************************************************)
(* What each operation of UserRpc does to the remote calls, field by       *)
(* field: the lemmas that the proofs about every user of UserRpc need.     *)
(***************************************************************************)
EXTENDS UserRpc, TLAPS

\* The remote call of c is replaced, field by field; every other one stays.
RpcBecomes(c, phase, method, id, replies, ok) ==
    /\ rpc' \in [Calls -> RpcRecord]
    /\ rpc'[c].phase = phase
    /\ rpc'[c].method = method
    /\ rpc'[c].id = id
    /\ rpc'[c].replies = replies
    /\ rpc'[c].ok = ok
    /\ \A d \in Calls \ {c} : rpc'[d] = rpc[d]

\* One record is replaced by another (the form that every operation takes).
LEMMA RpcUpdate ==
    ASSUME rpc \in [Calls -> RpcRecord], NEW c \in Calls, NEW r \in RpcRecord,
           rpc' = [rpc EXCEPT ![c] = r]
    PROVE  RpcBecomes(c, r.phase, r.method, r.id, r.replies, r.ok)
  BY DEF RpcBecomes

\* The stub sends the request (RpcStart).
LEMMA RpcStartBecomes ==
    ASSUME rpc \in [Calls -> RpcRecord], NEW c \in Calls, NEW method \in Methods, NEW id \in Nat,
           RpcStart(c, method, id)
    PROVE  RpcBecomes(c, "sent", method, id, rpc[c].replies, rpc[c].ok)
  <1> DEFINE r == [rpc[c] EXCEPT !.phase = "sent", !.method = method, !.id = id]
  <1>1. /\ r \in RpcRecord
        /\ r.phase = "sent" /\ r.method = method /\ r.id = id
        /\ r.replies = rpc[c].replies /\ r.ok = rpc[c].ok
    BY DEF RpcRecord
  <1>2. rpc' = [rpc EXCEPT ![c] = r]
    BY DEF RpcStart
  <1> HIDE DEF r
  <1> QED
    BY <1>1, <1>2, RpcUpdate

\* A server thread picks the request up (RpcTake).
LEMMA RpcTakeBecomes ==
    ASSUME rpc \in [Calls -> RpcRecord], NEW c \in Calls, NEW method, RpcTake(c, method)
    PROVE  RpcBecomes(c, "open", rpc[c].method, rpc[c].id, rpc[c].replies, rpc[c].ok)
  <1> DEFINE r == [rpc[c] EXCEPT !.phase = "open"]
  <1>1. /\ r \in RpcRecord
        /\ r.phase = "open" /\ r.method = rpc[c].method /\ r.id = rpc[c].id
        /\ r.replies = rpc[c].replies /\ r.ok = rpc[c].ok
    BY DEF RpcRecord
  <1>2. rpc' = [rpc EXCEPT ![c] = r]
    BY DEF RpcTake
  <1> HIDE DEF r
  <1> QED
    BY <1>1, <1>2, RpcUpdate

\* A reply is written unless the call is broken (RpcWrite).
LEMMA RpcWriteBecomes ==
    ASSUME rpc \in [Calls -> RpcRecord], NEW c \in Calls, NEW u \in User, RpcWrite(c, u)
    PROVE  IF RpcIs(c, "open")
           THEN RpcBecomes(c, "open", rpc[c].method, rpc[c].id, rpc[c].replies \cup {u}, rpc[c].ok)
           ELSE rpc' = rpc
  <1> DEFINE r == [rpc[c] EXCEPT !.replies = @ \cup {u}]
  <1>1. /\ r \in RpcRecord
        /\ r.phase = rpc[c].phase /\ r.method = rpc[c].method /\ r.id = rpc[c].id
        /\ r.replies = rpc[c].replies \cup {u} /\ r.ok = rpc[c].ok
    BY DEF RpcRecord
  <1>2. ASSUME RpcIs(c, "open")
        PROVE  rpc' = [rpc EXCEPT ![c] = r]
    BY <1>2 DEF RpcWrite
  <1> HIDE DEF r
  <1> QED
    BY <1>1, <1>2, RpcUpdate DEF RpcIs, RpcWrite

\* The status is sent unless the call is broken (RpcFinish).
LEMMA RpcFinishBecomes ==
    ASSUME rpc \in [Calls -> RpcRecord], NEW c \in Calls, NEW ok \in BOOLEAN,
           NEW response \in SUBSET User, RpcFinish(c, ok, response)
    PROVE  IF RpcIs(c, "open")
           THEN RpcBecomes(c, "ended", rpc[c].method, rpc[c].id, rpc[c].replies \cup response, ok)
           ELSE rpc' = rpc
  <1> DEFINE r == [rpc[c] EXCEPT !.phase = "ended", !.ok = ok, !.replies = @ \cup response]
  <1>1. /\ r \in RpcRecord
        /\ r.phase = "ended" /\ r.method = rpc[c].method /\ r.id = rpc[c].id
        /\ r.replies = rpc[c].replies \cup response /\ r.ok = ok
    BY DEF RpcRecord
  <1>2. ASSUME RpcIs(c, "open")
        PROVE  rpc' = [rpc EXCEPT ![c] = r]
    BY <1>2 DEF RpcFinish
  <1> HIDE DEF r
  <1>3. CASE RpcIs(c, "open")
    <2>1. RpcBecomes(c, r.phase, r.method, r.id, r.replies, r.ok)
      BY <1>1, <1>2, <1>3, RpcUpdate
    <2> QED
      BY <1>1, <1>3, <2>1
  <1>4. CASE ~RpcIs(c, "open")
    BY <1>4 DEF RpcFinish
  <1> QED
    BY <1>3, <1>4

\* The client takes a reply (RpcRead).
LEMMA RpcReadBecomes ==
    ASSUME rpc \in [Calls -> RpcRecord], NEW c \in Calls, NEW u, RpcRead(c, u)
    PROVE  RpcBecomes(c, rpc[c].phase, rpc[c].method, rpc[c].id, rpc[c].replies \ {u}, rpc[c].ok)
  <1> DEFINE r == [rpc[c] EXCEPT !.replies = @ \ {u}]
  <1>1. /\ r \in RpcRecord
        /\ r.phase = rpc[c].phase /\ r.method = rpc[c].method /\ r.id = rpc[c].id
        /\ r.replies = rpc[c].replies \ {u} /\ r.ok = rpc[c].ok
    BY DEF RpcRecord
  <1>2. rpc' = [rpc EXCEPT ![c] = r]
    BY DEF RpcRead
  <1> HIDE DEF r
  <1> QED
    BY <1>1, <1>2, RpcUpdate

\* A broken call ends with an error and no replies (RpcBreak).
LEMMA RpcBreakBecomes ==
    ASSUME rpc \in [Calls -> RpcRecord], NEW broken, RpcBreak(broken)
    PROVE  /\ rpc' \in [Calls -> RpcRecord]
           /\ \A d \in Calls :
                 \/ rpc'[d] = rpc[d] /\ (d \in broken => rpc[d].phase \in {"unused", "ended"})
                 \/ /\ d \in broken
                    /\ rpc[d].phase \in {"sent", "open"}
                    /\ rpc'[d].phase = "ended"
                    /\ rpc'[d].method = rpc[d].method
                    /\ rpc'[d].id = rpc[d].id
                    /\ rpc'[d].replies = {}
                    /\ rpc'[d].ok = FALSE
  <1>1. \A d \in Calls : [rpc[d] EXCEPT !.phase = "ended", !.ok = FALSE, !.replies = {}]
                            \in RpcRecord
    BY DEF RpcRecord
  <1>2. rpc' \in [Calls -> RpcRecord]
    BY <1>1 DEF RpcBreak
  <1>3. ASSUME NEW d \in Calls, d \in broken, rpc[d].phase \in {"sent", "open"}
        PROVE  rpc'[d] = [rpc[d] EXCEPT !.phase = "ended", !.ok = FALSE, !.replies = {}]
    BY <1>3 DEF RpcBreak
  <1>4. ASSUME NEW d \in Calls, ~(d \in broken /\ rpc[d].phase \in {"sent", "open"})
        PROVE  rpc'[d] = rpc[d]
    BY <1>4 DEF RpcBreak
  <1> QED
    BY <1>2, <1>3, <1>4 DEF RpcRecord
=============================================================================

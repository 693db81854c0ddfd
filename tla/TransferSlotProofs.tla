------------------------- MODULE TransferSlotProofs -------------------------
(***************************************************************************)
(* Safety of module TransferSlot, for files of any number of chunks and    *)
(* any number of connections, errors and attempts.                         *)
(*                                                                         *)
(* The byte counter is a sum over chunks (bytes).  Every step either ends  *)
(* the slot, opens one (dispatch), takes the next chunk, or lets the       *)
(* connections go on (Ends, Takes, Keeps): StepKind shows it once, action  *)
(* by action, and the invariant Chunks is then shown for the four kinds.   *)
(***************************************************************************)
EXTENDS TransferSlot, Induction, TLAPS

-----------------------------------------------------------------------------
(* Sums over the chunks *)

(* The chunks are numbered from 0. *)
LEMMA ChunkIs == Chunk = Below(N)
  BY DEF Chunk, Below

\* bytes of the chunks in d
weight(d) == [c \in Chunk |-> IF c \in d THEN size(c) ELSE 0]
bytes(d) == Sum(N, weight(d))[N]

(* Sizes are natural numbers. *)
LEMMA WeightType == \A d : weight(d) \in [Chunk -> Nat]
  BY DEF weight, size, Chunk

(* transfer->size is the size of all chunks. *)
LEMMA TotalIs == IsSum(offset, N, weight(Chunk))
  <1> DEFINE F(f) == [n \in 0 .. N |-> IF n = 0 THEN 0 ELSE f[n - 1] + size(n - 1)]
             G(f) == [n \in 0 .. N |-> IF n = 0 THEN 0
                                       ELSE f[n - 1] + weight(Chunk)[n - 1]]
  <1>1. ASSUME NEW f PROVE F(f) = G(f)
    <2>1. ASSUME NEW n \in 0 .. N, n # 0 PROVE size(n - 1) = weight(Chunk)[n - 1]
      BY <2>1, SlotAssumption DEF weight, Chunk
    <2> QED BY <2>1, Zenon
  <1>2. offset = CHOOSE f : f = F(f)
    BY DEF offset
  <1>3. \E f : f = F(f)
    <2> DEFINE f == Sum(N, weight(Chunk))
    <2>1. f = G(f)
      BY SumExists, SlotAssumption, Zenon DEF IsSum
    <2>2. F(f) = G(f)
      BY <1>1, Zenon
    <2> HIDE DEF f, F, G
    <2> QED BY <2>1, <2>2, Zenon
  <1> HIDE DEF F
  <1>4. offset = F(offset)
    BY <1>2, <1>3
  <1> QED BY <1>1, <1>4 DEF IsSum

(* A chunk that arrives is counted once. *)
LEMMA BytesAdd ==
    ASSUME NEW d, NEW c \in Chunk, c \notin d
    PROVE  bytes(d \union {c}) = bytes(d) + size(c)
  <1> DEFINE v == weight(d \union {c})
             w == weight(d)
  <1>1. /\ w[c] = 0 /\ v[c] = size(c) /\ size(c) \in Nat
        /\ \A i \in Chunk \ {c} : v[i] = w[i]
    BY DEF weight, size, Chunk
  <1>2. v \in [Chunk -> Nat] /\ w \in [Chunk -> Nat]
    BY WeightType
  <1>3. IsSum(Sum(N, v), N, v) /\ IsSum(Sum(N, w), N, w)
    BY SumExists, SlotAssumption
  <1>4. v[c] = w[c] + size(c)
    BY <1>1
  <1> HIDE DEF v, w
  <1>5. Sum(N, v)[N] = Sum(N, w)[N] + size(c)
    BY <1>1, <1>2, <1>3, <1>4, SumAdd, ChunkIs, SlotAssumption
  <1> QED BY <1>5 DEF v, w, bytes

(* Nothing is counted in an empty file. *)
LEMMA BytesNone == bytes({}) = 0
  <1> DEFINE w == weight({})
  <1>1. w \in [Chunk -> Nat] /\ \A c \in Chunk : w[c] = 0
    BY WeightType DEF weight
  <1>2. IsSum(Sum(N, w), N, w)
    BY SumExists, SlotAssumption
  <1> HIDE DEF w
  <1>3. Sum(N, w)[N] = 0
    BY <1>1, <1>2, SumZero, ChunkIs, SlotAssumption
  <1> QED BY <1>3 DEF w, bytes

(* The byte counter reaches the file size only with all chunks. *)
LEMMA BytesAll ==
    ASSUME NEW d, d \subseteq Chunk, bytes(d) = total
    PROVE  d = Chunk
  <1> DEFINE v == weight(Chunk)
             w == weight(d)
  <1>1. v \in [Chunk -> Nat] /\ w \in [Chunk -> Nat] /\ \A i \in Chunk : w[i] <= v[i]
    BY WeightType DEF weight, size, Chunk
  <1>2. IsSum(offset, N, v) /\ IsSum(Sum(N, w), N, w)
    BY SumExists, TotalIs, SlotAssumption
  <1>3. Sum(N, w)[N] = offset[N]
    BY DEF bytes, total
  <1>4. \A i \in Chunk : i \notin d => v[i] # w[i]
    BY DEF weight, size, Chunk
  <1> HIDE DEF v, w
  <1>5. \A i \in Chunk : v[i] = w[i]
    BY <1>1, <1>2, <1>3, SumEqual, ChunkIs, SlotAssumption
  <1> QED BY <1>4, <1>5

-----------------------------------------------------------------------------
(* Types *)

ReqType == [status : Statuses, chunk : Chunk, in : Bodies, posturl : BOOLEAN]

(* A new slot starts inside the file; a download's first chunk follows a
   prefix of chunks that are all in chunkmacs. *)
LEMMA StartPos ==
    ASSUME NEW m, m \subseteq Chunk
    PROVE  /\ startpos(m) \in 0 .. N
           /\ Dir = "PUT" => startpos(m) = 0
           /\ Dir = "GET" => \A c \in Chunk : c < startpos(m) => c \in m
  <1> USE SlotAssumption
  <1> DEFINE P(n) == /\ \A c \in Chunk : c < n => c \in m
                     /\ n \in Chunk => n \notin m
             T == {n \in 0 .. N : n \notin m}
  <1>1. N \in T
    BY DEF Chunk
  <1>2. PICK n \in T : \A k \in T : n <= k
    <2>1. T \subseteq Nat /\ T # {}
      BY <1>1
    <2> HIDE DEF T
    <2> QED BY <2>1, LeastNat
  <1>3. P(n)
    <2>1. ASSUME NEW c \in Chunk, c < n PROVE c \in m
      BY <1>2, <2>1 DEF Chunk
    <2> QED BY <2>1
  <1>4. Dir = "GET" => startpos(m) \in 0 .. N /\ P(startpos(m))
    <2> SUFFICES ASSUME Dir = "GET" PROVE startpos(m) \in 0 .. N /\ P(startpos(m))
      OBVIOUS
    <2>1. startpos(m) = CHOOSE k \in 0 .. N : P(k)
      BY DEF startpos
    <2>2. n \in 0 .. N
      OBVIOUS
    <2> HIDE DEF P
    <2> QED BY <1>3, <2>1, <2>2
  <1>5. Dir = "PUT" => startpos(m) = 0
    BY DEF startpos
  <1> QED BY <1>4, <1>5

(* HttpReqXfer objects as the slot creates and updates them. *)
LEMMA ReqTypes ==
    /\ Null \in ReqType
    /\ \A u \in BOOLEAN : Ready(u) \in ReqType
    /\ \A c \in Chunk : Prepared(c) \in ReqType
    /\ \A q \in ReqType, s \in Statuses, b \in Bodies : With(q, s, b) \in ReqType
  BY SlotAssumption
    DEF Null, Ready, Prepared, With, HttpReqXfer, ReqType, Statuses, Bodies, Chunk

(* The parts of the type invariant, by the state they are about. *)
XferType ==
    /\ xfer \in {"queued", "active", "complete", "aborted"}
    /\ bt \in timer!Phases
    /\ failcount \in 0 .. MaxFail
    /\ pos \in 0 .. N
    /\ isvalid \in BOOLEAN

SlotType ==
    /\ tempurl \in BOOLEAN
    /\ reqs \in [Conn -> ReqType]
    /\ progress \in Nat
    /\ failure \in BOOLEAN
    /\ errorcount \in Nat
    /\ stalled \in BOOLEAN

NetType == chunkfailed \in BOOLEAN /\ success \in BOOLEAN /\ online \in BOOLEAN

DoioType ==
    /\ stage \in {"idle", "receive", "send", "tail"}
    /\ at \in Conn
    /\ paused \in BOOLEAN
    /\ short \in BOOLEAN

SetType == macs \subseteq Chunk /\ data \subseteq Chunk /\ filemac \subseteq Chunk

(* Together they are the type invariant, before and after a step. *)
LEMMA TypeParts ==
    /\ TypeOK <=> XferType /\ SlotType /\ NetType /\ DoioType /\ SetType
    /\ TypeOK' <=> XferType' /\ SlotType' /\ NetType' /\ DoioType' /\ SetType'
  BY DEF TypeOK, XferType, SlotType, NetType, DoioType, SetType, ReqType

(* Without a slot its fields have their initial values. *)
LEMMA NoSlotType == noSlot => SlotType'
  <1>1. [i \in Conn |-> Null] \in [Conn -> ReqType]
    BY ReqTypes, Zenon
  <1>2. ASSUME noSlot PROVE reqs' \in [Conn -> ReqType]
    BY <1>1, <1>2, Zenon DEF noSlot
  <1>3. noSlot => progress' \in Nat /\ errorcount' \in Nat
    BY DEF noSlot, startprogress
  <1> QED BY <1>2, <1>3, Zenon DEF noSlot, SlotType

(* Transfer::failed(), from whichever place in doio() it is called. *)
LEMMA FailedType ==
    ASSUME TypeOK, NEW final \in BOOLEAN, failed(final)
    PROVE  /\ XferType' /\ SlotType'
           /\ stage' = "idle" /\ at' \in Conn /\ paused' \in BOOLEAN
           /\ data' \subseteq Chunk
  BY NoSlotType, TypeParts, SlotAssumption
    DEF failed, counted, doioEnds, Conn, XferType, DoioType, timer!backoffRest, timer!Phases

(* One connection changes. *)
LEMMA SetReqType ==
    ASSUME TypeOK, NEW i \in Conn, NEW q \in ReqType, reqs' = [reqs EXCEPT ![i] = q]
    PROVE  reqs' \in [Conn -> ReqType]
  BY TypeParts DEF SlotType

(* The connection that doio() is at. *)
LEMMA AtReqType ==
    ASSUME TypeOK
    PROVE  /\ reqs[at] \in ReqType
           /\ reqs[at].chunk \in Chunk /\ reqs[at].in \in Bodies
           /\ reqs[at].posturl \in BOOLEAN /\ size(reqs[at].chunk) \in Nat
           /\ \A i \in Conn : reqs[i] \in ReqType /\ reqs[i].chunk \in Chunk
  BY SlotAssumption DEF TypeOK, ReqType, size, Chunk

(* From the receiving to the sending half of doio(). *)
LEMMA SendType ==
    ASSUME TypeOK, NEW q \in ReqType, thenSend(q)
    PROVE  /\ reqs' \in [Conn -> ReqType]
           /\ XferType' /\ DoioType' /\ tempurl' \in BOOLEAN /\ filemac' \subseteq Chunk
  <1>1. reqs' \in [Conn -> ReqType]
    BY SetReqType DEF thenSend, TypeOK
  <1> QED BY <1>1 DEF thenSend, TypeOK, XferType, DoioType

(* From one connection to the next. *)
LEMMA NextType ==
    ASSUME TypeOK, NEW q \in ReqType, thenNext(q), pos' \in 0 .. N, macs' \subseteq Chunk
    PROVE  TypeOK'
  <1>1. reqs' \in [Conn -> ReqType]
    BY SetReqType DEF thenNext, TypeOK
  <1>2. at' \in Conn
    BY SlotAssumption DEF thenNext, TypeOK, Conn
  <1>3. XferType' /\ SlotType' /\ NetType' /\ DoioType' /\ SetType'
    BY <1>1, <1>2
      DEF thenNext, netVars, TypeOK, XferType, SlotType, NetType, DoioType, SetType
  <1> QED BY <1>3, TypeParts

(* The receiving half of doio() keeps the types. *)
LEMMA ReceiveType == TypeOK /\ Receive => TypeOK'
  <1> SUFFICES ASSUME TypeOK, Receive PROVE TypeOK'
    OBVIOUS
  <1>0. /\ XferType /\ SlotType /\ NetType /\ DoioType /\ SetType
        /\ progressed \in Nat /\ errorcount + 1 \in Nat
    BY TypeParts, AtReqType DEF progressed, SlotType
  <1>1. ASSUME NEW q \in ReqType, thenSend(q), progress' \in Nat, failure' \in BOOLEAN,
               errorcount' \in Nat, stalled' \in BOOLEAN, NetType',
               macs' \subseteq Chunk, data' \subseteq Chunk
        PROVE  TypeOK'
    BY <1>1, SendType, TypeParts, Zenon DEF SlotType, SetType
  <1>2. ASSUME NEW final \in BOOLEAN, failed(final), macs' \subseteq Chunk, NetType',
               filemac' \subseteq Chunk, short' \in BOOLEAN
        PROVE  TypeOK'
    BY <1>2, FailedType, TypeParts DEF SetType, DoioType
  <1>3. ASSUME NEW m \in SUBSET Chunk, NEW d \in SUBSET Chunk, complete(m, d), NetType'
        PROVE  TypeOK'
    <2>1. CASE /\ xfer' = "complete" /\ data' = d /\ noSlot /\ doioEnds
               /\ UNCHANGED <<bt, failcount, pos, isvalid, paused>>
      <3>1. XferType' /\ DoioType' /\ SetType'
        BY <1>0, <1>3, <2>1, SlotAssumption
          DEF complete, XferType, DoioType, SetType, doioEnds, Conn
      <3> QED BY <1>3, <2>1, <3>1, NoSlotType, TypeParts
    <2>2. CASE failed(FALSE)
      BY <1>0, <1>2, <1>3, <2>2 DEF complete, DoioType
    <2> QED BY <1>3, <2>1, <2>2 DEF complete
  <1>4. CASE receiveNothing
    BY <1>0, <1>1, <1>4, AtReqType
      DEF receiveNothing, SlotType, NetType, SetType, netVars
  <1>5. CASE receivePutAck
    BY <1>0, <1>1, <1>5, ReqTypes
      DEF receivePutAck, SlotType, NetType, SetType, netVars
  <1>6. CASE receivePutToken
    BY <1>0, <1>3, <1>6 DEF receivePutToken, NetType, SetType, netVars
  <1>7. CASE \E final \in BOOLEAN : receivePutError(final)
    BY <1>0, <1>2, <1>7 DEF receivePutError, NetType, SetType, DoioType, netVars
  <1>8. CASE receiveGet
    <2> DEFINE m == macs \union {reqs[at].chunk}
               d == data \union {reqs[at].chunk}
    <2>1. m \in SUBSET Chunk /\ d \in SUBSET Chunk
      BY <1>0, AtReqType DEF SetType
    <2>2. CASE /\ progress' = progressed /\ macs' = m /\ data' = d /\ errorcount' = 0
               /\ stalled' = FALSE /\ thenSend(Ready(TRUE)) /\ UNCHANGED failure
      BY <1>0, <1>1, <1>8, <2>1, <2>2, ReqTypes DEF receiveGet, SlotType, NetType, netVars
    <2>3. CASE complete(m, d)
      BY <1>0, <1>3, <1>8, <2>1, <2>3 DEF receiveGet, NetType, netVars
    <2>4. CASE failed(TRUE) /\ filemac' = m /\ macs' = {} /\ UNCHANGED short
      BY <1>0, <1>2, <1>8, <2>1, <2>4 DEF receiveGet, NetType, netVars, DoioType
    <2> QED BY <1>8, <2>2, <2>3, <2>4 DEF receiveGet
  <1>9. CASE receiveGetShort
    BY <1>0, <1>1, <1>9, ReqTypes, AtReqType
      DEF receiveGetShort, retried, SlotType, NetType, SetType, netVars
  <1>10. CASE receiveLimit
    BY <1>0, <1>1, <1>10, AtReqType DEF receiveLimit, SlotType, NetType, SetType, netVars
  <1>11. CASE receiveFailure
    BY <1>0, <1>1, <1>11, ReqTypes, AtReqType
      DEF receiveFailure, retried, setchunkfailed, SlotType, NetType, SetType, netVars
  <1> QED BY <1>4, <1>5, <1>6, <1>7, <1>8, <1>9, <1>10, <1>11 DEF Receive

(* The sending half, and the rest of doio(). *)
LEMMA SendTailType == TypeOK /\ (Send \/ Tail) => TypeOK'
  <1> SUFFICES ASSUME TypeOK, Send \/ Tail PROVE TypeOK'
    OBVIOUS
  <1>0. /\ XferType /\ SlotType /\ NetType /\ DoioType /\ SetType
        /\ pos \in 0 .. N /\ macs \subseteq Chunk
    BY TypeParts DEF TypeOK
  <1>1. ASSUME NEW final \in BOOLEAN, failed(final), NetType',
               UNCHANGED <<macs, filemac, short>>
        PROVE  TypeOK'
    BY <1>0, <1>1, FailedType, TypeParts DEF SetType, DoioType
  <1>2. \A q \in ReqType : post(q) /\ pos' \in 0 .. N /\ macs' \subseteq Chunk => TypeOK'
    BY NextType, ReqTypes DEF post, Statuses, Bodies
  <1>3. more => pos \in Chunk /\ nextpos \in 0 .. N /\ preparedmacs \subseteq Chunk
    BY <1>0, SlotAssumption DEF more, nextpos, preparedmacs, Chunk
  <1>4. CASE sendNothing
    BY <1>0, <1>4, NextType, AtReqType DEF sendNothing
  <1>5. CASE sendAgain
    BY <1>0, <1>2, <1>5, AtReqType DEF sendAgain
  <1>6. CASE sendChunk
    BY <1>0, <1>2, <1>3, <1>6, ReqTypes DEF sendChunk
  <1>7. CASE sendReadRetry
    BY <1>0, <1>7, NextType, ReqTypes, AtReqType DEF sendReadRetry
  <1>8. CASE sendReadFails
    BY <1>0, <1>1, <1>8 DEF sendReadFails, NetType, netVars
  <1>9. CASE sendDone
    BY <1>0, <1>9, NextType, ReqTypes, AtReqType DEF sendDone, Statuses
  <1>10. ASSUME NEW moved \in BOOLEAN, doioTail(moved)
         PROVE  TypeOK'
    <2>1. NetType'
      BY <1>0, <1>10 DEF doioTail, setchunkfailed, NetType, netVars
    <2>2. CASE errorcount > MaxErr
      BY <1>1, <1>10, <2>1, <2>2 DEF doioTail
    <2>3. CASE ~(errorcount > MaxErr)
      <3>1. /\ bt' \in {"waiting", "due"} /\ stalled' = (stalled /\ ~moved)
            /\ failure' = (failure \/ stalled') /\ doioEnds
            /\ UNCHANGED <<xfer, failcount, pos, isvalid, tempurl, reqs,
                           progress, errorcount, paused, data, macs, filemac, short>>
        BY <1>10, <2>3 DEF doioTail, timer!backoff, timer!backoffRest
      <3>2. XferType' /\ DoioType' /\ SetType'
        BY <1>0, <3>1, SlotAssumption
          DEF XferType, DoioType, SetType, doioEnds, Conn, timer!Phases
      <3>3. SlotType'
        BY <1>0, <3>1 DEF SlotType
      <3> QED BY <2>1, <3>2, <3>3, TypeParts
    <2> QED BY <2>2, <2>3
  <1> QED
    BY <1>4, <1>5, <1>6, <1>7, <1>8, <1>9, <1>10 DEF Send, Tail

(* What the storage server and the network do keeps the types. *)
LEMMA ServerType == TypeOK /\ Server => TypeOK'
  <1> SUFFICES ASSUME TypeOK, NEW i \in Conn,
                      \/ serverStores(i) \/ serverRefuses(i) \/ serverSends(i)
                      \/ \E body \in {"none", "509"} : requestFails(i, body)
               PROVE  TypeOK'
    BY DEF Server
  <1>0. XferType /\ SlotType /\ NetType /\ DoioType /\ SetType
    BY TypeParts
  <1>1. ASSUME NEW st \in Statuses, NEW body \in Bodies, completes(i, st, body),
               success' = TRUE, online' \in BOOLEAN, UNCHANGED chunkfailed,
               data' \subseteq Chunk
        PROVE  TypeOK'
    <2>1. reqs' \in [Conn -> ReqType]
      BY <1>1, SetReqType, ReqTypes, AtReqType DEF completes
    <2>2. XferType' /\ DoioType' /\ SetType'
      BY <1>0, <1>1 DEF completes, XferType, DoioType, SetType, xferVars, doioVars
    <2>3. SlotType' /\ NetType'
      BY <1>0, <1>1, <2>1 DEF completes, SlotType, NetType
    <2> QED BY <2>2, <2>3, TypeParts
  <1>2. CASE serverStores(i)
    <2>1. data' \subseteq Chunk
      BY <1>0, <1>2, AtReqType DEF serverStores, SetType
    <2> QED BY <1>1, <1>2, <2>1 DEF serverStores, succeeds, Statuses, Bodies
  <1>3. CASE serverRefuses(i)
    BY <1>0, <1>1, <1>3 DEF serverRefuses, succeeds, SetType, Statuses, Bodies
  <1>4. CASE serverSends(i)
    BY <1>0, <1>1, <1>4 DEF serverSends, succeeds, SetType, Statuses, Bodies
  <1>5. ASSUME NEW body \in {"none", "509"}, requestFails(i, body)
        PROVE  TypeOK'
    <2>1. data' \subseteq Chunk
      BY <1>0, <1>5, AtReqType DEF requestFails, SetType
    <2>2. online' \in BOOLEAN
      BY <1>0, <1>5 DEF requestFails, NetType
    <2> QED BY <1>1, <1>5, <2>1, <2>2 DEF requestFails, Statuses, Bodies
  <1> QED BY <1>2, <1>3, <1>4, <1>5

(* Every operation keeps the types. *)
LEMMA TypeStep == TypeOK /\ [Next]_vars => TypeOK'
  <1> SUFFICES ASSUME TypeOK, [Next]_vars PROVE TypeOK'
    OBVIOUS
  <1>0. XferType /\ SlotType /\ NetType /\ DoioType /\ SetType
    BY TypeParts
  <1>1. CASE dispatch
    <2>1. XferType' /\ DoioType' /\ SetType' /\ NetType'
      BY <1>0, <1>1, StartPos
        DEF dispatch, XferType, DoioType, SetType, NetType, netVars, doioVars
    <2> QED BY <1>1, <2>1, NoSlotType, TypeParts DEF dispatch
  <1>2. ASSUME NEW final \in BOOLEAN, failed(final),
               UNCHANGED <<macs, netVars, filemac, short>>
        PROVE  TypeOK'
    BY <1>0, <1>2, FailedType, TypeParts DEF SetType, DoioType, NetType, netVars
  <1>3. CASE dispatchFails
    BY <1>2, <1>3 DEF dispatchFails
  <1>4. CASE \E final \in BOOLEAN : procresultError(final)
    BY <1>2, <1>4 DEF procresultError
  <1>5. CASE elapse \/ abortbackoff
    <2>1. XferType'
      BY <1>0, <1>5, SlotAssumption
        DEF elapse, abortbackoff, XferType, timer!elapse, timer!arm, timer!Phases
    <2> QED
      BY <1>5, <2>1
        DEF elapse, abortbackoff, TypeOK, XferType, slotVars, netVars, doioVars
  <1>6. CASE procresult \/ doio \/ stall
    BY <1>6 DEF procresult, doio, stall, TypeOK, xferVars, slotVars, netVars, doioVars
  <1>7. CASE Step
    BY <1>7, ReceiveType, SendTailType DEF Step
  <1>8. CASE execContinue
    <2>1. errorcount' \in Nat
      BY <1>0, <1>8 DEF execContinue, SlotType
    <2>2. SlotType' /\ NetType'
      BY <1>0, <1>8, <2>1, Zenon DEF execContinue, released, SlotType, NetType
    <2> QED
      BY <1>0, <1>8, <2>2, TypeParts
        DEF execContinue, XferType, DoioType, SetType, xferVars, doioVars
  <1>9. disconnected \in [Conn -> ReqType]
    BY AtReqType, ReqTypes DEF disconnected, Statuses, Bodies
  <1>10. CASE disconnect
    <2>1. SlotType'
      BY <1>0, <1>9, <1>10 DEF disconnect, SlotType
    <2> QED
      BY <1>0, <1>10, <2>1, TypeParts
        DEF disconnect, XferType, NetType, DoioType, SetType, xferVars, netVars, doioVars
  <1>11. CASE \E hard \in BOOLEAN : pause(hard)
    <2>1. SlotType'
      BY <1>0, <1>9, <1>11 DEF pause, SlotType
    <2> QED
      BY <1>0, <1>11, <2>1, TypeParts
        DEF pause, XferType, NetType, DoioType, SetType, xferVars, netVars, doioVars
  <1>12. CASE resume
    BY <1>12 DEF resume, TypeOK, xferVars, netVars
  <1>13. CASE stopxfer
    <2>1. XferType' /\ DoioType' /\ SetType' /\ NetType'
      BY <1>0, <1>13 DEF stopxfer, XferType, DoioType, SetType, NetType, netVars, doioVars
    <2> QED BY <1>13, <2>1, NoSlotType, TypeParts DEF stopxfer
  <1>14. CASE Server
    BY <1>14, ServerType
  <1>15. CASE \E ok \in BOOLEAN : otherRequest(ok)
    BY <1>15 DEF otherRequest, TypeOK, xferVars, slotVars, doioVars
  <1>16. CASE otherChunkFails
    BY <1>16 DEF otherChunkFails, setchunkfailed, TypeOK, xferVars, slotVars, doioVars
  <1>17. CASE UNCHANGED vars
    BY <1>17 DEF vars, xferVars, slotVars, netVars, doioVars, TypeOK
  <1> QED
    BY <1>1, <1>3, <1>4, <1>5, <1>6, <1>7, <1>8, <1>10, <1>11, <1>12, <1>13,
       <1>14, <1>15, <1>16, <1>17
    DEF Next

(* The slot's requests, counters and positions stay in their ranges: pos never
   leaves the file, failcount never passes its limit, and a request always has
   a chunk of the file, through every path of doio(), failed(), dispatch() and
   disconnect(). *)
THEOREM TypeCorrect == Spec => []TypeOK
  <1>1. Init => TypeOK
    <2> SUFFICES ASSUME Init PROVE TypeOK
      OBVIOUS
    <2>1. progress \in Nat /\ errorcount \in Nat
      BY DEF Init
    <2>2. reqs \in [Conn -> ReqType]
      BY ReqTypes, Zenon DEF Init
    <2>3. SlotType /\ NetType /\ SetType
      BY <2>1, <2>2, Zenon DEF Init, SlotType, NetType, SetType
    <2>4. failcount \in 0 .. MaxFail /\ pos \in 0 .. N /\ at \in Conn
      BY SlotAssumption DEF Init, Conn
    <2>5. isvalid \in BOOLEAN
      BY Zenon DEF Init
    <2>6. XferType /\ DoioType
      BY <2>4, <2>5, Zenon DEF Init, XferType, DoioType, timer!Init, timer!Phases
    <2> QED BY <2>3, <2>6, TypeParts
  <1> QED BY <1>1, TypeStep, PTL DEF Spec

-----------------------------------------------------------------------------
(* What a step does to the chunks *)

\* replies of the storage server, by direction
Fits(body) ==
    body \in IF Dir = "PUT" THEN {"none", "token", "empty", "error", "509"}
             ELSE {"none", "full", "short", "509"}

\* What connection q knows: an upload that was acknowledged is at the server
\* (d), with all others if the token came back, a short reply has been
\* recorded (s), and a connection is done only after a chunk was handed out
\* (n is pos).
ConnOK(q, d, s, n) ==
    /\ Fits(q.in)
    /\ Dir = "PUT" /\ q.status = "REQ_SUCCESS" =>
           /\ q.in = "empty" => q.chunk \in d
           /\ q.in = "token" => d = Chunk
    /\ q.in = "short" => s
    /\ q.status = "REQ_DONE" => n > 0

\* Connections belong to an active slot, and know the truth.
Connected ==
    /\ xfer # "active" => stage = "idle" /\ \A i \in Conn : ~Busy(reqs[i])
    /\ \A i \in Conn : ConnOK(reqs[i], data, short, pos)

\* Connection p becomes q: it keeps its chunk, or the chunk is recorded in d
\* (upload) or m (download).
Follows(p, q, d, m, s, n) ==
    /\ Busy(q) => Busy(p) /\ q.chunk = p.chunk
    /\ Busy(p) => Busy(q) \/ p.chunk \in (IF Dir = "PUT" THEN d ELSE m)
    /\ p.posturl => q.posturl
    /\ ConnOK(q, d, s, n)

\* progresscompleted and the chunks at the destination change together,
\* unless a reply was short.
Accounts ==
    \/ macs' = macs /\ data' = data /\ (Dir = "PUT" \/ short \/ progress' = progress)
    \/ /\ Dir = "PUT" /\ macs' = macs
       /\ \E i \in Conn : Busy(reqs[i]) /\ data' \subseteq data \union {reqs[i].chunk}
    \/ /\ Dir = "GET"
       /\ \E i \in Conn :
              /\ Busy(reqs[i]) /\ ~Busy(reqs'[i])
              /\ macs' = macs \union {reqs[i].chunk}
              /\ data' = data \union {reqs[i].chunk}
              /\ progress' = progress + size(reqs[i].chunk)

\* The slot goes, or there was none.
Ends ==
    /\ noSlot /\ stage' = "idle" /\ xfer' # "active"
    /\ xfer' = "complete" =>
           /\ xfer = "active" /\ short' = short
           /\ \E i \in Conn :
                  /\ reqs[i].status = "REQ_SUCCESS"
                  /\ \/ /\ Dir = "PUT" /\ reqs[i].in = "token"
                        /\ filemac' = macs /\ data' = data
                     \/ /\ Dir = "GET"
                        /\ filemac' = Chunk
                        /\ data' = data \union {reqs[i].chunk}
                        /\ progress + size(reqs[i].chunk) = total

\* A connection takes the next chunk.
Takes ==
    /\ xfer = "active" /\ pos < N
    /\ pos' = pos + 1
    /\ macs' = IF Dir = "PUT" THEN macs \union {pos} ELSE macs
    /\ UNCHANGED <<xfer, data, progress, short, filemac>>
    /\ ~Busy(reqs[at])
    /\ \E st \in {"REQ_INFLIGHT", "REQ_FAILURE"} :
           reqs' = [reqs EXCEPT ![at] = With(Prepared(pos), st, "none")]

\* Connections go on with what they have.
Keeps ==
    /\ UNCHANGED <<xfer, pos, filemac>>
    /\ macs \subseteq macs' /\ data \subseteq data' /\ (short => short')
    /\ \A i \in Conn : Follows(reqs[i], reqs'[i], data', macs', short', pos')
    /\ Accounts
    /\ xfer # "active" => stage' = "idle" /\ UNCHANGED <<data, short>>

(* A connection that does not change follows itself. *)
LEMMA FollowsSelf ==
    ASSUME TypeOK, Connected, NEW i \in Conn, pos' = pos,
           data \subseteq data', data' \subseteq Chunk, short => short'
    PROVE  Follows(reqs[i], reqs[i], data', macs', short', pos')
  BY DEF Follows, Connected, ConnOK, TypeOK

(* Steps that leave transfer and connections alone. *)
LEMMA QuietKeeps ==
    ASSUME TypeOK, Connected, xfer # "active" => stage' = "idle",
           UNCHANGED <<xfer, pos, macs, data, reqs, progress, short, filemac>>
    PROVE  Keeps
  <1>1. \A i \in Conn : Follows(reqs[i], reqs'[i], data', macs', short', pos')
    BY FollowsSelf DEF TypeOK
  <1> QED BY <1>1 DEF Keeps, Accounts

(* Steps that change one connection. *)
LEMMA OneKeeps ==
    ASSUME TypeOK, Connected, xfer = "active",
           NEW i \in Conn, NEW q \in ReqType, reqs' = [reqs EXCEPT ![i] = q],
           UNCHANGED <<xfer, pos, filemac>>,
           macs \subseteq macs', data \subseteq data', data' \subseteq Chunk,
           short => short', Accounts,
           Follows(reqs[i], q, data', macs', short', pos')
    PROVE  Keeps
  <1>1. reqs'[i] = q /\ \A j \in Conn \ {i} : reqs'[j] = reqs[j]
    BY DEF TypeOK
  <1>2. \A j \in Conn : Follows(reqs[j], reqs'[j], data', macs', short', pos')
    BY <1>1, FollowsSelf
  <1> QED BY <1>2 DEF Keeps

(* The receiving half of doio(), one step per outcome. *)
LEMMA ReceiveKind == TypeOK /\ Connected /\ Receive => Ends \/ Keeps
  <1> SUFFICES ASSUME TypeOK, Connected, Receive PROVE Ends \/ Keeps
    OBVIOUS
  <1>0. /\ xfer = "active" /\ stage = "receive" /\ at \in Conn
        /\ reqs \in [Conn -> ReqType] /\ data \subseteq Chunk
        /\ reqs[at] \in ReqType /\ reqs[at].chunk \in Chunk
        /\ ConnOK(reqs[at], data, short, pos)
    <2>1. stage = "receive"
      BY DEF Receive, receiveNothing, receivePutAck, receivePutToken, receivePutError,
             receiveGet, receiveGetShort, receiveLimit, receiveFailure, received
    <2> QED BY <2>1, AtReqType DEF TypeOK, Connected, ReqType
  <1>1. ASSUME NEW final \in BOOLEAN, failed(final) PROVE Ends
    BY <1>1 DEF failed, Ends, doioEnds
  <1>2. CASE receiveNothing \/ receiveLimit
    <2>1. reqs' = reqs
      BY <1>0, <1>2 DEF receiveNothing, receiveLimit, thenSend
    <2> QED
      BY <1>0, <1>2, <2>1, QuietKeeps DEF receiveNothing, receiveLimit, thenSend
  <1>3. CASE receivePutAck
    <2>1. Follows(reqs[at], Ready(TRUE), data', macs', short', pos')
      BY <1>0, <1>3
        DEF receivePutAck, received, thenSend, Follows, ConnOK, Fits, Busy, Ready,
            HttpReqXfer
    <2>2. Dir = "PUT"
      BY <1>0, <1>3 DEF receivePutAck, received, ConnOK, Fits
    <2> QED
      BY <1>0, <1>3, <2>1, <2>2, OneKeeps, ReqTypes
        DEF receivePutAck, thenSend, Accounts
  <1>4. CASE receivePutToken
    <2>1. Dir = "PUT"
      BY <1>0, <1>4 DEF receivePutToken, received, ConnOK, Fits
    <2>2. CASE failed(FALSE)
      BY <1>1, <2>2
    <2>3. CASE /\ xfer' = "complete" /\ data' = data /\ noSlot /\ doioEnds
               /\ UNCHANGED <<bt, failcount, pos, isvalid, paused>>
      BY <1>0, <1>4, <2>1, <2>3
        DEF receivePutToken, received, complete, Ends, doioEnds
    <2> QED BY <1>4, <2>2, <2>3 DEF receivePutToken, complete
  <1>5. CASE \E final \in BOOLEAN : receivePutError(final)
    BY <1>1, <1>5 DEF receivePutError
  <1>6. CASE receiveGet
    <2> DEFINE c == reqs[at].chunk
    <2>1. Dir = "GET" /\ Busy(reqs[at])
      BY <1>0, <1>6, SlotAssumption DEF receiveGet, received, ConnOK, Fits, Busy
    <2>2. CASE /\ progress' = progressed /\ macs' = macs \union {c}
               /\ data' = data \union {c} /\ thenSend(Ready(TRUE))
      <3>1. UNCHANGED <<xfer, pos, filemac, short>>
        BY <2>2 DEF thenSend
      <3>2. Follows(reqs[at], Ready(TRUE), data', macs', short', pos')
        BY <1>0, <2>1, <2>2, <3>1
          DEF Follows, ConnOK, Fits, Busy, Ready, HttpReqXfer
      <3>3. reqs' = [reqs EXCEPT ![at] = Ready(TRUE)]
        BY <2>2 DEF thenSend
      <3>4. Accounts
        <4>1. reqs'[at] = Ready(TRUE)
          BY <1>0, <3>3
        <4>2. ~Busy(reqs'[at])
          BY <4>1 DEF Busy, Ready, HttpReqXfer
        <4> QED BY <1>0, <2>1, <2>2, <4>2 DEF Accounts, progressed
      <3>5. data' \subseteq Chunk /\ macs \subseteq macs' /\ data \subseteq data'
        BY <1>0, <2>2
      <3> QED BY <1>0, <3>1, <3>2, <3>3, <3>4, <3>5, OneKeeps, ReqTypes
    <2>3. CASE progressed = total /\ macs \union {c} = Chunk
               /\ complete(macs \union {c}, data \union {c})
      <3>1. CASE failed(FALSE)
        BY <1>1, <3>1
      <3>2. CASE /\ xfer' = "complete" /\ data' = data \union {c} /\ noSlot /\ doioEnds
                 /\ UNCHANGED <<bt, failcount, pos, isvalid, paused>>
        BY <1>0, <1>6, <2>1, <2>3, <3>2
          DEF receiveGet, received, complete, Ends, doioEnds, progressed
      <3> QED BY <2>3, <3>1, <3>2 DEF complete
    <2>4. CASE failed(TRUE)
      BY <1>1, <2>4
    <2> QED BY <1>6, <2>2, <2>3, <2>4 DEF receiveGet
  <1>7. CASE receiveGetShort
    <2>1. Dir = "GET" /\ Busy(reqs[at]) /\ short
      BY <1>0, <1>7, SlotAssumption DEF receiveGetShort, received, ConnOK, Fits, Busy
    <2>2. Follows(reqs[at], Prepared(reqs[at].chunk), data', macs', short', pos')
      BY <1>0, <1>7, <2>1
        DEF receiveGetShort, thenSend, Follows, ConnOK, Fits, Busy, Prepared, HttpReqXfer
    <2> QED
      BY <1>0, <1>7, <2>1, <2>2, OneKeeps, ReqTypes
        DEF receiveGetShort, retried, thenSend, Accounts
  <1>8. CASE receiveFailure
    <2>1. Busy(reqs[at])
      BY <1>8 DEF receiveFailure, Busy
    <2>2. Follows(reqs[at], Prepared(reqs[at].chunk), data', macs', short', pos')
      BY <1>0, <1>8, <2>1
        DEF receiveFailure, thenSend, Follows, ConnOK, Fits, Busy, Prepared, HttpReqXfer
    <2> QED
      BY <1>0, <1>8, <2>1, <2>2, OneKeeps, ReqTypes
        DEF receiveFailure, retried, thenSend, Accounts
  <1> QED BY <1>2, <1>3, <1>4, <1>5, <1>6, <1>7, <1>8 DEF Receive

(* The sending half of doio(), and the rest of it. *)
LEMMA SendTailKind == TypeOK /\ Connected /\ (Send \/ Tail) => Ends \/ Takes \/ Keeps
  <1> SUFFICES ASSUME TypeOK, Connected, Send \/ Tail PROVE Ends \/ Takes \/ Keeps
    OBVIOUS
  <1>0. /\ xfer = "active" /\ at \in Conn /\ pos \in 0 .. N
        /\ reqs \in [Conn -> ReqType] /\ data \subseteq Chunk
        /\ reqs[at] \in ReqType /\ reqs[at].chunk \in Chunk
        /\ reqs[at].posturl \in BOOLEAN
        /\ ConnOK(reqs[at], data, short, pos)
    <2>1. stage \in {"send", "tail"}
      BY DEF Send, Tail, sendNothing, sendAgain, sendChunk, sendReadRetry,
             sendReadFails, sendDone, doioTail
    <2> QED BY <2>1, AtReqType DEF TypeOK, Connected, ReqType
  <1>1. ASSUME NEW final \in BOOLEAN, failed(final) PROVE Ends
    BY <1>1 DEF failed, Ends, doioEnds
  <1>2. ASSUME NEW q \in ReqType, thenNext(q), UNCHANGED <<pos, macs>>,
               Follows(reqs[at], q, data, macs, short, pos)
        PROVE  Keeps
    <2>1. /\ reqs' = [reqs EXCEPT ![at] = q]
          /\ UNCHANGED <<xfer, pos, filemac, macs, data, short, progress>>
      BY <1>2 DEF thenNext
    <2> QED BY <1>0, <1>2, <2>1, OneKeeps DEF Accounts
  <1>3. CASE sendNothing
    <2>1. Follows(reqs[at], reqs[at], data, macs, short, pos)
      BY <1>0 DEF Follows
    <2> QED BY <1>0, <1>2, <1>3, <2>1 DEF sendNothing
  <1>4. CASE sendAgain
    <2>1. ASSUME NEW st \in {"REQ_INFLIGHT", "REQ_FAILURE"},
                 thenNext(With(reqs[at], st, "none"))
          PROVE  Keeps
      <3>1. Follows(reqs[at], With(reqs[at], st, "none"), data, macs, short, pos)
        BY <1>0, <1>4 DEF sendAgain, Follows, ConnOK, Fits, Busy, With
      <3>2. With(reqs[at], st, "none") \in ReqType
        BY <1>0, ReqTypes DEF Statuses, Bodies
      <3> QED BY <1>2, <1>4, <2>1, <3>1, <3>2 DEF sendAgain
    <2> QED BY <1>4, <2>1 DEF sendAgain, post
  <1>5. CASE sendChunk
    <2>1. ~Busy(reqs[at])
      BY <1>5 DEF sendChunk, free, Busy
    <2>2. PICK st \in {"REQ_INFLIGHT", "REQ_FAILURE"} :
              thenNext(With(Prepared(pos), st, "none"))
      BY <1>5 DEF sendChunk, post
    <2> QED
      BY <1>0, <1>5, <2>1, <2>2
        DEF sendChunk, more, nextpos, preparedmacs, thenNext, Takes
  <1>6. CASE sendReadRetry
    <2>1. Follows(reqs[at], Ready(reqs[at].posturl), data, macs, short, pos)
      BY <1>0, <1>6
        DEF sendReadRetry, free, Follows, ConnOK, Fits, Busy, Ready, HttpReqXfer
    <2> QED BY <1>0, <1>2, <1>6, <2>1, ReqTypes DEF sendReadRetry
  <1>7. CASE sendReadFails
    BY <1>1, <1>7 DEF sendReadFails
  <1>8. CASE sendDone
    <2>1. Follows(reqs[at], With(reqs[at], "REQ_DONE", reqs[at].in), data, macs, short, pos)
      BY <1>0, <1>8, SlotAssumption
        DEF sendDone, more, Follows, ConnOK, Fits, Busy, With
    <2>2. With(reqs[at], "REQ_DONE", reqs[at].in) \in ReqType
      BY <1>0, ReqTypes, AtReqType DEF Statuses
    <2> QED BY <1>2, <1>8, <2>1, <2>2 DEF sendDone
  <1>9. ASSUME NEW moved \in BOOLEAN, doioTail(moved)
        PROVE  Ends \/ Keeps
    <2>1. CASE errorcount > MaxErr
      BY <1>1, <1>9, <2>1 DEF doioTail
    <2>2. CASE ~(errorcount > MaxErr)
      BY <1>0, <1>9, <2>2, QuietKeeps DEF doioTail, doioEnds
    <2> QED BY <2>1, <2>2
  <1> QED BY <1>3, <1>4, <1>5, <1>6, <1>7, <1>8, <1>9 DEF Send, Tail

(* Storage server and network. *)
LEMMA ServerKind == TypeOK /\ Connected /\ Server => Keeps
  <1> SUFFICES ASSUME TypeOK, Connected, NEW i \in Conn,
                      \/ serverStores(i) \/ serverRefuses(i) \/ serverSends(i)
                      \/ \E body \in {"none", "509"} : requestFails(i, body)
               PROVE  Keeps
    BY DEF Server
  <1>0. /\ reqs[i].status = "REQ_INFLIGHT" /\ Busy(reqs[i]) /\ xfer = "active"
        /\ reqs \in [Conn -> ReqType] /\ data \subseteq Chunk
        /\ reqs[i] \in ReqType /\ reqs[i].chunk \in Chunk
        /\ short \in BOOLEAN
    <2>1. reqs[i].status = "REQ_INFLIGHT"
      BY DEF serverStores, serverRefuses, serverSends, requestFails, succeeds, completes
    <2> QED BY <2>1, AtReqType DEF TypeOK, Connected, Busy, ReqType
  <1>1. ASSUME NEW st \in {"REQ_SUCCESS", "REQ_FAILURE"}, NEW body \in Bodies,
               completes(i, st, body), Fits(body),
               data' \in {data, data \union {reqs[i].chunk}}, data' = data \/ Dir = "PUT",
               Dir = "PUT" /\ st = "REQ_SUCCESS" /\ body # "error" =>
                   data' = data \union {reqs[i].chunk},
               body = "token" => data' = Chunk
        PROVE  Keeps
    <2> DEFINE q == With(reqs[i], st, body)
    <2>1. q \in ReqType
      BY <1>0, ReqTypes DEF Statuses
    <2>2. q.in = body /\ q.chunk = reqs[i].chunk /\ q.status = st
          /\ q.posturl = reqs[i].posturl
      BY DEF With
    <2>3. /\ UNCHANGED <<xfer, pos, filemac, macs, progress>>
          /\ short' = (short \/ body = "short")
          /\ reqs' = [reqs EXCEPT ![i] = q]
      BY <1>1 DEF completes, xferVars
    <2> HIDE DEF q
    <2>4. Follows(reqs[i], q, data', macs', short', pos')
      BY <1>0, <1>1, <2>2, <2>3 DEF Follows, ConnOK, Busy
    <2>5. Accounts
      BY <1>0, <1>1, <2>3 DEF Accounts
    <2> QED BY <1>0, <1>1, <2>1, <2>3, <2>4, <2>5, OneKeeps
  <1>2. CASE serverStores(i)
    BY <1>1, <1>2 DEF serverStores, succeeds, Fits, Bodies
  <1>3. CASE serverRefuses(i)
    BY <1>1, <1>3 DEF serverRefuses, succeeds, Fits, Bodies
  <1>4. CASE serverSends(i)
    BY <1>1, <1>4 DEF serverSends, succeeds, Fits, Bodies
  <1>5. ASSUME NEW body \in {"none", "509"}, requestFails(i, body)
        PROVE  Keeps
    BY <1>1, <1>5 DEF requestFails, Fits, Bodies
  <1> QED BY <1>2, <1>3, <1>4, <1>5

(* Every step of the transfer is of one of these kinds. *)
LEMMA StepKind == TypeOK /\ Connected /\ [Next]_vars => Ends \/ dispatch \/ Takes \/ Keeps
  <1> SUFFICES ASSUME TypeOK, Connected, [Next]_vars
               PROVE  Ends \/ dispatch \/ Takes \/ Keeps
    OBVIOUS
  <1>1. ASSUME NEW final \in BOOLEAN, failed(final) PROVE Ends
    BY <1>1 DEF failed, Ends, doioEnds
  <1>2. CASE dispatchFails
    BY <1>1, <1>2 DEF dispatchFails
  <1>3. CASE \E final \in BOOLEAN : procresultError(final)
    BY <1>1, <1>3 DEF procresultError
  <1>4. CASE elapse \/ abortbackoff
    BY <1>4, QuietKeeps DEF elapse, abortbackoff, slotVars, doioVars, Connected
  <1>5. CASE procresult \/ doio \/ stall
    BY <1>5, QuietKeeps DEF procresult, doio, stall, xferVars, slotVars, doioVars
  <1>6. CASE Step
    BY <1>6, ReceiveKind, SendTailKind DEF Step
  <1>7. CASE execContinue
    BY <1>7, QuietKeeps DEF execContinue, xferVars, doioVars, Connected
  <1>8. CASE disconnect \/ \E hard \in BOOLEAN : pause(hard)
    <2>1. /\ UNCHANGED <<xfer, pos, filemac, macs, progress, data, short, stage>>
          /\ reqs' \in {reqs, disconnected} /\ stage = "idle"
      BY <1>8 DEF disconnect, pause, xferVars, doioVars
    <2>2. CASE reqs' = reqs
      BY <2>1, <2>2, QuietKeeps
    <2>3. CASE reqs' = disconnected
      <3>1. ASSUME NEW i \in Conn, reqs[i].status = "REQ_INFLIGHT"
            PROVE  Follows(reqs[i], reqs'[i], data', macs', short', pos')
        <4>1. reqs'[i] = With(reqs[i], "REQ_FAILURE", "none")
          BY <2>3, <3>1 DEF disconnected
        <4> QED BY <2>1, <3>1, <4>1 DEF Follows, ConnOK, Fits, Busy, With, Connected
      <3>2. ASSUME NEW i \in Conn, reqs[i].status # "REQ_INFLIGHT"
            PROVE  Follows(reqs[i], reqs'[i], data', macs', short', pos')
        <4>1. reqs'[i] = reqs[i]
          BY <2>3, <3>2 DEF disconnected
        <4> QED BY <2>1, <4>1, FollowsSelf DEF TypeOK
      <3> QED BY <2>1, <3>1, <3>2 DEF Keeps, Accounts
    <2> QED BY <2>1, <2>2, <2>3
  <1>9. CASE resume
    BY <1>9, QuietKeeps DEF resume, xferVars
  <1>10. CASE stopxfer
    BY <1>10 DEF stopxfer, Ends, doioVars
  <1>11. CASE Server
    BY <1>11, ServerKind
  <1>12. CASE \E ok \in BOOLEAN : otherRequest(ok)
    BY <1>12, QuietKeeps DEF otherRequest, xferVars, slotVars, doioVars
  <1>13. CASE otherChunkFails
    BY <1>13, QuietKeeps DEF otherChunkFails, xferVars, slotVars, doioVars
  <1>14. CASE UNCHANGED vars
    BY <1>14, QuietKeeps DEF vars, xferVars, slotVars, doioVars, Connected
  <1> QED
    BY <1>2, <1>3, <1>4, <1>5, <1>6, <1>7, <1>8, <1>9, <1>10, <1>11, <1>12,
       <1>13, <1>14
    DEF Next

-----------------------------------------------------------------------------
(* Chunks *)

\* Chunks at the destination have been handed out.  An upload has recorded
\* the MACs of all chunks it has handed out; a download has recorded those
\* it has written, no connection holds one of them, and unless a reply was
\* short the byte counter is their size.
Recorded ==
    xfer = "active" =>
        /\ \A c \in data : c < pos
        /\ Dir = "PUT" => \A c \in Chunk : c < pos => c \in macs
        /\ Dir = "GET" =>
               /\ data \subseteq macs
               /\ \A i \in Conn : Busy(reqs[i]) => reqs[i].chunk \notin data
               /\ ~short => progress = bytes(data)

Chunks == Connected /\ OneConnPerChunk /\ NoChunkLost /\ Recorded /\ CompleteIsWhole

(* When the slot goes, nothing is left to hold; a transfer that completes is
   whole. *)
LEMMA EndsChunks == TypeOK /\ Chunks /\ Ends => Chunks'
  <1> SUFFICES ASSUME TypeOK, Chunks, Ends PROVE Chunks'
    OBVIOUS
  <1>1. ASSUME NEW i \in Conn
        PROVE  ~Busy(reqs'[i]) /\ ConnOK(reqs'[i], data', short', pos')
    <2>1. reqs'[i] = Null
      BY DEF Ends, noSlot
    <2> QED BY <2>1 DEF Null, HttpReqXfer, Busy, ConnOK, Fits
  <1>2. Connected' /\ OneConnPerChunk' /\ NoChunkLost' /\ Recorded'
    BY <1>1 DEF Ends, Connected, OneConnPerChunk, NoChunkLost, Recorded
  <1>3. CompleteIsWhole'
    <2> SUFFICES ASSUME xfer' = "complete", ~short' PROVE Whole'
      BY DEF CompleteIsWhole
    <2>1. xfer = "active" /\ ~short
      BY DEF Ends
    <2>2. PICK i \in Conn :
              /\ reqs[i].status = "REQ_SUCCESS"
              /\ \/ /\ Dir = "PUT" /\ reqs[i].in = "token"
                    /\ filemac' = macs /\ data' = data
                 \/ /\ Dir = "GET"
                    /\ filemac' = Chunk
                    /\ data' = data \union {reqs[i].chunk}
                    /\ progress + size(reqs[i].chunk) = total
      BY DEF Ends
    <2>3. ConnOK(reqs[i], data, short, pos) /\ Busy(reqs[i]) /\ reqs[i].chunk \in Chunk
      BY <2>2, AtReqType DEF Chunks, Connected, Busy
    <2>4. CASE Dir = "PUT"
      <3>1. data = Chunk /\ data' = Chunk /\ filemac' = macs
        BY <2>2, <2>3, <2>4 DEF ConnOK
      <3>2. Chunk \subseteq macs
        BY <2>1, <2>4, <3>1 DEF Chunks, Recorded
      <3> QED BY <3>1, <3>2 DEF TypeOK, Whole
    <2>5. CASE Dir = "GET"
      <3> DEFINE d == data \union {reqs[i].chunk}
      <3>1. reqs[i].chunk \notin data /\ progress = bytes(data)
        BY <2>1, <2>3, <2>5 DEF Chunks, Recorded
      <3>2. bytes(d) = total
        BY <2>2, <2>3, <2>5, <3>1, BytesAdd
      <3>3. d = Chunk
        BY <2>3, <3>2, BytesAll DEF TypeOK
      <3> QED BY <2>2, <2>5, <3>3 DEF Whole
    <2> QED BY <2>4, <2>5, SlotAssumption
  <1> QED BY <1>2, <1>3 DEF Chunks

(* A new slot: nothing is at the destination, and the chunks before pos are
   recorded from earlier attempts. *)
LEMMA StartsChunks == TypeOK /\ Chunks /\ dispatch => Chunks'
  <1> SUFFICES ASSUME TypeOK, Chunks, dispatch PROVE Chunks'
    OBVIOUS
  <1>1. ASSUME NEW i \in Conn
        PROVE  ~Busy(reqs'[i]) /\ ConnOK(reqs'[i], data', short', pos')
    <2>1. reqs'[i] = Null
      BY DEF dispatch, noSlot
    <2> QED BY <2>1 DEF Null, HttpReqXfer, Busy, ConnOK, Fits
  <1>2. xfer' = "active" /\ data' = {} /\ progress' = 0
    BY DEF dispatch, noSlot, startprogress
  <1>3. Connected' /\ OneConnPerChunk' /\ CompleteIsWhole'
    BY <1>1, <1>2 DEF Connected, OneConnPerChunk, CompleteIsWhole
  <1>4. /\ pos' \in 0 .. N
        /\ Dir = "PUT" => pos' = 0
        /\ Dir = "GET" => \A c \in Chunk : c < pos' => c \in macs'
    BY StartPos, SlotAssumption DEF dispatch, TypeOK
  <1>5. NoChunkLost'
    BY <1>4, SlotAssumption DEF NoChunkLost, Chunk
  <1>6. Recorded'
    BY <1>1, <1>2, <1>4, BytesNone, SlotAssumption DEF Recorded, Chunk
  <1> QED BY <1>3, <1>5, <1>6 DEF Chunks

(* The next chunk goes to one connection. *)
LEMMA TakesChunks == TypeOK /\ Chunks /\ Takes => Chunks'
  <1> SUFFICES ASSUME TypeOK, Chunks, Takes PROVE Chunks'
    OBVIOUS
  <1>0. /\ at \in Conn /\ pos \in Nat /\ pos \in Chunk /\ pos' = pos + 1
        /\ data \subseteq Chunk /\ xfer = "active" /\ xfer' = "active"
        /\ UNCHANGED <<data, progress, short, filemac>>
    BY SlotAssumption DEF TypeOK, Takes, Chunk
  <1>1. PICK st \in {"REQ_INFLIGHT", "REQ_FAILURE"} :
            reqs' = [reqs EXCEPT ![at] = With(Prepared(pos), st, "none")]
    BY DEF Takes
  <1>2. /\ Busy(reqs'[at]) /\ reqs'[at].chunk = pos
        /\ ConnOK(reqs'[at], data', short', pos')
    <2>1. reqs'[at] = With(Prepared(pos), st, "none")
      BY <1>0, <1>1 DEF TypeOK
    <2> QED BY <2>1 DEF With, Prepared, HttpReqXfer, Busy, ConnOK, Fits
  <1>3. \A j \in Conn \ {at} : reqs'[j] = reqs[j]
    BY <1>1 DEF TypeOK
  <1>4. \A j \in Conn : Busy(reqs[j]) => reqs[j].chunk < pos /\ j # at
    BY DEF Chunks, OneConnPerChunk, Takes
  <1>5. \A j \in Conn : reqs[j].chunk \in Nat
    BY AtReqType DEF Chunk
  <1>6. Connected'
    <2>1. ASSUME NEW j \in Conn \ {at} PROVE ConnOK(reqs'[j], data', short', pos')
      <3>1. ConnOK(reqs[j], data, short, pos)
        BY DEF Chunks, Connected
      <3> QED BY <1>0, <1>3, <3>1 DEF ConnOK
    <2> QED BY <1>0, <1>2, <2>1 DEF Connected
  <1>7. OneConnPerChunk'
    <2>1. ASSUME NEW i \in Conn, NEW j \in Conn \ {i}, Busy(reqs'[i]), Busy(reqs'[j])
          PROVE  reqs'[i].chunk # reqs'[j].chunk
      <3>1. CASE i = at
        BY <1>0, <1>2, <1>3, <1>4, <1>5, <2>1, <3>1
      <3>2. CASE j = at
        BY <1>0, <1>2, <1>3, <1>4, <1>5, <2>1, <3>2
      <3>3. CASE i # at /\ j # at
        BY <1>3, <2>1, <3>3 DEF Chunks, OneConnPerChunk
      <3> QED BY <3>1, <3>2, <3>3
    <2>2. ASSUME NEW i \in Conn, Busy(reqs'[i]) PROVE reqs'[i].chunk < pos'
      BY <1>0, <1>2, <1>3, <1>4, <1>5, <2>2
    <2> QED BY <2>1, <2>2 DEF OneConnPerChunk
  <1>8. NoChunkLost'
    <2> SUFFICES ASSUME NEW c \in 0 .. pos' - 1
                 PROVE  \/ c \in (IF Dir = "PUT" THEN data' ELSE macs')
                        \/ \E i \in Conn : Busy(reqs'[i]) /\ reqs'[i].chunk = c
      BY DEF NoChunkLost
    <2>1. CASE c = pos
      BY <1>0, <1>2, <2>1
    <2>2. CASE c \in 0 .. pos - 1
      <3>1. \/ c \in (IF Dir = "PUT" THEN data ELSE macs)
            \/ \E i \in Conn : Busy(reqs[i]) /\ reqs[i].chunk = c
        BY <1>0, <2>2 DEF Chunks, NoChunkLost
      <3> QED BY <1>0, <1>3, <1>4, <3>1, SlotAssumption DEF Takes
    <2> QED BY <1>0, <2>1, <2>2
  <1>9. Recorded'
    <2>1. \A c \in data' : c < pos'
      BY <1>0 DEF Chunks, Recorded, Chunk
    <2>2. Dir = "PUT" => \A c \in Chunk : c < pos' => c \in macs'
      BY <1>0 DEF Chunks, Recorded, Takes, Chunk
    <2>3. ASSUME Dir = "GET"
          PROVE  /\ data' \subseteq macs'
                 /\ \A i \in Conn : Busy(reqs'[i]) => reqs'[i].chunk \notin data'
                 /\ ~short' => progress' = bytes(data')
      <3>1. /\ data \subseteq macs /\ (~short => progress = bytes(data))
            /\ \A i \in Conn : Busy(reqs[i]) => reqs[i].chunk \notin data
            /\ \A c \in data : c < pos
        BY <1>0, <2>3 DEF Chunks, Recorded
      <3>2. pos \notin data
        BY <1>0, <3>1
      <3> QED BY <1>0, <1>2, <1>3, <2>3, <3>1, <3>2 DEF Takes
    <2> QED BY <2>1, <2>2, <2>3 DEF Recorded
  <1>10. CompleteIsWhole'
    BY <1>0 DEF CompleteIsWhole
  <1> QED BY <1>6, <1>7, <1>8, <1>9, <1>10 DEF Chunks

(* Connections that go on keep their chunks apart, and none is dropped. *)
LEMMA KeepsChunks == TypeOK /\ TypeOK' /\ Chunks /\ Keeps => Chunks'
  <1> SUFFICES ASSUME TypeOK, TypeOK', Chunks, Keeps PROVE Chunks'
    OBVIOUS
  <1>0. /\ UNCHANGED <<xfer, pos, filemac>>
        /\ macs \subseteq macs' /\ data \subseteq data' /\ (short => short')
        /\ xfer # "active" => stage' = "idle" /\ UNCHANGED <<data, short>>
    BY DEF Keeps
  <1>1. ASSUME NEW i \in Conn
        PROVE  /\ Busy(reqs'[i]) => Busy(reqs[i]) /\ reqs'[i].chunk = reqs[i].chunk
               /\ Busy(reqs[i]) => \/ Busy(reqs'[i])
                                   \/ reqs[i].chunk \in
                                          (IF Dir = "PUT" THEN data' ELSE macs')
               /\ ConnOK(reqs'[i], data', short', pos')
    BY DEF Keeps, Follows
  <1>2. Connected'
    BY <1>0, <1>1 DEF Chunks, Connected
  <1>3. OneConnPerChunk'
    <2>1. ASSUME NEW i \in Conn, Busy(reqs'[i])
          PROVE  /\ reqs'[i].chunk < pos'
                 /\ \A j \in Conn \ {i} :
                        Busy(reqs'[j]) => reqs'[i].chunk # reqs'[j].chunk
      BY <1>0, <1>1, <2>1 DEF Chunks, OneConnPerChunk
    <2> QED BY <2>1 DEF OneConnPerChunk
  <1>4. NoChunkLost'
    <2> SUFFICES ASSUME xfer = "active", NEW c \in 0 .. pos - 1
                 PROVE  \/ c \in (IF Dir = "PUT" THEN data' ELSE macs')
                        \/ \E i \in Conn : Busy(reqs'[i]) /\ reqs'[i].chunk = c
      BY <1>0 DEF NoChunkLost
    <2>1. CASE c \in (IF Dir = "PUT" THEN data ELSE macs)
      BY <1>0, <2>1
    <2>2. ASSUME NEW i \in Conn, Busy(reqs[i]), reqs[i].chunk = c
          PROVE  \/ c \in (IF Dir = "PUT" THEN data' ELSE macs')
                 \/ Busy(reqs'[i]) /\ reqs'[i].chunk = c
      BY <1>1, <2>2
    <2> QED BY <2>1, <2>2 DEF Chunks, NoChunkLost
  <1>5. Recorded'
    <2> SUFFICES ASSUME xfer = "active"
                 PROVE  /\ \A c \in data' : c < pos
                        /\ Dir = "PUT" => \A c \in Chunk : c < pos => c \in macs'
                        /\ Dir = "GET" =>
                               /\ data' \subseteq macs'
                               /\ \A i \in Conn : Busy(reqs'[i]) => reqs'[i].chunk \notin data'
                               /\ ~short' => progress' = bytes(data')
      BY <1>0 DEF Recorded
    <2>0. /\ \A c \in data : c < pos
          /\ Dir = "PUT" => \A c \in Chunk : c < pos => c \in macs
          /\ Dir = "GET" =>
                 /\ data \subseteq macs
                 /\ \A i \in Conn : Busy(reqs[i]) => reqs[i].chunk \notin data
                 /\ ~short => progress = bytes(data)
      BY DEF Chunks, Recorded
    <2>1. CASE macs' = macs /\ data' = data /\ (Dir = "PUT" \/ short \/ progress' = progress)
      BY <1>0, <1>1, <2>0, <2>1, SlotAssumption
    <2>2. CASE /\ Dir = "PUT" /\ macs' = macs
               /\ \E i \in Conn : Busy(reqs[i]) /\ data' \subseteq data \union {reqs[i].chunk}
      BY <2>0, <2>2 DEF Chunks, OneConnPerChunk
    <2>3. ASSUME Dir = "GET", NEW i \in Conn, Busy(reqs[i]), ~Busy(reqs'[i]),
                 macs' = macs \union {reqs[i].chunk},
                 data' = data \union {reqs[i].chunk},
                 progress' = progress + size(reqs[i].chunk)
          PROVE  /\ \A c \in data' : c < pos
                 /\ data' \subseteq macs'
                 /\ \A j \in Conn : Busy(reqs'[j]) => reqs'[j].chunk \notin data'
                 /\ ~short' => progress' = bytes(data')
      <3>1. reqs[i].chunk < pos /\ reqs[i].chunk \notin data /\ reqs[i].chunk \in Chunk
        BY <2>0, <2>3, AtReqType DEF Chunks, OneConnPerChunk
      <3>2. bytes(data') = bytes(data) + size(reqs[i].chunk)
        BY <2>3, <3>1, BytesAdd
      <3>3. ASSUME NEW j \in Conn, Busy(reqs'[j]) PROVE reqs'[j].chunk \notin data'
        <4>1. j # i /\ Busy(reqs[j]) /\ reqs'[j].chunk = reqs[j].chunk
          BY <1>1, <2>3, <3>3
        <4>2. reqs[j].chunk # reqs[i].chunk
          BY <2>3, <4>1 DEF Chunks, OneConnPerChunk
        <4> QED BY <2>0, <2>3, <4>1, <4>2
      <3> QED BY <1>0, <2>0, <2>3, <3>1, <3>2, <3>3
    <2> QED BY <2>1, <2>2, <2>3, SlotAssumption DEF Keeps, Accounts
  <1>6. CompleteIsWhole'
    BY <1>0 DEF Chunks, CompleteIsWhole, Whole
  <1> QED BY <1>2, <1>3, <1>4, <1>5, <1>6 DEF Chunks

(* Initially there is no slot. *)
LEMMA ChunksInit == Init => Chunks
  <1> SUFFICES ASSUME Init PROVE Chunks
    OBVIOUS
  <1>1. ASSUME NEW i \in Conn
        PROVE  ~Busy(reqs[i]) /\ ConnOK(reqs[i], data, short, pos)
    <2>1. reqs[i] = Null
      BY DEF Init
    <2> QED BY <2>1 DEF Null, HttpReqXfer, Busy, ConnOK, Fits
  <1> QED BY <1>1 DEF Init, Chunks, Connected, OneConnPerChunk, NoChunkLost, Recorded,
                      CompleteIsWhole

(* Every step keeps the chunks in order. *)
LEMMA ChunksStep == TypeOK /\ Chunks /\ [Next]_vars => Chunks'
  <1> SUFFICES ASSUME TypeOK, Chunks, [Next]_vars PROVE Chunks'
    OBVIOUS
  <1>1. TypeOK' /\ Connected
    BY TypeStep DEF Chunks
  <1> QED BY <1>1, StepKind, EndsChunks, StartsChunks, TakesChunks, KeepsChunks

(* The inductive invariant. *)
LEMMA ChunksAlways == Spec => [](TypeOK /\ Chunks)
  BY ChunksInit, ChunksStep, TypeCorrect, PTL DEF Spec

(* OneConnPerChunk: for any file and any number of connections, doio() never
   gives a chunk to two connections, and never one that pos has not passed,
   whatever is retried, disconnected, paused or repeated in a new slot. *)
THEOREM ChunksApart == Spec => []OneConnPerChunk
  <1>1. TypeOK /\ Chunks => OneConnPerChunk
    BY DEF Chunks
  <1> QED BY <1>1, ChunksAlways, PTL

(* NoChunkLost: a chunk that pos has passed is recorded or still with a
   connection, so that doio(), which never goes back, leaves no hole. *)
THEOREM ChunksKept == Spec => []NoChunkLost
  <1>1. TypeOK /\ Chunks => NoChunkLost
    BY DEF Chunks
  <1> QED BY <1>1, ChunksAlways, PTL

(* CompleteIsWhole: Transfer::complete() is reached only with all chunks at
   the destination and in the MAC, unless a reply was short.  For an upload
   this is the token, for a download the byte counter: since every chunk is
   counted once, progresscompleted reaches the file size only with the last
   one (BytesAll). *)
THEOREM CompletionIsWhole == Spec => []CompleteIsWhole
  <1>1. TypeOK /\ Chunks => CompleteIsWhole
    BY DEF Chunks
  <1> QED BY <1>1, ChunksAlways, PTL

(* VerifiedIsWhole: for an upload, and for a download from a server whose
   replies are never short, the exception is not needed. *)
THEOREM WholeWithoutShortReplies ==
    ASSUME Dir = "PUT" \/ ~ShortReplies
    PROVE  Spec => []VerifiedIsWhole
  <1>1. Init => ~short
    BY DEF Init
  <1>2. TypeOK /\ ~short /\ [Next]_vars => ~short'
    <2> SUFFICES ASSUME TypeOK, ~short, [Next]_vars PROVE ~short'
      OBVIOUS
    <2>1. ASSUME NEW i, NEW st, NEW body, completes(i, st, body), body # "short"
          PROVE  ~short'
      BY <2>1 DEF completes
    <2>2. CASE Server
      BY <2>1, <2>2 DEF Server, serverStores, serverRefuses, serverSends, requestFails,
                        succeeds
    <2>3. CASE Receive
      BY <2>3 DEF Receive, receiveNothing, receivePutAck, receivePutToken,
                  receivePutError, receiveGet, receiveGetShort, receiveLimit,
                  receiveFailure, thenSend, complete
    <2>4. CASE Send \/ Tail
      BY <2>4 DEF Send, Tail, sendNothing, sendAgain, sendChunk, sendReadRetry,
                  sendReadFails, sendDone, doioTail, post, thenNext
    <2>5. CASE UNCHANGED vars
      BY <2>5 DEF vars
    <2> QED
      BY <2>2, <2>3, <2>4, <2>5
      DEF Next, Step, dispatch, dispatchFails, elapse, procresult, procresultError,
          doio, execContinue, abortbackoff, disconnect, pause, resume, stopxfer,
          otherRequest, otherChunkFails, stall
  <1>3. CompleteIsWhole /\ ~short => VerifiedIsWhole
    BY DEF CompleteIsWhole, VerifiedIsWhole
  <1> QED BY <1>1, <1>2, <1>3, TypeCorrect, CompletionIsWhole, PTL DEF Spec

-----------------------------------------------------------------------------
(* Frozen slots *)

\* An upload that has handed out a chunk has a request with a URL, on which
\* setchunkfailed() can act; and doio() reaches its end unfrozen only after
\* it has handed out a chunk.
UrlKnown ==
    /\ xfer = "active" /\ pos > 0 => \E i \in Conn : reqs[i].posturl
    /\ stage = "tail" /\ ~failure => pos > 0

(* URLs stay with their connections. *)
LEMMA UrlStep ==
    ASSUME Dir = "PUT", TypeOK, Chunks, UrlKnown, [Next]_vars
    PROVE  xfer' = "active" /\ pos' > 0 => \E i \in Conn : reqs'[i].posturl
  <1>0. at \in Conn
    BY DEF TypeOK
  <1>1. CASE Ends
    BY <1>1 DEF Ends
  <1>2. CASE dispatch
    BY <1>2, StartPos DEF dispatch, TypeOK
  <1>3. CASE Takes
    <2>1. PICK st \in {"REQ_INFLIGHT", "REQ_FAILURE"} :
              reqs' = [reqs EXCEPT ![at] = With(Prepared(pos), st, "none")]
      BY <1>3 DEF Takes
    <2>2. reqs'[at] = With(Prepared(pos), st, "none")
      BY <1>0, <2>1 DEF TypeOK
    <2>3. reqs'[at].posturl
      BY <2>2 DEF With, Prepared, HttpReqXfer
    <2> QED BY <1>0, <2>3
  <1>4. CASE Keeps
    BY <1>4 DEF Keeps, Follows, UrlKnown
  <1> QED BY <1>1, <1>2, <1>3, <1>4, StepKind DEF Chunks

(* doio() gets to its end unfrozen only with a chunk handed out. *)
LEMMA TailStep ==
    ASSUME Dir = "PUT", ~ReadRetries, TypeOK, Chunks, UrlKnown, [Next]_vars
    PROVE  stage' = "tail" /\ ~failure' => pos' > 0
  <1>0. at \in Conn /\ pos \in Nat /\ N \in Nat /\ N > 0
    BY SlotAssumption DEF TypeOK
  <1>1. ASSUME NEW i \in Conn, reqs[i].status \notin {"NULL", "REQ_READY"}
        PROVE  pos > 0
    <2>1. CASE Busy(reqs[i])
      <3>1. reqs[i].chunk < pos /\ reqs[i].chunk \in Nat
        BY <2>1, AtReqType DEF Chunks, OneConnPerChunk, Chunk
      <3> QED BY <1>0, <3>1
    <2>2. CASE reqs[i].status = "REQ_DONE"
      BY <2>2 DEF Chunks, Connected, ConnOK
    <2>3. reqs[i].status \in Statuses
      BY DEF TypeOK
    <2> QED BY <1>1, <2>1, <2>2, <2>3 DEF Statuses, Busy
  <1>2. ~more => pos > 0
    BY <1>0 DEF more
  <1>3. CASE Send
    <2>1. CASE sendNothing
      BY <1>0, <1>1, <1>2, <2>1 DEF sendNothing, thenNext, free
    <2>2. CASE sendAgain
      BY <1>0, <1>1, <2>2 DEF sendAgain, post, thenNext
    <2>3. CASE sendChunk
      BY <1>0, <2>3 DEF sendChunk, nextpos
    <2>4. CASE sendReadRetry
      BY <2>4 DEF sendReadRetry
    <2>5. CASE sendReadFails
      BY <2>5 DEF sendReadFails, failed, doioEnds
    <2>6. CASE sendDone
      BY <1>2, <2>6 DEF sendDone, thenNext
    <2> QED BY <1>3, <2>1, <2>2, <2>3, <2>4, <2>5, <2>6 DEF Send
  <1>4. CASE Receive
    BY <1>4
      DEF Receive, receiveNothing, receivePutAck, receivePutToken, receivePutError,
          receiveGet, receiveGetShort, receiveLimit, receiveFailure, thenSend,
          complete, failed, doioEnds
  <1>5. CASE Tail
    BY <1>5 DEF Tail, doioTail, failed, doioEnds
  <1>6. CASE Server
    BY <1>6 DEF Server, serverStores, serverRefuses, serverSends, requestFails,
                succeeds, completes, doioVars
  <1>7. CASE UNCHANGED vars
    BY <1>7 DEF UrlKnown, vars, xferVars, slotVars, doioVars
  <1> QED
    BY <1>3, <1>4, <1>5, <1>6, <1>7
    DEF Next, Step, dispatch, dispatchFails, elapse, procresult, procresultError, doio,
        execContinue, abortbackoff, disconnect, pause, resume, stopxfer, otherRequest,
        otherChunkFails, stall, failed, doioEnds, doioVars

(* A slot freezes only together with chunkfailed, and chunkfailed is cleared
   only together with the slot. *)
LEMMA FrozenStep ==
    ASSUME Dir = "PUT", ~ReadRetries, TypeOK, Chunks, UrlKnown, FrozenIsReleasable,
           [Next]_vars
    PROVE  FrozenIsReleasable'
  <1> USE DEF FrozenIsReleasable
  <1>1. ASSUME NEW final \in BOOLEAN, failed(final) PROVE ~failure'
    BY <1>1 DEF failed, noSlot
  <1>2. CASE Receive
    BY <1>1, <1>2
      DEF Receive, receiveNothing, receivePutAck, receivePutToken, receivePutError,
          receiveGet, receiveGetShort, receiveLimit, receiveFailure, setchunkfailed,
          complete, noSlot, netVars
  <1>3. CASE Send
    BY <1>1, <1>3
      DEF Send, sendNothing, sendAgain, sendChunk, sendReadRetry, sendReadFails,
          sendDone, post, thenNext, netVars
  <1>4. ASSUME NEW moved \in BOOLEAN, doioTail(moved)
        PROVE  FrozenIsReleasable'
    <2>1. CASE errorcount > MaxErr
      BY <1>1, <1>4, <2>1 DEF doioTail
    <2>2. CASE ~(errorcount > MaxErr)
      <3>1. /\ stalled' = (stalled /\ ~moved) /\ failure' = (failure \/ stalled')
            /\ stage = "tail"
        BY <1>4, <2>2 DEF doioTail
      <3>2. ~failure => \E i \in Conn : reqs[i].posturl
        BY <3>1 DEF UrlKnown, Chunks, Connected
      <3>3. CASE failure
        BY <1>4, <3>3 DEF doioTail, netVars
      <3>4. CASE ~failure
        BY <1>4, <3>1, <3>2, <3>4 DEF doioTail, setchunkfailed, netVars
      <3> QED BY <3>3, <3>4
    <2> QED BY <2>1, <2>2
  <1>5. CASE Server
    <2>1. ASSUME NEW i, NEW st, NEW body, completes(i, st, body) PROVE failure' = failure
      BY <2>1 DEF completes
    <2>2. ASSUME NEW i, NEW body, succeeds(i, body) PROVE UNCHANGED <<failure, chunkfailed>>
      BY <2>1, <2>2 DEF succeeds
    <2>3. UNCHANGED <<failure, chunkfailed>>
      BY <1>5, <2>1, <2>2
        DEF Server, serverStores, serverRefuses, serverSends, requestFails
    <2> QED BY <2>3
  <1>6. CASE execContinue
    BY <1>6 DEF execContinue, released
  <1>7. CASE dispatch \/ stopxfer
    BY <1>7 DEF dispatch, stopxfer, noSlot
  <1>8. CASE dispatchFails \/ \E final \in BOOLEAN : procresultError(final)
    BY <1>1, <1>8 DEF dispatchFails, procresultError
  <1>9. CASE UNCHANGED vars
    BY <1>9 DEF vars, slotVars, netVars
  <1> QED
    BY <1>2, <1>3, <1>4, <1>5, <1>6, <1>7, <1>8, <1>9
    DEF Next, Step, Tail, elapse, procresult, doio, abortbackoff, disconnect, pause,
        resume, otherRequest, otherChunkFails, stall, setchunkfailed, slotVars, netVars

(* FrozenIsReleasable: an upload whose slot freezes has set chunkfailed, so
   that exec() can release it.  setchunkfailed() records nothing without a URL;
   that a frozen slot has one (UrlKnown) is what the proof adds.  Transient
   read errors, with which a slot can freeze before it has one, are excluded
   here as in the run. *)
THEOREM Release ==
    ASSUME Dir = "PUT", ~ReadRetries
    PROVE  Spec => []FrozenIsReleasable
  <1>1. Init => FrozenIsReleasable /\ UrlKnown
    BY DEF Init, FrozenIsReleasable, UrlKnown
  <1>2. TypeOK /\ Chunks /\ UrlKnown /\ [Next]_vars => UrlKnown'
    BY UrlStep, TailStep DEF UrlKnown
  <1>3. TypeOK /\ Chunks /\ UrlKnown /\ FrozenIsReleasable /\ [Next]_vars
            => FrozenIsReleasable'
    BY FrozenStep
  <1> QED BY <1>1, <1>2, <1>3, ChunksAlways, PTL DEF Spec
=============================================================================

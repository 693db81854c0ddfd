--------------------------- MODULE CsChannelProofs ---------------------------
(***************************************************************************)
(* Proofs about the client-server command channel (module CsChannel), for  *)
(* every bound: its types, its safety invariants, and that it implements   *)
(* the exactly-once FIFO channel of module RpcFifo.                        *)
(*                                                                         *)
(* The inductive invariant has two parts.  Control says what the two       *)
(* buffers, the request in flight, the timer and the identifier say about  *)
(* each other: that is enough for the safety invariants.  Content says     *)
(* which commands are where - delivered, outstanding, collected - and what *)
(* the server has executed of them: the refinement needs both.             *)
(***************************************************************************)
EXTENDS CsChannel, SequenceTheorems, TLAPS

USE CsAssumption

\* the batch that has been posted and not yet answered
out == reqs[1 - r]

-----------------------------------------------------------------------------
(* Types *)

(* What dispatch() does to the types of the client's variables, for any
   well-typed buffers, identifier and session. *)
LEMMA DispatchType ==
    ASSUME TypeOK, NEW q \in [{0, 1} -> Batch], NEW id \in Nat, NEW s \in Nat,
           NEW set \in BOOLEAN, dispatch(q, id, s, set)
    PROVE  /\ r' \in {0, 1}
           /\ reqs' \in [{0, 1} -> Batch]
           /\ \A p \in pendingcs' :
                  /\ p.status \in Statuses
                  /\ p.in.kind \in {"results", "again", "error", "none"}
                  /\ p.in.of \in Batch
           /\ reqid' \in Nat
           /\ btcs' \in bt!Phases
           /\ \A x \in posted' : IsRequest(x)
  <1> DEFINE i == selected(set)
  <1>1. i \in {0, 1} /\ 1 - i \in {0, 1}
    BY DEF selected, TypeOK
  <1>2. << >> \in Batch
    BY DEF Batch
  <1>3. IsRequest(Request(s, id, q[i]))
    BY <1>1 DEF IsRequest, Request
  <1>4. reqs' = q /\ reqid' = id
    BY DEF dispatch
  <1>5. CASE q[i] # << >>
    BY <1>1, <1>2, <1>3, <1>4, <1>5
    DEF dispatch, flipped, afterDispatch, TypeOK, Statuses, NoReply, bt!Phases
  <1>6. CASE q[i] = << >>
    BY <1>1, <1>4, <1>6 DEF dispatch, TypeOK, bt!Phases
  <1> QED BY <1>5, <1>6

(* The commands numbered after n. *)
LEMMA FreshType ==
    ASSUME NEW n \in Nat, NEW k \in Nat
    PROVE  Fresh(n, k) \in Batch /\ Len(Fresh(n, k)) = k
  BY DEF Fresh, Batch

(* The callbacks' history stays a sequence of pairs. *)
LEMMA DeliveredType ==
    ASSUME NEW d \in Seq(Nat \X Nat), NEW b \in Batch, NEW v \in Batch
    PROVE  d \o [i \in 1 .. Len(b) |->
                     <<b[i], IF i <= Len(v) THEN v[i] ELSE 0>>]
               \in Seq(Nat \X Nat)
  <1> DEFINE e == [i \in 1 .. Len(b) |->
                       <<b[i], IF i <= Len(v) THEN v[i] ELSE 0>>]
  <1>1. \A i \in 1 .. Len(b) : b[i] \in Nat
    BY DEF Batch
  <1>2. \A i \in 1 .. Len(b) : (IF i <= Len(v) THEN v[i] ELSE 0) \in Nat
    BY DEF Batch
  <1>3. e \in [1 .. Len(b) -> Nat \X Nat]
    BY <1>1, <1>2
  <1>4. Len(b) \in Nat
    BY DEF Batch
  <1>5. e \in Seq(Nat \X Nat)
    <2> HIDE DEF e
    <2>1. \E n \in Nat : e \in [1 .. n -> Nat \X Nat]
      BY <1>3, <1>4
    <2> QED BY <2>1, SeqDef, Zenon
  <1>6. d \o e \in Seq(Nat \X Nat)
    BY <1>5, ConcatProperties
  <1> QED BY <1>6

(* The replies that reach the client are well typed. *)
LEMMA SetStatusType ==
    ASSUME TypeOK, NEW status \in Statuses, NEW reply, SetStatus(status, reply),
           reply.kind \in {"results", "again", "error", "none"},
           reply.of \in Batch
    PROVE  TypeOK'
  BY DEF SetStatus, TypeOK, IsRequest

(* The type invariant is preserved by every step, the callbacks of a result
   and a logout from within one included. *)
LEMMA TypeStep == TypeOK /\ [Next]_vars => TypeOK'
  <1> SUFFICES ASSUME TypeOK, [Next]_vars
               PROVE  TypeOK'
    OBVIOUS
  <1>0. /\ r \in {0, 1} /\ 1 - r \in {0, 1}
        /\ reqs[r] \in Batch /\ reqs[1 - r] \in Batch
        /\ << >> \in Batch /\ << >> \in Seq(Nat \X Nat)
    BY EmptySeq DEF TypeOK, Batch
  <1>1. CASE add
    <2>1. Append(reqs[r], queued + 1) \in Batch
      BY <1>0 DEF TypeOK, Batch
    <2>2. reqs' \in [{0, 1} -> Batch]
      BY <1>0, <1>1, <2>1 DEF add, collecting, TypeOK
    <2> QED BY <1>1, <2>2 DEF add, TypeOK, IsRequest
  <1>2. CASE execDispatch
    <2>1. bt!nextset \in BOOLEAN
      BY DEF bt!nextset
    <2>2. /\ r' \in {0, 1}
          /\ reqs' \in [{0, 1} -> Batch]
          /\ \A p \in pendingcs' :
                 /\ p.status \in Statuses
                 /\ p.in.kind \in {"results", "again", "error", "none"}
                 /\ p.in.of \in Batch
          /\ reqid' \in Nat
          /\ btcs' \in bt!Phases
          /\ \A x \in posted' : IsRequest(x)
      BY <1>2, <2>1, DispatchType DEF execDispatch, TypeOK
    <2> QED BY <1>2, <2>2 DEF execDispatch, TypeOK, IsRequest
  <1>3. ASSUME NEW k \in 0 .. MaxCallback, execResult(k)
        PROVE  TypeOK'
    <2> DEFINE q == [reqs EXCEPT ![r] = @ \o Fresh(queued, k),
                                 ![1 - r] = answered]
    <2>1. PICK p \in pendingcs :
             /\ delivered' = delivered \o
                    [i \in 1 .. Len(reqs[1 - r]) |->
                        <<reqs[1 - r][i],
                          IF i <= Len(p.in.of) THEN p.in.of[i] ELSE 0>>]
             /\ queued' = queued + k
             /\ csretrying' = retryingDone
             /\ dispatch(q, nextreqid, session, setAfterResult)
             /\ UNCHANGED <<session, served, executed>>
      BY <1>3 DEF execResult
    <2>2. k \in Nat /\ queued \in Nat /\ session \in Nat /\ nextreqid \in Nat
      BY DEF TypeOK, nextreqid
    <2>3. reqs[r] \o Fresh(queued, k) \in Batch
      BY <1>0, <2>2, FreshType, ConcatProperties DEF Batch
    <2>4. q \in [{0, 1} -> Batch]
      BY <1>0, <2>3 DEF TypeOK, answered
    <2>5. delivered' \in Seq(Nat \X Nat)
      <3>1. p.in.of \in Batch /\ delivered \in Seq(Nat \X Nat)
        BY DEF TypeOK
      <3> QED BY <1>0, <2>1, <3>1, DeliveredType
    <2>6. setAfterResult \in BOOLEAN
      BY DEF setAfterResult
    <2>7. /\ r' \in {0, 1}
          /\ reqs' \in [{0, 1} -> Batch]
          /\ \A y \in pendingcs' :
                 /\ y.status \in Statuses
                 /\ y.in.kind \in {"results", "again", "error", "none"}
                 /\ y.in.of \in Batch
          /\ reqid' \in Nat
          /\ btcs' \in bt!Phases
          /\ \A x \in posted' : IsRequest(x)
      <3> HIDE DEF q
      <3> QED BY <2>1, <2>2, <2>4, <2>6, DispatchType
    <2>8. csretrying' \in BOOLEAN
      BY <2>1 DEF retryingDone
    <2> QED BY <2>1, <2>2, <2>5, <2>7, <2>8 DEF TypeOK, IsRequest
  <1>4. ASSUME NEW k \in 0 .. MaxCallback, execResultLogout(k)
        PROVE  TypeOK'
    <2> DEFINE q == [reqs EXCEPT ![r] = Fresh(0, k), ![1 - r] = << >>]
    <2>1. /\ session' = session + 1
          /\ queued' = k
          /\ delivered' = << >>
          /\ executed' = << >>
          /\ csretrying' = FALSE
          /\ dispatch(q, nextreqid, session + 1, FALSE)
          /\ UNCHANGED served
      BY <1>4 DEF execResultLogout
    <2>2. k \in Nat /\ session + 1 \in Nat /\ nextreqid \in Nat
      BY DEF TypeOK, nextreqid
    <2>3. Fresh(0, k) \in Batch
      BY <2>2, FreshType
    <2>4. q \in [{0, 1} -> Batch]
      BY <1>0, <2>3 DEF TypeOK
    <2>5. /\ r' \in {0, 1}
          /\ reqs' \in [{0, 1} -> Batch]
          /\ \A y \in pendingcs' :
                 /\ y.status \in Statuses
                 /\ y.in.kind \in {"results", "again", "error", "none"}
                 /\ y.in.of \in Batch
          /\ reqid' \in Nat
          /\ btcs' \in bt!Phases
          /\ \A x \in posted' : IsRequest(x)
      <3> HIDE DEF q
      <3> QED BY <2>1, <2>2, <2>4, DispatchType
    <2> QED BY <1>0, <2>1, <2>2, <2>5 DEF TypeOK, IsRequest
  <1>5. CASE execRetry
    BY <1>5 DEF execRetry, TypeOK, IsRequest, bt!backoff, bt!Phases
  <1>6. CASE abortbackoff
    BY <1>6 DEF abortbackoff, TypeOK, IsRequest, bt!arm, bt!Phases
  <1>7. CASE elapse
    BY <1>7 DEF elapse, TypeOK, IsRequest, bt!elapse, bt!Phases
  <1>8. CASE disconnect
    BY <1>0, <1>8, SetStatusType DEF disconnect, NoReply, Statuses
  <1>9. CASE logout
    <2>1. reqs' \in [{0, 1} -> Batch]
      BY <1>0, <1>9 DEF logout
    <2>2. btcs' \in bt!Phases /\ session' \in Nat
      BY <1>9 DEF logout, TypeOK, bt!reset, bt!Phases
    <2>3. /\ pendingcs' = {} /\ csretrying' = FALSE /\ queued' = 0
          /\ delivered' = << >> /\ executed' = << >>
          /\ UNCHANGED <<r, reqid, posted, served>>
      BY <1>9 DEF logout
    <2> QED BY <1>0, <2>1, <2>2, <2>3 DEF TypeOK, IsRequest
  <1>10. CASE serverExecutes
    <2>1. PICK q \in posted : /\ served' = served \union {q}
                              /\ executed' = executed \o q.batch
                              /\ UNCHANGED <<clientVars, session, queued,
                                             delivered, posted>>
      BY <1>10 DEF serverExecutes
    <2>2. IsRequest(q)
      BY DEF TypeOK
    <2>3. executed \o q.batch \in Batch
      BY <2>2 DEF IsRequest, TypeOK, Batch
    <2> QED BY <2>1, <2>2, <2>3 DEF TypeOK, IsRequest, clientVars
  <1>11. CASE receiveResults
    <2>1. PICK s \in served : SetStatus("REQ_SUCCESS", Results(s.batch))
      BY <1>11 DEF receiveResults
    <2>2. s.batch \in Batch
      BY DEF TypeOK, IsRequest
    <2> QED BY <2>1, <2>2, SetStatusType DEF Results, Statuses
  <1>12. CASE receiveAgain
    BY <1>0, <1>12, SetStatusType DEF receiveAgain, Again, Statuses
  <1>13. CASE receiveError
    BY <1>0, <1>13, SetStatusType DEF receiveError, Fatal, Statuses
  <1>14. CASE networkFailure
    BY <1>0, <1>14, SetStatusType DEF networkFailure, NoReply, Statuses
  <1>15. CASE UNCHANGED vars
    BY <1>15 DEF vars, clientVars, TypeOK, IsRequest
  <1> QED BY <1>1, <1>2, <1>3, <1>4, <1>5, <1>6, <1>7, <1>8, <1>9, <1>10,
             <1>11, <1>12, <1>13, <1>14, <1>15 DEF Next

(* TypeOK: r stays a buffer index, the buffers hold commands, and requests,
   replies and histories are well formed, in every reachable state. *)
THEOREM TypeCorrect == Spec => []TypeOK
  <1>1. Init => TypeOK
    BY DEF Init, TypeOK, Batch, bt!Init, bt!Phases
  <1> QED BY <1>1, TypeStep, PTL DEF Spec

-----------------------------------------------------------------------------
(* Control *)

\* The other buffer is in use exactly while a request is outstanding or the
\* timer says that one has failed.
BufferInUse ==
    /\ pendingcs # {} => out # << >>
    /\ pendingcs = {} => (btcs # "unset" <=> out # << >>)

\* Everything posted under the current identifier is the batch in the other
\* buffer; identifiers and sessions only grow.
CurrentBatch ==
    \A q \in posted :
        /\ q.session <= session
        /\ q.session = session => q.id <= reqid
        /\ q.session = session /\ q.id = reqid => q.batch = out /\ out # << >>

Control == BufferInUse /\ CurrentBatch /\ RetryIndicatorHonest /\ OneBatchPerId

(* What dispatch() leaves behind: the selected batch is posted and becomes
   the outstanding one, or there is nothing to post and the timer is
   unset. *)
LEMMA DispatchCases ==
    ASSUME TypeOK, NEW q \in [{0, 1} -> Batch], NEW id \in Nat, NEW s \in Nat,
           NEW set \in BOOLEAN, dispatch(q, id, s, set),
           NEW i, i = selected(set)
    PROVE  /\ i \in {0, 1} /\ reqs' = q /\ reqid' = id
           /\ \/ /\ q[i] # << >>
                 /\ pendingcs' = {[status |-> "REQ_INFLIGHT", in |-> NoReply]}
                 /\ posted' = posted \union {Request(s, id, q[i])}
                 /\ out' = q[i] /\ reqs'[r'] = q[1 - i]
              \/ /\ q[i] = << >>
                 /\ pendingcs' = {} /\ btcs' = "unset" /\ posted' = posted
                 /\ out' = q[1 - i] /\ reqs'[r'] = q[i]
  <1>1. i \in {0, 1} /\ 1 - (1 - i) = i
    BY DEF selected, TypeOK
  <1>2. reqs' = q /\ reqid' = id
    BY DEF dispatch
  <1>3. CASE q[i] # << >>
    BY <1>1, <1>2, <1>3 DEF dispatch, flipped, out
  <1>4. CASE q[i] = << >>
    BY <1>1, <1>2, <1>4 DEF dispatch, out
  <1> QED BY <1>1, <1>2, <1>3, <1>4

(* Control holds after dispatch() if nothing but the selected batch has been
   posted under the identifier, and if the other buffer is empty when there
   is nothing to post. *)
LEMMA DispatchControl ==
    ASSUME TypeOK, OneBatchPerId,
           NEW q \in [{0, 1} -> Batch], NEW id \in Nat, NEW s \in Nat,
           NEW set \in BOOLEAN, dispatch(q, id, s, set), session' = s,
           NEW i, i = selected(set),
           \A x \in posted :
               /\ x.session <= s
               /\ x.session = s => x.id <= id
               /\ x.session = s /\ x.id = id => x.batch = q[i] /\ q[i] # << >>,
           q[i] = << >> => q[1 - i] = << >>,
           csretrying' => q[i] # << >>
    PROVE  Control'
  <1>1. /\ reqid' = id
        /\ \/ /\ q[i] # << >>
              /\ pendingcs' # {}
              /\ posted' = posted \union {Request(s, id, q[i])}
              /\ out' = q[i]
           \/ /\ q[i] = << >>
              /\ pendingcs' = {} /\ btcs' = "unset" /\ posted' = posted
              /\ out' = << >>
    BY DispatchCases
  <1>2. BufferInUse'
    BY <1>1 DEF BufferInUse
  <1>3. /\ Request(s, id, q[i]).session = s
        /\ Request(s, id, q[i]).id = id
        /\ Request(s, id, q[i]).batch = q[i]
    BY DEF Request
  <1>4. CurrentBatch'
    BY <1>1, <1>3 DEF CurrentBatch
  <1>5. RetryIndicatorHonest'
    BY <1>1 DEF RetryIndicatorHonest, out
  <1>6. OneBatchPerId'
    BY <1>1, <1>3 DEF OneBatchPerId
  <1> QED BY <1>2, <1>4, <1>5, <1>6 DEF Control

(* A step that leaves the buffers, the identifier, the session and the
   history of posted requests alone keeps Control, if it respects the
   meaning of the timer. *)
LEMMA QuietControl ==
    ASSUME Control, UNCHANGED <<r, reqid, session, posted>>, out' = out,
           BufferInUse', RetryIndicatorHonest'
    PROVE  Control'
  <1>1. CurrentBatch'
    BY DEF Control, CurrentBatch
  <1>2. OneBatchPerId'
    BY DEF Control, OneBatchPerId
  <1> QED BY <1>1, <1>2 DEF Control

(* Control is inductive, relative to the types. *)
LEMMA ControlStep == TypeOK /\ Control /\ [Next]_vars => Control'
  <1> SUFFICES ASSUME TypeOK, Control, [Next]_vars
               PROVE  Control'
    OBVIOUS
  <1>0. /\ r \in {0, 1} /\ 1 - r \in {0, 1} /\ 1 - r # r /\ 1 - (1 - r) = r
        /\ reqs \in [{0, 1} -> Batch]
        /\ reqs[r] \in Batch /\ reqs[1 - r] \in Batch
        /\ << >> \in Batch
        /\ reqid \in Nat /\ session \in Nat /\ queued \in Nat
    BY DEF TypeOK, Batch
  <1>00. /\ BufferInUse /\ CurrentBatch /\ RetryIndicatorHonest /\ OneBatchPerId
         /\ \A x \in posted : x.session \in Nat /\ x.id \in Nat
    BY DEF Control, TypeOK, IsRequest
  <1>1. CASE add
    <2>1. out' = out /\ UNCHANGED <<r, reqid, session, posted, pendingcs, btcs,
                                    csretrying>>
      BY <1>0, <1>1 DEF add, collecting, out
    <2>2. BufferInUse' /\ RetryIndicatorHonest'
      BY <1>00, <2>1 DEF BufferInUse, RetryIndicatorHonest, out
    <2> QED BY <2>1, <2>2, QuietControl
  <1>2. CASE execDispatch
    <2>1. bt!nextset \in BOOLEAN /\ (bt!nextset <=> btcs # "unset")
      BY DEF bt!nextset
    <2>2. /\ pendingcs = {} /\ session' = session /\ csretrying' = csretrying
          /\ dispatch(reqs, reqid, session, bt!nextset)
      BY <1>2 DEF execDispatch
    <2>3. CASE btcs # "unset"
      <3>1. selected(bt!nextset) = 1 - r /\ reqs[1 - r] # << >>
        BY <1>00, <2>1, <2>2, <2>3 DEF selected, BufferInUse, out
      <3>2. \A x \in posted :
               /\ x.session <= session
               /\ x.session = session => x.id <= reqid
               /\ x.session = session /\ x.id = reqid
                      => x.batch = reqs[1 - r] /\ reqs[1 - r] # << >>
        BY <1>00 DEF CurrentBatch, out
      <3> QED BY <1>0, <1>00, <2>1, <2>2, <3>1, <3>2, DispatchControl
    <2>4. CASE btcs = "unset"
      <3>1. selected(bt!nextset) = r /\ reqs[1 - r] = << >>
        BY <1>00, <2>1, <2>2, <2>4 DEF selected, BufferInUse, out
      <3>2. \A x \in posted :
               /\ x.session <= session
               /\ x.session = session => x.id <= reqid
               /\ ~(x.session = session /\ x.id = reqid)
        BY <1>00, <3>1 DEF CurrentBatch, out
      <3>3. ~csretrying
        BY <1>00, <3>1 DEF RetryIndicatorHonest
      <3> QED BY <1>0, <1>00, <2>1, <2>2, <3>1, <3>2, <3>3, DispatchControl
    <2> QED BY <2>3, <2>4
  <1>3. ASSUME NEW k \in 0 .. MaxCallback, execResult(k)
        PROVE  Control'
    <2> DEFINE q == [reqs EXCEPT ![r] = @ \o Fresh(queued, k),
                                 ![1 - r] = answered]
    <2>1. /\ dispatch(q, reqid + 1, session, FALSE)
          /\ session' = session /\ csretrying' = FALSE
      BY <1>3 DEF execResult, nextreqid, setAfterResult, retryingDone
    <2>2. reqs[r] \o Fresh(queued, k) \in Batch
      BY <1>0, FreshType, ConcatProperties DEF Batch
    <2>3. q \in [{0, 1} -> Batch] /\ q[1 - r] = << >>
      BY <1>0, <2>2 DEF answered
    <2>4. selected(FALSE) = r
      BY DEF selected
    <2>5. \A x \in posted :
             /\ x.session <= session
             /\ x.session = session => x.id <= reqid + 1
             /\ ~(x.session = session /\ x.id = reqid + 1)
      BY <1>0, <1>00 DEF CurrentBatch
    <2>6. reqid + 1 \in Nat
      BY <1>0
    <2>7. /\ \A x \in posted :
                 /\ x.session <= session
                 /\ x.session = session => x.id <= reqid + 1
                 /\ x.session = session /\ x.id = reqid + 1
                        => x.batch = q[r] /\ q[r] # << >>
          /\ q[r] = << >> => q[1 - r] = << >>
          /\ csretrying' => q[r] # << >>
      BY <2>1, <2>3, <2>5
    <2> HIDE DEF q
    <2>8. PICK set \in BOOLEAN : set = FALSE
      OBVIOUS
    <2>9. dispatch(q, reqid + 1, session, set) /\ selected(set) = r
      BY <2>1, <2>4, <2>8, Zenon
    <2> QED BY <1>0, <1>00, <2>1, <2>3, <2>6, <2>7, <2>9, DispatchControl
  <1>4. ASSUME NEW k \in 0 .. MaxCallback, execResultLogout(k)
        PROVE  Control'
    <2> DEFINE q == [reqs EXCEPT ![r] = Fresh(0, k), ![1 - r] = << >>]
    <2>1. /\ dispatch(q, reqid + 1, session + 1, FALSE)
          /\ session' = session + 1 /\ csretrying' = FALSE
      BY <1>4 DEF execResultLogout, nextreqid
    <2>2. Fresh(0, k) \in Batch
      BY FreshType
    <2>3. q \in [{0, 1} -> Batch] /\ q[1 - r] = << >>
      BY <1>0, <2>2
    <2>4. selected(FALSE) = r
      BY DEF selected
    <2>5. \A x \in posted : x.session <= session + 1 /\ x.session # session + 1
      BY <1>0, <1>00 DEF CurrentBatch
    <2>6. reqid + 1 \in Nat /\ session + 1 \in Nat
      BY <1>0
    <2>7. /\ \A x \in posted :
                 /\ x.session <= session + 1
                 /\ x.session = session + 1 => x.id <= reqid + 1
                 /\ x.session = session + 1 /\ x.id = reqid + 1
                        => x.batch = q[r] /\ q[r] # << >>
          /\ q[r] = << >> => q[1 - r] = << >>
          /\ csretrying' => q[r] # << >>
      BY <2>1, <2>3, <2>5
    <2> HIDE DEF q
    <2>8. PICK set \in BOOLEAN : set = FALSE
      OBVIOUS
    <2>9. dispatch(q, reqid + 1, session + 1, set) /\ selected(set) = r
      BY <2>1, <2>4, <2>8, Zenon
    <2> QED BY <1>0, <1>00, <2>1, <2>3, <2>6, <2>7, <2>9, DispatchControl
  <1>5. CASE execRetry
    <2>1. /\ pendingcs # {} /\ pendingcs' = {} /\ btcs' = "waiting"
          /\ UNCHANGED <<r, reqs, reqid, session, posted>>
      BY <1>5 DEF execRetry, bt!backoff
    <2>2. out' = out /\ out # << >>
      BY <1>00, <2>1 DEF out, BufferInUse
    <2>3. BufferInUse' /\ RetryIndicatorHonest'
      BY <2>1, <2>2 DEF BufferInUse, RetryIndicatorHonest, out
    <2> QED BY <2>1, <2>2, <2>3, QuietControl
  <1>6. CASE abortbackoff \/ elapse
    <2>1. /\ btcs # "unset" <=> btcs' # "unset"
          /\ UNCHANGED <<r, reqs, reqid, session, posted, pendingcs, csretrying>>
      BY <1>6 DEF abortbackoff, elapse, bt!arm, bt!elapse
    <2>2. out' = out
      BY <2>1 DEF out
    <2>3. BufferInUse' /\ RetryIndicatorHonest'
      BY <1>00, <2>1, <2>2 DEF BufferInUse, RetryIndicatorHonest, out
    <2> QED BY <2>1, <2>2, <2>3, QuietControl
  <1>7. ASSUME NEW status, NEW reply, SetStatus(status, reply)
        PROVE  Control'
    <2>1. /\ pendingcs # {} /\ pendingcs' # {}
          /\ UNCHANGED <<r, reqs, reqid, session, posted, btcs, csretrying>>
      BY <1>7 DEF SetStatus
    <2>2. out' = out
      BY <2>1 DEF out
    <2>3. BufferInUse' /\ RetryIndicatorHonest'
      BY <1>00, <2>1, <2>2 DEF BufferInUse, RetryIndicatorHonest, out
    <2> QED BY <2>1, <2>2, <2>3, QuietControl
  <1>8. CASE logout
    <2>1. /\ session' = session + 1 /\ pendingcs' = {} /\ btcs' = "unset"
          /\ csretrying' = FALSE /\ posted' = posted /\ r' = r /\ reqid' = reqid
          /\ reqs' = [i \in {0, 1} |-> << >>]
      BY <1>8 DEF logout, bt!reset
    <2>2. out' = << >>
      BY <1>0, <2>1 DEF out
    <2>3. \A x \in posted : x.session <= session + 1 /\ x.session # session + 1
      BY <1>0, <1>00 DEF CurrentBatch
    <2>4. BufferInUse' /\ RetryIndicatorHonest'
      BY <2>1, <2>2 DEF BufferInUse, RetryIndicatorHonest
    <2>5. CurrentBatch'
      BY <2>1, <2>3 DEF CurrentBatch
    <2>6. OneBatchPerId'
      BY <1>00, <2>1 DEF OneBatchPerId
    <2> QED BY <2>4, <2>5, <2>6 DEF Control
  <1>9. CASE serverExecutes
    <2>1. UNCHANGED <<clientVars, session, posted>>
      BY <1>9 DEF serverExecutes
    <2>2. out' = out /\ BufferInUse' /\ RetryIndicatorHonest'
      BY <1>00, <2>1 DEF clientVars, out, BufferInUse, RetryIndicatorHonest
    <2> QED BY <2>1, <2>2, QuietControl DEF clientVars
  <1>10. CASE UNCHANGED vars
    <2>1. UNCHANGED <<clientVars, session, posted>>
      BY <1>10 DEF vars
    <2>2. out' = out /\ BufferInUse' /\ RetryIndicatorHonest'
      BY <1>00, <2>1 DEF clientVars, out, BufferInUse, RetryIndicatorHonest
    <2> QED BY <2>1, <2>2, QuietControl DEF clientVars
  <1> QED
    BY <1>1, <1>2, <1>3, <1>4, <1>5, <1>6, <1>7, <1>8, <1>9, <1>10
    DEF Next, disconnect, networkFailure, receiveAgain, receiveError,
        receiveResults

(* In the initial state nothing is queued, posted or being retried. *)
LEMMA ControlInit == Init => Control
  BY DEF Init, Control, BufferInUse, CurrentBatch, RetryIndicatorHonest,
         OneBatchPerId, out, bt!Init

(* The inductive invariant of the two buffers. *)
LEMMA ControlAlways == Spec => [](TypeOK /\ Control)
  <1>1. Init => TypeOK
    BY DEF Init, TypeOK, Batch, bt!Init, bt!Phases
  <1> QED BY <1>1, ControlInit, ControlStep, TypeStep, PTL DEF Spec

(* OneBatchPerId: whatever fails, is retried or cut off by a logout, exec()
   never posts another batch under an identifier that the server may have
   seen in this session, so that its record of results cannot be mistaken. *)
THEOREM Safety == Spec => []OneBatchPerId
  <1>1. Control => OneBatchPerId
    BY DEF Control
  <1> QED BY <1>1, ControlAlways, PTL

(* SetTimerMeansFailedBatch: exec() takes a set btcs for "there is a batch to
   be repeated" and does not look at the buffer; it always finds one there. *)
THEOREM TimerMeansBatch == Spec => []SetTimerMeansFailedBatch
  <1>1. Control => SetTimerMeansFailedBatch
    BY DEF Control, BufferInUse, SetTimerMeansFailedBatch, out
  <1> QED BY <1>1, ControlAlways, PTL

(* RetryIndicatorHonest: the application is told of a retry only while a
   batch is outstanding; every way out of one clears csretrying. *)
THEOREM RetryShown == Spec => []RetryIndicatorHonest
  <1>1. Control => RetryIndicatorHonest
    BY DEF Control
  <1> QED BY <1>1, ControlAlways, PTL

-----------------------------------------------------------------------------
(* Content *)

\* s holds the consecutive commands that follow command n
IsRun(s, n) == s \in Batch /\ \A i \in 1 .. Len(s) : s[i] = n + i

\* the server has executed the batch with the current identifier
CurrentServed == \E s \in served : s.session = session /\ s.id = reqid

\* delivered, then outstanding, then collected: all queued commands, in order
WhereCommandsAre ==
    /\ \A i \in 1 .. Len(delivered) : delivered[i] = <<i, i>>
    /\ IsRun(out, Len(delivered))
    /\ IsRun(reqs[r], Len(delivered) + Len(out))
    /\ queued = Len(delivered) + Len(out) + Len(reqs[r])

\* the server is at most the outstanding batch ahead of the callbacks
WhatServerDid ==
    /\ served \subseteq posted
    /\ IsRun(executed, 0)
    /\ Len(executed) = Len(delivered) + (IF CurrentServed THEN Len(out) ELSE 0)
    /\ \A q \in posted : q.session = session /\ q.id < reqid =>
           \E s \in served : s.session = session /\ s.id = q.id

\* a result array that reaches the client is that of the outstanding batch
ResultsAreCurrent ==
    \A p \in pendingcs :
        p.in.kind = "results" => CurrentServed /\ p.in.of = out

Content == WhereCommandsAre /\ WhatServerDid /\ ResultsAreCurrent

(* The empty batch is a run, wherever it starts. *)
LEMMA EmptyRun == ASSUME NEW n \in Nat PROVE IsRun(<< >>, n) /\ Len(<< >>) = 0
  BY EmptySeq DEF IsRun, Batch

(* reqs[r].add() extends a run by the next command. *)
LEMMA AppendRun ==
    ASSUME NEW n \in Nat, NEW s, IsRun(s, n)
    PROVE  /\ IsRun(Append(s, n + Len(s) + 1), n)
           /\ Len(Append(s, n + Len(s) + 1)) = Len(s) + 1
  BY DEF IsRun, Batch

(* The commands the callbacks of one result queue are a run. *)
LEMMA FreshRun ==
    ASSUME NEW n \in Nat, NEW k \in Nat
    PROVE  IsRun(Fresh(n, k), n) /\ Len(Fresh(n, k)) = k
  BY FreshType DEF IsRun, Fresh

(* A run followed by the run that continues it is a run. *)
LEMMA ConcatRun ==
    ASSUME NEW n \in Nat, NEW s, IsRun(s, n), NEW t, IsRun(t, n + Len(s))
    PROVE  IsRun(s \o t, n) /\ Len(s \o t) = Len(s) + Len(t)
  <1>1. s \in Seq(Nat) /\ t \in Seq(Nat) /\ Len(s) \in Nat /\ Len(t) \in Nat
    BY LenProperties DEF IsRun, Batch
  <1>2. /\ s \o t \in Seq(Nat)
        /\ Len(s \o t) = Len(s) + Len(t)
        /\ \A i \in 1 .. Len(s) + Len(t) :
               (s \o t)[i] = IF i <= Len(s) THEN s[i] ELSE t[i - Len(s)]
    BY <1>1, ConcatProperties
  <1>3. ASSUME NEW i \in 1 .. Len(s) + Len(t)
        PROVE  (s \o t)[i] = n + i
    <2>1. CASE i <= Len(s)
      BY <1>1, <1>2, <2>1 DEF IsRun
    <2>2. CASE ~(i <= Len(s))
      <3>1. i - Len(s) \in 1 .. Len(t)
        BY <1>1, <2>2
      <3>2. t[i - Len(s)] = n + Len(s) + (i - Len(s))
        BY <3>1 DEF IsRun
      <3> QED BY <1>1, <1>2, <2>2, <3>2
    <2> QED BY <2>1, <2>2
  <1> QED BY <1>2, <1>3 DEF IsRun, Batch

(* A run is determined by where it starts and how long it is. *)
LEMMA RunIs ==
    ASSUME NEW n \in Nat, NEW s, IsRun(s, n)
    PROVE  s = [i \in 1 .. Len(s) |-> n + i]
  BY DEF IsRun, Batch

(* A function on 1 .. n is a sequence of length n. *)
LEMMA FunctionIsSeq ==
    ASSUME NEW S, NEW n \in Nat, NEW e \in [1 .. n -> S]
    PROVE  e \in Seq(S) /\ Len(e) = n
  OBVIOUS

\* the callbacks so far: command i with the result of command i
OwnResults(d) == \A i \in 1 .. Len(d) : d[i] = <<i, i>>

\* e pairs every element of b with itself
Doubled(e, b, S) ==
    e \in [1 .. Len(b) -> S] /\ \A i \in 1 .. Len(b) : e[i] = <<b[i], b[i]>>

(* procresult() on the outstanding batch and its own results: the next
   commands are delivered, each with its own result. *)
LEMMA DeliverRun ==
    ASSUME NEW S, NEW d \in Seq(S), OwnResults(d),
           NEW b, IsRun(b, Len(d)), NEW e, Doubled(e, b, S)
    PROVE  /\ \A i \in 1 .. Len(b) : e[i] = <<Len(d) + i, Len(d) + i>>
           /\ Len(d \o e) = Len(d) + Len(b)
           /\ OwnResults(d \o e)
  <1>0. /\ \A i \in 1 .. Len(d) : d[i] = <<i, i>>
        /\ e \in [1 .. Len(b) -> S]
        /\ \A i \in 1 .. Len(b) : e[i] = <<b[i], b[i]>>
    BY DEF OwnResults, Doubled
  <1>1. Len(d) \in Nat /\ b \in Seq(Nat) /\ Len(b) \in Nat
    BY LenProperties DEF IsRun, Batch
  <1>2. \A i \in 1 .. Len(b) : b[i] = Len(d) + i /\ i <= Len(b)
    BY <1>1 DEF IsRun
  <1>3. \A i \in 1 .. Len(b) : e[i] = <<Len(d) + i, Len(d) + i>>
    BY <1>0, <1>1, <1>2
  <1>4. e \in Seq(S) /\ Len(e) = Len(b)
    BY <1>0, <1>1, FunctionIsSeq
  <1>5. /\ Len(d \o e) = Len(d) + Len(b)
        /\ \A i \in 1 .. Len(d) + Len(b) :
               (d \o e)[i] = IF i <= Len(d) THEN d[i] ELSE e[i - Len(d)]
    <2>1. /\ Len(d \o e) = Len(d) + Len(e)
          /\ \A i \in 1 .. Len(d) + Len(e) :
                 (d \o e)[i] = IF i <= Len(d) THEN d[i] ELSE e[i - Len(d)]
      BY <1>4, ConcatProperties, Zenon
    <2> QED BY <1>4, <2>1, Zenon
  <1>6. ASSUME NEW i \in 1 .. Len(d) + Len(b)
        PROVE  (d \o e)[i] = <<i, i>>
    <2>1. CASE i <= Len(d)
      BY <1>0, <1>1, <1>5, <2>1
    <2>2. CASE ~(i <= Len(d))
      <3>1. i - Len(d) \in 1 .. Len(b) /\ Len(d) + (i - Len(d)) = i
        BY <1>1, <2>2
      <3>2. e[i - Len(d)] = <<i, i>>
        BY <1>3, <3>1
      <3> QED BY <1>5, <2>2, <3>2
    <2> QED BY <2>1, <2>2
  <1> QED BY <1>3, <1>5, <1>6 DEF OwnResults

(* Steps that change neither a command's place nor what the server did. *)
LEMMA QuietContent ==
    ASSUME Content, out' = out, reqs'[r'] = reqs[r],
           UNCHANGED <<reqid, session, queued, delivered, served, executed>>,
           posted \subseteq posted',
           \A x \in posted' \ posted : x.id = reqid,
           reqid \in Nat,
           ResultsAreCurrent'
    PROVE  Content'
  <1>1. WhereCommandsAre'
    BY DEF Content, WhereCommandsAre, IsRun
  <1>2. CurrentServed' <=> CurrentServed
    BY DEF CurrentServed
  <1>3. WhatServerDid'
    BY <1>2 DEF Content, WhatServerDid, IsRun
  <1> QED BY <1>1, <1>3 DEF Content

(* A new outstanding batch with nothing executed of it: after a result and
   at the start of a session. *)
LEMMA NewBatchContent ==
    ASSUME NEW d \in Nat, d = Len(delivered'),
           \A i \in 1 .. d : delivered'[i] = <<i, i>>,
           IsRun(out', d), reqs'[r'] = << >>, queued' = d + Len(out'),
           served' \subseteq posted', IsRun(executed', 0),
           Len(executed') = d, ~CurrentServed',
           \A x \in posted' : x.session = session' /\ x.id < reqid' =>
               \E y \in served' : y.session = session' /\ y.id = x.id,
           \A p \in pendingcs' : p.in.kind # "results"
    PROVE  Content'
  <1>1. Len(out') \in Nat
    BY LenProperties DEF IsRun, Batch
  <1>2. IsRun(<< >>, d + Len(out')) /\ Len(<< >>) = 0
    BY <1>1, EmptyRun
  <1>3. WhereCommandsAre'
    BY <1>1, <1>2 DEF WhereCommandsAre, IsRun
  <1>4. WhatServerDid'
    BY DEF WhatServerDid, IsRun
  <1>5. ResultsAreCurrent'
    BY DEF ResultsAreCurrent
  <1> QED BY <1>3, <1>4, <1>5 DEF Content

(* The facts about a state that the remaining proofs use. *)
LEMMA StateFacts ==
    ASSUME TypeOK, Control, Content
    PROVE  /\ r \in {0, 1} /\ 1 - r \in {0, 1} /\ 1 - r # r /\ 1 - (1 - r) = r
           /\ reqs \in [{0, 1} -> Batch]
           /\ reqid \in Nat /\ session \in Nat /\ queued \in Nat
           /\ Len(delivered) \in Nat /\ Len(out) \in Nat /\ Len(reqs[r]) \in Nat
           /\ \A x \in posted : x.session \in Nat /\ x.id \in Nat
           /\ \A x \in posted : x.session <= session
           /\ \A x \in posted : x.session = session => x.id <= reqid
           /\ served \subseteq posted
           /\ out = << >> => ~CurrentServed
           /\ \A x \in served : x.session = session /\ x.id = reqid
                                    => x.batch = out
  <1>1. /\ r \in {0, 1} /\ 1 - r \in {0, 1} /\ 1 - r # r /\ 1 - (1 - r) = r
        /\ reqs \in [{0, 1} -> Batch]
        /\ reqid \in Nat /\ session \in Nat /\ queued \in Nat
        /\ \A x \in posted : x.session \in Nat /\ x.id \in Nat
    BY DEF TypeOK, IsRequest
  <1>2. Len(delivered) \in Nat
    BY LenProperties DEF TypeOK
  <1>3. Len(out) \in Nat /\ Len(reqs[r]) \in Nat
    BY LenProperties DEF Content, WhereCommandsAre, IsRun, Batch
  <1>4. /\ served \subseteq posted
        /\ \A x \in posted : x.session <= session
        /\ \A x \in posted : x.session = session => x.id <= reqid
        /\ out = << >> => ~CurrentServed
        /\ \A x \in served : x.session = session /\ x.id = reqid => x.batch = out
    BY DEF Control, CurrentBatch, Content, WhatServerDid, CurrentServed
  <1> QED BY <1>1, <1>2, <1>3, <1>4

(* What a result does: the outstanding batch is delivered with its own
   results, and it is executed in full. *)
LEMMA ResultFacts ==
    ASSUME TypeOK, Control, Content, NEW k \in 0 .. MaxCallback, execResult(k)
    PROVE  /\ CurrentServed
           /\ Len(executed) = Len(delivered) + Len(out)
           /\ delivered' = delivered \o
                  [i \in 1 .. Len(out) |->
                      <<Len(delivered) + i, Len(delivered) + i>>]
           /\ Len(delivered') = Len(delivered) + Len(out)
           /\ OwnResults(delivered')
  <1>1. PICK p \in pendingcs :
           /\ p.in.kind = "results"
           /\ delivered' = delivered \o
                  [i \in 1 .. Len(reqs[1 - r]) |->
                      <<reqs[1 - r][i],
                        IF i <= Len(p.in.of) THEN p.in.of[i] ELSE 0>>]
    BY DEF execResult
  <1>2. CurrentServed /\ p.in.of = out
    BY <1>1 DEF Content, ResultsAreCurrent
  <1>3. Len(executed) = Len(delivered) + Len(out)
    BY <1>2 DEF Content, WhatServerDid
  <1>e. PICK e : e = [i \in 1 .. Len(out) |->
                         <<out[i], IF i <= Len(out) THEN out[i] ELSE 0>>]
    OBVIOUS
  <1>f. /\ e \in [1 .. Len(out) -> Nat \X Nat]
        /\ \A i \in 1 .. Len(out) : e[i] = <<out[i], out[i]>>
    <2>1. \A i \in 1 .. Len(out) : out[i] \in Nat
      BY DEF Content, WhereCommandsAre, IsRun, Batch
    <2> QED BY <1>e, <2>1, StateFacts
  <1>4. delivered' = delivered \o e
    BY <1>1, <1>2, <1>e DEF out
  <1>5. /\ delivered \in Seq(Nat \X Nat) /\ IsRun(out, Len(delivered))
        /\ \A i \in 1 .. Len(delivered) : delivered[i] = <<i, i>>
    BY DEF TypeOK, Content, WhereCommandsAre
  <1>6. /\ \A i \in 1 .. Len(out) :
               e[i] = <<Len(delivered) + i, Len(delivered) + i>>
        /\ Len(delivered \o e) = Len(delivered) + Len(out)
        /\ OwnResults(delivered \o e)
    <2>1. OwnResults(delivered) /\ Doubled(e, out, Nat \X Nat)
      BY <1>5, <1>f DEF OwnResults, Doubled
    <2> QED BY <1>5, <2>1, DeliverRun, Zenon
  <1>7. e = [i \in 1 .. Len(out) |->
                <<Len(delivered) + i, Len(delivered) + i>>]
    BY <1>6, <1>f
  <1> QED BY <1>2, <1>3, <1>4, <1>6, <1>7

(* What the server executes next is the outstanding batch. *)
LEMMA ServerFacts ==
    ASSUME TypeOK, Control, Content, serverExecutes
    PROVE  /\ executed' = executed \o out /\ ~CurrentServed /\ CurrentServed'
           /\ Len(executed) = Len(delivered)
           /\ served' \subseteq posted
           /\ served \subseteq served'
           /\ UNCHANGED <<clientVars, session, queued, delivered, posted>>
  <1>1. PICK q \in posted :
           /\ q.session = session
           /\ \A x \in served : ~(x.session = session /\ x.id = q.id)
           /\ served' = served \union {q}
           /\ executed' = executed \o q.batch
           /\ UNCHANGED <<clientVars, session, queued, delivered, posted>>
    BY DEF serverExecutes
  <1>2. ~(q.id < reqid)
    BY <1>1 DEF Content, WhatServerDid
  <1>3. q.id = reqid
    <2>1. q.id \in Nat /\ reqid \in Nat /\ q.id <= reqid
      BY <1>1, StateFacts
    <2> QED BY <1>2, <2>1
  <1>4. q.batch = out
    BY <1>1, <1>3 DEF Control, CurrentBatch
  <1>5. ~CurrentServed
    BY <1>1, <1>3 DEF CurrentServed
  <1>6. CurrentServed'
    BY <1>1, <1>3 DEF CurrentServed, clientVars
  <1>7. Len(executed) = Len(delivered)
    BY <1>5, StateFacts DEF Content, WhatServerDid
  <1>8. served' \subseteq posted
    BY <1>1, StateFacts
  <1> QED BY <1>1, <1>4, <1>5, <1>6, <1>7, <1>8

(* dispatch() after a result: what was collected becomes the outstanding
   batch, posted under the given identifier if there is any. *)
LEMMA NewBatchDispatch ==
    ASSUME TypeOK, NEW q \in [{0, 1} -> Batch], NEW id \in Nat, NEW s \in Nat,
           NEW set \in BOOLEAN, ~set, dispatch(q, id, s, set),
           q[1 - r] = << >>
    PROVE  /\ reqid' = id /\ out' = q[r] /\ reqs'[r'] = << >>
           /\ \A p \in pendingcs' : p.in.kind # "results"
           /\ posted \subseteq posted'
           /\ \A x \in posted' \ posted : x.id = id
  <1>1. PICK i : i = selected(set) /\ i = r
    BY DEF selected
  <1>2. /\ i \in {0, 1} /\ reqs' = q /\ reqid' = id
        /\ \/ /\ q[i] # << >>
              /\ pendingcs' = {[status |-> "REQ_INFLIGHT", in |-> NoReply]}
              /\ posted' = posted \union {Request(s, id, q[i])}
              /\ out' = q[i] /\ reqs'[r'] = q[1 - i]
           \/ /\ q[i] = << >>
              /\ pendingcs' = {} /\ btcs' = "unset" /\ posted' = posted
              /\ out' = q[1 - i] /\ reqs'[r'] = q[i]
    BY <1>1, DispatchCases
  <1>3. reqid' = id /\ out' = q[r] /\ reqs'[r'] = << >>
    BY <1>1, <1>2
  <1>4. \A p \in pendingcs' : p.in.kind # "results"
    BY <1>2 DEF NoReply
  <1>5. posted \subseteq posted' /\ \A x \in posted' \ posted : x.id = id
    BY <1>2 DEF Request
  <1> QED BY <1>3, <1>4, <1>5

(* A result: what was collected becomes the outstanding batch, under the next
   identifier. *)
LEMMA ResultContent ==
    ASSUME TypeOK, Control, Content, NEW k \in 0 .. MaxCallback, execResult(k)
    PROVE  Content' /\ queued' = queued + k /\ UNCHANGED <<session, executed>>
  <1> DEFINE q == [reqs EXCEPT ![r] = @ \o Fresh(queued, k),
                               ![1 - r] = answered]
             d == Len(delivered) + Len(out)
  <1>0. PICK set \in BOOLEAN : set = FALSE
    OBVIOUS
  <1>1. /\ queued' = queued + k
        /\ dispatch(q, reqid + 1, session, set)
        /\ UNCHANGED <<session, served, executed>>
    BY <1>0 DEF execResult, nextreqid, setAfterResult
  <1>2. /\ r \in {0, 1} /\ 1 - r \in {0, 1} /\ 1 - r # r /\ 1 - (1 - r) = r
        /\ reqs \in [{0, 1} -> Batch]
        /\ reqid \in Nat /\ session \in Nat /\ queued \in Nat
        /\ Len(delivered) \in Nat /\ Len(out) \in Nat /\ Len(reqs[r]) \in Nat
        /\ k \in Nat /\ d \in Nat
    BY StateFacts
  <1>3. IsRun(reqs[r], d) /\ queued = d + Len(reqs[r])
    BY <1>2 DEF Content, WhereCommandsAre
  <1>4. /\ IsRun(reqs[r] \o Fresh(queued, k), d)
        /\ Len(reqs[r] \o Fresh(queued, k)) = Len(reqs[r]) + k
    <2>1. IsRun(Fresh(queued, k), d + Len(reqs[r])) /\ Len(Fresh(queued, k)) = k
      BY <1>2, <1>3, FreshRun
    <2>2. PICK t : t = Fresh(queued, k)
      OBVIOUS
    <2>3. PICK c : c = reqs[r]
      OBVIOUS
    <2>4. IsRun(c, d) /\ IsRun(t, d + Len(c)) /\ Len(t) = k
      BY <1>3, <2>1, <2>2, <2>3
    <2>5. PICK n \in Nat : n = d
      BY <1>2
    <2>6. IsRun(c, n) /\ IsRun(t, n + Len(c))
      BY <2>4, <2>5
    <2>7. IsRun(c \o t, n) /\ Len(c \o t) = Len(c) + Len(t)
      BY <2>6, ConcatRun
    <2> QED BY <2>2, <2>3, <2>4, <2>5, <2>7
  <1>5. q[r] = reqs[r] \o Fresh(queued, k) /\ q[1 - r] = << >>
    BY <1>2 DEF answered
  <1>6. q \in [{0, 1} -> Batch]
    BY <1>2, <1>4, EmptySeq DEF IsRun, answered, Batch
  <1>7. reqid + 1 \in Nat /\ ~set
    BY <1>0, <1>2
  <1> HIDE DEF q
  <1>8. /\ reqid' = reqid + 1 /\ out' = q[r] /\ reqs'[r'] = << >>
        /\ \A p \in pendingcs' : p.in.kind # "results"
        /\ posted \subseteq posted'
        /\ \A x \in posted' \ posted : x.id = reqid + 1
    <2>1. PICK id \in Nat : id = reqid + 1
      BY <1>7
    <2>2. dispatch(q, id, session, set)
      BY <1>1, <2>1
    <2>3. /\ reqid' = id /\ out' = q[r] /\ reqs'[r'] = << >>
          /\ \A p \in pendingcs' : p.in.kind # "results"
          /\ posted \subseteq posted'
          /\ \A x \in posted' \ posted : x.id = id
      <3>1. session \in Nat /\ q[1 - r] = << >> /\ ~set
        BY <1>2, <1>5, <1>7
      <3> QED BY <1>6, <2>2, <3>1, NewBatchDispatch, Zenon
    <2> QED BY <2>1, <2>3
  <1>10. /\ served' \subseteq posted'
         /\ ~CurrentServed'
    BY <1>1, <1>2, <1>8, StateFacts DEF CurrentServed
  <1>11. \A x \in posted' : x.session = session' /\ x.id < reqid' =>
             \E y \in served' : y.session = session' /\ y.id = x.id
    <2> SUFFICES ASSUME NEW x \in posted', x.session = session', x.id < reqid'
                 PROVE  \E y \in served' : y.session = session' /\ y.id = x.id
      OBVIOUS
    <2>2. x \in posted
      BY <1>2, <1>8
    <2>3. x.id \in Nat /\ x.id < reqid + 1 /\ x.session = session
      BY <1>1, <1>8, <2>2, StateFacts
    <2>4. CASE x.id < reqid
      BY <1>1, <2>2, <2>3, <2>4 DEF Content, WhatServerDid
    <2>5. CASE ~(x.id < reqid)
      <3>1. x.id = reqid
        BY <1>2, <2>3, <2>5
      <3>2. CurrentServed
        BY ResultFacts
      <3> QED BY <1>1, <3>1, <3>2 DEF CurrentServed
    <2> QED BY <2>4, <2>5
  <1>12. /\ d = Len(delivered')
         /\ \A i \in 1 .. d : delivered'[i] = <<i, i>>
         /\ Len(executed') = d
    BY <1>1, ResultFacts DEF OwnResults
  <1>13. IsRun(out', d) /\ queued' = d + Len(out')
    <2>1. out' = reqs[r] \o Fresh(queued, k)
      BY <1>5, <1>8
    <2>2. IsRun(out', d) /\ Len(out') = Len(reqs[r]) + k
      BY <1>4, <2>1
    <2>3. PICK c \in Nat : c = Len(reqs[r])
      BY <1>2
    <2>4. Len(out') = c + k /\ queued' = (d + c) + k
      BY <1>1, <1>3, <2>2, <2>3
    <2>5. (d + c) + k = d + (c + k)
      BY <1>2
    <2> QED BY <2>2, <2>4, <2>5
  <1>14. IsRun(executed', 0)
    BY <1>1 DEF Content, WhatServerDid, IsRun
  <1>15. reqs'[r'] = << >> /\ d \in Nat
    BY <1>2, <1>8
  <1> HIDE DEF d
  <1>16. Content'
    BY <1>8, <1>10, <1>11, <1>12, <1>13, <1>14, <1>15, NewBatchContent
  <1> QED BY <1>1, <1>16

(* A logout starts a session of which the server has seen nothing. *)
LEMMA LogoutContent ==
    ASSUME TypeOK, Control, Content, session' = session + 1,
           served' = served,
           posted \subseteq posted',
           \A x \in posted' \ posted : x.id = reqid',
           reqid' \in Nat, delivered' = << >>, executed' = << >>,
           IsRun(out', 0), reqs'[r'] = << >>, queued' = Len(out'),
           \A p \in pendingcs' : p.in.kind # "results"
    PROVE  Content'
  <1>1. /\ session \in Nat
        /\ \A x \in posted : x.session \in Nat /\ x.session <= session
        /\ served \subseteq posted
    BY StateFacts
  <1>2. \A x \in posted : x.session # session + 1
    BY <1>1
  <1>3. served' \subseteq posted' /\ ~CurrentServed'
    BY <1>1, <1>2 DEF CurrentServed
  <1>4. \A x \in posted' : x.session = session' /\ x.id < reqid' =>
            \E y \in served' : y.session = session' /\ y.id = x.id
    BY <1>2
  <1>5. IsRun(executed', 0) /\ Len(executed') = 0 /\ Len(delivered') = 0
    BY EmptyRun
  <1>6. \A i \in 1 .. 0 : delivered'[i] = <<i, i>>
    OBVIOUS
  <1>7. queued' = 0 + Len(out')
    BY LenProperties DEF IsRun, Batch
  <1>8. PICK d \in Nat : d = 0
    OBVIOUS
  <1> QED BY <1>3, <1>4, <1>5, <1>6, <1>7, <1>8, NewBatchContent

(* Content is inductive, relative to the types and Control. *)
LEMMA ContentStep == TypeOK /\ Control /\ Content /\ [Next]_vars => Content'
  <1> SUFFICES ASSUME TypeOK, Control, Content, [Next]_vars
               PROVE  Content'
    OBVIOUS
  <1>0. /\ r \in {0, 1} /\ 1 - r \in {0, 1} /\ 1 - r # r /\ 1 - (1 - r) = r
        /\ reqs \in [{0, 1} -> Batch]
        /\ reqid \in Nat /\ session \in Nat /\ queued \in Nat
        /\ Len(delivered) \in Nat /\ Len(out) \in Nat /\ Len(reqs[r]) \in Nat
        /\ out = << >> => ~CurrentServed
    BY StateFacts
  <1>00. WhereCommandsAre /\ WhatServerDid /\ ResultsAreCurrent
    BY DEF Content
  <1>1. CASE add
    <2>1. /\ out' = out /\ r' = r
          /\ reqs'[r] = Append(reqs[r], queued + 1)
          /\ queued' = queued + 1
          /\ UNCHANGED <<pendingcs, reqid, session, delivered, posted, served,
                         executed>>
      BY <1>0, <1>1 DEF add, collecting, out
    <2>2. PICK n \in Nat : n = Len(delivered) + Len(out)
      BY <1>0
    <2>3. IsRun(reqs[r], n) /\ queued + 1 = n + Len(reqs[r]) + 1
      BY <1>0, <1>00, <2>2 DEF WhereCommandsAre
    <2>4. IsRun(reqs'[r], n) /\ Len(reqs'[r]) = Len(reqs[r]) + 1
      BY <2>1, <2>3, AppendRun
    <2>5. PICK c \in Nat : c = Len(reqs[r])
      BY <1>0
    <2>6. queued' = n + Len(reqs'[r])
      <3>1. queued' = n + c + 1 /\ Len(reqs'[r]) = c + 1
        BY <2>1, <2>3, <2>4, <2>5
      <3>2. n + c + 1 = n + (c + 1)
        OBVIOUS
      <3> QED BY <3>1, <3>2
    <2>7. WhereCommandsAre'
      BY <1>00, <2>1, <2>2, <2>4, <2>6 DEF WhereCommandsAre, IsRun
    <2>8. CurrentServed' <=> CurrentServed
      BY <2>1 DEF CurrentServed
    <2>9. WhatServerDid'
      BY <1>00, <2>1, <2>8 DEF WhatServerDid, IsRun
    <2>10. ResultsAreCurrent'
      BY <1>00, <2>1, <2>8 DEF ResultsAreCurrent
    <2> QED BY <2>7, <2>9, <2>10 DEF Content
  <1>2. CASE execDispatch
    <2>1. bt!nextset \in BOOLEAN /\ (bt!nextset <=> btcs # "unset")
      BY DEF bt!nextset
    <2>2. /\ pendingcs = {}
          /\ dispatch(reqs, reqid, session, bt!nextset)
          /\ UNCHANGED <<session, queued, delivered, served, executed>>
      BY <1>2 DEF execDispatch
    <2>3. CASE btcs # "unset"
      <3>1. selected(bt!nextset) = 1 - r /\ reqs[1 - r] # << >>
        BY <2>1, <2>2, <2>3 DEF selected, Control, BufferInUse, out
      <3>2. /\ reqid' = reqid
            /\ pendingcs' = {[status |-> "REQ_INFLIGHT", in |-> NoReply]}
            /\ posted' = posted \union {Request(session, reqid, out)}
            /\ out' = out /\ reqs'[r'] = reqs[r]
        BY <1>0, <2>1, <2>2, <3>1, DispatchCases DEF out
      <3>3. ResultsAreCurrent'
        BY <3>2 DEF ResultsAreCurrent, NoReply
      <3>4. posted \subseteq posted' /\ \A x \in posted' \ posted : x.id = reqid
        BY <3>2 DEF Request
      <3> QED BY <1>0, <2>2, <3>2, <3>3, <3>4, QuietContent
    <2>4. CASE btcs = "unset"
      <3>1. ~bt!nextset /\ out = << >>
        BY <2>1, <2>2, <2>4 DEF Control, BufferInUse
      <3>2. /\ reqid' = reqid /\ out' = reqs[r] /\ reqs'[r'] = << >>
            /\ \A p \in pendingcs' : p.in.kind # "results"
            /\ posted \subseteq posted'
            /\ \A x \in posted' \ posted : x.id = reqid
        <4>1. PICK set \in BOOLEAN : set = bt!nextset
          BY <2>1
        <4>2. dispatch(reqs, reqid, session, set) /\ ~set /\ reqs[1 - r] = << >>
          BY <2>2, <3>1, <4>1 DEF out
        <4>3. reqs \in [{0, 1} -> Batch] /\ reqid \in Nat /\ session \in Nat
          BY <1>0
        <4> QED BY <4>2, <4>3, NewBatchDispatch, Zenon
      <3>3. Len(out) = 0
        BY <3>1, EmptyRun
      <3>4. PICK d \in Nat : d = Len(delivered)
        BY <1>0
      <3>5. IsRun(out', d) /\ queued' = d + Len(out')
        BY <1>0, <1>00, <2>2, <3>2, <3>3, <3>4 DEF WhereCommandsAre
      <3>6. ~CurrentServed /\ ~CurrentServed'
        BY <1>0, <2>2, <3>1, <3>2 DEF CurrentServed
      <3>7. Len(executed') = d /\ IsRun(executed', 0)
        BY <1>0, <1>00, <2>2, <3>4, <3>6 DEF WhatServerDid, IsRun
      <3>8. /\ served' \subseteq posted'
            /\ \A x \in posted' : x.session = session' /\ x.id < reqid' =>
                   \E y \in served' : y.session = session' /\ y.id = x.id
        BY <1>0, <1>00, <2>2, <3>2 DEF WhatServerDid
      <3>9. d = Len(delivered') /\ \A i \in 1 .. d : delivered'[i] = <<i, i>>
        BY <1>00, <2>2, <3>4 DEF WhereCommandsAre
      <3> QED BY <3>2, <3>5, <3>6, <3>7, <3>8, <3>9, NewBatchContent
    <2> QED BY <2>3, <2>4
  <1>3. ASSUME NEW k \in 0 .. MaxCallback, execResult(k)
        PROVE  Content'
    BY <1>3, ResultContent
  <1>4. ASSUME NEW k \in 0 .. MaxCallback, execResultLogout(k)
        PROVE  Content'
    <2> DEFINE q == [reqs EXCEPT ![r] = Fresh(0, k), ![1 - r] = << >>]
    <2>0. PICK set \in BOOLEAN : set = FALSE
      OBVIOUS
    <2>1. /\ dispatch(q, reqid + 1, session + 1, set)
          /\ session' = session + 1 /\ queued' = k /\ served' = served
          /\ delivered' = << >> /\ executed' = << >>
      BY <1>4, <2>0 DEF execResultLogout, nextreqid
    <2>2. IsRun(Fresh(0, k), 0) /\ Len(Fresh(0, k)) = k
      BY FreshRun
    <2>3. /\ q \in [{0, 1} -> Batch] /\ q[r] = Fresh(0, k)
          /\ q[1 - r] = << >>
      BY <1>0, <2>2, EmptySeq DEF IsRun, Batch
    <2> HIDE DEF q
    <2>4. PICK id \in Nat : id = reqid + 1
      BY <1>0
    <2>5. PICK s \in Nat : s = session + 1
      BY <1>0
    <2>6. dispatch(q, id, s, set) /\ ~set
      BY <2>0, <2>1, <2>4, <2>5
    <2>7. /\ reqid' = id /\ out' = q[r] /\ reqs'[r'] = << >>
          /\ \A p \in pendingcs' : p.in.kind # "results"
          /\ posted \subseteq posted'
          /\ \A x \in posted' \ posted : x.id = id
      BY <2>3, <2>6, NewBatchDispatch, Zenon
    <2>8. IsRun(out', 0) /\ queued' = Len(out')
      BY <2>1, <2>2, <2>3, <2>7
    <2> QED BY <2>1, <2>7, <2>8, LogoutContent
  <1>5. CASE execRetry \/ abortbackoff \/ elapse
    <2>1. /\ UNCHANGED <<r, reqs, reqid, session, queued, delivered, posted,
                         served, executed>>
          /\ pendingcs' \subseteq pendingcs
      BY <1>5 DEF execRetry, abortbackoff, elapse
    <2>2. out' = out /\ reqs'[r'] = reqs[r]
      BY <2>1 DEF out
    <2>3. CurrentServed' <=> CurrentServed
      BY <2>1 DEF CurrentServed
    <2>4. ResultsAreCurrent'
      BY <1>00, <2>1, <2>2, <2>3 DEF ResultsAreCurrent
    <2> QED BY <1>0, <2>1, <2>2, <2>4, QuietContent
  <1>6. ASSUME NEW status, NEW reply, SetStatus(status, reply),
               reply.kind = "results" => CurrentServed /\ reply.of = out
        PROVE  Content'
    <2>1. /\ pendingcs' = {[status |-> status, in |-> reply]}
          /\ UNCHANGED <<r, reqs, reqid, session, queued, delivered, posted,
                         served, executed>>
      BY <1>6 DEF SetStatus
    <2>2. out' = out /\ reqs'[r'] = reqs[r]
      BY <2>1 DEF out
    <2>3. CurrentServed' <=> CurrentServed
      BY <2>1 DEF CurrentServed
    <2>4. ResultsAreCurrent'
      BY <1>6, <2>1, <2>2, <2>3 DEF ResultsAreCurrent
    <2> QED BY <1>0, <2>1, <2>2, <2>4, QuietContent
  <1>7. CASE disconnect \/ networkFailure \/ receiveAgain \/ receiveError
    <2>1. /\ NoReply.kind # "results" /\ Again.kind # "results"
          /\ Fatal.kind # "results"
      BY DEF NoReply, Again, Fatal
    <2> QED BY <1>6, <1>7, <2>1
            DEF disconnect, networkFailure, receiveAgain, receiveError
  <1>8. CASE receiveResults
    <2>1. PICK s \in served : /\ s.session = session /\ s.id = reqid
                              /\ SetStatus("REQ_SUCCESS", Results(s.batch))
      BY <1>8 DEF receiveResults
    <2>2. s.batch = out /\ CurrentServed
      BY <2>1, StateFacts DEF CurrentServed
    <2>3. Results(s.batch).of = out
      BY <2>2 DEF Results
    <2> QED BY <1>6, <2>1, <2>2, <2>3
  <1>9. CASE logout
    <2>1. /\ session' = session + 1 /\ served' = served /\ posted' = posted
          /\ reqid' = reqid /\ delivered' = << >> /\ executed' = << >>
          /\ queued' = 0 /\ pendingcs' = {} /\ r' = r
          /\ reqs' = [i \in {0, 1} |-> << >>]
      BY <1>9 DEF logout
    <2>2. out' = << >> /\ reqs'[r'] = << >>
      BY <1>0, <2>1 DEF out
    <2>3. IsRun(out', 0) /\ queued' = Len(out')
      BY <2>1, <2>2, EmptyRun
    <2> QED BY <1>0, <2>1, <2>2, <2>3, LogoutContent
  <1>10. CASE serverExecutes
    <2>1. /\ executed' = executed \o out /\ ~CurrentServed /\ CurrentServed'
          /\ Len(executed) = Len(delivered)
          /\ served' \subseteq posted
          /\ served \subseteq served'
          /\ UNCHANGED <<clientVars, session, queued, delivered, posted>>
      BY <1>10, ServerFacts
    <2>2. out' = out /\ reqs' = reqs /\ r' = r /\ pendingcs' = pendingcs
          /\ reqid' = reqid
      BY <2>1 DEF clientVars, out
    <2>3. WhereCommandsAre'
      BY <1>00, <2>1, <2>2 DEF WhereCommandsAre, IsRun
    <2>4. IsRun(executed', 0) /\ Len(executed') = Len(delivered) + Len(out)
      <3>1. IsRun(executed, 0) /\ IsRun(out, Len(delivered))
        BY <1>00 DEF WhereCommandsAre, WhatServerDid
      <3>2. IsRun(out, 0 + Len(executed))
        BY <1>0, <2>1, <3>1
      <3>3. IsRun(executed \o out, 0)
            /\ Len(executed \o out) = Len(executed) + Len(out)
        BY <3>1, <3>2, ConcatRun
      <3> QED BY <2>1, <3>3
    <2>5. WhatServerDid'
      BY <1>00, <2>1, <2>2, <2>4 DEF WhatServerDid
    <2>6. ResultsAreCurrent'
      BY <1>00, <2>1, <2>2 DEF ResultsAreCurrent
    <2> QED BY <2>3, <2>5, <2>6 DEF Content
  <1>11. CASE UNCHANGED vars
    <2>1. UNCHANGED <<r, reqs, reqid, session, queued, delivered, posted,
                      served, executed, pendingcs>>
      BY <1>11 DEF vars, clientVars
    <2>2. out' = out /\ reqs'[r'] = reqs[r]
      BY <2>1 DEF out
    <2>3. CurrentServed' <=> CurrentServed
      BY <2>1 DEF CurrentServed
    <2>4. ResultsAreCurrent'
      BY <1>00, <2>1, <2>2, <2>3 DEF ResultsAreCurrent
    <2> QED BY <1>0, <2>1, <2>2, <2>4, QuietContent
  <1> QED BY <1>1, <1>2, <1>3, <1>4, <1>5, <1>7, <1>8, <1>9, <1>10, <1>11
          DEF Next

(* In the initial state there is nothing anywhere. *)
LEMMA ContentInit == Init => Content
  <1> SUFFICES ASSUME Init PROVE Content
    OBVIOUS
  <1>1. /\ r = 0 /\ out = << >> /\ reqs[r] = << >> /\ queued = 0
        /\ delivered = << >> /\ executed = << >> /\ pendingcs = {}
        /\ served = {} /\ posted = {}
    BY DEF Init, out
  <1>2. /\ IsRun(<< >>, 0) /\ Len(<< >>) = 0 /\ 0 + 0 = 0 /\ 0 \in Nat
        /\ ~CurrentServed
    BY <1>1, EmptyRun DEF CurrentServed
  <1>3. WhereCommandsAre
    BY <1>1, <1>2 DEF WhereCommandsAre
  <1>4. WhatServerDid
    BY <1>1, <1>2 DEF WhatServerDid
  <1>5. ResultsAreCurrent
    BY <1>1 DEF ResultsAreCurrent
  <1> QED BY <1>3, <1>4, <1>5 DEF Content

-----------------------------------------------------------------------------
(* Refinement *)

(* The arithmetic of the next three proofs. *)
LEMMA Counting ==
    ASSUME NEW a \in Nat, NEW b \in Nat, NEW c \in Nat
    PROVE  /\ a + b \in Nat /\ a + b >= a /\ a + 1 \in Nat /\ a + 1 >= a
           /\ b \in 0 .. ((a + b + c) - a)
  OBVIOUS

(* Every step of the channel is a step of the exactly-once FIFO channel, or
   changes nothing that its users see: queueing, executing, delivering and
   logging out are those of RpcFifo, everything else - posting, failing,
   backing off, posting again - stutters. *)
LEMMA RefinementStep ==
    TypeOK /\ Control /\ Content /\ [Next]_vars => [Rpc!Next]_Rpc!vars
  <1> SUFFICES ASSUME TypeOK, Control, Content, [Next]_vars
               PROVE  [Rpc!Next]_Rpc!vars
    OBVIOUS
  <1>0. /\ session \in Nat /\ queued \in Nat
        /\ Len(delivered) \in Nat /\ Len(out) \in Nat /\ Len(reqs[r]) \in Nat
        /\ queued = Len(delivered) + Len(out) + Len(reqs[r])
    BY StateFacts DEF Content, WhereCommandsAre
  <1>1. CASE add
    <2>1. /\ queued' = queued + 1
          /\ UNCHANGED <<session, executed, delivered>>
      BY <1>1 DEF add
    <2>2. queued + 1 \in Nat /\ queued + 1 >= queued
      BY <1>0, Counting
    <2>3. Rpc!Queue
      BY <2>1, <2>2 DEF Rpc!Queue
    <2> QED BY <2>3 DEF Rpc!Next
  <1>2. ASSUME NEW k \in 0 .. MaxCallback, execResult(k)
        PROVE  Rpc!Next
    <2>1. queued' = queued + k /\ UNCHANGED <<session, executed>>
      BY <1>2, ResultContent
    <2>2. k \in Nat
      OBVIOUS
    <2>3a. queued + k \in Nat /\ queued + k >= queued
      BY <1>0, <2>2, Counting
    <2>3. /\ Len(executed) = Len(delivered) + Len(out)
          /\ delivered' = delivered \o
                 [i \in 1 .. Len(out) |->
                     <<Len(delivered) + i, Len(delivered) + i>>]
      BY <1>2, ResultFacts
    <2>4. Len(out) \in 0 .. (Len(executed) - Len(delivered))
      BY <1>0, <2>3
    <2>5. Rpc!Deliver
      BY <2>1, <2>3a, <2>3, <2>4 DEF Rpc!Deliver
    <2> QED BY <2>5 DEF Rpc!Next
  <1>3. ASSUME NEW k \in 0 .. MaxCallback, execResultLogout(k)
        PROVE  Rpc!Next
    <2>1. /\ session' = session + 1 /\ queued' = k
          /\ executed' = << >> /\ delivered' = << >>
      BY <1>3 DEF execResultLogout
    <2>2. Rpc!Restart
      BY <2>1 DEF Rpc!Restart
    <2> QED BY <2>2 DEF Rpc!Next
  <1>4. CASE logout
    <2>1. /\ session' = session + 1 /\ queued' = 0
          /\ executed' = << >> /\ delivered' = << >>
      BY <1>4 DEF logout
    <2>2. Rpc!Restart
      BY <2>1 DEF Rpc!Restart
    <2> QED BY <2>2 DEF Rpc!Next
  <1>5. CASE serverExecutes
    <2>1. /\ executed' = executed \o out
          /\ Len(executed) = Len(delivered)
          /\ UNCHANGED <<session, queued, delivered>>
      BY <1>5, ServerFacts
    <2>2. out = [i \in 1 .. Len(out) |-> Len(executed) + i]
      BY <1>0, <2>1, RunIs DEF Content, WhereCommandsAre
    <2>3. Len(out) \in 0 .. (queued - Len(executed))
      <3>1. Len(out) \in 0 .. ((Len(delivered) + Len(out) + Len(reqs[r]))
                                   - Len(delivered))
        BY <1>0, Counting
      <3> QED BY <1>0, <2>1, <3>1
    <2>4. executed' = executed \o [i \in 1 .. Len(out) |-> Len(executed) + i]
      BY <2>1, <2>2
    <2>5. Rpc!Execute
      BY <2>1, <2>3, <2>4 DEF Rpc!Execute
    <2> QED BY <2>5 DEF Rpc!Next
  <1>6. CASE \/ execDispatch \/ execRetry \/ abortbackoff \/ elapse
             \/ disconnect \/ receiveResults \/ receiveAgain \/ receiveError
             \/ networkFailure \/ UNCHANGED vars
    <2>1. UNCHANGED <<session, queued, executed, delivered>>
      BY <1>6 DEF execDispatch, execRetry, abortbackoff, elapse, disconnect,
                  receiveResults, receiveAgain, receiveError, networkFailure,
                  SetStatus, vars
    <2> QED BY <2>1 DEF Rpc!vars
  <1> QED BY <1>1, <1>2, <1>3, <1>4, <1>5, <1>6 DEF Next

(* ImplementsRpcFifo: whatever the network loses, delays or repeats, the
   commands of a session are executed exactly once and in order, and each
   receives its own result, once and after its execution. *)
THEOREM Refinement == Spec => ImplementsRpcFifo
  <1>1. Init => TypeOK
    BY DEF Init, TypeOK, Batch, bt!Init, bt!Phases
  <1>2. Init => Rpc!Init
    BY DEF Init, Rpc!Init
  <1> QED
    BY <1>1, <1>2, ControlInit, ContentInit, TypeStep, ControlStep, ContentStep,
       RefinementStep, PTL DEF Spec, ImplementsRpcFifo, Rpc!Spec

=============================================================================

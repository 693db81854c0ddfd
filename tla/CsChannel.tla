------------------------------ MODULE CsChannel ------------------------------
(***************************************************************************)
(* The client-server command channel of MegaClient: the two request        *)
(* buffers reqs[0], reqs[1] selected by r, the request in flight           *)
(* (pendingcs), its identifier (reqid), the retry timer btcs, and the part *)
(* of MegaClient::exec() that drives them (src/megaclient.cpp:619-742).    *)
(*                                                                         *)
(* New commands go to reqs[r].  Posting reqs[r] flips r, so the batch in   *)
(* flight is reqs[r ^ 1] and must not change until its result arrives; a   *)
(* failed batch is posted again, under the same identifier, after btcs has *)
(* elapsed.                                                                *)
(*                                                                         *)
(* The API server and the network are external.  A request that was posted *)
(* may reach the server at any later time, whatever the client has seen of *)
(* it; the server executes a request identifier once per session and       *)
(* answers repetitions from the recorded result (doc/source/internals.rst, *)
(* "API Request Flow and Execution").                                      *)
(***************************************************************************)
EXTENDS Naturals, Sequences

CONSTANTS
    MaxCmds,      \* bound: commands queued per session
    MaxCallback,  \* bound: commands queued by the callbacks of one result
    MaxSessions,  \* bound: logouts
    MaxReqId      \* bound: request identifiers used

ASSUME CsAssumption ==
    /\ MaxCmds \in Nat /\ MaxCallback \in Nat
    /\ MaxSessions \in Nat /\ MaxReqId \in Nat

VARIABLES
    r,            \* index of the buffer that collects new commands
    reqs,         \* the two command buffers
    pendingcs,    \* the HTTP request outstanding: a singleton, or {} (NULL)
    reqid,        \* identifier of the current request
    btcs,         \* retry timer
    csretrying,   \* the app has been told that the request is being retried
    session,      \* number of logouts
    queued,       \* commands queued in this session, numbered from 1
    delivered,    \* history: <<command, result>> per callback
    posted,       \* history: every request handed to the network
    served,       \* requests the server has executed, with their identifier
    executed      \* history: commands executed by the server, this session

clientVars == <<r, reqs, pendingcs, reqid, btcs, csretrying>>
vars == <<clientVars, session, queued, delivered, posted, served, executed>>

Cmd == 1 .. MaxCmds
Batch == Seq(Nat)

\* What pendingcs->in holds once the request has completed: the result
\* array, EAGAIN/ERATELIMIT (-3, -4), or any other request-level error.
Results(b) == [kind |-> "results", of |-> b]
Again == [kind |-> "again", of |-> << >>]
Fatal == [kind |-> "error", of |-> << >>]
NoReply == [kind |-> "none", of |-> << >>]

Statuses == {"REQ_INFLIGHT", "REQ_SUCCESS", "REQ_FAILURE"}

Request(s, i, b) == [session |-> s, id |-> i, batch |-> b]

bt == INSTANCE RetryTimer WITH phase <- btcs

\* the commands numbered after the first n ones, k of them
Fresh(n, k) == [i \in 1 .. k |-> n + i]

-----------------------------------------------------------------------------
Init ==
    /\ r = 0
    /\ reqs = [i \in {0, 1} |-> << >>]
    /\ pendingcs = {}
    /\ reqid = 0
    /\ bt!Init
    /\ csretrying = FALSE
    /\ session = 0
    /\ queued = 0
    /\ delivered = << >>
    /\ posted = {}
    /\ served = {}
    /\ executed = << >>

-----------------------------------------------------------------------------
(* Engine *)

\* Fault: the buffer in flight collects the new command.
collectingOther == 1 - r

\* the buffer of reqs[r].add()
collecting == r

\* reqs[r].add(): any method of MegaClient that issues a command.  This
\* includes fetchnodes() when nothing is outstanding, and in a callback.
add ==
    /\ queued < MaxCmds
    /\ reqs' = [reqs EXCEPT ![collecting] = Append(@, queued + 1)]
    /\ queued' = queued + 1
    /\ UNCHANGED <<r, pendingcs, reqid, btcs, csretrying, session, delivered,
                   posted, served, executed>>

\* Faults: the failed batch is forgotten, r counts up instead of
\* alternating.
selectedNoFlip(set) == r
flippedCounts(i) == i + 1

\* The buffer to post: a set timer means that the batch in the other buffer
\* has failed.
selected(set) == IF set THEN 1 - r ELSE r

\* r ^= 1 once the batch in buffer i is posted
flipped(i) == 1 - i

\* The timer once a batch is out: only a result resets it.
afterDispatch(set) == IF set THEN "due" ELSE "unset"

\* The second half of the exec() loop: no request is outstanding and the
\* timer is armed.  q, id and s are the buffers, the identifier and the
\* session it works on, set says whether btcs is set.
dispatch(q, id, s, set) ==
    LET i == selected(set)
    IN  /\ reqs' = q
        /\ reqid' = id
        /\ IF q[i] # << >>
           THEN /\ pendingcs' = {[status |-> "REQ_INFLIGHT", in |-> NoReply]}
                /\ posted' = posted \union {Request(s, id, q[i])}
                /\ r' = flipped(i)
                /\ btcs' = afterDispatch(set)
           ELSE /\ pendingcs' = {}
                /\ posted' = posted
                /\ r' = i
                /\ btcs' = "unset"

\* exec(): nothing outstanding
execDispatch ==
    /\ pendingcs = {}
    /\ bt!armed
    /\ dispatch(reqs, reqid, session, bt!nextset)
    /\ UNCHANGED <<csretrying, session, queued, delivered, served, executed>>

\* Fault: the identifier is not advanced after a result.
nextreqidSame == reqid

\* "increment unique request ID": the ten letters as a counter
nextreqid == reqid + 1

\* Faults: the retry indicator or the timer survives a success, or the
\* commands that have been answered stay in their buffer.
retryingKept == csretrying
setAfterResultKept == bt!nextset
answeredKept == reqs[1 - r]

\* a result array ends the retrying, with notify_retry(0)
retryingDone == FALSE

\* btcs.reset(): a result array also unsets the timer
setAfterResult == FALSE

\* Request::procresult() ends with clear()
answered == << >>

\* exec(): the result array has arrived.  Request::procresult() hands result
\* i to command i of reqs[r ^ 1]; the callbacks queue k commands in reqs[r];
\* then the request identifier advances and the next batch goes out.
execResult(k) ==
    \E p \in pendingcs :
        /\ p.status = "REQ_SUCCESS"
        /\ p.in.kind = "results"
        /\ reqid < MaxReqId
        /\ queued + k <= MaxCmds
        /\ delivered' = delivered \o
               [i \in 1 .. Len(reqs[1 - r]) |->
                   <<reqs[1 - r][i],
                     IF i <= Len(p.in.of) THEN p.in.of[i] ELSE 0>>]
        /\ queued' = queued + k
        /\ csretrying' = retryingDone
        /\ dispatch([reqs EXCEPT ![r] = @ \o Fresh(queued, k),
                                 ![1 - r] = answered],
                    nextreqid, session, setAfterResult)
        /\ UNCHANGED <<session, served, executed>>

\* exec(): the result array has arrived and one of the callbacks logs out
\* (and then issues k commands of the next session).
execResultLogout(k) ==
    \E p \in pendingcs :
        /\ p.status = "REQ_SUCCESS"
        /\ p.in.kind = "results"
        /\ reqid < MaxReqId
        /\ k <= MaxCmds
        /\ session < MaxSessions
        /\ session' = session + 1
        /\ queued' = k
        /\ delivered' = << >>
        /\ executed' = << >>
        /\ csretrying' = FALSE
        /\ dispatch([reqs EXCEPT ![r] = Fresh(0, k), ![1 - r] = << >>],
                    nextreqid, session + 1, FALSE)
        /\ UNCHANGED served

\* exec(): network failure, EAGAIN or ERATELIMIT - drop the HTTP request and
\* back off.  The batch stays in reqs[r ^ 1].
execRetry ==
    \E p \in pendingcs :
        /\ \/ p.status = "REQ_FAILURE"
           \/ p.status = "REQ_SUCCESS" /\ p.in.kind = "again"
        /\ pendingcs' = {}
        /\ bt!backoff
        /\ csretrying' = TRUE
        /\ UNCHANGED <<r, reqs, reqid, session, queued, delivered, posted,
                       served, executed>>

\* exec() on a request-level error reports it with request_error() and
\* leaves pendingcs in place, so nothing is posted until the app logs out.
Stuck == \E p \in pendingcs : p.status = "REQ_SUCCESS" /\ p.in.kind = "error"

\* Fault: the timer is armed even if nothing is being retried.
abortbackoffSets ==
    /\ btcs' = "due"
    /\ UNCHANGED <<r, reqs, pendingcs, reqid, csretrying, session, queued,
                   delivered, posted, served, executed>>

\* abortbackoff(): by the app, or by exec() when connectivity is back
abortbackoff ==
    /\ bt!arm
    /\ UNCHANGED <<r, reqs, pendingcs, reqid, csretrying, session, queued,
                   delivered, posted, served, executed>>

\* the clock passes the retry time
elapse ==
    /\ bt!elapse
    /\ UNCHANGED <<r, reqs, pendingcs, reqid, csretrying, session, queued,
                   delivered, posted, served, executed>>

SetStatus(status, reply) ==
    /\ \E p \in pendingcs : p.status = "REQ_INFLIGHT"
    /\ pendingcs' = {[status |-> status, in |-> reply]}
    /\ UNCHANGED <<r, reqs, reqid, btcs, csretrying, session, queued,
                   delivered, posted, served, executed>>

\* disconnect(): an HTTP request in flight is cancelled, which fails it
disconnect == SetStatus("REQ_FAILURE", NoReply)

\* logout(): disconnect, clear both buffers, init().  Neither r nor reqid
\* changes.
logout ==
    /\ session < MaxSessions
    /\ session' = session + 1
    /\ reqs' = [i \in {0, 1} |-> << >>]
    /\ pendingcs' = {}
    /\ bt!reset
    /\ csretrying' = FALSE
    /\ queued' = 0
    /\ delivered' = << >>
    /\ executed' = << >>
    /\ UNCHANGED <<r, reqid, posted, served>>

\* fetchnodes() with a reload of the local state, by the app or by exec()
\* when the server answers ETOOMANY on the other channel: its init() forgets
\* the request in flight or about to be repeated, but not its commands.
\* (A second reload would have to wait for the result of the first.)
fetchnodes ==
    /\ queued < MaxCmds
    /\ reqs' = [reqs EXCEPT ![collecting] = Append(@, queued + 1)]
    /\ queued' = queued + 1
    /\ pendingcs' = {}
    /\ bt!reset
    /\ csretrying' = FALSE
    /\ UNCHANGED <<r, reqid, session, delivered, posted, served, executed>>

-----------------------------------------------------------------------------
(* Network and API server (external) *)

\* the server executes a request, the first time it sees its identifier in
\* this session
serverExecutes ==
    \E q \in posted :
        /\ q.session = session
        /\ \A s \in served : ~(s.session = session /\ s.id = q.id)
        /\ served' = served \union {q}
        /\ executed' = executed \o q.batch
        /\ UNCHANGED <<clientVars, session, queued, delivered, posted>>

\* the result recorded for the current identifier reaches the client
receiveResults ==
    \E s \in served :
        /\ s.session = session
        /\ s.id = reqid
        /\ SetStatus("REQ_SUCCESS", Results(s.batch))

receiveAgain == SetStatus("REQ_SUCCESS", Again)

\* a request-level error: nothing was altered
receiveError ==
    /\ \A s \in served : ~(s.session = session /\ s.id = reqid)
    /\ SetStatus("REQ_SUCCESS", Fatal)

\* connection refused, reset or timed out, or curl_easy_init() failed: the
\* server may or may not have the request
networkFailure == SetStatus("REQ_FAILURE", NoReply)

-----------------------------------------------------------------------------
Next ==
    \/ add
    \/ execDispatch
    \/ \E k \in 0 .. MaxCallback : execResult(k)
    \/ \E k \in 0 .. MaxCallback : execResultLogout(k)
    \/ execRetry
    \/ abortbackoff
    \/ elapse
    \/ disconnect
    \/ logout
    \/ serverExecutes
    \/ receiveResults
    \/ receiveAgain
    \/ receiveError
    \/ networkFailure

\* The local state is reloaded only when no request is outstanding.
Spec == Init /\ [][Next]_vars

\* The local state may be reloaded at any time.
ReloadSpec == Init /\ [][Next \/ fetchnodes]_vars

\* exec() is called for as long as the app runs its event loop, the clock
\* advances, and a request that is posted again and again is eventually
\* answered.
Fairness ==
    /\ WF_vars(execDispatch)
    /\ WF_vars(\E k \in 0 .. MaxCallback : execResult(k))
    /\ WF_vars(execRetry)
    /\ WF_vars(elapse)
    /\ WF_vars(serverExecutes)
    /\ SF_vars(receiveResults)

FairSpec == Spec /\ Fairness

-----------------------------------------------------------------------------
Replies == {Again, Fatal, NoReply} \union {Results(b) : b \in Batch}

IsRequest(q) ==
    /\ q = Request(q.session, q.id, q.batch)
    /\ q.session \in Nat /\ q.id \in Nat /\ q.batch \in Batch

TypeOK ==
    /\ r \in {0, 1}
    /\ reqs \in [{0, 1} -> Batch]
    /\ \A p \in pendingcs : /\ p.status \in Statuses
                            /\ p.in.kind \in {"results", "again", "error", "none"}
                            /\ p.in.of \in Batch
    /\ reqid \in Nat
    /\ btcs \in bt!Phases
    /\ csretrying \in BOOLEAN
    /\ session \in Nat
    /\ queued \in Nat
    /\ delivered \in Seq(Nat \X Nat)
    /\ \A q \in posted \union served : IsRequest(q)
    /\ executed \in Batch

(* The server recognises a repetition by the request identifier alone, a
   "session-unique number that is incremented per dispatched request (but
   not changed when requests are repeated in response to network issues or
   EAGAIN)" (doc/source/internals.rst:127).  So in one session no two
   different batches may ever be posted under one identifier, however
   failures, EAGAIN, disconnects, timer resets and commands queued meanwhile
   interleave (exec(), megaclient.cpp:709-735). *)
OneBatchPerId ==
    \A p, q \in posted :
        p.session = q.session /\ p.id = q.id => p.batch = q.batch

(* exec() reads a set btcs as "reqs[r ^ 1] holds a failed batch" and flips r
   (megaclient.cpp:711).  If the other buffer were empty then, the commands
   in reqs[r] would be left behind in a buffer nobody posts. *)
SetTimerMeansFailedBatch ==
    pendingcs = {} /\ btcs # "unset" => reqs[1 - r] # << >>

(* notify_retry() has told the app that a request is being retried only
   while a batch is really outstanding (csretrying, megaclient.cpp:644,697);
   a logout from within the result's own callback included. *)
RetryIndicatorHonest == csretrying => reqs[1 - r] # << >>

Rpc == INSTANCE RpcFifo

(* With lost, late and repeated requests and lost answers, each command is
   still executed exactly once, in order, and gets its own result. *)
ImplementsRpcFifo == Rpc!Spec

(* Every command queued is answered, unless the session ends or the server
   rejects the request as a whole (the channel then waits for a logout). *)
EventuallyDelivered ==
    \A c \in Cmd, s \in 0 .. MaxSessions :
        (session = s /\ queued >= c)
            ~> (Len(delivered) >= c \/ Stuck \/ session # s)
=============================================================================

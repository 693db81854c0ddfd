---------------------------- MODULE TransferSlot ----------------------------
(***************************************************************************)
(* One file transfer: the Transfer object, the TransferSlot it occupies    *)
(* while it is active, and the parallel HTTP connections of the slot       *)
(* (src/transfer.cpp, src/transferslot.cpp, and the parts of               *)
(* src/megaclient.cpp that start, pause and drive slots).                  *)
(*                                                                         *)
(* The file is cut into the chunks 0 .. N-1.  Every connection takes the   *)
(* next chunk at transfer->pos, posts it, and takes another one when it is *)
(* done.  An upload is complete when the storage server returns the upload *)
(* token, a download when the byte counter progresscompleted reaches the   *)
(* file size.  A failed chunk freezes the slot (failure) until some        *)
(* network request has succeeded (MegaClient::chunkfailed,                 *)
(* HttpIO::success); too many errors fail the attempt, which is repeated   *)
(* in a new slot after transfer->bt has elapsed, up to MaxFail times.      *)
(*                                                                         *)
(* doio() is a loop over the connections that nothing can interrupt.  It   *)
(* is modelled as two steps per connection, what has come back ("receive") *)
(* and what goes out next ("send"), and one for the rest ("tail"); no      *)
(* other action is enabled before it ends.  The storage server, the file   *)
(* system and the clock are external.                                      *)
(***************************************************************************)
EXTENDS Naturals, FiniteSets

CONSTANTS
    Dir,           \* "PUT" or "GET" (transfer->type)
    N,             \* number of chunks of the file
    C,             \* number of connections of the slot
    MaxErr,        \* errors tolerated in one attempt (10 in the code)
    MaxFail,       \* failed attempts tolerated (16 in the code)
    ShortReplies,  \* may a download reply be shorter than its chunk?
    ReadRetries    \* does the file system report transient read errors
                   \* (fa->retry; Windows does, POSIX does not)?

ASSUME SlotAssumption ==
    /\ Dir \in {"PUT", "GET"}
    /\ N \in Nat \ {0} /\ C \in Nat \ {0}
    /\ MaxErr \in Nat /\ MaxFail \in Nat
    /\ ShortReplies \in BOOLEAN /\ ReadRetries \in BOOLEAN

VARIABLES
    xfer,          \* "queued" (no slot), "active", "complete" or "aborted"
    bt,            \* retry timer of the transfer
    failcount,     \* attempts that have failed
    pos,           \* first chunk not yet given to a connection
    macs,          \* chunks whose MAC is in chunkmacs
    isvalid,       \* does the transfer carry a fingerprint of the file?
    tempurl,       \* has the slot received its storage URL?
    reqs,          \* the connections of the slot
    progress,      \* slot->progresscompleted
    failure,       \* slot->failure
    errorcount,    \* slot->errorcount
    stalled,       \* Waiter::ds - slot->lastdata >= XFERTIMEOUT
    chunkfailed,   \* MegaClient::chunkfailed
    success,       \* HttpIO::success
    paused,        \* MegaClient::xferpaused[Dir]
    stage,         \* where doio() is: "idle" outside it
    at,            \* the connection doio() has reached
    data,          \* chunks present at the destination: in the local temp
                   \* file (GET), at the storage URL (PUT)
    filemac,       \* chunks that went into the file's MAC (macsmac())
    online,        \* history: a request has succeeded since chunkfailed
                   \* was set
    short          \* history: a reply in this attempt was shorter than
                   \* its chunk

xferVars == <<xfer, bt, failcount, pos, macs, isvalid>>
slotVars == <<tempurl, reqs, progress, failure, errorcount, stalled>>
netVars  == <<chunkfailed, success, online>>
doioVars == <<stage, at>>
vars == <<xferVars, slotVars, netVars, doioVars, paused, data, filemac, short>>

Chunk == 0 .. N - 1
Conn == 1 .. C

timer == INSTANCE RetryTimer WITH phase <- bt

-----------------------------------------------------------------------------
(* Chunk sizes, in segments of 128 KB: ChunkedHash::chunkceil(). *)

size(c) == IF c < 8 THEN c + 1 ELSE 8

offset[n \in 0 .. N] == IF n = 0 THEN 0 ELSE offset[n - 1] + size(n - 1)

\* transfer->size
total == offset[N]

-----------------------------------------------------------------------------
(* A connection: reqs[i] is NULL, or an HttpReqXfer with the chunk it was
   prepared for, whether it has a URL (prepare() has been successful at
   least once) and, once completed, what came back. *)

HttpReqXfer(status, c, url) ==
    [status |-> status, chunk |-> c, in |-> "none", posturl |-> url]

Null == HttpReqXfer("NULL", 0, FALSE)
Ready(url) == HttpReqXfer("REQ_READY", 0, url)
Prepared(c) == HttpReqXfer("REQ_PREPARED", c, TRUE)

\* the same request with another status and reply
With(q, status, body) ==
    [status |-> status, chunk |-> q.chunk, in |-> body, posturl |-> q.posturl]

Statuses == {"NULL", "REQ_READY", "REQ_PREPARED", "REQ_INFLIGHT",
             "REQ_SUCCESS", "REQ_FAILURE", "REQ_DONE"}

\* "token", "empty", "error": bodies of a reply to an upload; "full",
\* "short": replies to a download; "509": bandwidth limit exceeded
Bodies == {"none", "token", "empty", "error", "full", "short", "509"}

\* a connection that has a chunk it is not yet done with
Busy(q) == q.status \in {"REQ_PREPARED", "REQ_INFLIGHT", "REQ_SUCCESS",
                         "REQ_FAILURE"}

-----------------------------------------------------------------------------
\* startxfer() has just created the transfer.
Init ==
    /\ xfer = "queued"
    /\ timer!Init
    /\ failcount = 0
    /\ pos = 0
    /\ macs = {}
    /\ isvalid \in (IF Dir = "PUT" THEN {TRUE} ELSE BOOLEAN)
    /\ tempurl = FALSE
    /\ reqs = [i \in Conn |-> Null]
    /\ progress = 0
    /\ failure = FALSE
    /\ errorcount = 0
    /\ stalled = FALSE
    /\ chunkfailed = FALSE
    /\ success = FALSE
    /\ paused = FALSE
    /\ stage = "idle"
    /\ at = C
    /\ data = {}
    /\ filemac = {}
    /\ online = FALSE
    /\ short = FALSE

\* Fault: the byte counter survives a failed attempt.
startprogressKept == progress

\* TransferSlot(): progresscompleted
startprogress == 0

\* The slot's fields, as its constructor sets them.
noSlot ==
    /\ tempurl' = FALSE
    /\ reqs' = [i \in Conn |-> Null]
    /\ progress' = startprogress
    /\ failure' = FALSE
    /\ errorcount' = 0
    /\ stalled' = FALSE

doioEnds == stage' = "idle" /\ at' = C

\* Fault: failed attempts are not counted.
countedNot == failcount

\* failcount++
counted == failcount + 1

\* Transfer::failed(e): back off; unless the files give up, which they do
\* on a final error (EKEY, EBLOCKED) and after MaxFail attempts, only the
\* slot goes.  Its destructor deletes the temp file of a download; an
\* upload's storage URL is given up.  After a stall the interval that is
\* doubled is the 0 or wrapped one that doio() has left.
failed(final) ==
    /\ timer!backoffRest
    /\ IF ~final /\ failcount < MaxFail
       THEN failcount' = counted /\ xfer' = "queued"
       ELSE failcount' = failcount /\ xfer' = "aborted"
    /\ noSlot
    /\ data' = {}
    /\ doioEnds
    /\ UNCHANGED <<pos, isvalid, paused>>

-----------------------------------------------------------------------------
(* MegaClient::dispatch(), for this transfer *)

\* Where a new slot starts: uploads from scratch, downloads after the
\* contiguous prefix of the chunks in chunkmacs.
startpos(m) ==
    IF Dir = "PUT" THEN 0
    ELSE CHOOSE n \in 0 .. N : /\ \A c \in Chunk : c < n => c \in m
                               /\ n \in Chunk => n \notin m

\* a slot is created, the file opens (a download's is created or
\* truncated), and the storage URL is requested
dispatch ==
    /\ stage = "idle" /\ xfer = "queued" /\ timer!armed
    /\ xfer' = "active"
    /\ noSlot
    /\ macs' = IF Dir = "PUT" THEN {} ELSE macs
    /\ pos' = startpos(macs)
    /\ data' = {}
    /\ short' = FALSE
    /\ UNCHANGED <<bt, failcount, isvalid, netVars, doioVars, paused, filemac>>

\* the file does not open: failed(API_EREAD)
dispatchFails ==
    /\ stage = "idle" /\ xfer = "queued" /\ timer!armed
    /\ failed(FALSE)
    /\ UNCHANGED <<macs, netVars, filemac, short>>

\* the clock passes the retry time
elapse ==
    /\ stage = "idle"
    /\ timer!elapse
    /\ UNCHANGED <<xfer, failcount, pos, macs, isvalid, slotVars, netVars,
                   paused, doioVars, data, filemac, short>>

\* CommandPutFile/CommandGetFile::procresult(): the storage URL ...
procresult ==
    /\ stage = "idle" /\ xfer = "active" /\ ~tempurl
    /\ tempurl' = TRUE
    /\ stalled' = FALSE
    /\ UNCHANGED <<xferVars, reqs, progress, failure, errorcount, netVars,
                   paused, doioVars, data, filemac, short>>

\* ... or an error; a download may be refused for good (EKEY, EBLOCKED)
procresultError(final) ==
    /\ stage = "idle" /\ xfer = "active" /\ ~tempurl
    /\ final => Dir = "GET"
    /\ failed(final)
    /\ UNCHANGED <<macs, netVars, filemac, short>>

-----------------------------------------------------------------------------
(* TransferSlot::doio(): what has come back on connection at *)

doio ==
    /\ stage = "idle" /\ xfer = "active" /\ ~paused /\ tempurl
    /\ stage' = "receive"
    /\ UNCHANGED <<xferVars, slotVars, netVars, at, paused, data, filemac, short>>

\* Transfer::complete(): the transfer ends, unless the file's fingerprint is
\* not what it should be (GET; it samples all parts of the file, and a temp
\* file that does not open is not verified) or no longer what it was (PUT).
\* m are the chunks in chunkmacs, which macsmac() has combined and removed;
\* d are the chunks at the destination.  The temp file is taken to reach its
\* target locations at the first try.
complete(m, d) ==
    /\ filemac' = m
    /\ macs' = {}
    /\ UNCHANGED short
    /\ \/ /\ \E opened \in BOOLEAN : Dir = "GET" /\ opened /\ isvalid => d = Chunk
          /\ xfer' = "complete"
          /\ data' = d
          /\ noSlot
          /\ doioEnds
          /\ UNCHANGED <<bt, failcount, pos, isvalid, paused>>
       \/ /\ Dir = "GET" => isvalid /\ d # Chunk
          /\ failed(FALSE)

\* on to the sending half, with reqs[at] = q
thenSend(q) ==
    /\ reqs' = [reqs EXCEPT ![at] = q]
    /\ stage' = "send"
    /\ UNCHANGED <<xfer, bt, failcount, pos, isvalid, tempurl, at, paused,
                   filemac, short>>

\* REQ_SUCCESS adds the size of the request to the byte counter first.
progressed == progress + size(reqs[at].chunk)

receiveNothing ==
    /\ stage = "receive"
    /\ reqs[at].status \notin {"REQ_SUCCESS", "REQ_FAILURE"}
    /\ thenSend(reqs[at])
    /\ UNCHANGED <<macs, progress, failure, errorcount, stalled, netVars, data>>

received(body) ==
    /\ stage = "receive"
    /\ reqs[at].status = "REQ_SUCCESS"
    /\ reqs[at].in = body

receivePutAck ==
    /\ received("empty")
    /\ progress' = progressed
    /\ errorcount' = 0
    /\ stalled' = FALSE
    /\ thenSend(Ready(TRUE))
    /\ UNCHANGED <<macs, failure, netVars, data>>

receivePutToken ==
    /\ received("token")
    /\ complete(macs, data)
    /\ UNCHANGED netVars

receivePutError(final) ==
    /\ received("error")
    /\ failed(final)
    /\ UNCHANGED <<macs, netVars, filemac, short>>

\* finalize() writes the chunk and records its MAC.
receiveGet ==
    LET c == reqs[at].chunk
        m == macs \union {c}
        d == data \union {c}
    IN  /\ received("full")
        /\ UNCHANGED netVars
        /\ CASE progressed # total ->
                    /\ progress' = progressed
                    /\ macs' = m
                    /\ data' = d
                    /\ errorcount' = 0
                    /\ stalled' = FALSE
                    /\ thenSend(Ready(TRUE))
                    /\ UNCHANGED failure
             [] progressed = total /\ m = Chunk ->
                    complete(m, d)
             [] OTHER ->    \* the meta MAC does not match: API_EKEY
                    failed(TRUE) /\ filemac' = m /\ macs' = {} /\ UNCHANGED short

\* Fault: a request that failed is taken for one that is finished.
retriedDropped(q) == Ready(TRUE)

\* REQ_PREPARED again: the chunk stays with its connection
retried(q) == Prepared(q.chunk)

\* too little data: the same chunk again
receiveGetShort ==
    /\ received("short")
    /\ progress' = progressed
    /\ errorcount' = errorcount + 1
    /\ stalled' = FALSE
    /\ thenSend(retried(reqs[at]))
    /\ UNCHANGED <<macs, failure, netVars, data>>

\* MegaClient::setchunkfailed(), for a request that has a URL
setchunkfailed ==
    /\ chunkfailed' = TRUE
    /\ success' = (success /\ chunkfailed)
    /\ online' = (online /\ chunkfailed)

\* HTTP status 509: the connection keeps its status
receiveLimit ==
    /\ stage = "receive"
    /\ reqs[at].status = "REQ_FAILURE" /\ reqs[at].in = "509"
    /\ thenSend(reqs[at])
    /\ UNCHANGED <<macs, progress, failure, errorcount, stalled, netVars, data>>

receiveFailure ==
    /\ stage = "receive"
    /\ reqs[at].status = "REQ_FAILURE" /\ reqs[at].in # "509"
    /\ IF failure THEN UNCHANGED netVars ELSE setchunkfailed
    /\ failure' = TRUE
    /\ thenSend(retried(reqs[at]))
    /\ UNCHANGED <<macs, progress, errorcount, stalled, data>>

-----------------------------------------------------------------------------
(* TransferSlot::doio(): what goes out next on connection at *)

\* the next connection, or the rest of doio()
thenNext(q) ==
    /\ reqs' = [reqs EXCEPT ![at] = q]
    /\ at' = IF at = 1 THEN C ELSE at - 1
    /\ stage' = IF at = 1 THEN "tail" ELSE "receive"
    /\ UNCHANGED <<xfer, bt, failcount, isvalid, tempurl, progress, failure,
                   errorcount, stalled, netVars, paused, data, filemac, short>>

\* HttpReq::post(): the request goes out, or curl_easy_init() fails
post(q) ==
    \/ thenNext(With(q, "REQ_INFLIGHT", "none"))
    \/ thenNext(With(q, "REQ_FAILURE", "none"))

\* Faults: one chunk too many, pos does not move, no MAC is recorded.
moreOffByOne == pos <= N
nextposSame == pos
preparedmacsNone == macs

\* npos > transfer->pos
more == pos < N

nextpos == pos + 1

\* HttpReqUL::prepare() records the MAC of the chunk, HttpReqDL::prepare()
\* has nothing to record yet.
preparedmacs == IF Dir = "PUT" THEN macs \union {pos} ELSE macs

free == reqs[at].status \in {"NULL", "REQ_READY"}

\* the slot is frozen, or this connection is busy or done
sendNothing ==
    /\ stage = "send"
    /\ \/ failure
       \/ ~free /\ reqs[at].status # "REQ_PREPARED"
       \/ reqs[at].status = "NULL" /\ ~more
    /\ thenNext(reqs[at])
    /\ UNCHANGED <<pos, macs>>

sendAgain ==
    /\ stage = "send" /\ ~failure
    /\ reqs[at].status = "REQ_PREPARED"
    /\ post(reqs[at])
    /\ UNCHANGED <<pos, macs>>

\* prepare() the next chunk (an upload is read and its MAC recorded) and
\* post it
sendChunk ==
    /\ stage = "send" /\ ~failure
    /\ free /\ more
    /\ pos' = nextpos
    /\ macs' = preparedmacs
    /\ post(Prepared(pos))

\* the file cannot be read right now: retry shortly
sendReadRetry ==
    /\ stage = "send" /\ ~failure
    /\ Dir = "PUT" /\ ReadRetries /\ free /\ more
    /\ thenNext(Ready(reqs[at].posturl))
    /\ UNCHANGED <<pos, macs>>

\* the file cannot be read: failed(API_EREAD)
sendReadFails ==
    /\ stage = "send" /\ ~failure
    /\ Dir = "PUT" /\ free /\ more
    /\ failed(FALSE)
    /\ UNCHANGED <<macs, netVars, filemac, short>>

sendDone ==
    /\ stage = "send" /\ ~failure
    /\ reqs[at].status = "REQ_READY" /\ ~more
    /\ thenNext(With(reqs[at], "REQ_DONE", reqs[at].in))
    /\ UNCHANGED <<pos, macs>>

-----------------------------------------------------------------------------
(* TransferSlot::doio(): after the loop.  Data that flowed on a connection
   counts as a sign of life; a slot without one for XFERTIMEOUT is frozen
   like one with a failed chunk.  The transfer is looked at again when the
   rest of XFERTIMEOUT has passed, which after a stall it has, unless a
   bandwidth limit or a read error has asked for a later time. *)

flowing == \E i \in Conn : reqs[i].status \in {"REQ_INFLIGHT", "REQ_PREPARED"}

doioTail(moved) ==
    /\ stage = "tail"
    /\ moved => flowing
    /\ IF errorcount > MaxErr
       THEN failed(FALSE)
       ELSE /\ stalled' = (stalled /\ ~moved)
            /\ IF stalled' THEN timer!backoffRest ELSE timer!backoff
            /\ failure' = (failure \/ stalled')
            /\ doioEnds
            /\ UNCHANGED <<xfer, failcount, pos, isvalid, tempurl, reqs,
                           progress, errorcount, paused, data>>
    /\ IF stalled /\ ~moved /\ ~failure /\ \E i \in Conn : reqs[i].posturl
       THEN setchunkfailed
       ELSE UNCHANGED netVars
    /\ UNCHANGED <<macs, filemac, short>>

-----------------------------------------------------------------------------
(* MegaClient *)

\* Fault: a frozen slot is counted but not released.
releasedNot == failure

\* slot->failure once exec() has counted the error
released == FALSE

\* the beginning of exec(): a network operation has succeeded since a chunk
\* failed
execContinue ==
    /\ stage = "idle" /\ success /\ chunkfailed
    /\ chunkfailed' = FALSE
    /\ errorcount' = IF failure THEN errorcount + 1 ELSE errorcount
    /\ failure' = released
    /\ UNCHANGED <<xferVars, tempurl, reqs, progress, stalled, success,
                   online, doioVars, paused, data, filemac, short>>

\* abortbackoff(), for this transfer
abortbackoff ==
    /\ stage = "idle" /\ failcount > 0 /\ xfer \in {"queued", "active"}
    /\ failcount' = 0
    /\ timer!arm
    /\ UNCHANGED <<xfer, pos, macs, isvalid, slotVars, netVars, doioVars, paused,
                   data, filemac, short>>

\* HttpReq::disconnect() on all connections: what is in flight fails, with
\* no HTTP status
disconnected ==
    [i \in Conn |-> IF reqs[i].status = "REQ_INFLIGHT"
                    THEN With(reqs[i], "REQ_FAILURE", "none")
                    ELSE reqs[i]]

\* disconnect(), for this slot
disconnect ==
    /\ stage = "idle"
    /\ reqs' = disconnected
    /\ UNCHANGED <<xferVars, tempurl, progress, failure, errorcount, stalled,
                   netVars, doioVars, paused, data, filemac, short>>

\* pausexfers(): a hard pause drops the connections, resuming calls doio()
pause(hard) ==
    /\ stage = "idle" /\ ~paused
    /\ paused' = TRUE
    /\ reqs' = IF hard THEN disconnected ELSE reqs
    /\ UNCHANGED <<xferVars, tempurl, progress, failure, errorcount, stalled,
                   netVars, doioVars, data, filemac, short>>

resume ==
    /\ stage = "idle" /\ paused
    /\ paused' = FALSE
    /\ stalled' = FALSE
    /\ stage' = IF xfer = "active" /\ tempurl THEN "receive" ELSE "idle"
    /\ UNCHANGED <<xferVars, tempurl, reqs, progress, failure, errorcount,
                   netVars, at, data, filemac, short>>

\* stopxfer() on the transfer's last file: the transfer and its slot go
stopxfer ==
    /\ stage = "idle" /\ xfer \in {"queued", "active"}
    /\ xfer' = "aborted"
    /\ noSlot
    /\ data' = {}
    /\ UNCHANGED <<bt, failcount, pos, macs, isvalid, netVars, doioVars, paused,
                   filemac, short>>

\* fetchnodes() with a reload of the local state: its init() clears
\* chunkfailed and the pause flags, and leaves the slots alone
fetchnodes ==
    /\ stage = "idle"
    /\ chunkfailed' = FALSE
    /\ paused' = FALSE
    /\ UNCHANGED <<xferVars, slotVars, success, online, doioVars, data,
                   filemac, short>>

-----------------------------------------------------------------------------
(* Storage server, network and clock (external) *)

completes(i, status, body) ==
    /\ stage = "idle"
    /\ reqs[i].status = "REQ_INFLIGHT"
    /\ reqs' = [reqs EXCEPT ![i] = With(reqs[i], status, body)]
    /\ short' = (short \/ body = "short")
    /\ UNCHANGED <<xferVars, tempurl, progress, failure, errorcount, stalled,
                   doioVars, paused, filemac>>

\* CurlHttpIO::doio() sets success on every completion, whatever its status
succeeds(i, body) ==
    /\ completes(i, "REQ_SUCCESS", body)
    /\ success' = TRUE
    /\ online' = TRUE
    /\ UNCHANGED chunkfailed

\* the storage server has the chunk, and all of them with it or not
serverStores(i) ==
    /\ Dir = "PUT"
    /\ LET stored == data \union {reqs[i].chunk}
       IN  /\ data' = stored
           /\ succeeds(i, IF stored = Chunk THEN "token" ELSE "empty")

serverRefuses(i) ==
    /\ Dir = "PUT"
    /\ succeeds(i, "error")
    /\ UNCHANGED data

serverSends(i) ==
    /\ Dir = "GET"
    /\ \/ succeeds(i, "full")
       \/ ShortReplies /\ succeeds(i, "short")
    /\ UNCHANGED data

\* the request fails, after an upload may have reached the server
requestFails(i, body) ==
    /\ completes(i, "REQ_FAILURE", body)
    /\ data' \in (IF Dir = "PUT" /\ body = "none"
                  THEN {data, data \union {reqs[i].chunk}} ELSE {data})
    /\ success' = TRUE
    /\ UNCHANGED <<chunkfailed, online>>

\* a request of another component completes
otherRequest(ok) ==
    /\ stage = "idle"
    /\ success' = TRUE
    /\ online' = (online \/ ok)
    /\ UNCHANGED <<xferVars, slotVars, chunkfailed, doioVars, paused, data,
                   filemac, short>>

\* a chunk of another transfer fails
otherChunkFails ==
    /\ stage = "idle"
    /\ setchunkfailed
    /\ UNCHANGED <<xferVars, slotVars, doioVars, paused, data, filemac, short>>

\* XFERTIMEOUT passes without data
stall ==
    /\ stage = "idle" /\ xfer = "active" /\ ~stalled
    /\ stalled' = TRUE
    /\ UNCHANGED <<xferVars, tempurl, reqs, progress, failure, errorcount,
                   netVars, doioVars, paused, data, filemac, short>>

-----------------------------------------------------------------------------
Receive ==
    \/ receiveNothing \/ receivePutAck \/ receivePutToken
    \/ \E final \in BOOLEAN : receivePutError(final)
    \/ receiveGet \/ receiveGetShort \/ receiveLimit \/ receiveFailure

Send ==
    \/ sendNothing \/ sendAgain \/ sendChunk \/ sendReadRetry \/ sendReadFails
    \/ sendDone

Tail == \E moved \in BOOLEAN : doioTail(moved)

Step == Receive \/ Send \/ Tail

Server ==
    \E i \in Conn : \/ serverStores(i) \/ serverRefuses(i) \/ serverSends(i)
                    \/ \E body \in {"none", "509"} : requestFails(i, body)

Next ==
    \/ dispatch \/ dispatchFails \/ elapse
    \/ procresult
    \/ \E final \in BOOLEAN : procresultError(final)
    \/ doio \/ Step
    \/ execContinue
    \/ abortbackoff
    \/ disconnect
    \/ \E hard \in BOOLEAN : pause(hard)
    \/ resume
    \/ stopxfer
    \/ Server
    \/ \E ok \in BOOLEAN : otherRequest(ok)
    \/ otherChunkFails
    \/ stall

\* The local state is not reloaded while the transfer exists.
Spec == Init /\ [][Next]_vars

\* The local state may be reloaded at any time.
ReloadSpec == Init /\ [][Next \/ fetchnodes]_vars

\* The app keeps calling exec(), commands are answered, the clock advances,
\* other requests of the engine succeed from time to time, and a request
\* cannot move data for ever.  Nothing else is assumed of the storage
\* server: it may never answer.
Fairness ==
    /\ WF_vars(dispatch)
    /\ WF_vars(elapse)
    /\ WF_vars(procresult)
    /\ SF_vars(doio)
    /\ WF_vars(Step)
    /\ SF_vars(execContinue)
    /\ SF_vars(otherRequest(TRUE))
    /\ SF_vars(stall)
    /\ SF_vars(stalled /\ doioTail(FALSE))

FairSpec == Spec /\ Fairness

-----------------------------------------------------------------------------
TypeOK ==
    /\ xfer \in {"queued", "active", "complete", "aborted"}
    /\ bt \in timer!Phases
    /\ failcount \in 0 .. MaxFail
    /\ pos \in 0 .. N
    /\ macs \subseteq Chunk
    /\ isvalid \in BOOLEAN
    /\ tempurl \in BOOLEAN
    /\ reqs \in [Conn -> [status : Statuses, chunk : Chunk, in : Bodies,
                          posturl : BOOLEAN]]
    /\ progress \in Nat
    /\ failure \in BOOLEAN
    /\ errorcount \in Nat
    /\ stalled \in BOOLEAN
    /\ chunkfailed \in BOOLEAN
    /\ success \in BOOLEAN
    /\ paused \in BOOLEAN
    /\ stage \in {"idle", "receive", "send", "tail"}
    /\ at \in Conn
    /\ data \subseteq Chunk
    /\ filemac \subseteq Chunk
    /\ online \in BOOLEAN
    /\ short \in BOOLEAN

(* Parallel connections never work on the same chunk, and never on one that
   pos has not passed, whatever is retried, dropped or paused in between:
   a chunk is counted in progresscompleted once per success. *)
OneConnPerChunk ==
    \A i \in Conn :
        Busy(reqs[i]) => /\ reqs[i].chunk < pos
                         /\ \A j \in Conn \ {i} :
                                Busy(reqs[j]) => reqs[i].chunk # reqs[j].chunk

(* doio() never goes back: a chunk that pos has passed is either recorded
   (its MAC, for a download; at the server, for an upload) or some
   connection still holds it.  A failed, disconnected or short request that
   were dropped would leave a hole nobody fills. *)
NoChunkLost ==
    xfer = "active" =>
        \A c \in 0 .. pos - 1 :
            \/ c \in (IF Dir = "PUT" THEN data ELSE macs)
            \/ \E i \in Conn : Busy(reqs[i]) /\ reqs[i].chunk = c

Whole == data = Chunk /\ filemac = Chunk

(* A transfer that is reported complete has all of its chunks at the
   destination and all of them in its MAC, whatever was retried, resumed or
   repeated - unless a download reply was shorter than its chunk, which
   doio() counts in progresscompleted like a whole one. *)
CompleteIsWhole == xfer = "complete" /\ ~short => Whole

(* The same without the exception: "a file's integrity is verified only after
   it was downloaded in full" (doc/source/api_development.rst:36). *)
VerifiedIsWhole == xfer = "complete" => Whole

(* A frozen slot (failure) posts nothing until MegaClient::exec() sees a
   "successful network operation with a failed transfer chunk: increment
   error count and continue transfers" (megaclient.cpp:470), which it only
   looks for when chunkfailed is set. *)
FrozenIsReleasable == failure => chunkfailed

(* exec() counts an error against a frozen slot on a "successful network
   operation with a failed transfer chunk" (megaclient.cpp:470), so that an
   outage during which nothing succeeds does not use up the attempts. *)
OutageNotCounted == [][stage = "idle" /\ errorcount' > errorcount => online]_vars

(* Every transfer ends: it is complete, or given up after the failures that
   "do not retry crypto errors or administrative takedowns; retry other
   types of failuresup to 16 times" (file.cpp:128) allows, or removed -
   unless the user again and again pauses it, which restarts its timeout, or
   asks for a retry (abortbackoff()), which forgives its failures. *)
EventuallySettled ==
    \/ <>(xfer \in {"complete", "aborted"})
    \/ []<>paused
    \/ []<><<abortbackoff>>_vars
=============================================================================

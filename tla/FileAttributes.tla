--------------------------- MODULE FileAttributes ---------------------------
(***************************************************************************)
(* File attributes (thumbnails, previews): their storage, one at a time,   *)
(* while the upload they belong to is still running, being added as a node *)
(* or done; and their retrieval, per storage cluster, while the            *)
(* application cancels retrievals and nodes disappear (src/megaclient.cpp, *)
(* src/fileattributefetch.cpp, src/commands.cpp, src/gfx.cpp).             *)
(*                                                                         *)
(* Commands are answered in the order they were added (module CsChannel).  *)
(***************************************************************************)
EXTENDS Integers, Sequences, FiniteSets, FiniteSetsExt, SequencesExt

CONSTANTS
    Upload,         \* upload handles
    Existing,       \* those that are handles of nodes which are there already
    Attr,           \* attributes to be put, once each: upload handles and types.
                    \* One that a repeated Transfer::complete() puts again is
                    \* a put of its own, with a type of its own here
    Cluster, Item,  \* attributes to be retrieved: items in clusters
    Removal,        \* may nodes be removed?
    GivesUp,        \* may the application give up a retrieval that fails?
    Uses,           \* bound: of "store" and "retrieve", what one behaviour does
    MaxFaults       \* bound: failures

ASSUME AttributeAssumption ==
    /\ Existing \subseteq Upload /\ Attr \subseteq Upload \X Nat
    /\ Removal \in BOOLEAN /\ GivesUp \in BOOLEAN /\ MaxFaults \in Nat
    /\ Item \subseteq Nat /\ Uses \subseteq SUBSET {"store", "retrieve"}

Fah == Cluster \X Item
None == <<"none">>

VARIABLES
    newfa,        \* attributes to be stored
    curfa,        \* the one in progress, or None
    status,       \* HttpReq::status of each
    http,         \* POST requests of each that are outstanding
    btpfa,        \* its retry timer: "ready", "waiting"
    pendingfa,    \* stored before their upload has become a node
    uhnh,         \* uploads whose node is known
    upload,       \* "running", "adding", "node", "failed", "removed"
    attached,     \* server: how often an attribute has been attached
    cmds,         \* commands outstanding
    fafs,         \* retrievals wanted
    fafcs,        \* cluster channels
    gone,         \* attributes whose node is gone
    wrong,        \* freed memory has been used
    hurried,      \* history: a failed put has been requested before its time
    use,          \* the member of Uses of this behaviour
    faults

putVars == <<newfa, curfa, status, http, btpfa, pendingfa>>
nodeVars == <<uhnh, upload, attached, gone, use>>
fetchVars == <<fafs, fafcs>>
vars == <<putVars, nodeVars, cmds, fetchVars, wrong, hurried, faults>>

\* FileAttributeFetchChannel: answer is what the server sends, of which got
\* items have been received and completed items handled
Channel == [status |-> "READY", bt |-> "ready", answer |-> << >>, got |-> 0,
            completed |-> 0]

Insert(f, k, x) == [j \in DOMAIN f \union {k} |-> IF j = k THEN x ELSE f[j]]
Without(f, S) == [j \in DOMAIN f \ S |-> f[j]]

Init ==
    /\ newfa = << >> /\ curfa = None
    /\ status = [a \in Attr |-> "new"]
    /\ http = [a \in Attr |-> 0]
    /\ btpfa = "ready"
    /\ pendingfa = {}
    /\ uhnh = {}
    /\ upload = [u \in Upload |-> IF u \in Existing THEN "node" ELSE "running"]
    /\ attached = [a \in Attr |-> 0]
    /\ gone = {}
    /\ cmds = << >>
    /\ fafs = << >> /\ fafcs = << >>
    /\ wrong = FALSE /\ hurried = FALSE
    /\ use \in Uses
    /\ faults = 0

fault == faults < MaxFaults /\ faults' = faults + 1

-----------------------------------------------------------------------------
(* Storing.  c is what exec() works on. *)

Puts == [newfa |-> newfa, cur |-> curfa, status |-> status, http |-> http,
         bt |-> btpfa, pending |-> pendingfa, cmds |-> cmds]

Become(c) ==
    /\ newfa' = c.newfa /\ curfa' = c.cur /\ status' = c.status /\ http' = c.http
    /\ btpfa' = c.bt /\ pendingfa' = c.pending /\ cmds' = c.cmds

\* gendimensionsputfa() and putfa(): queued at the end; if none is in
\* progress, the first of the queue is requested, even if it has failed and
\* waits for its timer
putfa(a) ==
    LET c == [Puts EXCEPT !.newfa = Append(@, a), !.status[a] = "READY"]
        h == Head(c.newfa)
    IN  /\ "store" \in use /\ status[a] = "new"
        /\ Become(IF curfa # None THEN c
                  ELSE [c EXCEPT !.cur = h, !.cmds = Append(@, [op |-> "ufa", a |-> h])])
        /\ hurried' = (hurried \/ (curfa = None /\ \E x \in Range(newfa) : status[x] = "FAILURE"))
        /\ UNCHANGED <<nodeVars, fetchVars, wrong, faults>>

node(u) == upload[u] = "node"

\* Fault: the node an upload has become is not looked up.
nodeOfHandle(u) == u \in Existing /\ node(u)

\* the node of an upload is known, or the handle is a node's
nodeOf(u) == node(u) /\ u \in uhnh \union Existing

\* newfa.erase()
Erased(s, a) ==
    LET i == CHOOSE i \in DOMAIN s : s[i] = a
    IN  [j \in 1 .. Len(s) - 1 |-> IF j < i THEN s[j] ELSE s[j + 1]]

\* a stored attribute is attached to its node, or kept for the upload's end;
\* its object is deleted, which cancels the request it knows of
stored(c, a) ==
    LET d == [c EXCEPT !.newfa = Erased(@, a), !.cur = None,
                       !.bt = "ready", !.status[a] = "done",
                       !.http[a] = IF @ = 0 THEN 0 ELSE @ - 1]
    IN  IF nodeOf(a[1]) THEN [d EXCEPT !.cmds = Append(@, [op |-> "pfa", a |-> a])]
        ELSE [d EXCEPT !.pending = @ \union {a}]

\* Fault: a failed request is not taken off the slot.
finishFailed(c) ==
    IF c.cur # None /\ c.status[c.cur] = "SUCCESS" THEN stored(c, c.cur) ELSE c

\* the attribute in progress
finish(c) ==
    CASE c.cur = None -> c
      [] c.cur # None /\ c.status[c.cur] = "SUCCESS" -> stored(c, c.cur)
      [] c.cur # None /\ c.status[c.cur] = "BADSIZE" -> [c EXCEPT !.cur = None, !.bt = "ready"]
      [] c.cur # None /\ c.status[c.cur] = "FAILURE" -> [c EXCEPT !.cur = None, !.bt = "waiting"]
      [] c.cur # None /\ c.status[c.cur] \in {"READY", "INFLIGHT"} -> c

\* Fault: the one in progress is not waited for.
startAnyway(c) ==
    IF c.newfa # << >> /\ c.bt = "ready"
    THEN [c EXCEPT !.cur = Head(c.newfa), !.cmds = Append(@, [op |-> "ufa", a |-> Head(c.newfa)])]
    ELSE c

\* the next one, when none is in progress
start(c) ==
    IF c.newfa # << >> /\ c.cur = None /\ c.bt = "ready"
    THEN LET h == Head(c.newfa)
         IN  [c EXCEPT !.cur = h, !.status[h] = "INFLIGHT",
                       !.cmds = Append(@, [op |-> "ufa", a |-> h])]
    ELSE c

execPut ==
    /\ Become(start(finish(Puts)))
    /\ UNCHANGED <<nodeVars, fetchVars, wrong, hurried, faults>>

btpfaElapse ==
    /\ btpfa = "waiting"
    /\ btpfa' = "ready"
    /\ UNCHANGED <<newfa, curfa, status, http, pendingfa, nodeVars, cmds, fetchVars,
                   wrong, hurried, faults>>

\* HttpReqCommandPutFA::procresult(): the target is known and the data posted;
\* or the put has failed; or the answer cannot be parsed, which only the
\* application learns
putfaResult ==
    /\ cmds # << >> /\ Head(cmds).op = "ufa"
    /\ cmds' = Tail(cmds)
    /\ LET a == Head(cmds).a
       IN  IF a \notin Range(newfa)
           THEN /\ wrong' = TRUE
                /\ UNCHANGED <<status, http, faults>>
           ELSE /\ \/ /\ status' = [status EXCEPT ![a] = "INFLIGHT"]
                      /\ http' = [http EXCEPT ![a] = @ + 1]
                      /\ UNCHANGED faults
                   \/ /\ fault
                      /\ status' = [status EXCEPT ![a] = "FAILURE"]
                      /\ UNCHANGED http
                   \/ /\ fault
                      /\ UNCHANGED <<status, http>>
                /\ UNCHANGED wrong
    /\ UNCHANGED <<newfa, curfa, btpfa, pendingfa, nodeVars, fetchVars, hurried>>

\* the attribute server answers, or does not; a request whose object has been
\* deleted writes to it
putfaPosted(a) ==
    /\ http[a] > 0
    /\ http' = [http EXCEPT ![a] = @ - 1]
    /\ IF a \in Range(newfa)
       THEN /\ \/ status' = [status EXCEPT ![a] = "SUCCESS"] /\ UNCHANGED faults
               \/ fault /\ \E s \in {"BADSIZE", "FAILURE"} : status' = [status EXCEPT ![a] = s]
            /\ UNCHANGED wrong
       ELSE wrong' = TRUE /\ UNCHANGED <<status, faults>>
    /\ UNCHANGED <<newfa, curfa, btpfa, pendingfa, nodeVars, cmds, fetchVars, hurried>>

-----------------------------------------------------------------------------
(* Uploads become nodes *)

pendingOf(u) == {a \in pendingfa : a[1] = u}

\* CommandPutNodes with pendingattrstring(): what is stored by now goes along
putnodes(u) ==
    /\ "store" \in use /\ upload[u] = "running"
    /\ upload' = [upload EXCEPT ![u] = "adding"]
    /\ cmds' = Append(cmds, [op |-> "put", u |-> u, fa |-> pendingOf(u)])
    /\ pendingfa' = pendingfa \ pendingOf(u)
    /\ UNCHANGED <<newfa, curfa, status, http, btpfa, uhnh, attached, gone, use,
                   fetchVars, wrong, hurried, faults>>

\* readnodes(): attributes stored since are attached
attachPending(u) == [i \in 1 .. Cardinality(pendingOf(u)) |->
                        [op |-> "pfa", a |-> SetToSeq(pendingOf(u))[i]]]

putnodesResult ==
    /\ cmds # << >> /\ Head(cmds).op = "put"
    /\ LET u == Head(cmds).u
       IN  \/ /\ upload' = [upload EXCEPT ![u] = "node"]
              /\ uhnh' = uhnh \union {u}
              /\ attached' = [a \in Attr |-> IF a \in Head(cmds).fa THEN attached[a] + 1
                                             ELSE attached[a]]
              /\ cmds' = Tail(cmds) \o attachPending(u)
              /\ pendingfa' = pendingfa \ pendingOf(u)
              /\ UNCHANGED faults
           \/ /\ fault
              /\ upload' = [upload EXCEPT ![u] = "failed"]
              /\ cmds' = Tail(cmds)
              /\ UNCHANGED <<uhnh, attached, pendingfa>>
    /\ UNCHANGED <<newfa, curfa, status, http, btpfa, gone, use, fetchVars, wrong, hurried>>

\* CommandAttachFA
attachResult ==
    /\ cmds # << >> /\ Head(cmds).op = "pfa"
    /\ LET a == Head(cmds).a
       IN  attached' = IF node(a[1]) THEN [attached EXCEPT ![a] = @ + 1] ELSE attached
    /\ cmds' = Tail(cmds)
    /\ UNCHANGED <<putVars, uhnh, upload, gone, use, fetchVars, wrong, hurried, faults>>

nodeRemoved(u) ==
    /\ "store" \in use /\ Removal /\ node(u)
    /\ upload' = [upload EXCEPT ![u] = "removed"]
    /\ UNCHANGED <<putVars, uhnh, attached, gone, use, cmds, fetchVars, wrong, hurried, faults>>

-----------------------------------------------------------------------------
(* Retrieval.  c has the records and one cluster's channel. *)

\* getfa(): the new record's dispatched flag is not initialized
getfa(f, dispatched) ==
    /\ "retrieve" \in use /\ f \notin DOMAIN fafs /\ f \notin gone
    /\ fafs' = Insert(fafs, f, dispatched)
    /\ fafcs' = IF f[1] \in DOMAIN fafcs THEN fafcs ELSE Insert(fafcs, f[1], Channel)
    /\ UNCHANGED <<putVars, nodeVars, cmds, wrong, hurried, faults>>

getfaCancel(f) ==
    /\ f \in DOMAIN fafs
    /\ fault
    /\ fafs' = Without(fafs, {f})
    /\ UNCHANGED <<putVars, nodeVars, cmds, fafcs, wrong, hurried>>

wanted(s, k) == {f \in DOMAIN s : f[1] = k}

\* faf_failed(): what has been requested is given up if the application says so
faf_failed(c, k, quit) ==
    [c EXCEPT !.fafs = Without(@, {f \in wanted(@, k) \intersect quit : @[f]})]

\* parse(): items are handled in order, the last one when the answer is
\* complete, up to one that is not wanted any more: then all of the cluster's
\* have failed.  The record of an item whose node is gone stays.
parse(c, k, final, quit) ==
    LET x == c.x
        last == IF final \/ x.got < Len(x.answer) THEN x.got ELSE x.got - 1
        next == x.completed + 1 .. last
        lost == {n \in next : x.answer[n] \notin DOMAIN c.fafs}
        upto == IF lost = {} THEN last ELSE Min(lost) - 1
        d == [c EXCEPT !.fafs = Without(@, {x.answer[n] : n \in {m \in next : m <= upto}} \ gone),
                       !.x.completed = IF upto > @ THEN upto ELSE @]
    IN  IF lost # {} \/ (final /\ x.answer = << >>) THEN faf_failed(d, k, quit) ELSE d

\* Fault: the channel goes while its request is outstanding.
idleAlways(x) == x.status # "new"

\* Fault: a channel is used once.
idleOnce(x) == x.status = "READY"

idle(x) == x.status # "INFLIGHT"

\* one channel in exec().  A failed request is failed again, and its timer set
\* again, each time.
execFetch(k, quit) ==
    LET c == [fafs |-> fafs, x |-> fafcs[k]]
        s == fafcs[k].status
        d == CASE s = "READY" -> c
               [] s = "INFLIGHT" -> parse(c, k, FALSE, quit)
               [] s = "SUCCESS" -> [parse(c, k, TRUE, quit) EXCEPT !.x.bt = "ready"]
               [] s = "FAILURE" -> [faf_failed(c, k, quit) EXCEPT !.x.bt = "waiting"]
        free == idle(d.x) /\ d.x.bt = "ready"
        more == wanted(d.fafs, k) # {}
    IN  /\ fafs' = d.fafs
        /\ fafcs' = IF free /\ ~more THEN Without(fafcs, {k})
                    ELSE [fafcs EXCEPT ![k] = IF free THEN [d.x EXCEPT !.status = "INFLIGHT"]
                                              ELSE d.x]
        /\ cmds' = IF free /\ more THEN Append(cmds, [op |-> "getfa", k |-> k]) ELSE cmds
        /\ UNCHANGED <<putVars, nodeVars, wrong, hurried, faults>>

btElapse(k) ==
    /\ fafcs[k].bt = "waiting"
    /\ fafcs' = [fafcs EXCEPT ![k].bt = "ready"]
    /\ UNCHANGED <<putVars, nodeVars, cmds, fafs, wrong, hurried, faults>>

\* CommandGetFA::procresult() and dispatch(): all that is wanted by now is
\* requested; the server may not have all of it
getfaResult ==
    /\ cmds # << >> /\ Head(cmds).op = "getfa"
    /\ cmds' = Tail(cmds)
    /\ LET k == Head(cmds).k
           all == wanted(fafs, k)
       IN  IF k \notin DOMAIN fafcs THEN UNCHANGED <<fetchVars, faults>>
           ELSE \/ /\ fafs' = [f \in DOMAIN fafs |-> f \in all \/ fafs[f]]
                   /\ \E missing \in SUBSET all :
                        /\ \/ missing = {} /\ UNCHANGED faults
                           \/ missing # {} /\ fault
                        /\ fafcs' = [fafcs EXCEPT ![k] =
                              [@ EXCEPT !.answer = SetToSortSeq(all \ missing,
                                                       LAMBDA f, g : f[2] < g[2]),
                                        !.got = 0, !.completed = 0]]
                \/ /\ fault
                   /\ fafcs' = [fafcs EXCEPT ![k].status = "FAILURE"]
                   /\ UNCHANGED fafs
    /\ UNCHANGED <<putVars, nodeVars, wrong, hurried>>

posted(k) == /\ fafcs[k].status = "INFLIGHT"
             /\ \A i \in DOMAIN cmds : cmds[i].op = "getfa" => cmds[i].k # k

\* another item has been received
fetchData(k) ==
    /\ posted(k)
    /\ fafcs[k].got < Len(fafcs[k].answer)
    /\ fafcs' = [fafcs EXCEPT ![k].got = @ + 1]
    /\ UNCHANGED <<putVars, nodeVars, cmds, fafs, wrong, hurried, faults>>

fetchDone(k) ==
    /\ posted(k)
    /\ \/ /\ fafcs[k].got = Len(fafcs[k].answer)
          /\ fafcs' = [fafcs EXCEPT ![k].status = "SUCCESS"]
          /\ UNCHANGED faults
       \/ /\ fault
          /\ fafcs' = [fafcs EXCEPT ![k].status = "FAILURE"]
    /\ UNCHANGED <<putVars, nodeVars, cmds, fafs, wrong, hurried>>

attrNodeRemoved(f) ==
    /\ "retrieve" \in use /\ Removal /\ f \notin gone
    /\ gone' = gone \union {f}
    /\ UNCHANGED <<putVars, uhnh, upload, attached, use, cmds, fetchVars, wrong, hurried, faults>>

-----------------------------------------------------------------------------
Store ==
    \/ \E a \in Attr : putfa(a) \/ putfaPosted(a)
    \/ execPut \/ btpfaElapse \/ putfaResult
    \/ \E u \in Upload : putnodes(u) \/ nodeRemoved(u)
    \/ putnodesResult \/ attachResult

Retrieve ==
    \/ \E f \in Fah : \/ \E d \in BOOLEAN : getfa(f, d)
                      \/ getfaCancel(f) \/ attrNodeRemoved(f)
    \/ \E k \in DOMAIN fafcs :
          \/ \E quit \in IF GivesUp THEN SUBSET wanted(fafs, k) ELSE {{}} : execFetch(k, quit)
          \/ btElapse(k) \/ fetchData(k) \/ fetchDone(k)
    \/ getfaResult

Next == ~wrong /\ (Store \/ Retrieve)

\* exec() runs again and again, commands and requests are answered, timers
\* elapse, and uploads end
Fairness ==
    /\ WF_vars(execPut) /\ WF_vars(btpfaElapse)
    /\ WF_vars(putfaResult) /\ WF_vars(putnodesResult) /\ WF_vars(attachResult)
    /\ WF_vars(getfaResult)
    /\ \A a \in Attr : WF_vars(putfaPosted(a))
    /\ \A u \in Upload : WF_vars(putnodes(u))
    /\ \A k \in Cluster :
          /\ WF_vars(k \in DOMAIN fafcs /\ \E quit \in SUBSET wanted(fafs, k) : execFetch(k, quit))
          /\ WF_vars(k \in DOMAIN fafcs /\ btElapse(k))
          /\ WF_vars(k \in DOMAIN fafcs /\ fetchData(k))
          /\ WF_vars(k \in DOMAIN fafcs /\ fetchDone(k))

Spec == Init /\ [][Next]_vars /\ Fairness

-----------------------------------------------------------------------------
TypeOK ==
    /\ Range(newfa) \subseteq Attr /\ IsInjective(newfa)
    /\ curfa \in Range(newfa) \union {None}
    /\ pendingfa \subseteq Attr /\ uhnh \subseteq Upload
    /\ DOMAIN fafs \subseteq Fah /\ DOMAIN fafcs \subseteq Cluster
    /\ \A k \in DOMAIN fafcs : fafcs[k].completed <= fafcs[k].got

requests(a) == http[a] + Cardinality({i \in DOMAIN cmds : cmds[i].op = "ufa" /\ cmds[i].a = a})

(* File attribute puts are handled sequentially (the comment in exec()): only
   the one in progress has a command or a request outstanding, and not more
   than one.  putfa() breaks this: it requests a failed put that waits for its
   timer, exec() takes the failure it still shows off the slot once more, and
   a second request follows the first. *)
Sequential == ~wrong /\ \A a \in Attr : requests(a) <= IF a = curfa THEN 1 ELSE 0

(* As long as no attribute is added while a failed one waits for its timer,
   puts are handled sequentially, through failures, retries and attributes
   added meanwhile, and no answer finds its request deleted. *)
SequentialUnlessHurried == hurried \/ Sequential

(* Whether an attribute has been stored before, while or after its upload is
   added as a node, it is attached to that node once, and never twice. *)
AttachedOnce ==
    /\ \A a \in Attr : attached[a] <= 1
    /\ cmds = << >> => \A a \in Attr :
          status[a] = "done" /\ node(a[1]) => attached[a] = 1

(* A command that fetches attributes finds its channel, waiting for it (the
   channel's absence "can never happen"): a channel is only deleted, and only
   requested again, when nothing is outstanding. *)
ChannelThere ==
    \A i, j \in DOMAIN cmds :
        cmds[i].op = "getfa" =>
            /\ cmds[i].k \in DOMAIN fafcs /\ fafcs[cmds[i].k].status = "INFLIGHT"
            /\ cmds[j].op = "getfa" /\ cmds[j].k = cmds[i].k => i = j

\* the put in progress has got an answer that could not be parsed
unanswered ==
    curfa # None /\ status[curfa] \in {"READY", "INFLIGHT"} /\ requests(curfa) = 0

(* Every attribute to be stored is stored in the end, through failures of its
   own and of those before it; except after an answer that cannot be parsed,
   which leaves the put in progress for ever, and after a failed put has been
   requested before its time (see Sequential). *)
PutsEnd == \A a \in Attr : a \in Range(newfa) ~> (a \notin Range(newfa) \/ unanswered \/ hurried)

(* Every retrieval ends: unless the node is gone or the cluster's request has
   failed, it is answered, given up or cancelled. *)
FetchEnds ==
    \A f \in Fah :
        f \in DOMAIN fafs ~> \/ f \notin DOMAIN fafs \/ f \in gone
                             \/ f[1] \in DOMAIN fafcs /\ fafcs[f[1]].status = "FAILURE"

(* A retrieval that has failed is retried with exponential backoff: it does
   not stay failed. *)
FailedIsRetried ==
    \A k \in Cluster :
        (k \in DOMAIN fafcs /\ fafcs[k].status = "FAILURE")
            ~> (k \in DOMAIN fafcs => fafcs[k].status # "FAILURE")
=============================================================================

----------------------------- MODULE StateCache -----------------------------
(***************************************************************************)
(* The client's copy of the node tree: how it is fetched, kept current     *)
(* through the server-client channel, written to the local state cache and *)
(* restored from it when a session is resumed (src/megaclient.cpp,         *)
(* src/node.cpp, src/db.cpp, src/db/sqlite.cpp, src/commands.cpp).         *)
(*                                                                         *)
(* The server numbers its updates; scsn is the number of the last one the  *)
(* client has seen.  Nodes that an update or an own command has changed    *)
(* are collected in nodenotify; notifypurge() writes them to the cache,    *)
(* together with scsn, in one transaction, and drops the removed ones.     *)
(*                                                                         *)
(* A node's content is the number of the update that wrote it last.  The   *)
(* root folder always exists and is not represented; user records are      *)
(* written like nodes and never deleted.  The API server, the database     *)
(* engine and the app are external.  Own commands are executed and         *)
(* answered in order (module RpcFifo).                                     *)
(***************************************************************************)
EXTENDS Integers, Sequences, FiniteSets, SequencesExt

CONSTANTS
    Handle,       \* node handles the server can assign
    Uses,         \* what may happen besides updates by others, one set per
                  \* behaviour: own commands "t" (new node), "d" (delete) and
                  \* "m" (move), "late" (a node arrives before the key that
                  \* decrypts it), "fails" (a write to the cache fails),
                  \* "again" (fetchnodes() is called during a reload)
    MaxLog,       \* bound: updates by the server
    MaxOwn,       \* bound: own commands
    MaxStops      \* bound: crashes, logouts and reloads

ASSUME CacheAssumption ==
    /\ IsFiniteSet(Handle) /\ Handle \intersect {"root", "none"} = {}
    /\ Uses \subseteq SUBSET {"t", "d", "m", "late", "fails", "again"}
    /\ MaxLog \in Nat /\ MaxOwn \in Nat /\ MaxStops \in Nat

VARIABLES
    session,      \* "down", "login" (CommandLogin outstanding), "in"
    sessionid,    \* identity of this MegaClient object in its own actions
    loaded,       \* nodes.size(): a tree has been read
    nodes,        \* the node tree
    nodenotify,   \* nodes to be written and reported
    scsn,         \* number of the last update seen
    cachedscsn,   \* number recorded in the cache, as far as the client knows
    syncsup,      \* the configured syncs have scanned their folders
    pendingsc,    \* the server-client request outstanding, or {}
    scnotifyurl,  \* is there a URL to wait on for the next update?
    btsc,         \* retry timer
    fetchingnodes,\* a CommandFetchNodes is outstanding
    cmds,         \* own commands outstanding, in order
    sctable,      \* is the cache open?
    nextid,       \* DbTable::nextid
    db,           \* the committed content of the cache
    adrift,       \* history: nodes and number have come apart
    mixed,        \* history: the cache has been loaded, or opened again, while
                  \* the tree was on its way
    tree,         \* server: its tree after each update
    log,          \* server: its updates
    mine,         \* history: nodes that own commands create, move or delete
    uses,         \* the member of Uses this behaviour is about
    own,          \* number of own commands
    stops         \* number of crashes, logouts and reloads

sessionVars == <<session, sessionid, loaded>>
treeVars == <<nodes, nodenotify>>
scVars == <<pendingsc, scnotifyurl, btsc>>
clientVars == <<sessionVars, treeVars, scsn, cachedscsn, syncsup, scVars,
                fetchingnodes>>
dbVars == <<sctable, nextid, db>>
serverVars == <<tree, log, mine>>
boundVars == <<uses, own, stops>>
vars == <<clientVars, cmds, dbVars, adrift, mixed, serverVars, boundVars>>

Root == "root"
None == "none"
NoSn == -1      \* UNDEF, or an empty scsn
BadSn == -2     \* a number the server does not know

timer == INSTANCE RetryTimer WITH phase <- btsc

\* the number of the latest update, and the tree it made
now == Len(log)
latest == tree[now + 1]

Empty == [h \in {} |-> 0]

\* t with the entries of u added or replaced
Over(u, t) == [h \in DOMAIN t \union DOMAIN u |->
                  IF h \in DOMAIN u THEN u[h] ELSE t[h]]
Without(t, S) == [h \in DOMAIN t \ S |-> t[h]]
One(h, x) == [y \in {h} |-> x]

\* h and everything below it
Subtree(t, h) ==
    LET closed(S) == \A x \in DOMAIN t : t[x].parent \in S => x \in S
    IN  {x \in DOMAIN t :
            /\ h \in DOMAIN t
            /\ \A S \in SUBSET DOMAIN t : h \in S /\ closed(S) => x \in S}

-----------------------------------------------------------------------------
(* Nodes.  The server's have a parent, a content and may be readable by the
   client; the client's may be marked removed and have a place in the
   cache. *)

SNode(p, v, k) == [parent |-> p, v |-> v, clear |-> k]
Node(p, v, k, id) == [parent |-> p, v |-> v, clear |-> k, removed |-> FALSE,
                      dbid |-> id]

\* an own command about node h and parent p; at is the update that it has made
Command(op, h, p, at) == [op |-> op, h |-> h, p |-> p, at |-> at]

\* the tree that is being worked on, and its notifications
View(t, q) == [nodes |-> t, notify |-> q]

\* Fault: the node that comes back stays marked.
revivedNot(n, p) == [n EXCEPT !.parent = p]

\* a node marked for removal is there again
revived(n, p) == [n EXCEPT !.removed = FALSE, !.parent = p]

\* readnodes(): unknown nodes are added, nodes marked for removal come back,
\* all others are left alone; a parent is linked if it is known when all of
\* recs has been read.
readnodes(c, recs, notify) ==
    LET all == DOMAIN c.nodes \union DOMAIN recs
        link(h, else) == LET p == recs[h].parent
                         IN  IF p = Root \/ p \in all THEN p ELSE else
    IN  View([h \in all |->
                CASE h \notin DOMAIN recs -> c.nodes[h]
                  [] h \notin DOMAIN c.nodes ->
                        Node(link(h, None), recs[h].v, recs[h].clear, 0)
                  [] h \in DOMAIN recs \intersect DOMAIN c.nodes ->
                        IF c.nodes[h].removed
                        THEN revived(c.nodes[h], link(h, c.nodes[h].parent))
                        ELSE c.nodes[h]],
             IF notify THEN c.notify \union DOMAIN recs ELSE c.notify)

\* proctree() with TreeProcDel
deltree(c, h) ==
    LET gone == Subtree(c.nodes, h)
    IN  View([x \in DOMAIN c.nodes |->
                IF x \in gone THEN [c.nodes[x] EXCEPT !.removed = TRUE]
                ELSE c.nodes[x]],
             c.notify \union gone)

sc_deltree(c, a) == deltree(c, a.h)

sc_newnodes(c, a) == readnodes(c, a.recs, TRUE)

sc_updatenode(c, a) ==
    IF a.h \in DOMAIN c.nodes
    THEN View([c.nodes EXCEPT ![a.h].v = a.v], c.notify \union {a.h})
    ELSE c

\* the key arrives; applykeys() decrypts the node and notifies nobody
sc_keys(c, a) ==
    IF a.h \in DOMAIN c.nodes
    THEN View([c.nodes EXCEPT ![a.h].clear = TRUE], c.notify)
    ELSE c

\* One action of a server-client response: "t" new nodes, "d" deletion, "u"
\* update, "k" key, "m" move, which is a deletion followed by new nodes.
\* Own actions are skipped.
scAction(c, a) ==
    CASE a.by = sessionid -> c
      [] a.by # sessionid /\ a.a = "t" -> sc_newnodes(c, a)
      [] a.by # sessionid /\ a.a = "d" -> sc_deltree(c, a)
      [] a.by # sessionid /\ a.a = "m" -> sc_newnodes(sc_deltree(c, a), a)
      [] a.by # sessionid /\ a.a = "u" -> sc_updatenode(c, a)
      [] a.by # sessionid /\ a.a = "k" -> sc_keys(c, a)

\* procsc(): the actions after number "from" up to number "to"
procsc(c, from, to) ==
    LET after[n \in 0 .. to - from] ==
            IF n = 0 THEN c ELSE scAction(after[n - 1], log[from + n])
    IN  after[to - from]

-----------------------------------------------------------------------------
(* The cache: a table of records, and the sequence number they belong to.
   The client holds a node's record number in dbid. *)

Db(n, r) == [sn |-> n, rows |-> r]
NoRows == [i \in {} |-> 0]

\* Node::serialize()
record(h, n) == [h |-> h, parent |-> n.parent, v |-> n.v]

\* DbTable::put(): (nextid += IDSPACING) | type
nextrecord(id) == id + 1

\* One write of updatesc() and initsc() for node h, on x, the nodes, rows
\* and next record number so far.  A removed node's record is deleted if it
\* has one.  A node that does not serialize (its attributes are encrypted
\* still) is passed over: put() returns -1, which as a bool is true.
putnode(x, h) ==
    LET n == x.nodes[h]
        id == IF n.dbid = 0 THEN nextrecord(x.id) ELSE n.dbid
    IN  CASE n.removed /\ n.dbid # 0 ->
                [x EXCEPT !.rows = Without(@, {n.dbid})]
          [] ~(n.removed /\ n.dbid # 0) /\ ~n.clear -> x
          [] ~(n.removed /\ n.dbid # 0) /\ n.clear ->
                [rows |-> Over(One(id, record(h, n)), x.rows),
                 nodes |-> [x.nodes EXCEPT ![h].dbid = id],
                 id |-> IF n.dbid = 0 THEN id ELSE x.id]

\* x with the nodes of a list written
putall(x, list) ==
    LET after[n \in 0 .. Len(list)] ==
            IF n = 0 THEN x ELSE putnode(after[n - 1], list[n])
    IN  after[Len(list)]

\* The possible results of writing all nodes of S: updatesc() does it in the
\* order of their notification, initsc() in that of their handles.
putnodes(t, S, rows, id) ==
    {putall([rows |-> rows, nodes |-> t, id |-> id], list) :
        list \in SetToSeqs(S)}

\* what goes into the table as scsn; with an empty scsn it is whatever the
\* uninitialized tscsn holds
tscsn(n) == IF n # NoSn THEN {n} ELSE {cachedscsn, BadSn}

\* finalizesc(false): abort, truncate
aborted(n) == Db(NoSn, NoRows)

\* finalizesc(): commit, or give the cache up
finalizesc(n, x) ==
    \/ /\ \E t \in tscsn(n) : db' = Db(t, x.rows)
       /\ cachedscsn' = IF n = NoSn THEN cachedscsn ELSE n
       /\ nextid' = x.id
       /\ sctable' = sctable
    \/ /\ "fails" \in uses
       /\ db' = aborted(n)
       /\ sctable' = FALSE
       /\ nextid' = 0
       /\ cachedscsn' = cachedscsn

\* notifypurge(): write what has changed since the last time, then drop the
\* removed nodes; c is the tree with its notifications, n the current scsn.
\* updatesc() does nothing if the table has no sequence number.  Once ESID has
\* cleared scsn, it writes the nodes, and the number stays what it was.
notifypurge(c, n) ==
    LET changed == c.notify # {} \/ n \notin {NoSn, cachedscsn}
        cached  == changed /\ sctable /\ db.sn # NoSn
        written == IF cached THEN putnodes(c.nodes, c.notify, db.rows, nextid)
                   ELSE {[rows |-> db.rows, nodes |-> c.nodes, id |-> nextid]}
    IN  /\ \E x \in written :
             LET gone == {h \in c.notify : x.nodes[h].removed}
                 rest == Without(x.nodes, gone)
             IN  /\ nodes' = [h \in DOMAIN rest |->
                                IF rest[h].parent \in gone
                                THEN [rest[h] EXCEPT !.parent = None]
                                ELSE rest[h]]
                 /\ IF cached THEN finalizesc(n, x)
                    ELSE UNCHANGED <<cachedscsn, dbVars>>
        /\ nodenotify' = {}
        /\ adrift' = (adrift \/ (cached /\ n = NoSn /\ ~fetchingnodes))

\* Node::unserialize(), for record i of the nodes hs
unserialize(r, hs, i) ==
    Node(IF r.parent \in hs \union {Root} THEN r.parent ELSE None, r.v, TRUE, i)

\* the nodes of fetchsc(): the records of the table, linked to their parents
fetchsc(rows) ==
    LET hs == {rows[i].h : i \in DOMAIN rows}
        at(h) == CHOOSE i \in DOMAIN rows : rows[i].h = h
    IN  [h \in hs |-> unserialize(rows[at(h)], hs, at(h))]

\* Fault: the numbers in use are not noticed when the cache is read.
lastidNone(rows) == 0

\* DbTable::next(): nextid is the largest number read
lastid(rows) ==
    IF DOMAIN rows = {} THEN 0
    ELSE CHOOSE i \in DOMAIN rows : \A j \in DOMAIN rows : j <= i

-----------------------------------------------------------------------------
Init ==
    /\ session = "down"
    /\ sessionid = 1
    /\ loaded = FALSE
    /\ nodes = Empty
    /\ nodenotify = {}
    /\ scsn = NoSn
    /\ cachedscsn = NoSn
    /\ syncsup = TRUE
    /\ pendingsc = {}
    /\ scnotifyurl = FALSE
    /\ timer!Init
    /\ fetchingnodes = FALSE
    /\ cmds = << >>
    /\ sctable = FALSE
    /\ nextid = 0
    /\ db = Db(NoSn, NoRows)
    /\ adrift = FALSE
    /\ mixed = FALSE
    /\ tree = << Empty >>
    /\ log = << >>
    /\ mine = {}
    /\ uses \in Uses
    /\ own = 0
    /\ stops = 0

-----------------------------------------------------------------------------
(* Session *)

\* login() with a saved session: open the cache, announce its number
login ==
    /\ session = "down"
    /\ session' = "login"
    /\ sctable' = TRUE
    /\ nextid' = 0
    /\ cachedscsn' = db.sn
    /\ UNCHANGED <<sessionid, loaded, treeVars, scsn, syncsup, scVars,
                   fetchingnodes, cmds, db, adrift, mixed, serverVars, boundVars>>

\* CommandLogin::procresult(): the server may not be able to continue from
\* that number, and cannot if it does not know it
loginResult(continued) ==
    /\ session = "login"
    /\ continued => cachedscsn # BadSn
    /\ session' = "in"
    /\ cachedscsn' = IF continued THEN cachedscsn ELSE NoSn
    /\ UNCHANGED <<sessionid, loaded, treeVars, scsn, syncsup, scVars,
                   fetchingnodes, cmds, dbVars, adrift, mixed, serverVars, boundVars>>

\* Fault: the request outstanding survives.
dropscKept == pendingsc

\* purgenodesusersabortsc(): pendingsc->disconnect(), and init() forgets it
dropsc == {}

\* purgenodesusersabortsc()
purge ==
    /\ loaded' = FALSE
    /\ nodes' = Empty
    /\ nodenotify' = {}
    /\ scsn' = NoSn
    /\ pendingsc' = dropsc
    /\ scnotifyurl' = FALSE
    /\ syncsup' = TRUE

\* the beginning of fetchnodes(): opensctable(), and a table without a number
\* is emptied
reopen ==
    /\ sctable' = TRUE
    /\ nextid' = IF sctable THEN nextid ELSE 0
    /\ db' = IF cachedscsn = NoSn THEN Db(NoSn, NoRows) ELSE db

\* fetchnodes() from the server: everything is cleared and the tree requested
reload ==
    /\ purge
    /\ fetchingnodes' = TRUE
    /\ cmds' = Append(cmds, Command("f", None, None, NoSn))
    /\ reopen
    /\ UNCHANGED <<adrift, mixed>>

\* fetchnodes(), with a cache that is up to it: the session resumes.  A cache
\* that has been given up is empty, and its number still known.  A reload that
\* is under way has emptied the tree, so that a second call comes here, too;
\* what was requested is merged into the cached tree later.
fetchnodesCached ==
    /\ session = "in" /\ ~loaded
    /\ fetchingnodes => "again" \in uses
    /\ cachedscsn # NoSn
    /\ sctable
    /\ nodes' = fetchsc(db.rows)
    /\ nextid' = lastid(db.rows)
    /\ loaded' = TRUE
    /\ scsn' = cachedscsn
    /\ syncsup' = FALSE
    /\ adrift' = (adrift \/ db.sn = NoSn)
    /\ mixed' = (mixed \/ fetchingnodes)
    /\ UNCHANGED <<session, sessionid, nodenotify, cachedscsn, scVars,
                   fetchingnodes, cmds, sctable, db, serverVars, boundVars>>

\* fetchnodes(), without one, or one with a record that cannot be read
fetchnodes ==
    /\ session = "in" /\ ~loaded /\ ~fetchingnodes
    /\ reload
    /\ timer!reset
    /\ UNCHANGED <<session, sessionid, cachedscsn, serverVars, boundVars>>

\* fetchnodes() while the tree is on its way, with nothing in the cache or
\* with nodes there already: only the table is opened again, should it have
\* been given up.  The nodes keep the record numbers of the old one.
fetchnodesBusy ==
    /\ session = "in" /\ fetchingnodes /\ "again" \in uses
    /\ loaded \/ cachedscsn = NoSn
    /\ reopen
    /\ mixed' = (mixed \/ ~sctable)
    /\ UNCHANGED <<clientVars, cmds, adrift, serverVars, boundVars>>

\* fetchnodes() on a tree that is there: the app reloads it
fetchnodesAgain ==
    /\ session = "in" /\ loaded /\ ~fetchingnodes
    /\ stops < MaxStops
    /\ stops' = stops + 1
    /\ reload
    /\ timer!reset
    /\ UNCHANGED <<session, sessionid, cachedscsn, serverVars, uses, own>>

\* logout(), after which the app may log in again, or a crash, after which
\* the process is another one.  The cache file stays.  Commands that have
\* not reached the server are lost.
stop(crash) ==
    /\ session # "down"
    /\ stops < MaxStops
    /\ stops' = stops + 1
    /\ session' = "down"
    /\ sessionid' = IF crash THEN sessionid + 1 ELSE sessionid
    /\ purge
    /\ cachedscsn' = NoSn
    /\ fetchingnodes' = FALSE
    /\ cmds' = << >>
    /\ timer!reset
    /\ sctable' = FALSE
    /\ nextid' = 0
    /\ UNCHANGED <<db, adrift, mixed, serverVars, uses, own>>

-----------------------------------------------------------------------------
(* Results of own commands *)

\* initsc(): rewrite the cache
initsc(t, n) ==
    IF sctable
    THEN \E x \in putnodes(t, DOMAIN t, NoRows, nextid) :
            nodes' = x.nodes /\ finalizesc(n, x)
    ELSE nodes' = t /\ UNCHANGED <<cachedscsn, dbVars>>

\* CommandFetchNodes::procresult(): the tree as it was when the server
\* executed the command
fetchnodesResult ==
    /\ cmds # << >> /\ Head(cmds).op = "f" /\ Head(cmds).at # NoSn
    /\ cmds' = Tail(cmds)
    /\ fetchingnodes' = FALSE
    /\ LET n == Head(cmds).at
           c == readnodes(View(nodes, nodenotify), tree[n + 1], FALSE)
       IN  initsc(c.nodes, n) /\ scsn' = n
    /\ loaded' = TRUE
    /\ syncsup' = FALSE
    /\ adrift' = FALSE
    /\ UNCHANGED <<session, sessionid, nodenotify, scVars, mixed, serverVars,
                   boundVars>>

\* ... or an error: the app has to ask again
fetchnodesError ==
    /\ cmds # << >> /\ Head(cmds).op = "f" /\ Head(cmds).at = NoSn
    /\ stops < MaxStops
    /\ stops' = stops + 1
    /\ cmds' = Tail(cmds)
    /\ fetchingnodes' = FALSE
    /\ UNCHANGED <<sessionVars, treeVars, scsn, cachedscsn, syncsup, scVars,
                   dbVars, adrift, mixed, serverVars, uses, own>>

\* CommandPutNodes::procresult(): the new node joins the tree at once, as the
\* server has made it, and notifypurge() follows
putnodesResult ==
    /\ cmds # << >> /\ Head(cmds).op = "t" /\ Head(cmds).at # NoSn
    /\ cmds' = Tail(cmds)
    /\ LET q == Head(cmds)
           rec == SNode(q.p, q.at, TRUE)
       IN  notifypurge(readnodes(View(nodes, nodenotify), One(q.h, rec), TRUE),
                       scsn)
    /\ loaded' = TRUE
    /\ UNCHANGED <<session, sessionid, scsn, syncsup, scVars, fetchingnodes, mixed,
                   serverVars, boundVars>>

\* CommandMoveNode, CommandDelNode and failed commands: the app is told
otherResult ==
    /\ cmds # << >>
    /\ \/ Head(cmds).op \in {"d", "m"} /\ Head(cmds).at # NoSn
       \/ Head(cmds).op = "error"
    /\ cmds' = Tail(cmds)
    /\ UNCHANGED <<clientVars, dbVars, adrift, mixed, serverVars, boundVars>>

-----------------------------------------------------------------------------
(* Own commands *)

command(op, h, p) ==
    /\ session = "in" /\ loaded
    /\ op \in uses /\ own < MaxOwn
    /\ own' = own + 1
    /\ cmds' = Append(cmds, Command(op, h, p, NoSn))

live(h) == h \in DOMAIN nodes /\ ~nodes[h].removed

\* putnodes(): nothing changes before the result is there
putnodesNew(p) ==
    /\ p = Root \/ live(p)
    /\ command("t", None, p)
    /\ UNCHANGED <<clientVars, dbVars, adrift, mixed, serverVars, uses, stops>>

\* unlink(): the subtree is removed at once
unlink(h) ==
    /\ live(h)
    /\ command("d", h, None)
    /\ LET c == deltree(View(nodes, nodenotify), h)
       IN  nodes' = c.nodes /\ nodenotify' = c.notify
    /\ mine' = mine \union Subtree(nodes, h)
    /\ UNCHANGED <<sessionVars, scsn, cachedscsn, syncsup, scVars,
                   fetchingnodes, dbVars, adrift, mixed, tree, log, uses, stops>>

\* checkmove(): a target below the node is refused
checkmove(h, p) == p \notin Subtree(nodes, h) /\ p # nodes[h].parent

\* Node::setparent()
setparent(t, h, p) == [t EXCEPT ![h].parent = p]

\* rename(): the node is moved at once
rename(h, p) ==
    /\ live(h) /\ (p = Root \/ live(p))
    /\ checkmove(h, p)
    /\ command("m", h, p)
    /\ nodes' = setparent(nodes, h, p)
    /\ nodenotify' = nodenotify \union {h}
    /\ mine' = mine \union {h}
    /\ UNCHANGED <<sessionVars, scsn, cachedscsn, syncsup, scVars,
                   fetchingnodes, dbVars, adrift, mixed, tree, log, uses, stops>>

-----------------------------------------------------------------------------
(* The server-client part of exec(), and what follows it *)

\* post the request for what comes after scsn, or for the notification URL
scPost ==
    /\ session = "in"
    /\ pendingsc = {} /\ scsn # NoSn /\ timer!armed
    /\ pendingsc' = {[sn |-> scsn, status |-> "REQ_INFLIGHT", in |-> "none",
                      upto |-> scsn, waits |-> scnotifyurl]}
    /\ UNCHANGED <<sessionVars, treeVars, scsn, cachedscsn, syncsup,
                   scnotifyurl, btsc, fetchingnodes, cmds, dbVars, adrift, mixed,
                   serverVars, boundVars>>

\* it has been answered; what is in it does not matter for the URL
answered == \E q \in pendingsc : q.status # "REQ_INFLIGHT"

\* the notification URL has answered, whatever it said
scNotified ==
    /\ scnotifyurl /\ answered
    /\ pendingsc' = {}
    /\ scnotifyurl' = FALSE
    /\ UNCHANGED <<sessionVars, treeVars, scsn, cachedscsn, syncsup, btsc,
                   fetchingnodes, cmds, dbVars, adrift, mixed, serverVars, boundVars>>

\* pendingsc has come back with this content; the syncs must be up first
received(content) ==
    /\ ~scnotifyurl /\ syncsup
    /\ \E q \in pendingsc : q.status = "REQ_SUCCESS" /\ q.in = content

\* a response: actions and the number they lead to, or none and a URL
scResponse ==
    /\ received("updates")
    /\ \E q \in pendingsc :
         /\ LET c == procsc(View(nodes, nodenotify), q.sn, q.upto)
            IN  nodes' = c.nodes /\ nodenotify' = c.notify
         /\ scsn' = q.upto
         /\ scnotifyurl' = (q.upto = q.sn)
         /\ pendingsc' = {}
    /\ timer!reset
    /\ UNCHANGED <<sessionVars, cachedscsn, syncsup, fetchingnodes, cmds,
                   dbVars, adrift, mixed, serverVars, boundVars>>

\* ETOOMANY: too many pending updates, fetchnodes(), which does nothing but
\* open the table if the tree is on its way
scTooMany ==
    /\ received("ETOOMANY")
    /\ IF fetchingnodes
       THEN /\ reopen
            /\ pendingsc' = {}
            /\ UNCHANGED <<loaded, treeVars, scsn, syncsup, scnotifyurl,
                           fetchingnodes, cmds, adrift, mixed>>
       ELSE reload
    /\ timer!backoff
    /\ UNCHANGED <<session, sessionid, cachedscsn, serverVars, boundVars>>

\* any failure is repeated; after ESID there is nothing left to ask for
scFailure ==
    /\ \/ ~scnotifyurl /\ \E q \in pendingsc : q.status = "REQ_FAILURE"
       \/ received("ESID")
    /\ pendingsc' = {}
    /\ scsn' = IF received("ESID") THEN NoSn ELSE scsn
    /\ timer!backoff
    /\ UNCHANGED <<sessionVars, treeVars, cachedscsn, syncsup, scnotifyurl,
                   fetchingnodes, cmds, dbVars, adrift, mixed, serverVars, boundVars>>

elapse ==
    /\ timer!elapse
    /\ UNCHANGED <<sessionVars, treeVars, scsn, cachedscsn, syncsup, pendingsc,
                   scnotifyurl, fetchingnodes, cmds, dbVars, adrift, mixed,
                   serverVars, boundVars>>

\* no sync is scanning its folder for the first time (any more)
syncsAreUp ==
    /\ ~syncsup
    /\ syncsup' = TRUE
    /\ UNCHANGED <<sessionVars, treeVars, scsn, cachedscsn, scVars,
                   fetchingnodes, cmds, dbVars, adrift, mixed, serverVars, boundVars>>

\* notifypurge() from exec(); active syncs that wait for a lock delay it
execNotifypurge ==
    /\ session = "in"
    /\ nodenotify # {} \/ scsn \notin {NoSn, cachedscsn}
    /\ sctable \/ nodenotify # {}
    /\ notifypurge(View(nodes, nodenotify), scsn)
    /\ UNCHANGED <<sessionVars, scsn, syncsup, scVars, fetchingnodes, cmds, mixed,
                   serverVars, boundVars>>

-----------------------------------------------------------------------------
(* API server (external) *)

\* an update by client b makes the tree t
update(op, b, h, v, recs, t) ==
    /\ now < MaxLog
    /\ log' = Append(log, [a |-> op, by |-> b, h |-> h, v |-> v, recs |-> recs])
    /\ tree' = Append(tree, t)

there(p) == p = Root \/ p \in DOMAIN latest

addNode(b, h, p, k) ==
    LET n == One(h, SNode(p, now + 1, k))
    IN  /\ \A i \in DOMAIN tree : h \notin DOMAIN tree[i]
        /\ there(p)
        /\ update("t", b, h, now + 1, n, Over(n, latest))

delNode(b, h) ==
    /\ h \in DOMAIN latest
    /\ update("d", b, h, 0, Empty, Without(latest, Subtree(latest, h)))

moveNode(b, h, p) ==
    /\ h \in DOMAIN latest /\ there(p)
    /\ p \notin Subtree(latest, h) /\ p # latest[h].parent
    /\ LET t == [latest EXCEPT ![h].parent = p]
       IN  update("m", b, h, 0, [x \in Subtree(t, h) |-> t[x]], t)

Others == 0

\* another client, or the web site
otherClient ==
    /\ \E h \in Handle :
         \/ \E p \in Handle \union {Root}, k \in {TRUE, "late" \notin uses} :
                addNode(Others, h, p, k)
         \/ delNode(Others, h)
         \/ \E p \in Handle \union {Root} : moveNode(Others, h, p)
         \/ /\ h \in DOMAIN latest
            /\ update("u", Others, h, now + 1, Empty,
                      [latest EXCEPT ![h].v = now + 1])
         \/ /\ h \in DOMAIN latest /\ ~latest[h].clear
            /\ update("k", Others, h, 0, Empty,
                      [latest EXCEPT ![h].clear = TRUE])
    /\ UNCHANGED <<clientVars, cmds, dbVars, adrift, mixed, mine, boundVars>>

\* the first own command the server has not executed yet
Waiting == {i \in DOMAIN cmds : cmds[i].at = NoSn /\ cmds[i].op # "error"}

serverExecutes ==
    /\ Waiting # {}
    /\ LET i == CHOOSE i \in Waiting : \A j \in Waiting : i <= j
           q == cmds[i]
           done(h, n) == cmds' = [cmds EXCEPT ![i] = Command(q.op, h, q.p, n)]
           refused == cmds' = [cmds EXCEPT ![i] = Command("error", q.h, q.p, q.at)]
       IN  \/ /\ q.op = "f"
              /\ done(None, now)
              /\ UNCHANGED serverVars
           \/ /\ q.op = "t"
              /\ \E h \in Handle : /\ addNode(sessionid, h, q.p, TRUE)
                                   /\ done(h, now + 1)
                                   /\ mine' = mine \union {h}
           \/ /\ q.op = "d"
              /\ delNode(sessionid, q.h)
              /\ done(q.h, now + 1)
              /\ mine' = mine
           \/ /\ q.op = "m"
              /\ moveNode(sessionid, q.h, q.p)
              /\ done(q.h, now + 1)
              /\ mine' = mine
           \/ /\ q.op = "t" /\ ~there(q.p)
              /\ refused
              /\ UNCHANGED serverVars
           \/ /\ q.op \in {"d", "m"}
              /\ ~there(q.h) \/ (q.op = "m" /\ ~there(q.p))
              /\ refused
              /\ UNCHANGED serverVars
    /\ UNCHANGED <<clientVars, dbVars, adrift, mixed, boundVars>>

\* the request outstanding is answered: with some of the updates after its
\* number if there are any (one that waits for them: at any time), with an
\* error, or not at all
serverAnswers ==
    /\ \E q \in pendingsc :
         LET answer(status, in, n) ==
                 pendingsc' = {[q EXCEPT !.status = status, !.in = in, !.upto = n]}
         IN  /\ q.status = "REQ_INFLIGHT"
             /\ \/ /\ \E n \in q.sn .. now :
                         /\ n = q.sn => q.sn = now
                         /\ answer("REQ_SUCCESS", "updates", n)
                   /\ UNCHANGED stops
                \/ /\ answer("REQ_FAILURE", "none", q.sn)
                   /\ UNCHANGED stops
                \/ /\ stops < MaxStops /\ ~q.waits
                   /\ stops' = stops + 1
                   /\ \E e \in {"ETOOMANY", "ESID"} :
                          answer("REQ_SUCCESS", e, q.sn)
    /\ UNCHANGED <<sessionVars, treeVars, scsn, cachedscsn, syncsup,
                   scnotifyurl, btsc, fetchingnodes, cmds, dbVars, adrift, mixed,
                   serverVars, uses, own>>

-----------------------------------------------------------------------------
Engine ==
    \/ login
    \/ \E continued \in BOOLEAN : loginResult(continued)
    \/ fetchnodesCached \/ fetchnodes \/ fetchnodesBusy
    \/ fetchnodesResult \/ putnodesResult \/ otherResult
    \/ scPost \/ scNotified \/ scResponse \/ scTooMany \/ scFailure \/ elapse
    \/ syncsAreUp \/ execNotifypurge

App ==
    \/ fetchnodesAgain
    \/ \E crash \in BOOLEAN : stop(crash)
    \/ \E p \in Handle \union {Root} : putnodesNew(p)
    \/ \E h \in Handle : unlink(h)
    \/ \E h \in Handle, p \in Handle \union {Root} : rename(h, p)

Server == otherClient \/ serverExecutes \/ serverAnswers \/ fetchnodesError

Next == Engine \/ App \/ Server

Spec == Init /\ [][Next]_vars

\* handles are only ever compared for equality
Symmetry == Permutations(Handle)

-----------------------------------------------------------------------------
TypeOK ==
    /\ session \in {"down", "login", "in"}
    /\ sessionid \in Nat \ {0}
    /\ loaded \in BOOLEAN
    /\ DOMAIN nodes \subseteq Handle
    /\ \A h \in DOMAIN nodes :
          nodes[h] \in [parent : Handle \union {Root, None}, v : 0 .. MaxLog,
                        clear : BOOLEAN, removed : BOOLEAN, dbid : Nat]
    /\ nodenotify \subseteq DOMAIN nodes
    /\ scsn \in {NoSn} \union 0 .. MaxLog
    /\ cachedscsn \in {NoSn, BadSn} \union 0 .. MaxLog
    /\ syncsup \in BOOLEAN
    /\ scnotifyurl \in BOOLEAN
    /\ btsc \in timer!Phases
    /\ fetchingnodes \in BOOLEAN
    /\ sctable \in BOOLEAN /\ nextid \in Nat
    /\ db.sn \in {NoSn, BadSn} \union 0 .. MaxLog
    /\ Len(tree) = Len(log) + 1

\* nodes that own commands work on, and those whose keys are late
touched == mine \union {h \in Handle : \E i \in DOMAIN tree :
                            h \in DOMAIN tree[i] /\ ~tree[i][h].clear}

\* Nodes that only others have worked on, that could always be read and that
\* have never been below one of which this cannot be said: an own command that
\* the process does not survive, that the server refuses or that is replayed
\* from the log leaves its node, and what is below it, ahead of or behind the
\* server, and a node whose key is late is not written to the cache.
Foreign ==
    UNION {S \in SUBSET Handle :
              /\ S \intersect touched = {}
              /\ \A i \in DOMAIN tree : \A h \in S \intersect DOMAIN tree[i] :
                    tree[i][h].parent \in S \union {Root}}

\* n is what the server has
Same(n, s) == n.v = s.v /\ n.parent = s.parent

(* Whenever the process stops, what it finds in the cache later is the
   server's tree at the recorded sequence number: no node the server had then
   is missing, older, newer or there twice.  updatesc() only writes the nodes
   notified since the last time, so one notification lost, one record
   overwritten or one number recorded without its nodes would never be
   repaired.  (Nodes the server no longer has may be there: NothingLeftOver.)
   It is not claimed after a write to the cache has failed (adrift), nor once
   fetchnodes() has been called again during a reload and has loaded the cache
   or opened it anew (mixed): NumberIsAssociated has neither exception. *)
CacheComplete ==
    db.sn >= 0 /\ ~adrift /\ ~mixed =>
        \A h \in Foreign \intersect DOMAIN tree[db.sn + 1] :
            \E i \in DOMAIN db.rows :
                /\ Same(db.rows[i], tree[db.sn + 1][h])
                /\ \A j \in DOMAIN db.rows : db.rows[j].h = h <=> j = i

(* The response that is applied continues exactly where the tree is: a
   reload, a logout or a resumed session in between has dropped the request
   (procsc() does not look at the number a response starts from).  The
   exception is a second fetchnodes() during a reload (mixed): the cached number
   is polled from, and the tree that arrives sets another one. *)
PollContinues == ~mixed => \A q \in pendingsc : q.sn = scsn /\ session = "in"

UpToDate == session = "in" /\ loaded /\ scsn = now /\ cmds = << >>

\* every node that others have created is there
AllThere ==
    \A h \in Foreign \intersect DOMAIN latest :
        h \in DOMAIN nodes /\ ~nodes[h].removed /\ Same(nodes[h], latest[h])

(* A client that has seen all updates has every node that others have
   created, in its place and with its content, whatever was read from the
   server, restored from the cache, delivered in several responses or moved
   around before - with the exceptions of CacheComplete. *)
NothingMissing == UpToDate /\ ~adrift /\ ~mixed => AllThere

(* "1. update associated scsn" (megaclient.cpp:1922), "only initial load from
   local cache" (megaclient.cpp:4701): the number that a session continues from
   is the one its nodes belong to, also after the cache has been given up, and
   after fetchnodes() has been called again before the tree was there, so that
   a client that has seen all updates lacks nothing. *)
NumberIsAssociated == UpToDate => AllThere

(* "if immediate-completion commands have been issued in the meantime, the
   state of the affected nodes may be ahead of the recorded scsn - their
   consistency will be checked by subsequent server-client commands"
   (megaclient.cpp:1855): when all of them have been processed, the client
   shows no node that the server no longer has. *)
NothingLeftOver ==
    UpToDate => \A h \in DOMAIN nodes : ~nodes[h].removed => h \in DOMAIN latest
=============================================================================

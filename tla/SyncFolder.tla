----------------------------- MODULE SyncFolder -----------------------------
(***************************************************************************)
(* Two-way synchronisation of a folder's files: the local file system and  *)
(* its change notifications, the LocalNode tree and its cache, syncdown(), *)
(* syncup() and syncupdate(), the transfers they start, SyncDebris and the *)
(* remote changes of others (src/sync.cpp, src/megaclient.cpp,             *)
(* src/node.cpp, src/file.cpp, src/filefingerprint.cpp).                   *)
(*                                                                         *)
(* A user changes the folder on disk and other clients change its remote   *)
(* counterpart, at any time; the engine works in the phases of exec(), and *)
(* the disk may change between them.  The synchronised folder is a child   *)
(* of the sync's root and is there on both sides; its items are files.     *)
(*                                                                         *)
(* A file's content is a version number and differs in size from every     *)
(* other; mtimes are chosen freely.  A fingerprint is version and mtime.   *)
(***************************************************************************)
EXTENDS Integers, Sequences, FiniteSets, SequencesExt

CONSTANTS
    Name,         \* file names
    Time,         \* modification times
    Locks,        \* may a local file operation fail transiently?
    Losses,       \* may the kernel drop change notifications? (they are never
                  \* unavailable for good, when exec() rescans for ever)
    MaxChanges,   \* bound: changes by the user and by other clients, restarts
                  \* and overflows of the kernel's event queue
    MaxRefusals   \* bound: additions the server refuses

ASSUME SyncAssumption ==
    /\ IsFiniteSet(Name) /\ IsFiniteSet(Time) /\ Time \subseteq Nat
    /\ Locks \in BOOLEAN /\ Losses \in BOOLEAN
    /\ MaxChanges \in Nat /\ MaxRefusals \in Nat

VARIABLES
    disk,         \* the files on disk by name
    inotify,      \* names in the kernel's event queue
    state,        \* Sync::state, "off" while the application is stopped
    pc,           \* phase of exec(): "idle", "down", "up"; or "crashed"
    notifyq,      \* notifyq[DIREVENTS]: names to be looked at
    fullscan,     \* Sync::fullscan
    notifyerr,    \* dirnotify->error or fsaccess->notifyerr
    ls,           \* the LocalNodes by name
    cache,        \* records of the state cache table
    insertq,      \* LocalNodes to be written to it
    deleteq,      \* records to be deleted from it
    nodes,        \* the client's nodes by handle
    nodenotify,   \* nodes notified
    folderdeleted,\* the deleted flag of the folder's own LocalNode
    todebris,     \* nodes on their way to SyncDebris
    debris,       \* which part of //bin/SyncDebris/<day> exists
    cmds,         \* own commands outstanding
    syncadded,    \* a tree update is pending
    syncnagleretry,\* an upload waits for its delay to pass
    syncdownretry, syncfsopsfailed,  \* a local operation is to be retried
    syncscanfailed,\* a rescan has been started
    srv,          \* server: its nodes
    sc,           \* server: updates not delivered yet
    untracked,    \* history: a file was moved, or deleted, in a way that is not notified
    undone,       \* history: a refused addition has not been tried again yet
    renamed,      \* history: a file was renamed for a remote rename
    ids,          \* versions and fsids given out
    user, other, stops, losses, refusals  \* so far

diskVars == <<disk, inotify, untracked, renamed>>
scanVars == <<state, pc, notifyq, fullscan, notifyerr>>
localVars == <<ls, cache, insertq, deleteq>>
nodeVars == <<nodes, nodenotify, folderdeleted, todebris, debris>>
retryVars == <<syncadded, syncnagleretry, syncdownretry, syncfsopsfailed,
               syncscanfailed, undone>>
serverVars == <<srv, sc>>
boundVars == <<user, other, stops, losses, refusals>>
changes == user + other + stops + losses
vars == <<diskVars, scanVars, localVars, nodeVars, cmds, retryVars,
          serverVars, ids, boundVars>>

NoFile == [id |-> 0, v |-> 0, mt |-> 0]
File(i, v, t) == [id |-> i, v |-> v, mt |-> t]

\* LocalNode: fsid and fingerprint; its Node; scans it has not been seen in;
\* its record in the cache, if it has one
LocalNode(f, h) ==
    [id |-> f.id, v |-> f.v, mt |-> f.mt, node |-> h, deleted |-> FALSE,
     notseen |-> FALSE, nagle |-> TRUE, put |-> FALSE, unseen |-> 0, row |-> {}]
NoLocal == [LocalNode(NoFile, 0) EXCEPT !.nagle = FALSE]

\* Node: ln is its LocalNode's name, get tells whether it is being fetched
Node(n, v, t, w) ==
    [name |-> n, v |-> v, mt |-> t, where |-> w, del |-> "NONE",
     ln |-> {}, get |-> FALSE, removed |-> FALSE]

SNode(n, v, t) == [name |-> n, v |-> v, mt |-> t, where |-> "folder"]

present(l) == l.id # 0
samefile(x, y) == x.v = y.v /\ x.mt = y.mt
Put(f, k, x) == [j \in DOMAIN f \union {k} |-> IF j = k THEN x ELSE f[j]]
Drop(f, S) == [j \in DOMAIN f \ S |-> f[j]]

-----------------------------------------------------------------------------
(* What the engine works on during a phase.  ub: freed memory was used.  ok:
   no local operation failed.  wait: a file waits for its upload delay. *)

Now ==
    [disk |-> disk, inotify |-> inotify, full |-> fullscan, ls |-> ls,
     cache |-> cache, ins |-> insertq, dels |-> deleteq, nodes |-> nodes,
     notify |-> nodenotify, fdel |-> folderdeleted, todebris |-> todebris,
     cmds |-> cmds, lost |-> untracked, renamed |-> renamed, ub |-> FALSE, ok |-> TRUE,
     wait |-> FALSE, create |-> {}]

Become(c) ==
    /\ disk' = c.disk /\ inotify' = c.inotify /\ fullscan' = c.full
    /\ ls' = c.ls /\ cache' = c.cache /\ insertq' = c.ins /\ deleteq' = c.dels
    /\ nodes' = c.nodes /\ nodenotify' = c.notify /\ folderdeleted' = c.fdel
    /\ todebris' = c.todebris /\ cmds' = c.cmds /\ untracked' = c.lost
    /\ renamed' = c.renamed

Names == SetToSeq(Name)
every(Op(_, _), c) == FoldLeft(Op, c, Names)

command(c, q) == [c EXCEPT !.cmds = Append(@, q)]
Cmd(op, h, n, v, t, to) ==
    [op |-> op, h |-> h, name |-> n, v |-> v, mt |-> t, to |-> to, done |-> "no"]

\* the file on disk at name n is one whose LocalNode has another name still
moved(d, l, n) == d[n] # NoFile /\ \E m \in Name \ {n} : l[m].id = d[n].id

\* ... and its content is another one, too
rewritten(d, l, n) ==
    d[n] # NoFile /\ \E m \in Name \ {n} : l[m].id = d[n].id /\ ~samefile(l[m], d[n])

\* rename(2): file f gets name n, whatever is there
place(c, n, f) ==
    [c EXCEPT !.disk[n] = f, !.lost = @ \/ moved(c.disk, c.ls, n)]

\* the kernel reports a change of name n
event(c, n) == [c EXCEPT !.inotify = Append(@, n)]

\* Fault: the record to be replaced is to be deleted only.
statecacheaddOnly(c, n) == [c EXCEPT !.dels = @ \union c.ls[n].row]

\* statecacheadd()
statecacheadd(c, n) == [c EXCEPT !.ins = @ \union {n}, !.dels = @ \ c.ls[n].row]

\* LocalNode::serialize()
serialize(n, l) == [name |-> n, id |-> l.id, v |-> l.v, mt |-> l.mt, node |-> l.node]

\* cachenodes(): one transaction
cachenodes(c) ==
    LET rec(n) == serialize(n, c.ls[n])
        old == UNION {c.ls[n].row : n \in c.ins}
    IN  [c EXCEPT !.cache = (@ \ (c.dels \union old)) \union {rec(n) : n \in c.ins},
                  !.ls = [n \in Name |-> IF n \in c.ins
                                         THEN [c.ls[n] EXCEPT !.row = {rec(n)}]
                                         ELSE c.ls[n]],
                  !.dels = {}, !.ins = {}]

\* notifynode(): a node that has left the synchronised tree marks its
\* LocalNode for deletion, one that has no LocalNode marks the folder's
notifynode(c, h) ==
    LET n == c.nodes[h]
        left == n.ln # {} /\ n.where # "folder"
        d == [c EXCEPT !.notify = @ \union {h}]
    IN  IF left
        THEN [d EXCEPT !.ls = [x \in Name |->
                                IF x \in n.ln
                                THEN [c.ls[x] EXCEPT !.deleted = TRUE, !.node = 0]
                                ELSE c.ls[x]],
                       !.nodes[h].ln = {}]
        ELSE [d EXCEPT !.ls = [x \in Name |->
                                IF x \in n.ln
                                THEN [c.ls[x] EXCEPT !.deleted = n.removed]
                                ELSE c.ls[x]],
                       !.fdel = IF n.ln = {} /\ n.where = "folder"
                                THEN n.removed ELSE @]

\* Node::~Node(), of all nodes of S: the LocalNode it knows is detached
delNodes(c, S) ==
    LET lost == UNION {c.nodes[h].ln : h \in S}
    IN  [c EXCEPT !.nodes = Drop(@, S), !.todebris = @ \ S,
                  !.ls = [x \in Name |->
                            IF x \in lost
                            THEN [c.ls[x] EXCEPT !.deleted = TRUE, !.node = 0]
                            ELSE c.ls[x]]]

\* notifypurge()
notifypurge(c) ==
    [delNodes(c, {h \in c.notify : c.nodes[h].removed}) EXCEPT !.notify = {}]

\* does the pointer of LocalNode n to its Node lead nowhere?
dangling(c, n) == c.ls[n].node # 0 /\ c.ls[n].node \notin DOMAIN c.nodes

\* LocalNode::setnode()
setnode(c, n, h) ==
    LET old == c.ls[n].node
    IN  [c EXCEPT !.ub = @ \/ dangling(c, n),
                  !.ls[n].deleted = FALSE, !.ls[n].node = h,
                  !.nodes = [x \in DOMAIN @ |->
                                CASE x = h -> [@[x] EXCEPT !.ln = {n}]
                                  [] x = old /\ x # h -> [@[x] EXCEPT !.ln = {}]
                                  [] x \notin {h, old} -> @[x]]]

\* movetosyncdebris()
movetosyncdebris(c, h) ==
    [c EXCEPT !.nodes[h].del = "DELETED", !.nodes[h].ln = {},
              !.ls = [x \in Name |-> IF x \in c.nodes[h].ln
                                     THEN [c.ls[x] EXCEPT !.node = 0]
                                     ELSE c.ls[x]],
              !.todebris = @ \union {h}]

\* Fault: the Node stays where it is.
delLocalOnly(c, n) == [c EXCEPT !.ls[n] = NoLocal, !.ins = @ \ {n},
                                !.dels = @ \union c.ls[n].row]

\* LocalNode::~LocalNode(): the Node goes to SyncDebris
delLocal(c, n) ==
    LET h == c.ls[n].node
        d == IF h \in DOMAIN c.nodes THEN movetosyncdebris(c, h)
             ELSE [c EXCEPT !.ub = @ \/ dangling(c, n)]
    IN  [d EXCEPT !.ls[n] = NoLocal, !.ins = @ \ {n},
                  !.dels = @ \union c.ls[n].row]

\* setnameparent(): LocalNode m gets name n, and so does its Node
setname(c, m, n) ==
    LET h == c.ls[m].node
        d == [c EXCEPT !.ls = [@ EXCEPT ![n] = c.ls[m], ![m] = NoLocal],
                       !.ins = IF m \in @ THEN (@ \ {m}) \union {n} ELSE @,
                       !.nodes = [x \in DOMAIN @ |-> IF m \in @[x].ln
                                                     THEN [@[x] EXCEPT !.ln = {n}]
                                                     ELSE @[x]],
                       !.ub = @ \/ dangling(c, m)]
    IN  IF h \in DOMAIN c.nodes /\ c.nodes[h].name # n
        THEN command(notifynode([d EXCEPT !.nodes[h].name = n], h),
                     Cmd("attr", h, n, 0, 0, ""))
        ELSE d

-----------------------------------------------------------------------------
(* Looking at the disk *)

\* the LocalNode that has the fsid of a file (fsidnode)
fsidnode(c, f) == {m \in Name : present(c.ls[m]) /\ c.ls[m].id = f.id}

seen(l) == [l EXCEPT !.notseen = FALSE, !.unseen = 0]

\* Fault: what is gone from disk is not noted.
checkmissingNot(c, n) == c

\* checkpath(), nothing there: the deletion is noted, and executed later
checkmissing(c, n) ==
    IF present(c.ls[n])
    THEN [c EXCEPT !.ls[n].put = FALSE, !.ls[n].notseen = @ \/ ~c.full,
                   !.lost = @ \/ (c.full /\ (state = "ACTIVE" \/ c.ls[n].unseen = 0))]
    ELSE c

\* checkpath(), a new file, or a known one under a new name
checknew(c, n) ==
    LET f == c.disk[n]
    IN  IF fsidnode(c, f) # {}
        THEN LET m == CHOOSE m \in fsidnode(c, f) : TRUE
                 d == statecacheadd(setname(c, m, n), n)
             IN  [d EXCEPT !.ls[n] = seen(@)]
        ELSE statecacheadd([c EXCEPT !.ls[n] = LocalNode(f, 0)], n)

\* checkpath(), a file with a LocalNode: overwritten by a known file,
\* changed or unchanged
checkknown(c, n) ==
    LET f == c.disk[n]
        l == c.ls[n]
    IN  CASE l.id # f.id /\ fsidnode(c, f) # {} -> checknew(delLocal(c, n), n)
          [] (l.id # f.id /\ fsidnode(c, f) = {}) \/ (l.id = f.id /\ ~samefile(l, f)) ->
                statecacheadd([c EXCEPT !.ls[n] =
                    [seen(@) EXCEPT !.id = f.id, !.v = f.v, !.mt = f.mt,
                                    !.put = FALSE, !.nagle = TRUE,
                                    !.deleted = FALSE]], n)
          [] l.id = f.id /\ samefile(l, f) ->
                [c EXCEPT !.ls[n] = [seen(@) EXCEPT !.deleted = @ /\ ~c.full]]

checkpath(c, n) ==
    IF c.disk[n] = NoFile THEN checkmissing(c, n)
    ELSE IF present(c.ls[n]) THEN checkknown(c, n) ELSE checknew(c, n)

\* procscanq() on the names of q: up to and including the first that has a
\* file; the result and how many have been looked at
procscanq(c, q) ==
    LET go[i \in 0 .. Len(q)] ==
            IF i = 0 THEN [c |-> c, n |-> 0]
            ELSE IF go[i - 1].n < i - 1 \/
                    (i > 1 /\ c.disk[q[i - 1]] # NoFile)
                 THEN go[i - 1]
                 ELSE [c |-> checkpath(go[i - 1].c, q[i]), n |-> i]
    IN  go[Len(q)]

\* scan(): the names of all files on disk
scan(d) == SelectSeq(Names, LAMBDA n : d[n] # NoFile)

\* scanseqno++
nextscan(c) == [c EXCEPT !.ls = [n \in Name |->
                                    IF present(c.ls[n])
                                    THEN [c.ls[n] EXCEPT !.unseen = @ + 1]
                                    ELSE c.ls[n]]]

\* deletemissing(): LocalNodes not seen in two consecutive scans
deletemissing(c) ==
    every(LAMBDA d, n : IF present(d.ls[n]) /\ d.ls[n].unseen > 1
                        THEN delLocal(d, n) ELSE d, c)

-----------------------------------------------------------------------------
(* Remote to local *)

children(c, n) ==
    {h \in DOMAIN c.nodes : /\ c.nodes[h].where = "folder"
                            /\ c.nodes[h].name = n
                            /\ c.nodes[h].del = "NONE"}

\* addchild(): of several nodes of a name, the newest and largest
addchild(c, n) ==
    CHOOSE h \in children(c, n) :
        \A x \in children(c, n) :
            \/ c.nodes[h].mt > c.nodes[x].mt
            \/ c.nodes[h].mt = c.nodes[x].mt /\ c.nodes[h].v >= c.nodes[x].v

\* a LocalNode is given the newer remote node of its name
link(c, n) ==
    LET b == addchild(c, n)
        h == c.ls[n].node
    IN  IF h = 0 \/ (h # b /\ (dangling(c, n) \/ c.nodes[b].mt > c.nodes[h].mt))
        THEN statecacheadd(setnode(c, n, b), n) ELSE c

\* is the remote file different and not older?
wanted(c, n) ==
    /\ children(c, n) # {}
    /\ \/ ~present(c.ls[n])
       \/ /\ c.ls[n].mt <= c.nodes[addchild(c, n)].mt
          /\ ~samefile(c.ls[n], c.nodes[addchild(c, n)])

\* movetolocaldebris()
movetolocaldebris(c, n) ==
    IF c.disk[n] = NoFile THEN c ELSE event([c EXCEPT !.disk[n] = NoFile], n)

\* the file goes to the local debris folder, and its LocalNode is deleted; a
\* file that has changed stays
deleteLocally(c, n, locked) ==
    IF c.disk[n] # NoFile /\ ~samefile(c.disk[n], c.ls[n])
    THEN [c EXCEPT !.ls[n].deleted = FALSE]
    ELSE IF n \in locked THEN [c EXCEPT !.ok = FALSE]
    ELSE delLocal(movetolocaldebris(c, n), n)

\* syncdown(), first part: the LocalNodes
syncdownLocal(c, n, locked) ==
    CASE ~present(c.ls[n]) -> c
      [] present(c.ls[n]) /\ children(c, n) # {} ->
            LET d == link(c, n)
            IN  IF wanted(c, n) THEN [d EXCEPT !.nodes[addchild(c, n)].ln = {}]
                ELSE d
      [] present(c.ls[n]) /\ children(c, n) = {} ->
            IF c.ls[n].deleted THEN deleteLocally(c, n, locked) ELSE c

\* syncdown(), second part: a node with a LocalNode elsewhere has been
\* renamed, any other is fetched
syncdownRemote(c, n, h, locked) ==
    LET m == c.nodes[h].ln
        old == CHOOSE x \in m : TRUE
    IN  CASE m = {} -> [c EXCEPT !.nodes[h].get = TRUE]
          [] m # {} /\ n \in locked -> [c EXCEPT !.ok = FALSE]
          [] m # {} /\ n \notin locked ->
                IF c.disk[old] = NoFile THEN c
                ELSE setname(event(place([c EXCEPT !.disk[old] = NoFile, !.renamed = TRUE], n,
                                         c.disk[old]), n), old, n)

syncdown(c, locked) ==
    LET d == every(LAMBDA x, n : syncdownLocal(x, n, locked), c)
        want == {n \in Name : wanted(c, n)}
    IN  every(LAMBDA x, n : IF n \in want
                            THEN syncdownRemote(x, n, addchild(c, n), locked)
                            ELSE x, d)

-----------------------------------------------------------------------------
(* Local to remote *)

\* the file is on disk as it was found last
uploadable(c, n) == c.disk[n] # NoFile /\ samefile(c.disk[n], c.ls[n])

\* syncup() of a file whose remote counterpart is missing or out of date
syncupFile(c, n) ==
    LET l == c.ls[n]
        d == [c EXCEPT !.wait = TRUE, !.ls[n].nagle = TRUE]
    IN  CASE l.put -> c
          [] ~l.put /\ l.nagle -> d
          [] ~l.put /\ ~l.nagle /\ ~uploadable(c, n) ->
                IF c.disk[n] = NoFile THEN d
                ELSE statecacheadd([d EXCEPT !.ls[n].v = c.disk[n].v,
                                             !.ls[n].mt = c.disk[n].mt], n)
          [] ~l.put /\ ~l.nagle /\ uploadable(c, n) ->
                [c EXCEPT !.create = @ \union {n}]

syncup(c, n) ==
    LET l == c.ls[n]
        b == addchild(c, n)
    IN  CASE ~present(l) \/ l.deleted -> c
          [] present(l) /\ ~l.deleted /\ children(c, n) = {} -> syncupFile(c, n)
          [] present(l) /\ ~l.deleted /\ children(c, n) # {} ->
                IF c.nodes[b].get \/ l.mt < c.nodes[b].mt THEN c
                ELSE IF samefile(l, c.nodes[b]) THEN link(c, n)
                ELSE syncupFile(link(c, n), n)

\* nodebyfingerprint()
nodebyfingerprint(c, l) == {h \in DOMAIN c.nodes : samefile(c.nodes[h], l)}

\* syncupdate(): what the server has already is copied, all else uploaded
syncupdate(c, n) ==
    LET l == c.ls[n]
        d == IF l.node \in DOMAIN c.nodes THEN movetosyncdebris(c, l.node)
             ELSE [c EXCEPT !.ub = @ \/ dangling(c, n)]
    IN  CASE n \notin c.create -> c
          [] n \in c.create /\ nodebyfingerprint(c, l) # {} ->
                command(d, Cmd("put", 0, n, l.v, l.mt, "folder"))
          [] n \in c.create /\ nodebyfingerprint(c, l) = {} ->
                [c EXCEPT !.ls[n].put = TRUE]

\* rename() into the debris folder, as far as it exists
tobin(c, h) ==
    command(notifynode([c EXCEPT !.nodes[h] = [@ EXCEPT !.where = "bin",
                                               !.get = FALSE, !.del = "INFLIGHT"]],
                       h),
            Cmd("move", h, "", 0, 0, debris))

\* execmovetosyncdebris(): deleted nodes move to any target, those that were
\* moved to another one move on when the folder of the day is there
execmovetosyncdebris(c) ==
    LET moves(h) == \/ c.nodes[h].del = "DELETED"
                    \/ c.nodes[h].del \in {"BIN", "DEBRIS"} /\ debris = "DEBRISDAY"
        done == {h \in c.todebris : ~moves(h) /\ c.nodes[h].del # "INFLIGHT"}
        d == FoldLeft(tobin, c, SetToSeq({h \in c.todebris : moves(h)}))
        e == [d EXCEPT !.todebris = @ \ done,
                       !.nodes = [h \in DOMAIN @ |-> IF h \in done
                                                     THEN [@[h] EXCEPT !.del = "NONE"]
                                                     ELSE @[h]]]
        adding == \E i \in DOMAIN c.cmds : c.cmds[i].op = "mkdebris"
    IN  IF debris # "DEBRISDAY" /\ e.todebris # {} /\ ~adding
        THEN command(e, Cmd("mkdebris", 0, "", 0, 0, "")) ELSE e

-----------------------------------------------------------------------------
Init ==
    LET f == CHOOSE n \in Name : TRUE
        row(t) == [name |-> f, id |-> 1, v |-> 1, mt |-> t, node |-> 1]
        none == [n \in Name |-> NoFile]
    IN  \E t \in Time :   \* one file, synchronised
        /\ disk = [none EXCEPT ![f] = File(1, 1, t)]
        /\ inotify = << >> /\ untracked = FALSE /\ renamed = FALSE
        /\ state = "ACTIVE" /\ pc = "idle"
        /\ notifyq = << >>
        /\ fullscan = FALSE /\ notifyerr = FALSE
        /\ ls = [n \in Name |-> IF n = f
                                THEN [LocalNode(File(1, 1, t), 1) EXCEPT
                                        !.nagle = FALSE, !.row = {row(t)}]
                                ELSE NoLocal]
        /\ cache = {row(t)} /\ insertq = {} /\ deleteq = {}
        /\ nodes = [h \in {1} |-> [Node(f, 1, t, "folder") EXCEPT !.ln = {f}]]
        /\ nodenotify = {}
        /\ folderdeleted = FALSE
        /\ todebris = {} /\ debris = "BIN"
        /\ cmds = << >>
        /\ syncadded = FALSE /\ syncnagleretry = FALSE
        /\ syncdownretry = FALSE /\ syncfsopsfailed = FALSE
        /\ syncscanfailed = FALSE /\ undone = FALSE
        /\ srv = [h \in {1} |-> SNode(f, 1, t)]
        /\ sc = << >>
        /\ ids = 1
        /\ user = 0 /\ other = 0 /\ stops = 0 /\ losses = 0 /\ refusals = 0

-----------------------------------------------------------------------------
(* The phases of exec() *)

\* syncadding: no synchronisation while nodes are being added
syncadding == \E i \in DOMAIN cmds : cmds[i].op = "put"

next(c, p) == pc' = IF c.ub THEN "crashed" ELSE p

\* the changes notified, of which those older than 300 ms are looked at; the
\* first scan is complete when there are none left; notifypurge()
execScan ==
    LET timer == syncnagleretry /\ \E n \in Name : present(ls[n]) /\ ~ls[n].nagle
        ops == syncadded \/ timer \/ notifyq # << >>
    IN  /\ pc = "idle" /\ state # "off"
        /\ ~syncdownretry /\ ~syncadding
        /\ ops \/ nodenotify # {} \/ state = "INITIALSCAN"
        /\ \E ripe \in 0 .. IF syncfsopsfailed THEN 0 ELSE Len(notifyq) :
             LET r == procscanq(Now, SubSeq(notifyq, 1, ripe))
                 rest == SubSeq(notifyq, r.n + 1, Len(notifyq))
                 up == state = "INITIALSCAN" /\ rest = << >>
                 c == IF up THEN deletemissing(nextscan([r.c EXCEPT !.full = FALSE]))
                      ELSE r.c
             IN  /\ notifyq' = rest
                 /\ state' = IF up THEN "ACTIVE" ELSE state
                 /\ Become(notifypurge(IF state' = "ACTIVE" THEN cachenodes(c) ELSE c))
                 /\ next(c, IF ops THEN "down" ELSE "idle")
                 /\ syncadded' = (c.notify # {})
        /\ syncnagleretry' = (syncnagleretry /\ ~timer)
        /\ UNCHANGED <<notifyerr, debris, syncdownretry, syncfsopsfailed,
                       syncscanfailed, undone, serverVars, ids, boundVars>>

\* syncdown(); nothing else happens before all notifications are processed
execDown ==
    /\ pc = "down"
    /\ \E locked \in IF Locks THEN {{}, Name} ELSE {{}} :
         LET c == IF state = "ACTIVE" THEN cachenodes(syncdown(Now, locked)) ELSE Now
         IN  /\ Become(c)
             /\ next(c, IF notifyq = << >> THEN "up" ELSE "idle")
             /\ syncfsopsfailed' = ~c.ok
             /\ syncdownretry' = ~c.ok
             /\ notifyerr' = (notifyerr \/ ~c.ok)
    /\ UNCHANGED <<state, notifyq, debris, syncadded, syncnagleretry,
                   syncscanfailed, undone, serverVars, ids, boundVars>>

\* deletions noted, syncup(), syncupdate(), a rescan if notifications have
\* been lost, and the way to SyncDebris.  A rescan looks at the folder first,
\* which is not deleted then, and at its files.
execUp ==
    /\ pc = "up"
    /\ LET a == every(LAMBDA c, n : IF c.ls[n].notseen THEN delLocal(c, n) ELSE c, Now)
           b == IF folderdeleted THEN a ELSE every(syncup, a)
           c == every(syncupdate, cachenodes(b))
           d == IF fullscan THEN cachenodes(deletemissing(c)) ELSE c
           rescan == notifyerr /\ state = "ACTIVE"
           e == [IF rescan THEN nextscan(d) ELSE d EXCEPT
                    !.lost = @ \/ (rescan /\ \E n \in Name : present(ls[n]) /\ disk[n] = NoFile),
                    !.full = IF state = "ACTIVE" THEN rescan ELSE @,
                    !.fdel = @ /\ ~rescan, !.create = {}]
           f == IF e.todebris # {} THEN execmovetosyncdebris(e) ELSE e
       IN  IF syncfsopsfailed
           THEN /\ Become(a)
                /\ next(a, "idle")
                /\ UNCHANGED <<notifyq, notifyerr, syncnagleretry, syncscanfailed, undone>>
           ELSE /\ Become(f)
                /\ next(f, "idle")
                /\ notifyq' = IF rescan THEN scan(disk) ELSE notifyq
                /\ notifyerr' = (notifyerr /\ ~rescan)
                /\ syncnagleretry' = (syncnagleretry \/ f.wait)
                /\ syncscanfailed' = rescan
                /\ undone' = (undone /\ folderdeleted)
    /\ UNCHANGED <<state, debris, syncadded, syncdownretry, syncfsopsfailed,
                   serverVars, ids, boundVars>>

\* timers: the delay of an upload has passed
nagleElapse(n) ==
    /\ ls[n].nagle
    /\ ls' = [ls EXCEPT ![n].nagle = FALSE]
    /\ UNCHANGED <<diskVars, scanVars, cache, insertq, deleteq, nodeVars,
                   cmds, retryVars, serverVars, ids, boundVars>>

\* ... or the pause after a failed local operation
retryElapse ==
    /\ syncdownretry
    /\ syncdownretry' = FALSE
    /\ syncadded' = TRUE
    /\ UNCHANGED <<diskVars, scanVars, localVars, nodeVars, cmds,
                   syncnagleretry, syncfsopsfailed, syncscanfailed, undone, serverVars,
                   ids, boundVars>>

\* ... or the one after a rescan was started
scanElapse ==
    /\ syncscanfailed
    /\ syncscanfailed' = FALSE
    /\ syncadded' = TRUE
    /\ UNCHANGED <<diskVars, scanVars, localVars, nodeVars, cmds, syncnagleretry,
                   syncdownretry, syncfsopsfailed, undone, serverVars, ids, boundVars>>

\* checkevents(); an overflow of the kernel's queue is noticed
checkevents ==
    /\ pc = "idle" /\ state # "off" /\ inotify # << >>
    /\ \/ /\ notifyq' = notifyq \o inotify
          /\ UNCHANGED <<notifyerr, losses>>
       \/ /\ Losses /\ changes < MaxChanges
          /\ losses' = losses + 1
          /\ notifyerr' = TRUE
          /\ UNCHANGED notifyq
    /\ inotify' = << >>
    /\ UNCHANGED <<disk, untracked, renamed, state, pc, fullscan, localVars, nodeVars, cmds,
                   retryVars, serverVars, ids, user, other, stops, refusals>>

-----------------------------------------------------------------------------
(* Transfers and commands *)

\* Fault: the node that was there is not moved away.
completedBeside(n) ==
    command([Now EXCEPT !.ls[n].put = FALSE],
            Cmd("put", 0, n, ls[n].v, ls[n].mt, "folder"))

\* LocalNode::completed(): to //bin if the remote file is newer by now, else
\* in place of it
completed(n) ==
    LET c == [Now EXCEPT !.ls[n].put = FALSE, !.ub = dangling(Now, n)]
        h == ls[n].node
        newer == h \in DOMAIN nodes /\ ls[n].mt < nodes[h].mt
    IN  IF newer THEN command(c, Cmd("put", 0, n, ls[n].v, ls[n].mt, "bin"))
        ELSE command(IF h \in DOMAIN nodes
                     THEN execmovetosyncdebris(movetosyncdebris(c, h)) ELSE c,
                     Cmd("put", 0, n, ls[n].v, ls[n].mt, "folder"))

\* an upload has finished and the file has not changed; if it has, the
\* attempt fails and is repeated until checkpath() stops it
putCompleted(n) ==
    /\ pc = "idle" /\ state # "off"
    /\ ls[n].put /\ uploadable(Now, n)
    /\ Become(completed(n))
    /\ next(completed(n), "idle")
    /\ UNCHANGED <<state, notifyq, notifyerr, debris, retryVars, serverVars, ids,
                   boundVars>>

\* a download has finished: the file is put in place, over what is there
getCompleted(h) ==
    /\ pc = "idle" /\ state # "off"
    /\ nodes[h].get
    /\ LET n == nodes[h].name
           f == File(ids + 1, nodes[h].v, nodes[h].mt)
           c == checkpath(event(place([Now EXCEPT !.nodes[h].get = FALSE], n, f), n), n)
       IN  Become(c) /\ next(c, "idle")
    /\ ids' = ids + 1
    /\ UNCHANGED <<state, notifyq, notifyerr, debris, retryVars, serverVars,
                   boundVars>>

\* the result of a command.  putnodes_sync_result() does nothing about an
\* error (it sets syncactivity, which exec() clears before it looks at it).
result(q) ==
    LET c == [Now EXCEPT !.cmds = Tail(@)]
        n == Node(q.name, q.v, q.mt, q.to)
        d == [c EXCEPT !.nodes = Put(@, q.h, n)]
        l == statecacheadd(setnode(d, q.name, q.h), q.name)
    IN  CASE q.op = "put" /\ q.done = "ok" -> \* readnodes(), notifypurge()
                IF present(ls[q.name]) THEN notifypurge(notifynode(l, q.h))
                ELSE [c EXCEPT !.ub = TRUE]
          [] q.op = "move" /\ q.done = "ok" ->
                [c EXCEPT !.nodes = [h \in DOMAIN @ |->
                     IF h = q.h /\ h \in todebris THEN [@[h] EXCEPT !.del = q.to]
                     ELSE @[h]]]
          [] q.op = "move" /\ q.done = "error" -> \* syncn->syncdeleted = NONE
                IF q.h \in DOMAIN nodes
                THEN [c EXCEPT !.nodes[q.h].del = "NONE"]
                ELSE [c EXCEPT !.ub = TRUE]
          [] OTHER -> c

procresult ==
    /\ pc = "idle" /\ state # "off"
    /\ cmds # << >> /\ Head(cmds).done # "no"
    /\ LET c == result(Head(cmds))
       IN  Become(c) /\ next(c, "idle")
    /\ syncadded' = (syncadded \/ (Head(cmds).op = "put" /\ Head(cmds).done = "ok"))
    /\ debris' = IF Head(cmds).op = "mkdebris" /\ Head(cmds).done = "ok"
                 THEN "DEBRISDAY" ELSE debris
    /\ undone' = (undone \/ (Head(cmds).op = "put" /\ Head(cmds).done = "error"))
    /\ UNCHANGED <<state, notifyq, notifyerr, syncnagleretry, syncdownretry,
                   syncfsopsfailed, syncscanfailed, serverVars, ids, boundVars>>

\* sc_newnodes(), sc_deltree(), sc_updatenode() on an update by others
scUpdate(c, a) ==
    LET gone == notifynode([c EXCEPT !.nodes[a.h].removed = TRUE], a.h)
        back == [gone EXCEPT !.nodes[a.h] = [@ EXCEPT !.removed = FALSE,
                                             !.where = "bin", !.get = FALSE]]
    IN  CASE a.a = "t" -> notifynode([c EXCEPT !.nodes = Put(@, a.h,
                                  Node(a.name, a.v, a.mt, "folder"))], a.h)
          [] a.a # "t" /\ a.h \notin DOMAIN c.nodes -> c
          [] a.a = "d" /\ a.h \in DOMAIN c.nodes -> gone
          [] a.a = "m" /\ a.h \in DOMAIN c.nodes -> notifynode(back, a.h)
          [] a.a = "u" /\ a.h \in DOMAIN c.nodes ->
                notifynode([c EXCEPT !.nodes[a.h].name = a.name], a.h)

\* not before the first scan is complete (syncsup); an update of a node this
\* client has just added is assumed to follow the result that tells it so
\* (module StateCache has both orders)
procsc ==
    /\ pc = "idle" /\ state = "ACTIVE" /\ sc # << >>
    /\ \A i \in DOMAIN cmds : cmds[i].op = "put" => cmds[i].h # Head(sc).h
    /\ Become(scUpdate(Now, Head(sc)))
    /\ sc' = Tail(sc)
    /\ UNCHANGED <<state, pc, notifyq, notifyerr, debris, retryVars, srv, ids,
                   boundVars>>

-----------------------------------------------------------------------------
(* Stop and restart.  The client's tree is restored from its own cache (module
   StateCache). *)

\* the tree as it is restored: the client's, with the updates still to come, or
\* the server's, with what it has executed of the commands outstanding
restored ==
    IF sc # << >>
    THEN [h \in {h \in DOMAIN nodes : ~nodes[h].removed} |->
             [nodes[h] EXCEPT !.del = "NONE", !.ln = {}, !.get = FALSE]]
    ELSE [h \in {h \in DOMAIN srv : srv[h].where # "gone"} |->
             Node(srv[h].name, srv[h].v, srv[h].mt, srv[h].where)]

\* in any phase of exec(), and with commands outstanding if no update is (bound:
\* not with both)
stop ==
    /\ state # "off" /\ pc # "crashed"
    /\ cmds = << >> \/ sc = << >>
    /\ changes < MaxChanges
    /\ stops' = stops + 1
    /\ state' = "off" /\ pc' = "idle"
    /\ ls' = [n \in Name |-> NoLocal]
    /\ insertq' = {} /\ deleteq' = {}
    /\ inotify' = << >> /\ notifyq' = << >>
    /\ fullscan' = FALSE /\ notifyerr' = FALSE
    /\ nodes' = restored
    /\ nodenotify' = {}
    /\ folderdeleted' = FALSE
    /\ todebris' = {}
    /\ debris' = IF \E i \in DOMAIN cmds : cmds[i].op = "mkdebris" /\ cmds[i].done = "ok"
                 THEN "DEBRISDAY" ELSE debris
    /\ cmds' = << >>
    /\ syncadded' = FALSE /\ syncnagleretry' = FALSE
    /\ syncdownretry' = FALSE /\ syncfsopsfailed' = FALSE
    /\ syncscanfailed' = FALSE /\ undone' = FALSE
    /\ UNCHANGED <<disk, untracked, renamed, cache, serverVars, ids, user, other, losses,
                   refusals>>

\* readstatecache(): the scan number is increased once the tree is there
unseenSince == 1

\* LocalNode::unserialize()
unserialize(r) ==
    [LocalNode(r, IF r.node \in DOMAIN nodes THEN r.node ELSE 0) EXCEPT !.row = {r}]

\* readstatecache(): the LocalNodes with their nodes
readstatecache ==
    LET row(n) == {r \in cache : r.name = n}
    IN  [n \in Name |->
            IF row(n) = {} THEN NoLocal
            ELSE LET r == CHOOSE r \in row(n) : TRUE
                 IN  [unserialize(r) EXCEPT !.unseen = unseenSince]]

\* addsync(): scan() queues the folder's items
addsync ==
    /\ state = "off"
    /\ state' = "INITIALSCAN"
    /\ ls' = readstatecache
    /\ nodes' = [h \in DOMAIN nodes |->
                    [nodes[h] EXCEPT !.ln = {n \in Name : readstatecache[n].node = h}]]
    /\ notifyq' = scan(disk)
    /\ fullscan' = TRUE
    /\ syncadded' = TRUE
    /\ untracked' = (untracked \/ \E n \in Name : rewritten(disk, readstatecache, n))
    /\ UNCHANGED <<disk, inotify, renamed, pc, notifyerr, cache, insertq, deleteq,
                   nodenotify, folderdeleted, todebris, debris, cmds, syncnagleretry,
                   syncdownretry, syncfsopsfailed, syncscanfailed, undone, serverVars, ids,
                   boundVars>>

-----------------------------------------------------------------------------
(* The user, at any time *)

change(d, ev) ==
    /\ changes < MaxChanges /\ pc # "crashed"
    /\ user' = user + 1
    /\ disk' = d
    /\ inotify' = IF state = "off" THEN inotify ELSE Append(inotify, ev)
    /\ untracked' = (untracked \/ (moved(disk, ls, ev) /\ d[ev].id # disk[ev].id)
                               \/ \E n \in Name : rewritten(d, ls, n))
    /\ UNCHANGED <<renamed, scanVars, localVars, nodeVars, cmds, retryVars,
                   serverVars, other, stops, losses, refusals>>

\* create, overwrite or replace a file
write(n, t, i) ==
    /\ i \in {ids + 1} \union (IF disk[n] = NoFile THEN {} ELSE {disk[n].id})
    /\ ids' = ids + 1
    /\ change([disk EXCEPT ![n] = File(i, ids + 1, t)], n)

remove(n) ==
    /\ disk[n] # NoFile
    /\ ids' = ids
    /\ change([disk EXCEPT ![n] = NoFile], n)

\* IN_MOVED_FROM is followed by IN_MOVED_TO: only the new name is notified
move(n, m) ==
    /\ disk[n] # NoFile /\ n # m
    /\ ids' = ids
    /\ change([disk EXCEPT ![n] = NoFile, ![m] = disk[n]], m)

-----------------------------------------------------------------------------
(* API server and other clients (external) *)

infolder(h) == h \in DOMAIN srv /\ srv[h].where = "folder"

serverExecutes ==
    /\ \E i \in DOMAIN cmds :
         /\ cmds[i].done = "no" /\ \A j \in 1 .. i - 1 : cmds[j].done # "no"
         /\ LET q == cmds[i]
                new == Cardinality(DOMAIN srv) + 1
                known == q.h \in DOMAIN srv /\ srv[q.h].where # "gone"
                finish(e, h) == cmds' = [cmds EXCEPT ![i].done = e, ![i].h = h]
            IN  \/ /\ q.op = "put"
                   /\ srv' = Put(srv, new, [SNode(q.name, q.v, q.mt) EXCEPT !.where = q.to])
                   /\ finish("ok", new)
                   /\ UNCHANGED refusals
                \/ /\ q.op = "put" /\ refusals < MaxRefusals
                   /\ refusals' = refusals + 1
                   /\ finish("error", 0)
                   /\ srv' = srv
                \/ /\ q.op = "attr" /\ known
                   /\ srv' = [srv EXCEPT ![q.h].name = q.name]
                   /\ finish("ok", q.h)
                   /\ UNCHANGED refusals
                \/ /\ q.op = "move" /\ known
                   /\ srv' = [srv EXCEPT ![q.h].where = "bin"]
                   /\ finish("ok", q.h)
                   /\ UNCHANGED refusals
                \/ /\ q.op \in {"attr", "move"} /\ ~known
                   /\ finish("error", q.h)
                   /\ UNCHANGED <<srv, refusals>>
                \/ /\ q.op = "mkdebris"
                   /\ finish("ok", q.h)
                   /\ UNCHANGED <<srv, refusals>>
    /\ UNCHANGED <<diskVars, scanVars, localVars, nodeVars, retryVars, sc, ids,
                   user, other, stops, losses>>

otherClient(a, h, n, v, t, rec) ==
    /\ changes < MaxChanges /\ pc # "crashed"
    /\ other' = other + 1
    /\ srv' = Put(srv, h, rec)
    /\ sc' = Append(sc, [a |-> a, h |-> h, name |-> n, v |-> v, mt |-> t])
    /\ UNCHANGED <<diskVars, scanVars, localVars, nodeVars, cmds, retryVars,
                   user, stops, losses, refusals>>

otherAdds(n, t) ==
    /\ otherClient("t", Cardinality(DOMAIN srv) + 1, n, ids + 1, t,
                   SNode(n, ids + 1, t))
    /\ ids' = ids + 1

otherBins(h) ==
    /\ infolder(h)
    /\ otherClient("m", h, "", 0, 0, [srv[h] EXCEPT !.where = "bin"])
    /\ ids' = ids

otherDeletes(h) ==
    /\ infolder(h)
    /\ otherClient("d", h, "", 0, 0, [srv[h] EXCEPT !.where = "gone"])
    /\ ids' = ids

otherRenames(h, n) ==
    /\ infolder(h) /\ srv[h].name # n
    /\ otherClient("u", h, n, 0, 0, [srv[h] EXCEPT !.name = n])
    /\ ids' = ids

-----------------------------------------------------------------------------
Engine ==
    \/ execScan \/ execDown \/ execUp \/ retryElapse \/ scanElapse \/ checkevents
    \/ \E n \in Name : nagleElapse(n) \/ putCompleted(n)
    \/ \E h \in DOMAIN nodes : getCompleted(h)
    \/ procresult \/ procsc \/ addsync

Environment ==
    \/ stop \/ serverExecutes
    \/ \E n \in Name, t \in Time : otherAdds(n, t)
    \/ \E n \in Name, t \in Time, i \in 1 .. ids + 1 : write(n, t, i)
    \/ \E n \in Name : remove(n)
    \/ \E n, m \in Name : move(n, m)
    \/ \E h \in DOMAIN srv : otherBins(h) \/ otherDeletes(h)
    \/ \E h \in DOMAIN srv, n \in Name : otherRenames(h, n)

Next == Engine \/ Environment

Spec == Init /\ [][Next]_vars

-----------------------------------------------------------------------------
Handles == DOMAIN srv
Contents == 0 .. ids

TypeOK ==
    /\ disk \in [Name -> [id : Contents, v : Contents, mt : Time \union {0}]]
    /\ inotify \in Seq(Name) /\ notifyq \in Seq(Name)
    /\ state \in {"off", "INITIALSCAN", "ACTIVE"}
    /\ pc \in {"idle", "down", "up", "crashed"}
    /\ \A n \in Name :
          /\ ls[n].id \in Contents /\ ls[n].node \in Handles \union {0}
          /\ ls[n].unseen \in 0 .. 2
          /\ ls[n].row \subseteq cache
    /\ DOMAIN nodes \subseteq Handles
    /\ \A h \in DOMAIN nodes :
          /\ nodes[h].ln \subseteq Name
          /\ nodes[h].del \in {"NONE", "DELETED", "INFLIGHT", "BIN", "DEBRISDAY"}
    /\ nodenotify \subseteq DOMAIN nodes
    /\ todebris \subseteq DOMAIN nodes
    /\ insertq \subseteq Name /\ deleteq \subseteq cache

\* nothing is left to do: no change is on its way in either direction
Quiescent ==
    /\ state = "ACTIVE" /\ pc = "idle"
    /\ inotify = << >> /\ notifyq = << >> /\ ~notifyerr
    /\ cmds = << >> /\ sc = << >> /\ nodenotify = {}
    /\ ~syncadded /\ ~syncnagleretry /\ ~syncdownretry /\ ~syncfsopsfailed
    /\ ~syncscanfailed
    /\ \A n \in Name : ~ls[n].put
    /\ \A h \in DOMAIN nodes : ~nodes[h].get

remote(n) == {h \in DOMAIN srv : srv[h].where = "folder" /\ srv[h].name = n}

newest(S) == CHOOSE h \in S : \A x \in S : \/ srv[h].mt > srv[x].mt
                                           \/ srv[h].mt = srv[x].mt /\ srv[h].v >= srv[x].v

\* of each name the newest remote version is on disk, or none is
Agree == \A n \in Name : IF remote(n) = {} THEN disk[n] = NoFile
                         ELSE samefile(disk[n], srv[newest(remote(n))])

(* Whatever the user and other clients did and in which order it was noticed,
   over restarts and refused additions that have been tried again, when
   nothing is left to do the folder has the same files on both sides.  Except:
   an addition the server has refused, until syncup() runs again (undone),
   which nothing but another change makes it do; a folder whose own LocalNode
   is marked as deleted, until a rescan (folderdeleted); and what is not
   notified (untracked): the old name of a file that was moved and then
   changed, replaced or removed before its new name was looked at, and a
   deletion that only a rescan could show, for deletemissing() wants the file
   missed by two scans and there is one. *)
Converged == Quiescent /\ ~folderdeleted /\ ~untracked /\ ~undone => Agree

(* "initiate a full rescan if there has been an event notification failure":
   with it, both sides get to agree although notifications have been lost. *)
RescanConverges == Quiescent /\ ~folderdeleted /\ ~undone /\ losses > 0 => Agree

(* The client alone, while it is not restarted (what is on its way to
   SyncDebris is forgotten then), never leaves two remote files of the same
   name, although an overwritten file is moved away and its successor added by
   separate commands, of which the server may refuse the second. *)
NoDupes == Quiescent /\ other = 0 /\ stops = 0 => \A n \in Name : Cardinality(remote(n)) <= 1

(* A node refers to a LocalNode that is there and refers back to it. *)
BackPointers ==
    \A h \in DOMAIN nodes : \A n \in nodes[h].ln : ls[n].node = h

(* The Node destructor detaches the LocalNode ("sync: remove reference from
   local filesystem node"): no LocalNode refers to a Node that is gone. *)
NoDangling == \A n \in Name : ~dangling(Now, n)

\* the records of the cache table are those of the LocalNodes
Mirrors ==
    {serialize(r.name, r) : r \in cache}
        = {serialize(n, ls[n]) : n \in {n \in Name : present(ls[n])}}

(* The cache table has a record of every LocalNode as it is, and no other,
   when nothing is left to do, although records are queued, replaced and
   renamed while scans, uploads, deletions and the changes of others go on.
   Except: a LocalNode that syncdown() has renamed keeps the record of its old
   name (renamed); and one whose addition was refused keeps the handle of the
   node it replaces until it is added (undone). *)
CacheMirrors == Quiescent /\ ~renamed /\ ~undone => Mirrors

(* The cache table has the LocalNodes as they are, those that syncdown() has
   renamed for a remote rename included. *)
RenamedIsCached == Quiescent /\ ~undone => Mirrors
=============================================================================

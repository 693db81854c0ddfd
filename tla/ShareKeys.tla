------------------------------ MODULE ShareKeys ------------------------------
(***************************************************************************)
(* Shares, share keys, node keys and users (src/megaclient.cpp,            *)
(* src/share.cpp, src/sharenodekeys.cpp, src/pubkeyaction.cpp,             *)
(* src/user.cpp, src/node.cpp, src/commands.cpp).  One folder of the       *)
(* account is shared with other users and by exported link, by this client *)
(* and by another session of the account; another folder is shared with    *)
(* the account.  Commands are answered in order (module CsChannel), the    *)
(* server's actions arrive in packets of their own.                        *)
(*                                                                         *)
(* Keys are numbers, 0 is no key.  The server and the other session are    *)
(* the environment.                                                        *)
(***************************************************************************)
EXTENDS Integers, Sequences, FiniteSets, FiniteSetsExt, SequencesExt

CONSTANTS
    User, Registered,    \* other users, and those that have a public key
    File,                \* files that are or may be added to the own folder
    Ask,                 \* how the server asks for node keys
    Uses,                \* bound: of "out", "in", "users", what one behaviour does
    MaxCalls,            \* bound: calls of the application
    MaxOthers,           \* bound: steps of other sessions and of the server
    MaxFaults            \* bound: failing commands

ASSUME ShareAssumption ==
    /\ Registered \subseteq User /\ File \subseteq Nat
    /\ Ask \subseteq {"list", "selector", "snk"}
    /\ Uses \subseteq SUBSET {"out", "in", "users"}
    /\ MaxCalls \in Nat /\ MaxOthers \in Nat /\ MaxFaults \in Nat

EXP == "EXP"        \* EXPORTEDLINK

VARIABLES
    node,         \* the own folder here: "yes", "removed", "no"
    files,        \* its files that are known here
    sharekey,     \* its share key
    outshares,    \* the peers it is shared with
    inbound,      \* the folder shared with us: [node, share, key, read]
    users,        \* User records: whose, known by handle, by email, public key, pkrs
    uhindex, umindex,  \* records by handle, by email
    cmds, answers,     \* commands on their way, their results on the way back
    srv,          \* the server's view: [there, key, shares, cr, ukey, inbound]
    pending,      \* packets of actions for this client
    told,         \* users whose handle and email have been confirmed
    unsent,       \* files whose node keys have been asked for and could have been sent
    stale, misdirected,   \* histories, see OutAgrees and SharesAsAsked
    wrong,        \* an element of an empty list has been used
    use, keys, calls, others, faults

folderVars == <<node, files, sharekey, outshares, inbound>>
userVars == <<users, uhindex, umindex>>
clientVars == <<folderVars, userVars, cmds, told, unsent, keys>>
historyVars == <<stale, misdirected, wrong>>
vars == <<clientVars, answers, srv, pending, historyVars, use, calls, others, faults>>

Unknown == [node |-> "no", share |-> FALSE, key |-> 0, read |-> FALSE]

Init ==
    /\ node = "yes" /\ sharekey = 0 /\ outshares = {}
    /\ files \in IF File = {} THEN {{}} ELSE {{}, {Min(File)}}
    /\ inbound = Unknown
    /\ users = << >> /\ uhindex = << >> /\ umindex = << >>
    /\ cmds = << >> /\ answers = << >>
    /\ srv = [there |-> TRUE, key |-> 0, shares |-> {}, cr |-> [f \in files |-> 0],
              ukey |-> << >>, inbound |-> FALSE]
    /\ pending = << >>
    /\ told = {} /\ unsent = {}
    /\ stale = FALSE /\ misdirected = FALSE /\ wrong = FALSE
    /\ use \in Uses
    /\ keys = 0 /\ calls = 0 /\ others = 0 /\ faults = 0

\* the client's state, as an operation works on it
Client == [node |-> node, files |-> files, key |-> sharekey, out |-> outshares,
           in |-> inbound, users |-> users, uh |-> uhindex, um |-> umindex,
           cmds |-> cmds, told |-> told, unsent |-> unsent, keys |-> keys,
           new |-> << >>, wrong |-> wrong]

Become(c) ==
    /\ node' = c.node /\ files' = c.files /\ sharekey' = c.key /\ outshares' = c.out
    /\ inbound' = c.in /\ users' = c.users /\ uhindex' = c.uh /\ umindex' = c.um
    /\ cmds' = c.cmds /\ told' = c.told /\ unsent' = c.unsent /\ keys' = c.keys
    /\ wrong' = c.wrong

command(c, x) == [c EXCEPT !.cmds = Append(@, x)]

Insert(f, k, x) == [j \in DOMAIN f \union {k} |-> IF j = k THEN x ELSE f[j]]

\* a loop over a list that works on the client's state
Each(step(_, _), c, s) ==
    LET f[n \in 0 .. Len(s)] == IF n = 0 THEN c ELSE step(f[n - 1], s[n])
    IN  f[Len(s)]

-----------------------------------------------------------------------------
(* Users are found by handle or by e-mail address; both belong to u *)

Record(u, byHandle) == [who |-> u, uh |-> byHandle, email |-> ~byHandle, pubk |-> FALSE,
                        pkrs |-> << >>]

\* finduser(uh, 1) and finduser(email, 1)
adduser(c, u, byHandle) ==
    LET d == [c EXCEPT !.users = Append(@, Record(u, byHandle))]
        n == Len(d.users)
    IN  CASE byHandle /\ u \in DOMAIN c.uh -> c
          [] ~byHandle /\ u \in DOMAIN c.um -> c
          [] byHandle /\ u \notin DOMAIN c.uh -> [d EXCEPT !.uh = Insert(@, u, n)]
          [] ~byHandle /\ u \notin DOMAIN c.um -> [d EXCEPT !.um = Insert(@, u, n)]

\* Fault: an address that is known already is not led to the other record.
mapuserOnce(c, u) ==
    IF u \in DOMAIN c.uh
    THEN IF u \in DOMAIN c.um THEN [c EXCEPT !.told = @ \union {u}]
         ELSE [c EXCEPT !.users[c.uh[u]].email = TRUE, !.um = Insert(@, u, c.uh[u]),
                        !.told = @ \union {u}]
    ELSE IF u \in DOMAIN c.um
         THEN [c EXCEPT !.uh = Insert(@, u, c.um[u]), !.users[c.um[u]].uh = TRUE,
                        !.told = @ \union {u}]
         ELSE c

\* the missing index entry is added
mapuser(c, u) ==
    CASE u \in DOMAIN c.uh ->
            LET i == c.uh[u]
                d == [c EXCEPT !.told = @ \union {u}]
            IN  IF c.users[i].email THEN d
                ELSE [d EXCEPT !.users[i].email = TRUE, !.um = Insert(@, u, i)]
      [] u \notin DOMAIN c.uh /\ u \in DOMAIN c.um ->
            [c EXCEPT !.uh = Insert(@, u, c.um[u]), !.users[c.um[u]].uh = TRUE,
                      !.told = @ \union {u}]
      [] u \notin DOMAIN c.uh /\ u \notin DOMAIN c.um -> c

\* readusers()
readuser(c, u) == mapuser(adduser(c, u, TRUE), u)

-----------------------------------------------------------------------------
(* Actions that wait for a user's public key.  i is the user's record, 0 none *)

\* CommandSetShare: rec and to are the user it is for, or none and the public,
\* for is whom the application has named
setShareCommand(rec, to, for, set, key, new, cr) ==
    [op |-> "s", rec |-> rec, to |-> to, for |-> for, set |-> set, key |-> key,
     new |-> new, cr |-> cr]

\* PubKeyActionCreateShare::proc(): without a share key one is made up, and
\* the node keys of all files go along
createShare(c, i, act) ==
    LET new == c.key = 0
        d == IF new THEN [c EXCEPT !.keys = @ + 1, !.key = c.keys + 1] ELSE c
    IN  IF c.node = "no" THEN c
        ELSE command(d, setShareCommand(i, IF i = 0 THEN EXP ELSE c.users[i].who, act.for,
                                        act.set, d.key, new, IF new THEN c.files ELSE {}))

\* PubKeyActionSendShareKey::proc() and CommandShareKeyUpdate
sendShareKey(c, i) ==
    IF i # 0 /\ c.node # "no" /\ c.key # 0
    THEN command(c, [op |-> "sk", to |-> c.users[i].who, key |-> c.key])
    ELSE c

procAction(c, i, act) ==
    IF act.op = "create" THEN createShare(c, i, act) ELSE sendShareKey(c, i)

\* Fault: only a share to be created requests the key.
queuepubkeyreqCreate(c, i, act) ==
    CASE i = 0 -> procAction(c, i, act)
      [] i # 0 /\ c.users[i].pubk -> procAction(c, i, act)
      [] i # 0 /\ ~c.users[i].pubk ->
            IF act.op = "create"
            THEN command([c EXCEPT !.users[i].pkrs = Append(@, act)], [op |-> "uk", rec |-> i])
            ELSE [c EXCEPT !.users[i].pkrs = Append(@, act)]

\* the flag pubkrequested is never set: each action requests the key
queuepubkeyreq(c, i, act) ==
    IF i = 0 \/ c.users[i].pubk THEN procAction(c, i, act)
    ELSE command([c EXCEPT !.users[i].pkrs = Append(@, act)], [op |-> "uk", rec |-> i])

\* mapuser(uh, u->email): the address is the one in the record, and without
\* one mapuser() returns at once
mapanswer(c, i, u) == IF c.users[i].email THEN mapuser(c, u) ELSE c

\* CommandPubKeyRequest::procresult(): without a key, the actions are
\* performed without a user
pubKeyResult(c, i, u, valid) ==
    LET d == IF valid THEN [mapanswer(c, i, u) EXCEPT !.users[i].pubk = TRUE] ELSE c
        step(e, act) == procAction(e, IF valid THEN i ELSE 0, act)
    IN  [Each(step, d, d.users[i].pkrs) EXCEPT !.users[i].pkrs = << >>]

-----------------------------------------------------------------------------
(* Shares announced by the server *)

known(x) == x # "no"

\* Fault: the last share takes no key with it.
revokedKeyStays(c, peer) == [c EXCEPT !.out = @ \ {peer}]

\* an outbound share is revoked: with the last one, the key goes
revoked(c, peer) ==
    LET out == c.out \ {peer}
    IN  [c EXCEPT !.out = out, !.key = IF out = {} THEN 0 ELSE @]

\* one NewShare in mergenewshares().  One whose folder is not known is lost.
\* The account's own folder is its own, and the server signs honestly.
merged(c, s) ==
    LET withKey == IF c.key = 0 THEN [c EXCEPT !.key = s.key] ELSE c
        mine == IF s.del THEN revoked(withKey, s.peer)
                ELSE IF s.peer = EXP THEN [withKey EXCEPT !.out = @ \union {EXP}]
                ELSE [adduser(withKey, s.peer, TRUE) EXCEPT !.out = @ \union {s.peer}]
        theirs == IF s.del THEN [c EXCEPT !.in.node = "removed"]
                  ELSE [adduser(c, s.peer, TRUE) EXCEPT
                            !.in.key = IF @ = 0 THEN s.key ELSE @, !.in.share = TRUE]
    IN  CASE s.outgoing /\ known(c.node) -> mine
          [] ~s.outgoing /\ known(c.in.node) -> theirs
          [] s.outgoing /\ ~known(c.node) -> c
          [] ~s.outgoing /\ ~known(c.in.node) -> c

mergenewshares(c) == [Each(merged, c, c.new) EXCEPT !.new = << >>]

\* Fault: additions are merged at once, too.
mergedAtOnceAlways(s) == s.key >= 0

\* sc_shares() says whether to merge at once: not for an addition, whose
\* nodes follow
mergedAtOnce(s) == s.del

sc_shares(c, s) ==
    LET d == [c EXCEPT !.new = Append(@, s)]
    IN  IF mergedAtOnce(s) THEN mergenewshares(d) ELSE d

\* readnodes(): a node that is to be removed is revived
sc_newnodes(c, x) ==
    mergenewshares(IF x.node = "inbound"
                   THEN [c EXCEPT !.in.node = "yes"]
                   ELSE [c EXCEPT !.files = @ \union {x.file}])

\* Node::applykey(): can the nodes of the inbound share be decrypted now?
applykey(n) == n.node = "yes" /\ n.key # 0 /\ ~n.read

\* applykeys(): a share key that came asymmetrically is sent back symmetrically
applykeys(c) ==
    IF applykey(c.in)
    THEN command([c EXCEPT !.in.read = TRUE], [op |-> "rw", key |-> c.in.key])
    ELSE c

notifypurge(c) ==
    LET d == IF c.in.node = "removed" THEN [c EXCEPT !.in = Unknown] ELSE c
    IN  IF c.node = "removed"
        THEN [d EXCEPT !.node = "no", !.files = {}, !.key = 0, !.out = {}] ELSE d

-----------------------------------------------------------------------------
(* Node keys the server asks for *)

\* cr_response() with a selector: the node keys asked for are sent if the
\* folder has a key and the file is in it
cr_response(c, F) ==
    LET sent == F \intersect c.files
    IN  IF known(c.node) /\ c.key # 0 /\ sent # {}
        THEN command(c, [op |-> "cr", files |-> sent, key |-> c.key])
        ELSE c

\* sc_keys() without a selector.  Nodes are taken up to the first unknown one,
\* cr_response() advances its index before it first uses it.  Without a folder
\* the index is used all the same.
listed(c, list) ==
    LET alien == {k \in DOMAIN list : list[k] \notin c.files}
        upto == IF alien = {} THEN Len(list) ELSE Min(alien) - 1
        good == known(c.node) /\ c.key # 0
    IN  IF good THEN [cr_response(c, {list[k] : k \in 2 .. upto}) EXCEPT
                          !.unsent = @ \union {list[k] : k \in {1} \intersect 1 .. upto}]
        ELSE [c EXCEPT !.wrong = @ \/ upto >= 2]

\* procsr(): a share key is to be sent to a user who is known by handle
procsr(c, u) ==
    IF known(c.node) /\ u \in DOMAIN c.uh
    THEN queuepubkeyreq(c, c.uh[u], [op |-> "send", for |-> u, set |-> TRUE])
    ELSE c

\* proccr(), the form with a selector
proccr(c, x) == cr_response(c, Range(x.files))

\* procsnk(): one command for each node key
procsnk(c, x) ==
    Each(LAMBDA d, f : cr_response(d, {f}), c, x.files)

sc_keys(c, x) ==
    CASE x.how = "list" -> listed(c, x.files)
      [] x.how = "selector" -> proccr(c, x)
      [] x.how = "snk" -> procsnk(c, x)
      [] x.how = "sr" -> procsr(c, x.peer)

-----------------------------------------------------------------------------
\* sc_contacts()
sc_contacts(c, x) == readuser(c, x.peer)

\* procsc(), one packet; then the notifications
sc(c, x) ==
    CASE x.a = "s" -> sc_shares(c, x)
      [] x.a = "t" -> sc_newnodes(c, x)
      [] x.a = "d" -> [c EXCEPT !.node = "removed"]
      [] x.a = "c" -> sc_contacts(c, x)
      [] x.a = "k" -> sc_keys(c, x)

procsc ==
    /\ pending # << >>
    /\ Become(notifypurge(applykeys(mergenewshares(Each(sc, Client, Head(pending))))))
    /\ pending' = Tail(pending)
    /\ UNCHANGED <<answers, srv, stale, misdirected, use, calls, others, faults>>

-----------------------------------------------------------------------------
(* Calls of the application *)

call == calls < MaxCalls /\ calls' = calls + 1

setshare(u, set) ==
    /\ "out" \in use /\ call /\ node = "yes"
    /\ LET c == IF u = EXP THEN Client ELSE adduser(Client, u, FALSE)
       IN  Become(queuepubkeyreq(c, IF u = EXP THEN 0 ELSE c.um[u],
                                 [op |-> "create", for |-> u, set |-> set]))
    /\ UNCHANGED <<answers, srv, pending, stale, misdirected, use, others, faults>>

\* CommandPutNodes: the node's key goes along for the shares above it
putnodes(f) ==
    /\ "out" \in use /\ call /\ node = "yes"
    /\ f \notin DOMAIN srv.cr
    /\ \A i \in DOMAIN cmds : cmds[i].op = "p" => cmds[i].file # f
    /\ Become(command(Client, [op |-> "p", file |-> f, key |-> sharekey]))
    /\ UNCHANGED <<answers, srv, pending, stale, misdirected, use, others, faults>>

-----------------------------------------------------------------------------
(* The server performs commands *)

share(peer, key, del) == [a |-> "s", outgoing |-> TRUE, peer |-> peer, key |-> key, del |-> del]

dropped(s, peer) ==
    LET left == s.shares \ {peer}
    IN  [s EXCEPT !.shares = left, !.key = IF left = {} THEN 0 ELSE @,
                  !.cr = IF left = {} THEN [f \in DOMAIN @ |-> 0] ELSE @]

given(s, x) ==
    [s EXCEPT !.key = x.key, !.shares = @ \union {x.to}, !.ukey = Insert(@, x.to, x.key),
              !.cr = [f \in DOMAIN @ |-> IF f \in x.cr THEN x.key ELSE @[f]]]

\* result, state and packet for a command
served(x) ==
    LET done == Insert(Insert(x, "ok", TRUE), "other", 0)
        news(s, p) == [answer |-> done, srv |-> s, news |-> p]
        quiet(s) == news(s, << >>)
    IN  CASE x.op = "s" /\ ~srv.there -> [quiet(srv) EXCEPT !.answer.ok = FALSE]
          [] x.op = "s" /\ srv.there /\ x.set /\ srv.key \in {0, x.key} ->
                news(given(srv, x), <<share(x.to, x.key, FALSE)>>)
          [] x.op = "s" /\ srv.there /\ x.set /\ srv.key \notin {0, x.key} ->
                [quiet(srv) EXCEPT !.answer.other = srv.key]
          [] x.op = "s" /\ srv.there /\ ~x.set /\ x.to \in srv.shares ->
                news(dropped(srv, x.to), <<share(x.to, 0, TRUE)>>)
          [] x.op = "s" /\ srv.there /\ ~x.set /\ x.to \notin srv.shares ->
                [quiet(srv) EXCEPT !.answer.ok = FALSE]
          [] x.op = "p" /\ srv.there ->
                quiet([srv EXCEPT !.cr = Insert(@, x.file, IF srv.key = 0 THEN 0 ELSE x.key)])
          [] x.op = "p" /\ ~srv.there -> [quiet(srv) EXCEPT !.answer.ok = FALSE]
          [] x.op = "cr" -> quiet(IF srv.key = 0 THEN srv
                                  ELSE [srv EXCEPT !.cr = [f \in DOMAIN @ |-> IF f \in x.files THEN x.key ELSE @[f]]])
          [] x.op = "sk" -> quiet([srv EXCEPT !.ukey = Insert(@, x.to, x.key)])
          [] x.op \in {"uk", "rw"} -> quiet(srv)

fault == faults < MaxFaults /\ faults' = faults + 1

serve ==
    /\ cmds # << >>
    /\ cmds' = Tail(cmds)
    /\ LET x == Head(cmds)
           r == served(x)
       IN  \/ /\ answers' = Append(answers, r.answer)
              /\ srv' = r.srv
              /\ pending' = IF r.news = << >> THEN pending ELSE Append(pending, r.news)
              /\ stale' = (stale \/ (x.op = "s" /\ (~r.answer.ok \/ (x.new /\ ~x.set))))
              /\ UNCHANGED faults
           \/ /\ fault /\ x.op \in {"s", "p", "uk"}
              /\ answers' = Append(answers, [r.answer EXCEPT !.ok = FALSE])
              /\ stale' = (stale \/ x.op = "s")
              /\ UNCHANGED <<srv, pending>>
    /\ UNCHANGED <<folderVars, userVars, told, unsent, keys, misdirected, wrong, use, calls,
                   others>>

(* Their results *)

\* CommandSetShare::procresult(): if the same share was created concurrently
\* with another key, that one is taken and the attempt repeated
shareResult(c, x) ==
    CASE ~x.ok -> c
      [] x.ok /\ x.other = 0 -> IF x.to = EXP THEN c ELSE mapuser(c, x.to)
      [] x.ok /\ x.other # 0 ->
            IF known(c.node) /\ c.key # 0
            THEN LET d == [c EXCEPT !.key = x.other]
                 IN  command(d, setShareCommand(x.rec, x.to, x.for, x.set, d.key, FALSE, {}))
            ELSE c

result(c, x) ==
    CASE x.op = "s" -> shareResult(c, x)
      [] x.op = "uk" -> LET u == c.users[x.rec].who
                        IN  pubKeyResult(c, x.rec, u, x.ok /\ u \in Registered)
      [] x.op = "p" -> IF x.ok /\ known(c.node) THEN [c EXCEPT !.files = @ \union {x.file}] ELSE c
      [] x.op \in {"sk", "cr", "rw"} -> c

procresult ==
    /\ answers # << >>
    /\ LET x == Head(answers)
           c == result(Client, x)
       IN  /\ Become(c)
           /\ misdirected' = (misdirected \/ \E i \in DOMAIN c.cmds :
                                  c.cmds[i].op = "s" /\ c.cmds[i].set /\ c.cmds[i].to # c.cmds[i].for)
    /\ answers' = Tail(answers)
    /\ UNCHANGED <<srv, stale, pending, use, calls, others, faults>>

-----------------------------------------------------------------------------
(* Another session of the account, other users, and the server's questions *)

other == others < MaxOthers /\ others' = others + 1

\* others change the server's state, of which a packet tells
happens(s, packet) ==
    /\ other
    /\ srv' = s
    /\ pending' = Append(pending, packet)
    /\ UNCHANGED <<folderVars, userVars, cmds, told, unsent, answers, historyVars, use, calls, faults>>

otherShares(u) ==
    LET new == srv.key = 0
        k == IF new THEN keys + 1 ELSE srv.key
    IN  /\ "out" \in use /\ srv.there
        /\ happens(given(srv, [key |-> k, to |-> u, cr |-> IF new THEN DOMAIN srv.cr ELSE {}]),
                   <<share(u, k, FALSE)>>)
        /\ keys' = IF new THEN k ELSE keys

otherRevokes(u) ==
    /\ "out" \in use /\ srv.there /\ u \in srv.shares
    /\ happens(dropped(srv, u), <<share(u, 0, TRUE)>>)
    /\ UNCHANGED keys

otherAdds(f) ==
    /\ "out" \in use /\ srv.there /\ f \notin DOMAIN srv.cr
    /\ \A i \in DOMAIN cmds : cmds[i].op = "p" => cmds[i].file # f
    /\ happens([srv EXCEPT !.cr = Insert(@, f, srv.key)],
               <<[a |-> "t", node |-> "file", file |-> f]>>)
    /\ UNCHANGED keys

otherRemoves ==
    /\ "out" \in use /\ srv.there
    /\ happens([srv EXCEPT !.there = FALSE, !.key = 0, !.shares = {}, !.cr = << >>],
               <<[a |-> "d"]>>)
    /\ UNCHANGED keys

\* node keys the server lacks
lacking == {f \in DOMAIN srv.cr : srv.key # 0 /\ srv.cr[f] = 0}

asks(how) ==
    /\ lacking # {}
    /\ happens(srv, <<[a |-> "k", how |-> how, files |-> SetToSeq(lacking)]>>)
    /\ UNCHANGED keys

asksShareKey(u) ==
    /\ "users" \in use
    /\ happens(srv, <<[a |-> "k", how |-> "sr", peer |-> u]>>)
    /\ UNCHANGED keys

contact(u) ==
    /\ "users" \in use
    /\ happens(srv, <<[a |-> "c", peer |-> u]>>)
    /\ UNCHANGED keys

\* a share of another user and its nodes are announced together
incoming(u) ==
    /\ "in" \in use /\ ~srv.inbound
    /\ happens([srv EXCEPT !.inbound = TRUE],
               <<[share(u, 1, FALSE) EXCEPT !.outgoing = FALSE],
                 [a |-> "t", node |-> "inbound"]>>)
    /\ UNCHANGED keys

withdrawn(u) ==
    /\ "in" \in use /\ srv.inbound
    /\ happens([srv EXCEPT !.inbound = FALSE],
               <<[share(u, 0, TRUE) EXCEPT !.outgoing = FALSE]>>)
    /\ UNCHANGED keys

\* two packets are delivered as one
joined ==
    /\ Len(pending) >= 2
    /\ pending' = <<pending[1] \o pending[2]>> \o SubSeq(pending, 3, Len(pending))
    /\ UNCHANGED <<clientVars, answers, srv, historyVars, use, calls, others, faults>>

Next ==
    /\ ~wrong
    /\ \/ \E u \in User \union {EXP}, set \in BOOLEAN : setshare(u, set)
       \/ \E f \in File : putnodes(f) \/ otherAdds(f)
       \/ serve \/ procresult \/ procsc \/ joined
       \/ \E u \in User \union {EXP} : otherShares(u) \/ otherRevokes(u)
       \/ otherRemoves
       \/ \E how \in Ask : asks(how)
       \/ \E u \in User : asksShareKey(u) \/ contact(u) \/ incoming(u) \/ withdrawn(u)

Spec == Init /\ [][Next]_vars

-----------------------------------------------------------------------------
Rest == cmds = << >> /\ answers = << >> /\ pending = << >>

(* Once everything is processed, the client and the server agree on whom the
   folder is shared with, and on its key, whoever shares and revokes it in
   whatever order.  The exception, stale: a share key that was made up for an
   attempt that has failed, or for a revocation, is kept, and stands in the way
   of the one another session makes up. *)
OutAgrees ==
    Rest /\ ~stale =>
        /\ (node = "yes") = srv.there
        /\ outshares = srv.shares
        /\ srv.shares # {} => sharekey = srv.key

(* Once everything is processed, a folder is here as an inbound share exactly
   if it is shared with the account, and its nodes are decrypted. *)
InAgrees ==
    Rest => /\ inbound.share = srv.inbound
            /\ srv.inbound => inbound.node = "yes" /\ inbound.read

(* A user's handle and address lead to one record once the server has
   confirmed that they belong together.  The answer with a public key does so
   only for a record that has an address. *)
OneRecord ==
    \A u \in told : /\ u \in DOMAIN uhindex /\ u \in DOMAIN umindex
                    /\ uhindex[u] = umindex[u]

(* An action that waits for a public key is never forgotten: the key has been
   requested, and the answer is still to be processed. *)
WaitingIsRequested ==
    \A i \in DOMAIN users :
        users[i].pkrs # << >> =>
            \E x \in Range(cmds) \union Range(answers) : x.op = "uk" /\ x.rec = i

(* All tuples of a share and a node that the server asks for, and that could
   be sent, are sent. *)
AllAnswered == unsent = {}

(* A folder is shared with the user the application has named. *)
SharesAsAsked == ~misdirected
=============================================================================

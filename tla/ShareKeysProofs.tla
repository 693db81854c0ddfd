--------------------------- MODULE ShareKeysProofs ---------------------------
(***************************************************************************)
(* Users, the actions that wait for their keys, and shares (module         *)
(* ShareKeys), for any number of users, files, calls, commands, packets    *)
(* and failures.                                                           *)
(*                                                                         *)
(* Every operation takes the client's state as a record c and returns      *)
(* another.  UsersOK(c, A) is the invariant of that record; A are the      *)
(* records of users whose keys are about to arrive, in results that are    *)
(* outside of c.                                                           *)
(*                                                                         *)
(* The second part is about shares.  A view is what the server's state is  *)
(* after some action; the packets on their way lead from the view that the *)
(* client has, by way of others, to the server's state now (Past).         *)
(* Follows(c, v, w) says what of the client's state is as in view v, and   *)
(* that a share key which is not the server's will be corrected.           *)
(***************************************************************************)
EXTENDS ShareKeys, Induction, FiniteSetTheorems, SequenceTheorems, TLAPS

-----------------------------------------------------------------------------
(* Lists *)

IsSeq(s) == \E S : s \in Seq(S)

(* What a list is. *)
LEMMA SeqIs ==
    ASSUME NEW s, IsSeq(s)
    PROVE  Len(s) \in Nat /\ DOMAIN s = 1 .. Len(s)
  BY DEF IsSeq

(* What is appended comes last. *)
LEMMA AppendIs ==
    ASSUME NEW s, IsSeq(s), NEW x
    PROVE  /\ IsSeq(Append(s, x)) /\ Len(Append(s, x)) = Len(s) + 1
           /\ DOMAIN Append(s, x) = DOMAIN s \union {Len(s) + 1}
           /\ Len(s) + 1 \notin DOMAIN s
           /\ \A i \in DOMAIN s : Append(s, x)[i] = s[i]
           /\ Append(s, x)[Len(s) + 1] = x
  <1>1. PICK S : s \in Seq(S)
    BY DEF IsSeq
  <1> DEFINE T == S \union {x}
             t == Append(s, x)
  <1>2. s \in Seq(T) /\ x \in T
    BY <1>1
  <1> HIDE DEF T
  <1>3. t \in Seq(T) /\ Len(t) = Len(s) + 1 /\ Len(s) \in Nat /\ DOMAIN t = 1 .. Len(s) + 1
    BY <1>2
  <1>4. \A i \in 1 .. Len(s) : t[i] = s[i]
    BY <1>2
  <1>5. t[Len(s) + 1] = x
    BY <1>2
  <1>6. DOMAIN s = 1 .. Len(s)
    BY <1>2
  <1> HIDE DEF t
  <1>7. IsSeq(t)
    BY <1>3 DEF IsSeq
  <1>8. DOMAIN t = DOMAIN s \union {Len(s) + 1} /\ Len(s) + 1 \notin DOMAIN s
    BY <1>3, <1>6
  <1> QED BY <1>3, <1>4, <1>5, <1>6, <1>7, <1>8 DEF t

(* Without its first, the others move up. *)
LEMMA TailIs ==
    ASSUME NEW s, IsSeq(s), s # << >>
    PROVE  /\ IsSeq(Tail(s)) /\ 1 \in DOMAIN s /\ Head(s) = s[1]
           /\ \A i \in DOMAIN Tail(s) : i + 1 \in DOMAIN s /\ Tail(s)[i] = s[i + 1]
           /\ \A i \in DOMAIN s : i # 1 => i - 1 \in DOMAIN Tail(s) /\ Tail(s)[i - 1] = s[i]
  <1>1. PICK S : s \in Seq(S)
    BY DEF IsSeq
  <1> DEFINE t == Tail(s)
  <1>2. t \in Seq(S) /\ Len(t) = Len(s) - 1 /\ Len(s) \in Nat /\ Len(s) # 0
    BY <1>1
  <1>3. \A i \in 1 .. Len(s) - 1 : t[i] = s[i + 1]
    BY <1>1
  <1>4. DOMAIN s = 1 .. Len(s) /\ DOMAIN t = 1 .. Len(s) - 1
    BY <1>1, <1>2
  <1>5. Head(s) = s[1]
    BY <1>1
  <1> HIDE DEF t
  <1>6. IsSeq(t)
    BY <1>2 DEF IsSeq
  <1>7. /\ 1 \in DOMAIN s
        /\ \A i \in DOMAIN t : i + 1 \in DOMAIN s /\ t[i] = s[i + 1]
    BY <1>2, <1>3, <1>4
  <1>8. ASSUME NEW i \in DOMAIN s, i # 1 PROVE i - 1 \in DOMAIN t /\ t[i - 1] = s[i]
    <2>1. i - 1 \in 1 .. Len(s) - 1 /\ (i - 1) + 1 = i
      BY <1>2, <1>4, <1>8
    <2> QED BY <1>3, <1>4, <2>1
  <1> QED BY <1>5, <1>6, <1>7, <1>8 DEF t

-----------------------------------------------------------------------------
(* The client's state *)

Fields == {"node", "files", "key", "out", "in", "users", "uh", "um", "cmds", "told",
           "unsent", "keys", "new", "wrong"}

UserFields == {"who", "uh", "email", "pubk", "pkrs"}

Uk(i) == [op |-> "uk", rec |-> i]

Commands == {"s", "p", "cr", "sk", "uk", "rw"}

\* records of users: each is a record, with a list of actions
Records(c) ==
    /\ IsSeq(c.users)
    /\ \A i \in DOMAIN c.users : DOMAIN c.users[i] = UserFields /\ IsSeq(c.users[i].pkrs)

\* a handle, or an address, leads to a record of that user; if a handle leads
\* to a record with an address, the address leads there, too
Indexed(c) ==
    /\ \A u \in DOMAIN c.uh : c.uh[u] \in DOMAIN c.users /\ c.users[c.uh[u]].who = u
    /\ \A u \in DOMAIN c.um : c.um[u] \in DOMAIN c.users /\ c.users[c.um[u]].who = u
    /\ \A u \in DOMAIN c.uh : c.users[c.uh[u]].email => u \in DOMAIN c.um /\ c.um[u] = c.uh[u]

Confirmed(c) ==
    \A u \in c.told : u \in DOMAIN c.uh /\ u \in DOMAIN c.um /\ c.uh[u] = c.um[u]

\* commands; one that requests a key is for a record that is there
Queue(c) ==
    /\ IsSeq(c.cmds)
    /\ \A i \in DOMAIN c.cmds :
          /\ "op" \in DOMAIN c.cmds[i] /\ c.cmds[i].op \in Commands
          /\ c.cmds[i].op = "uk" => "rec" \in DOMAIN c.cmds[i] /\ c.cmds[i].rec \in DOMAIN c.users

Waiting(c, A) ==
    \A i \in DOMAIN c.users : c.users[i].pkrs # << >> =>
        i \in A \/ \E k \in DOMAIN c.cmds : c.cmds[k].op = "uk" /\ c.cmds[k].rec = i

UsersOK(c, A) ==
    /\ DOMAIN c = Fields /\ IsSeq(c.new) /\ A \subseteq DOMAIN c.users
    /\ Records(c) /\ Indexed(c) /\ Confirmed(c) /\ Queue(c) /\ Waiting(c, A)

\* d has the users of c, and c's commands and perhaps more, of other kinds
Quiet(c, d) ==
    /\ DOMAIN d = Fields /\ IsSeq(d.new)
    /\ d.users = c.users /\ d.uh = c.uh /\ d.um = c.um /\ d.told = c.told
    /\ IsSeq(d.cmds)
    /\ \A i \in DOMAIN c.cmds : i \in DOMAIN d.cmds /\ d.cmds[i] = c.cmds[i]
    /\ \A i \in DOMAIN d.cmds : i \in DOMAIN c.cmds \/
          ("op" \in DOMAIN d.cmds[i] /\ d.cmds[i].op \in Commands \ {"uk"})

(* Nothing that concerns users has happened. *)
LEMMA QuietKeeps ==
    ASSUME NEW c, NEW d, NEW A, UsersOK(c, A), Quiet(c, d)
    PROVE  UsersOK(d, A)
  <1>1. /\ DOMAIN d = Fields /\ IsSeq(d.new) /\ A \subseteq DOMAIN d.users
        /\ Records(d) /\ Indexed(d) /\ Confirmed(d)
    BY DEF UsersOK, Quiet, Records, Indexed, Confirmed
  <1>2. Queue(d)
    BY DEF UsersOK, Quiet, Queue
  <1>3. Waiting(d, A)
    BY DEF UsersOK, Quiet, Waiting
  <1> QED BY <1>1, <1>2, <1>3 DEF UsersOK

(* Doing nothing is quiet, and so is doing quiet things one after the other. *)
LEMMA QuietSame ==
    ASSUME NEW c, NEW A, UsersOK(c, A)
    PROVE  Quiet(c, c)
  BY DEF UsersOK, Queue, Quiet

LEMMA QuietThen ==
    ASSUME NEW c, NEW d, NEW e, Quiet(c, d), Quiet(d, e)
    PROVE  Quiet(c, e)
  BY DEF Quiet

(* Adding a command that requests no key is quiet. *)
LEMMA CommandQuiet ==
    ASSUME NEW c, NEW A, UsersOK(c, A), NEW x, "op" \in DOMAIN x, x.op \in Commands \ {"uk"}
    PROVE  Quiet(c, command(c, x))
  <1> DEFINE d == command(c, x)
             s == Append(c.cmds, x)
  <1>1. DOMAIN c = Fields /\ IsSeq(c.new) /\ IsSeq(c.cmds)
    BY DEF UsersOK, Queue
  <1>2. /\ IsSeq(s) /\ DOMAIN s = DOMAIN c.cmds \union {Len(c.cmds) + 1}
        /\ \A i \in DOMAIN c.cmds : s[i] = c.cmds[i]
        /\ s[Len(c.cmds) + 1] = x
    BY <1>1, AppendIs
  <1> HIDE DEF s
  <1>3. /\ DOMAIN d = Fields /\ d.new = c.new
        /\ d.users = c.users /\ d.uh = c.uh /\ d.um = c.um /\ d.told = c.told /\ d.cmds = s
    BY <1>1 DEF command, Fields, s
  <1> HIDE DEF d
  <1>4. Quiet(c, d)
    BY <1>1, <1>2, <1>3 DEF Quiet
  <1> QED BY <1>4 DEF d

\* d differs from c in nothing that concerns users or commands
Elsewhere(c, d) ==
    /\ DOMAIN d = Fields /\ IsSeq(d.new) /\ d.cmds = c.cmds
    /\ d.users = c.users /\ d.uh = c.uh /\ d.um = c.um /\ d.told = c.told

(* Changing something else is quiet. *)
LEMMA ElsewhereQuiet ==
    ASSUME NEW c, NEW A, UsersOK(c, A), NEW d, Elsewhere(c, d)
    PROVE  Quiet(c, d) /\ UsersOK(d, A)
  <1>1. Quiet(c, d)
    BY DEF UsersOK, Queue, Quiet, Elsewhere
  <1> QED BY <1>1, QuietKeeps

(* So is changing something else and then adding a command. *)
LEMMA ThenCommandQuiet ==
    ASSUME NEW c, NEW A, UsersOK(c, A), NEW d, Elsewhere(c, d),
           NEW x, "op" \in DOMAIN x, x.op \in Commands \ {"uk"}
    PROVE  Quiet(c, command(d, x))
  <1>1. Quiet(c, d) /\ UsersOK(d, A)
    BY ElsewhereQuiet
  <1> QED BY <1>1, CommandQuiet, QuietThen

(* PubKeyActionCreateShare::proc() *)
LEMMA CreateQuiet ==
    ASSUME NEW c, NEW A, UsersOK(c, A), NEW i, NEW act
    PROVE  Quiet(c, createShare(c, i, act))
  <1> DEFINE new == c.key = 0
             e == [c EXCEPT !.keys = @ + 1, !.key = c.keys + 1]
             d == IF new THEN e ELSE c
             x == setShareCommand(i, IF i = 0 THEN EXP ELSE c.users[i].who, act.for,
                                  act.set, d.key, new, IF new THEN c.files ELSE {})
  <1>1. createShare(c, i, act) = IF c.node = "no" THEN c ELSE command(d, x)
    BY DEF createShare
  <1>2. "op" \in DOMAIN x /\ x.op \in Commands \ {"uk"}
    BY DEF setShareCommand, Commands
  <1> HIDE DEF x
  <1>3. Elsewhere(c, c) /\ Elsewhere(c, e)
    BY DEF UsersOK, Elsewhere, Fields
  <1> HIDE DEF e
  <1>4. Quiet(c, command(d, x))
    BY <1>2, <1>3, ThenCommandQuiet
  <1> HIDE DEF d
  <1> QED BY <1>1, <1>4, QuietSame

(* PubKeyActionSendShareKey::proc() *)
LEMMA SendQuiet ==
    ASSUME NEW c, NEW A, UsersOK(c, A), NEW i
    PROVE  Quiet(c, sendShareKey(c, i))
  <1> DEFINE x == [op |-> "sk", to |-> c.users[i].who, key |-> c.key]
  <1>1. sendShareKey(c, i) = command(c, x) \/ sendShareKey(c, i) = c
    BY DEF sendShareKey
  <1>2. "op" \in DOMAIN x /\ x.op \in Commands \ {"uk"}
    BY DEF Commands
  <1> HIDE DEF x
  <1> QED BY <1>1, <1>2, CommandQuiet, QuietSame

(* Either of them. *)
LEMMA ActionQuiet ==
    ASSUME NEW c, NEW A, UsersOK(c, A), NEW i, NEW act
    PROVE  Quiet(c, procAction(c, i, act))
  BY CreateQuiet, SendQuiet DEF procAction

(* Node keys are sent. *)
LEMMA ResponseQuiet ==
    ASSUME NEW c, NEW A, UsersOK(c, A), NEW F
    PROVE  Quiet(c, cr_response(c, F))
  <1> DEFINE x == [op |-> "cr", files |-> F \intersect c.files, key |-> c.key]
  <1>1. cr_response(c, F) = command(c, x) \/ cr_response(c, F) = c
    BY DEF cr_response
  <1>2. "op" \in DOMAIN x /\ x.op \in Commands \ {"uk"}
    BY DEF Commands
  <1> HIDE DEF x
  <1> QED BY <1>1, <1>2, CommandQuiet, QuietSame

(* Node keys that a list asks for are sent. *)
LEMMA ListedQuiet ==
    ASSUME NEW c, NEW A, UsersOK(c, A), NEW list
    PROVE  Quiet(c, listed(c, list))
  <1>1. PICK F, G, w : \/ listed(c, list) = [cr_response(c, F) EXCEPT !.unsent = @ \union G]
                       \/ listed(c, list) = [c EXCEPT !.wrong = @ \/ w]
    BY Zenon DEF listed
  <1> DEFINE d == cr_response(c, F)
             e == [d EXCEPT !.unsent = @ \union G]
  <1>2. Quiet(c, d) /\ UsersOK(d, A)
    BY ResponseQuiet, QuietKeeps
  <1> HIDE DEF d
  <1>3. Elsewhere(d, e)
    BY <1>2 DEF UsersOK, Elsewhere, Fields
  <1> HIDE DEF e
  <1>4. Quiet(c, e)
    BY <1>2, <1>3, ElsewhereQuiet, QuietThen
  <1>5. Elsewhere(c, [c EXCEPT !.wrong = @ \/ w])
    BY DEF UsersOK, Elsewhere, Fields
  <1> QED BY <1>1, <1>4, <1>5, ElsewhereQuiet DEF e, d

(* The nodes of an inbound share are decrypted. *)
LEMMA ApplyQuiet ==
    ASSUME NEW c, NEW A, UsersOK(c, A)
    PROVE  Quiet(c, applykeys(c))
  <1> DEFINE x == [op |-> "rw", key |-> c.in.key]
             d == [c EXCEPT !.in.read = TRUE]
  <1>1. applykeys(c) = command(d, x) \/ applykeys(c) = c
    BY DEF applykeys
  <1>2. "op" \in DOMAIN x /\ x.op \in Commands \ {"uk"}
    BY DEF Commands
  <1> HIDE DEF x
  <1>3. Elsewhere(c, d)
    BY DEF UsersOK, Elsewhere, Fields
  <1> HIDE DEF d
  <1> QED BY <1>1, <1>2, <1>3, ThenCommandQuiet, QuietSame

(* Removed nodes go. *)
LEMMA PurgeQuiet ==
    ASSUME NEW c, NEW A, UsersOK(c, A)
    PROVE  Quiet(c, notifypurge(c))
  <1> DEFINE d == IF c.in.node = "removed" THEN [c EXCEPT !.in = Unknown] ELSE c
             e == [d EXCEPT !.node = "no", !.files = {}, !.key = 0, !.out = {}]
  <1>1. notifypurge(c) = e \/ notifypurge(c) = d
    BY DEF notifypurge
  <1>2. Elsewhere(c, d)
    BY DEF UsersOK, Elsewhere, Fields
  <1> HIDE DEF d
  <1>3. Elsewhere(c, e)
    BY <1>2 DEF Elsewhere, Fields
  <1> HIDE DEF e
  <1> QED BY <1>1, <1>2, <1>3, ElsewhereQuiet

-----------------------------------------------------------------------------
(* Users *)

\* a record r is added at the end, and the indices become uh and um
Added(c, r, uh, um) == [c EXCEPT !.users = Append(@, r), !.uh = uh, !.um = um]

(* A record without actions is added. *)
LEMMA AddedKeeps ==
    ASSUME NEW c, NEW A, UsersOK(c, A), NEW r, NEW uh, NEW um,
           DOMAIN r = UserFields, r.pkrs = << >>,
           Indexed(Added(c, r, uh, um)), Confirmed(Added(c, r, uh, um))
    PROVE  UsersOK(Added(c, r, uh, um), A)
  <1> DEFINE d == Added(c, r, uh, um)
             t == Append(c.users, r)
  <1>1. DOMAIN c = Fields /\ IsSeq(c.new) /\ IsSeq(c.users) /\ A \subseteq DOMAIN c.users
    BY DEF UsersOK, Records
  <1>2. /\ IsSeq(t) /\ DOMAIN t = DOMAIN c.users \union {Len(c.users) + 1}
        /\ \A i \in DOMAIN c.users : t[i] = c.users[i]
        /\ t[Len(c.users) + 1] = r
    BY <1>1, AppendIs
  <1> HIDE DEF t
  <1>3. DOMAIN d = Fields /\ d.new = c.new /\ d.users = t /\ d.cmds = c.cmds
    BY <1>1 DEF Added, Fields, t
  <1>4. IsSeq(<< >>)
    BY DEF IsSeq
  <1> HIDE DEF d
  <1>5. Records(d)
    BY <1>2, <1>3, <1>4 DEF UsersOK, Records
  <1>6. Queue(d)
    BY <1>2, <1>3 DEF UsersOK, Queue
  <1>7. Waiting(d, A)
    BY <1>2, <1>3 DEF UsersOK, Waiting
  <1>8. A \subseteq DOMAIN d.users
    BY <1>1, <1>2, <1>3
  <1> QED BY <1>1, <1>3, <1>5, <1>6, <1>7, <1>8 DEF UsersOK, d

(* finduser(uh, 1): a record is found by handle, or made. *)
LEMMA AddByHandle ==
    ASSUME NEW c, NEW A, UsersOK(c, A), NEW u
    PROVE  UsersOK(adduser(c, u, TRUE), A)
  <1>1. CASE u \in DOMAIN c.uh
    BY <1>1 DEF adduser
  <1>2. CASE u \notin DOMAIN c.uh
    <2> DEFINE r == Record(u, TRUE)
               n == Len(c.users) + 1
               t == Append(c.users, r)
               f == Insert(c.uh, u, n)
               d == Added(c, r, f, c.um)
    <2>1. DOMAIN r = UserFields /\ r.pkrs = << >> /\ r.who = u
      BY DEF Record, UserFields
    <2>10. ~r.email
      BY DEF Record
    <2> HIDE DEF r
    <2>2. DOMAIN c = Fields /\ IsSeq(c.users)
      BY DEF UsersOK, Records
    <2>3. /\ Len(t) = n /\ DOMAIN t = DOMAIN c.users \union {n} /\ n \notin DOMAIN c.users
          /\ \A i \in DOMAIN c.users : t[i] = c.users[i]
          /\ t[n] = r
      BY <2>2, AppendIs
    <2>4. DOMAIN f = DOMAIN c.uh \union {u} /\ f[u] = n /\ \A j \in DOMAIN c.uh : j # u => f[j] = c.uh[j]
      <3> DEFINE g == c.uh
      <3> HIDE DEF n, g
      <3>1. /\ DOMAIN Insert(g, u, n) = DOMAIN g \union {u} /\ Insert(g, u, n)[u] = n
            /\ \A j \in DOMAIN g : j # u => Insert(g, u, n)[j] = g[j]
        BY DEF Insert
      <3> QED BY <3>1 DEF g
    <2>5. adduser(c, u, TRUE) = d
      <3> DEFINE e == [c EXCEPT !.users = Append(@, r)]
      <3>1. e.users = t
        BY <2>2 DEF Fields
      <3>2. adduser(c, u, TRUE) = [e EXCEPT !.uh = Insert(@, u, Len(e.users))]
        BY <1>2 DEF adduser, r
      <3>3. adduser(c, u, TRUE) = [e EXCEPT !.uh = f]
        <4>1. e.uh = c.uh
          BY <2>2 DEF Fields
        <4> QED BY <2>3, <3>1, <3>2, <4>1
      <3>4. [e EXCEPT !.uh = f] = d
        BY <2>2 DEF Added, Fields
      <3> QED BY <3>3, <3>4
    <2> HIDE DEF f, t, n
    <2>6. d.users = t /\ d.uh = f /\ d.um = c.um /\ d.told = c.told
      BY <2>2 DEF Added, Fields, t
    <2> HIDE DEF d
    <2>7. Indexed(d)
      <3>1. Indexed(c)
        BY DEF UsersOK
      <3>2. ASSUME NEW v \in DOMAIN d.uh PROVE d.uh[v] \in DOMAIN d.users /\ d.users[d.uh[v]].who = v
        <4>1. CASE v \in DOMAIN c.uh /\ d.uh[v] = c.uh[v]
          <5>1. c.uh[v] \in DOMAIN c.users /\ c.users[c.uh[v]].who = v
            BY <3>1, <4>1 DEF Indexed
          <5> QED BY <2>3, <2>6, <4>1, <5>1
        <4>2. CASE v = u /\ d.uh[v] = n
          BY <2>1, <2>3, <2>6, <4>2
        <4> QED BY <1>2, <2>4, <2>6, <3>2, <4>1, <4>2
      <3>3. ASSUME NEW v \in DOMAIN d.um PROVE d.um[v] \in DOMAIN d.users /\ d.users[d.um[v]].who = v
        <4>1. CASE v \in DOMAIN c.um /\ d.um[v] = c.um[v]
          <5>1. c.um[v] \in DOMAIN c.users /\ c.users[c.um[v]].who = v
            BY <3>1, <4>1 DEF Indexed
          <5> QED BY <2>3, <2>6, <4>1, <5>1
        <4>2. CASE v = u /\ d.um[v] = n
          BY <2>1, <2>3, <2>6, <4>2
        <4> QED BY <1>2, <2>4, <2>6, <3>3, <4>1, <4>2
      <3>4. ASSUME NEW v \in DOMAIN d.uh, d.users[d.uh[v]].email
            PROVE  v \in DOMAIN d.um /\ d.um[v] = d.uh[v]
        BY <1>2, <2>1, <2>10, <2>3, <2>4, <2>6, <3>1, <3>4 DEF Indexed
      <3> QED BY <3>2, <3>3, <3>4 DEF Indexed
    <2>8. Confirmed(d)
      BY <1>2, <2>4, <2>6 DEF UsersOK, Confirmed
    <2>9. UsersOK(d, A)
      BY <2>1, <2>7, <2>8, AddedKeeps DEF d
    <2> QED BY <2>5, <2>9
  <1> QED BY <1>1, <1>2

(* finduser(email, 1): a record is found by address, or made. *)
LEMMA AddByEmail ==
    ASSUME NEW c, NEW A, UsersOK(c, A), NEW u
    PROVE  UsersOK(adduser(c, u, FALSE), A) /\ u \in DOMAIN adduser(c, u, FALSE).um
  <1>1. CASE u \in DOMAIN c.um
    BY <1>1 DEF adduser
  <1>2. CASE u \notin DOMAIN c.um
    <2> DEFINE r == Record(u, FALSE)
               n == Len(c.users) + 1
               t == Append(c.users, r)
               f == Insert(c.um, u, n)
               d == Added(c, r, c.uh, f)
    <2>1. DOMAIN r = UserFields /\ r.pkrs = << >> /\ r.who = u
      BY DEF Record, UserFields
    <2> HIDE DEF r
    <2>2. DOMAIN c = Fields /\ IsSeq(c.users)
      BY DEF UsersOK, Records
    <2>3. /\ Len(t) = n /\ DOMAIN t = DOMAIN c.users \union {n} /\ n \notin DOMAIN c.users
          /\ \A i \in DOMAIN c.users : t[i] = c.users[i]
          /\ t[n] = r
      BY <2>2, AppendIs
    <2>4. DOMAIN f = DOMAIN c.um \union {u} /\ f[u] = n /\ \A j \in DOMAIN c.um : j # u => f[j] = c.um[j]
      <3> DEFINE g == c.um
      <3> HIDE DEF n, g
      <3>1. /\ DOMAIN Insert(g, u, n) = DOMAIN g \union {u} /\ Insert(g, u, n)[u] = n
            /\ \A j \in DOMAIN g : j # u => Insert(g, u, n)[j] = g[j]
        BY DEF Insert
      <3> QED BY <3>1 DEF g
    <2>5. adduser(c, u, FALSE) = d
      <3> DEFINE e == [c EXCEPT !.users = Append(@, r)]
      <3>1. e.users = t
        BY <2>2 DEF Fields
      <3>2. adduser(c, u, FALSE) = [e EXCEPT !.um = Insert(@, u, Len(e.users))]
        BY <1>2 DEF adduser, r
      <3>3. adduser(c, u, FALSE) = [e EXCEPT !.um = f]
        <4>1. e.um = c.um
          BY <2>2 DEF Fields
        <4> QED BY <2>3, <3>1, <3>2, <4>1
      <3>4. [e EXCEPT !.um = f] = d
        BY <2>2 DEF Added, Fields
      <3> QED BY <3>3, <3>4
    <2> HIDE DEF f, t, n
    <2>6. d.users = t /\ d.uh = c.uh /\ d.um = f /\ d.told = c.told
      BY <2>2 DEF Added, Fields, t
    <2> HIDE DEF d
    <2>7. Indexed(d)
      <3>1. Indexed(c)
        BY DEF UsersOK
      <3>2. ASSUME NEW v \in DOMAIN d.uh PROVE d.uh[v] \in DOMAIN d.users /\ d.users[d.uh[v]].who = v
        <4>1. CASE v \in DOMAIN c.uh /\ d.uh[v] = c.uh[v]
          <5>1. c.uh[v] \in DOMAIN c.users /\ c.users[c.uh[v]].who = v
            BY <3>1, <4>1 DEF Indexed
          <5> QED BY <2>3, <2>6, <4>1, <5>1
        <4>2. CASE v = u /\ d.uh[v] = n
          BY <2>1, <2>3, <2>6, <4>2
        <4> QED BY <1>2, <2>4, <2>6, <3>2, <4>1, <4>2
      <3>3. ASSUME NEW v \in DOMAIN d.um PROVE d.um[v] \in DOMAIN d.users /\ d.users[d.um[v]].who = v
        <4>1. CASE v \in DOMAIN c.um /\ d.um[v] = c.um[v]
          <5>1. c.um[v] \in DOMAIN c.users /\ c.users[c.um[v]].who = v
            BY <3>1, <4>1 DEF Indexed
          <5> QED BY <2>3, <2>6, <4>1, <5>1
        <4>2. CASE v = u /\ d.um[v] = n
          BY <2>1, <2>3, <2>6, <4>2
        <4> QED BY <1>2, <2>4, <2>6, <3>3, <4>1, <4>2
      <3>4. ASSUME NEW v \in DOMAIN d.uh, d.users[d.uh[v]].email
            PROVE  v \in DOMAIN d.um /\ d.um[v] = d.uh[v]
        BY <1>2, <2>1, <2>3, <2>4, <2>6, <3>1, <3>4 DEF Indexed
      <3> QED BY <3>2, <3>3, <3>4 DEF Indexed
    <2>8. Confirmed(d)
      BY <1>2, <2>4, <2>6 DEF UsersOK, Confirmed
    <2>9. UsersOK(d, A)
      BY <2>1, <2>7, <2>8, AddedKeeps DEF d
    <2> QED BY <2>4, <2>5, <2>6, <2>9
  <1> QED BY <1>1, <1>2

\* records become t, without change to whose they are or what waits
Mapped(c, t, uh, um, w) == [c EXCEPT !.users = t, !.uh = uh, !.um = um, !.told = w]

SameRecords(s, t) ==
    /\ IsSeq(t) /\ DOMAIN t = DOMAIN s
    /\ \A i \in DOMAIN s : /\ DOMAIN t[i] = DOMAIN s[i] /\ t[i].who = s[i].who
                           /\ t[i].pkrs = s[i].pkrs

(* Records that are kept, and indices that are in order. *)
LEMMA MappedKeeps ==
    ASSUME NEW c, NEW A, UsersOK(c, A), NEW t, NEW uh, NEW um, NEW w, SameRecords(c.users, t),
           Indexed(Mapped(c, t, uh, um, w)), Confirmed(Mapped(c, t, uh, um, w))
    PROVE  UsersOK(Mapped(c, t, uh, um, w), A)
  <1> DEFINE d == Mapped(c, t, uh, um, w)
  <1>1. DOMAIN c = Fields /\ IsSeq(c.new) /\ A \subseteq DOMAIN c.users
    BY DEF UsersOK
  <1>2. DOMAIN d = Fields /\ d.new = c.new /\ d.users = t /\ d.cmds = c.cmds
    BY <1>1 DEF Mapped, Fields
  <1> HIDE DEF d
  <1>3. Records(d)
    BY <1>2 DEF UsersOK, Records, SameRecords
  <1>4. Queue(d)
    BY <1>2 DEF UsersOK, Queue, SameRecords
  <1>5. Waiting(d, A)
    BY <1>2 DEF UsersOK, Waiting, SameRecords
  <1>6. A \subseteq DOMAIN d.users
    BY <1>1, <1>2 DEF SameRecords
  <1> QED BY <1>1, <1>2, <1>3, <1>4, <1>5, <1>6 DEF UsersOK, d

(* A flag of one record is set. *)
LEMMA FlagSet ==
    ASSUME NEW c, NEW A, UsersOK(c, A), NEW i \in DOMAIN c.users, NEW f \in {"uh", "email", "pubk"}
    PROVE  LET t == [c.users EXCEPT ![i] = [c.users[i] EXCEPT ![f] = TRUE]]
           IN  /\ SameRecords(c.users, t)
               /\ \A j \in DOMAIN c.users : j # i => t[j] = c.users[j]
               /\ f # "email" => t[i].email = c.users[i].email
  <1> DEFINE s == c.users
             r == [s[i] EXCEPT ![f] = TRUE]
             t == [s EXCEPT ![i] = r]
  <1>1. IsSeq(s) /\ DOMAIN s[i] = UserFields
    BY DEF UsersOK, Records
  <1>2. PICK S : s \in Seq(S)
    BY <1>1 DEF IsSeq
  <1>3. DOMAIN r = DOMAIN s[i] /\ r.who = s[i].who /\ r.pkrs = s[i].pkrs
    BY <1>1 DEF UserFields
  <1>30. f # "email" => r.email = s[i].email
    BY <1>1 DEF UserFields
  <1> HIDE DEF r
  <1>4. t \in Seq(S \union {r}) /\ DOMAIN t = DOMAIN s /\ t[i] = r
        /\ \A j \in DOMAIN s : j # i => t[j] = s[j]
    BY <1>2
  <1> HIDE DEF t
  <1>5. IsSeq(t)
    BY <1>4 DEF IsSeq
  <1>6. SameRecords(s, t)
    BY <1>3, <1>4, <1>5 DEF SameRecords
  <1> QED BY <1>30, <1>4, <1>6 DEF t, r

(* The server has confirmed that a handle and an address belong together. *)
LEMMA MapKeeps ==
    ASSUME NEW c, NEW A, UsersOK(c, A), NEW u
    PROVE  UsersOK(mapuser(c, u), A)
  <1>1. DOMAIN c = Fields /\ Indexed(c) /\ Confirmed(c) /\ Records(c)
    BY DEF UsersOK
  <1>2. CASE u \in DOMAIN c.uh /\ c.users[c.uh[u]].email
    <2> DEFINE d == Mapped(c, c.users, c.uh, c.um, c.told \union {u})
    <2>1. mapuser(c, u) = [c EXCEPT !.told = @ \union {u}]
      BY <1>2 DEF mapuser
    <2>2. mapuser(c, u) = d
      BY <1>1, <2>1 DEF Mapped, Fields
    <2>3. d.users = c.users /\ d.uh = c.uh /\ d.um = c.um /\ d.told = c.told \union {u}
      BY <1>1 DEF Mapped, Fields
    <2>4. SameRecords(c.users, c.users)
      BY <1>1 DEF Records, SameRecords
    <2> HIDE DEF d
    <2>5. Indexed(d)
      BY <1>1, <2>3 DEF Indexed
    <2>6. Confirmed(d)
      BY <1>1, <1>2, <2>3 DEF Confirmed, Indexed
    <2> QED BY <2>2, <2>4, <2>5, <2>6, MappedKeeps DEF d
  <1>3. CASE u \in DOMAIN c.uh /\ ~c.users[c.uh[u]].email
    <2> DEFINE i == c.uh[u]
               t == [c.users EXCEPT ![i] = [c.users[i] EXCEPT !["email"] = TRUE]]
               f == Insert(c.um, u, i)
               d == Mapped(c, t, c.uh, f, c.told \union {u})
    <2>1. mapuser(c, u) = [[c EXCEPT !.told = @ \union {u}] EXCEPT
                                !.users[i].email = TRUE, !.um = Insert(@, u, i)]
      BY <1>3 DEF mapuser
    <2>2. mapuser(c, u) = d
      BY <1>1, <2>1 DEF Mapped, Fields
    <2>3. i \in DOMAIN c.users /\ c.users[i].who = u
      BY <1>1, <1>3 DEF Indexed
    <2>4. SameRecords(c.users, t) /\ \A j \in DOMAIN c.users : j # i => t[j] = c.users[j]
      BY <2>3, FlagSet
    <2>5. d.users = t /\ d.uh = c.uh /\ d.um = f /\ d.told = c.told \union {u}
      BY <1>1 DEF Mapped, Fields
    <2>6. DOMAIN f = DOMAIN c.um \union {u} /\ f[u] = i /\ \A j \in DOMAIN c.um : j # u => f[j] = c.um[j]
      BY DEF Insert
    <2> HIDE DEF d, t, f
    <2>7. Indexed(d)
      <3>1. ASSUME NEW v \in DOMAIN d.uh PROVE d.uh[v] \in DOMAIN d.users /\ d.users[d.uh[v]].who = v
        BY <1>1, <2>4, <2>5, <3>1 DEF Indexed, SameRecords
      <3>2. ASSUME NEW v \in DOMAIN d.um PROVE d.um[v] \in DOMAIN d.users /\ d.users[d.um[v]].who = v
        <4>1. CASE v = u
          BY <2>3, <2>4, <2>5, <2>6, <4>1 DEF SameRecords
        <4>2. CASE v # u
          BY <1>1, <2>4, <2>5, <2>6, <3>2, <4>2 DEF Indexed, SameRecords
        <4> QED BY <4>1, <4>2
      <3>3. ASSUME NEW v \in DOMAIN d.uh, d.users[d.uh[v]].email
            PROVE  v \in DOMAIN d.um /\ d.um[v] = d.uh[v]
        <4>1. CASE v = u
          BY <2>5, <2>6, <4>1
        <4>2. CASE v # u
          <5>1. c.uh[v] # i /\ c.uh[v] \in DOMAIN c.users
            BY <1>1, <2>3, <2>5, <3>3, <4>2 DEF Indexed
          <5>2. c.users[c.uh[v]].email
            BY <2>4, <2>5, <3>3, <5>1
          <5> QED BY <1>1, <2>5, <2>6, <3>3, <4>2, <5>2 DEF Indexed
        <4> QED BY <4>1, <4>2
      <3> QED BY <3>1, <3>2, <3>3 DEF Indexed
    <2>8. Confirmed(d)
      <3> SUFFICES ASSUME NEW v \in d.told
                   PROVE  v \in DOMAIN d.uh /\ v \in DOMAIN d.um /\ d.uh[v] = d.um[v]
        BY DEF Confirmed
      <3>1. CASE v = u
        BY <1>3, <2>5, <2>6, <3>1
      <3>2. CASE v # u
        BY <1>1, <2>5, <2>6, <3>2 DEF Confirmed
      <3> QED BY <3>1, <3>2
    <2> QED BY <2>2, <2>4, <2>7, <2>8, MappedKeeps DEF d
  <1>4. CASE u \notin DOMAIN c.uh /\ u \in DOMAIN c.um
    <2> DEFINE i == c.um[u]
               t == [c.users EXCEPT ![i] = [c.users[i] EXCEPT !["uh"] = TRUE]]
               f == Insert(c.uh, u, i)
               d == Mapped(c, t, f, c.um, c.told \union {u})
    <2>1. mapuser(c, u) = [c EXCEPT !.uh = Insert(@, u, i), !.users[i].uh = TRUE,
                                    !.told = @ \union {u}]
      BY <1>4 DEF mapuser
    <2>2. mapuser(c, u) = d
      BY <1>1, <2>1 DEF Mapped, Fields
    <2>3. i \in DOMAIN c.users /\ c.users[i].who = u
      BY <1>1, <1>4 DEF Indexed
    <2>4. SameRecords(c.users, t) /\ \A j \in DOMAIN c.users : t[j].email = c.users[j].email
      <3>1. /\ SameRecords(c.users, t) /\ \A j \in DOMAIN c.users : j # i => t[j] = c.users[j]
            /\ "uh" # "email" => t[i].email = c.users[i].email
        BY <2>3, FlagSet
      <3> HIDE DEF t
      <3> QED BY <3>1
    <2>5. d.users = t /\ d.uh = f /\ d.um = c.um /\ d.told = c.told \union {u}
      BY <1>1 DEF Mapped, Fields
    <2>6. DOMAIN f = DOMAIN c.uh \union {u} /\ f[u] = i /\ \A j \in DOMAIN c.uh : j # u => f[j] = c.uh[j]
      BY DEF Insert
    <2> HIDE DEF d, t, f
    <2>7. Indexed(d)
      <3>1. ASSUME NEW v \in DOMAIN d.um PROVE d.um[v] \in DOMAIN d.users /\ d.users[d.um[v]].who = v
        BY <1>1, <2>4, <2>5, <3>1 DEF Indexed, SameRecords
      <3>2. ASSUME NEW v \in DOMAIN d.uh PROVE d.uh[v] \in DOMAIN d.users /\ d.users[d.uh[v]].who = v
        <4>1. CASE v = u
          BY <2>3, <2>4, <2>5, <2>6, <4>1 DEF SameRecords
        <4>2. CASE v # u
          BY <1>1, <2>4, <2>5, <2>6, <3>2, <4>2 DEF Indexed, SameRecords
        <4> QED BY <4>1, <4>2
      <3>3. ASSUME NEW v \in DOMAIN d.uh, d.users[d.uh[v]].email
            PROVE  v \in DOMAIN d.um /\ d.um[v] = d.uh[v]
        <4>1. CASE v = u
          BY <1>4, <2>5, <2>6, <4>1
        <4>2. CASE v # u
          <5>1. c.uh[v] \in DOMAIN c.users /\ d.uh[v] = c.uh[v] /\ v \in DOMAIN c.uh
            BY <1>1, <2>5, <2>6, <3>3, <4>2 DEF Indexed
          <5>2. c.users[c.uh[v]].email
            BY <2>4, <2>5, <3>3, <5>1
          <5> QED BY <1>1, <2>5, <5>1, <5>2 DEF Indexed
        <4> QED BY <4>1, <4>2
      <3> QED BY <3>1, <3>2, <3>3 DEF Indexed
    <2>8. Confirmed(d)
      <3> SUFFICES ASSUME NEW v \in d.told
                   PROVE  v \in DOMAIN d.uh /\ v \in DOMAIN d.um /\ d.uh[v] = d.um[v]
        BY DEF Confirmed
      <3>1. CASE v = u
        BY <1>4, <2>5, <2>6, <3>1
      <3>2. CASE v # u
        BY <1>1, <2>5, <2>6, <3>2 DEF Confirmed
      <3> QED BY <3>1, <3>2
    <2> QED BY <2>2, <2>4, <2>7, <2>8, MappedKeeps DEF d
  <1>5. CASE u \notin DOMAIN c.uh /\ u \notin DOMAIN c.um
    BY <1>5 DEF mapuser
  <1> QED BY <1>2, <1>3, <1>4, <1>5

-----------------------------------------------------------------------------
(* Loops *)

\* what the four loops do with one element of their list
Do(k, p, d, x) ==
    CASE k = "action" -> procAction(d, p, x)
      [] k = "share" -> merged(d, x)
      [] k = "key" -> cr_response(d, {x})
      [] k = "packet" -> sc(d, x)

Pass(f, k, p, c, s) == [n \in 0 .. Len(s) |-> IF n = 0 THEN c ELSE Do(k, p, f[n - 1], s[n])]

Loop(k, p, c, s) == CHOOSE f : f = Pass(f, k, p, c, s)

(* A loop has a state after each of its elements. *)
LEMMA LoopExists ==
    ASSUME NEW k, NEW p, NEW c, NEW s, IsSeq(s)
    PROVE  /\ Loop(k, p, c, s)[0] = c
           /\ \A n \in Nat : n + 1 <= Len(s) =>
                 Loop(k, p, c, s)[n + 1] = Do(k, p, Loop(k, p, c, s)[n], s[n + 1])
  <1> DEFINE S == {m \in Nat : \E f :
                      f = [n \in 0 .. m |-> IF n = 0 THEN c ELSE Do(k, p, f[n - 1], s[n])]}
  <1>1. 0 \in S
    <2> DEFINE g == [n \in 0 .. 0 |-> c]
    <2>1. g = [n \in 0 .. 0 |-> IF n = 0 THEN c ELSE Do(k, p, g[n - 1], s[n])]
      OBVIOUS
    <2> QED BY <2>1
  <1>2. ASSUME NEW m \in Nat, m \in S PROVE m + 1 \in S
    <2>1. PICK f : f = [n \in 0 .. m |-> IF n = 0 THEN c ELSE Do(k, p, f[n - 1], s[n])]
      BY <1>2
    <2> DEFINE g == [n \in 0 .. m + 1 |-> IF n <= m THEN f[n] ELSE Do(k, p, f[m], s[m + 1])]
    <2>2. ASSUME NEW n \in 0 .. m + 1
          PROVE  g[n] = IF n = 0 THEN c ELSE Do(k, p, g[n - 1], s[n])
      <3>1. CASE n = 0
        BY <2>1, <3>1
      <3>2. CASE n # 0 /\ n <= m
        <4>1. n - 1 \in 0 .. m + 1 /\ n - 1 <= m /\ n \in 0 .. m
          BY <3>2
        <4>2. g[n - 1] = f[n - 1] /\ g[n] = f[n]
          BY <4>1, <3>2
        <4>3. f[n] = Do(k, p, f[n - 1], s[n])
          BY <2>1, <3>2, <4>1
        <4> QED BY <3>2, <4>2, <4>3
      <3>3. CASE n = m + 1
        <4>1. n # 0 /\ n - 1 = m
          BY <3>3
        <4>2. g[m] = f[m] /\ g[n] = Do(k, p, f[m], s[m + 1])
          BY <3>3
        <4> HIDE DEF g
        <4> QED BY <3>3, <4>1, <4>2
      <3> QED BY <3>1, <3>2, <3>3
    <2>3. g = [n \in 0 .. m + 1 |-> IF n = 0 THEN c ELSE Do(k, p, g[n - 1], s[n])]
      <3>1. g = [n \in 0 .. m + 1 |-> g[n]]
        OBVIOUS
      <3> HIDE DEF g
      <3> QED BY <2>2, <3>1, Zenon
    <2> HIDE DEF g
    <2>4. \E h : h = [n \in 0 .. m + 1 |-> IF n = 0 THEN c ELSE Do(k, p, h[n - 1], s[n])]
      BY <2>3, Zenon
    <2>5. m + 1 \in Nat
      OBVIOUS
    <2> QED BY <2>4, <2>5, Zenon
  <1> HIDE DEF S
  <1>3. Len(s) \in S /\ Len(s) \in Nat
    BY <1>1, <1>2, SetInduction, SeqIs
  <1>4. \E f : f = Pass(f, k, p, c, s)
    BY <1>3, Zenon DEF S, Pass
  <1> DEFINE f == Loop(k, p, c, s)
  <1>5. f = Pass(f, k, p, c, s)
    BY <1>4, Zenon DEF Loop
  <1> HIDE DEF f
  <1>6. f[0] = c
    BY <1>3, <1>5 DEF Pass
  <1>7. ASSUME NEW n \in Nat, n + 1 <= Len(s) PROVE f[n + 1] = Do(k, p, f[n], s[n + 1])
    <2>1. n + 1 \in 0 .. Len(s) /\ n + 1 # 0 /\ (n + 1) - 1 = n
      BY <1>3, <1>7
    <2> QED BY <1>5, <2>1 DEF Pass
  <1> QED BY <1>6, <1>7 DEF f

(* The four loops. *)
LEMMA Loops ==
    ASSUME NEW c, NEW s, NEW p
    PROVE  /\ Each(LAMBDA d, x : procAction(d, p, x), c, s) = Loop("action", p, c, s)[Len(s)]
           /\ Each(merged, c, s) = Loop("share", p, c, s)[Len(s)]
           /\ Each(LAMBDA d, x : cr_response(d, {x}), c, s) = Loop("key", p, c, s)[Len(s)]
           /\ Each(sc, c, s) = Loop("packet", p, c, s)[Len(s)]
  <1>1. \A d, x : Do("action", p, d, x) = procAction(d, p, x)
    BY DEF Do
  <1>2. \A d, x : Do("share", p, d, x) = merged(d, x)
    BY DEF Do
  <1>3. \A d, x : Do("key", p, d, x) = cr_response(d, {x})
    BY DEF Do
  <1>4. \A d, x : Do("packet", p, d, x) = sc(d, x)
    BY DEF Do
  <1>5. Each(LAMBDA d, x : procAction(d, p, x), c, s) = Loop("action", p, c, s)[Len(s)]
    <2> DEFINE F(f) == [n \in 0 .. Len(s) |-> IF n = 0 THEN c ELSE procAction(f[n - 1], p, s[n])]
    <2>1. \A f : F(f) = Pass(f, "action", p, c, s)
      BY <1>1, Zenon DEF Pass
    <2>2. Each(LAMBDA d, x : procAction(d, p, x), c, s) = (CHOOSE f : f = F(f))[Len(s)]
      BY DEF Each
    <2> HIDE DEF F
    <2> QED BY <2>1, <2>2, Zenon DEF Loop
  <1>6. Each(merged, c, s) = Loop("share", p, c, s)[Len(s)]
    <2> DEFINE F(f) == [n \in 0 .. Len(s) |-> IF n = 0 THEN c ELSE merged(f[n - 1], s[n])]
    <2>1. \A f : F(f) = Pass(f, "share", p, c, s)
      BY <1>2, Zenon DEF Pass
    <2>2. Each(merged, c, s) = (CHOOSE f : f = F(f))[Len(s)]
      BY DEF Each
    <2> HIDE DEF F
    <2> QED BY <2>1, <2>2, Zenon DEF Loop
  <1>7. Each(LAMBDA d, x : cr_response(d, {x}), c, s) = Loop("key", p, c, s)[Len(s)]
    <2> DEFINE F(f) == [n \in 0 .. Len(s) |-> IF n = 0 THEN c ELSE cr_response(f[n - 1], {s[n]})]
    <2>1. \A f : F(f) = Pass(f, "key", p, c, s)
      BY <1>3, Zenon DEF Pass
    <2>2. Each(LAMBDA d, x : cr_response(d, {x}), c, s) = (CHOOSE f : f = F(f))[Len(s)]
      BY DEF Each
    <2> HIDE DEF F
    <2> QED BY <2>1, <2>2, Zenon DEF Loop
  <1>8. Each(sc, c, s) = Loop("packet", p, c, s)[Len(s)]
    <2> DEFINE F(f) == [n \in 0 .. Len(s) |-> IF n = 0 THEN c ELSE sc(f[n - 1], s[n])]
    <2>1. \A f : F(f) = Pass(f, "packet", p, c, s)
      BY <1>4, Zenon DEF Pass
    <2>2. Each(sc, c, s) = (CHOOSE f : f = F(f))[Len(s)]
      BY DEF Each
    <2> HIDE DEF F
    <2> QED BY <2>1, <2>2, Zenon DEF Loop
  <1> QED BY <1>5, <1>6, <1>7, <1>8

-----------------------------------------------------------------------------
(* Actions that wait for a key *)

\* the actions of record i become q
Acts(c, i, q) == [c EXCEPT !.users[i].pkrs = q]

(* Only the list of one record changes. *)
LEMMA ActsIs ==
    ASSUME NEW c, NEW A, UsersOK(c, A), NEW i \in DOMAIN c.users, NEW q, IsSeq(q)
    PROVE  LET d == Acts(c, i, q)
           IN  /\ DOMAIN d = Fields /\ d.new = c.new /\ d.cmds = c.cmds
               /\ d.uh = c.uh /\ d.um = c.um /\ d.told = c.told
               /\ DOMAIN d.users = DOMAIN c.users
               /\ Records(d) /\ Indexed(d) /\ Confirmed(d)
               /\ d.users[i].pkrs = q
               /\ \A j \in DOMAIN c.users : j # i => d.users[j] = c.users[j]
  <1> DEFINE s == c.users
             r == [s[i] EXCEPT !.pkrs = q]
             t == [s EXCEPT ![i] = r]
             d == Acts(c, i, q)
  <1>1. DOMAIN c = Fields /\ IsSeq(s) /\ DOMAIN s[i] = UserFields
    BY DEF UsersOK, Records
  <1>2. PICK S : s \in Seq(S)
    BY <1>1 DEF IsSeq
  <1>3. DOMAIN r = UserFields /\ r.who = s[i].who /\ r.email = s[i].email /\ r.pkrs = q
    BY <1>1 DEF UserFields
  <1>4. /\ DOMAIN d = Fields /\ d.new = c.new /\ d.cmds = c.cmds /\ d.users = t
        /\ d.uh = c.uh /\ d.um = c.um /\ d.told = c.told
    BY <1>1 DEF Acts, Fields
  <1> HIDE DEF r
  <1>5. t \in Seq(S \union {r}) /\ DOMAIN t = DOMAIN s /\ t[i] = r
        /\ \A j \in DOMAIN s : j # i => t[j] = s[j]
    BY <1>2
  <1> HIDE DEF t, d
  <1>6. IsSeq(t)
    BY <1>5 DEF IsSeq
  <1>7. Records(d)
    BY <1>3, <1>4, <1>5, <1>6 DEF UsersOK, Records
  <1>8. \A j \in DOMAIN s : t[j].who = s[j].who /\ t[j].email = s[j].email
    BY <1>3, <1>5
  <1>9. Indexed(d)
    BY <1>4, <1>5, <1>8 DEF UsersOK, Indexed
  <1>10. Confirmed(d)
    BY <1>4 DEF UsersOK, Confirmed
  <1> QED BY <1>3, <1>4, <1>5, <1>7, <1>9, <1>10 DEF d

(* An action is performed, or waits and the key is requested. *)
LEMMA QueueKeeps ==
    ASSUME NEW c, NEW A, UsersOK(c, A), NEW i, i = 0 \/ i \in DOMAIN c.users, NEW act
    PROVE  UsersOK(queuepubkeyreq(c, i, act), A)
  <1>1. CASE i = 0 \/ c.users[i].pubk
    <2>1. queuepubkeyreq(c, i, act) = procAction(c, i, act)
      BY <1>1 DEF queuepubkeyreq
    <2> QED BY <2>1, ActionQuiet, QuietKeeps
  <1>2. CASE ~(i = 0 \/ c.users[i].pubk)
    <2> DEFINE q == Append(c.users[i].pkrs, act)
               d == Acts(c, i, q)
               s == Append(c.cmds, Uk(i))
               e == command(d, Uk(i))
    <2>1. i \in DOMAIN c.users /\ IsSeq(c.users[i].pkrs) /\ DOMAIN c = Fields /\ IsSeq(c.cmds)
      BY <1>2 DEF UsersOK, Records, Queue
    <2>2. IsSeq(q)
      BY <2>1, AppendIs
    <2>3. queuepubkeyreq(c, i, act) = e
      <3>1. queuepubkeyreq(c, i, act)
              = command([c EXCEPT !.users[i].pkrs = Append(@, act)], [op |-> "uk", rec |-> i])
        BY <1>2 DEF queuepubkeyreq
      <3>2. [c EXCEPT !.users[i].pkrs = Append(@, act)] = d
        BY <2>1 DEF Acts, Fields
      <3> QED BY <3>1, <3>2 DEF Uk
    <2> HIDE DEF q
    <2>4. /\ DOMAIN d = Fields /\ d.new = c.new /\ d.cmds = c.cmds
          /\ d.uh = c.uh /\ d.um = c.um /\ d.told = c.told
          /\ DOMAIN d.users = DOMAIN c.users
          /\ Records(d) /\ Indexed(d) /\ Confirmed(d)
          /\ d.users[i].pkrs = q
          /\ \A j \in DOMAIN c.users : j # i => d.users[j] = c.users[j]
      BY <2>1, <2>2, ActsIs
    <2> HIDE DEF d
    <2>5. /\ IsSeq(s) /\ DOMAIN s = DOMAIN c.cmds \union {Len(c.cmds) + 1}
          /\ \A k \in DOMAIN c.cmds : s[k] = c.cmds[k]
          /\ s[Len(c.cmds) + 1] = Uk(i)
      BY <2>1, AppendIs
    <2>6. "op" \in DOMAIN Uk(i) /\ "rec" \in DOMAIN Uk(i) /\ Uk(i).op = "uk" /\ Uk(i).rec = i
      BY DEF Uk
    <2> HIDE DEF s
    <2>7. /\ DOMAIN e = Fields /\ e.new = c.new /\ e.cmds = s /\ e.users = d.users
          /\ e.uh = c.uh /\ e.um = c.um /\ e.told = c.told
      BY <2>4 DEF command, Fields, s
    <2> HIDE DEF e
    <2>8. Records(e) /\ Indexed(e) /\ Confirmed(e)
      BY <2>4, <2>7 DEF Records, Indexed, Confirmed
    <2>9. Queue(e)
      BY <2>1, <2>4, <2>5, <2>6, <2>7 DEF UsersOK, Queue, Commands
    <2>10. Waiting(e, A)
      <3> SUFFICES ASSUME NEW j \in DOMAIN e.users, e.users[j].pkrs # << >>
                   PROVE  j \in A \/ \E k \in DOMAIN e.cmds : e.cmds[k].op = "uk" /\ e.cmds[k].rec = j
        BY DEF Waiting
      <3>1. CASE j = i
        BY <2>5, <2>6, <2>7, <3>1
      <3>2. CASE j # i
        BY <2>4, <2>5, <2>7, <3>2 DEF UsersOK, Waiting
      <3> QED BY <3>1, <3>2
    <2>11. UsersOK(e, A)
      BY <2>4, <2>7, <2>8, <2>9, <2>10 DEF UsersOK
    <2> QED BY <2>3, <2>11
  <1> QED BY <1>1, <1>2

(* Performing the actions on a list does not concern users. *)
LEMMA ActionsQuiet ==
    ASSUME NEW c, NEW A, UsersOK(c, A), NEW p, NEW s, IsSeq(s)
    PROVE  Quiet(c, Loop("action", p, c, s)[Len(s)])
  <1> DEFINE f == Loop("action", p, c, s)
             S == {n \in Nat : n <= Len(s) => Quiet(c, f[n])}
  <1>1. f[0] = c /\ \A n \in Nat : n + 1 <= Len(s) => f[n + 1] = Do("action", p, f[n], s[n + 1])
    BY LoopExists
  <1> HIDE DEF f
  <1>2. 0 \in S
    BY <1>1, QuietSame
  <1>3. ASSUME NEW n \in Nat, n \in S PROVE n + 1 \in S
    <2> SUFFICES ASSUME n + 1 <= Len(s) PROVE Quiet(c, f[n + 1])
      OBVIOUS
    <2>1. Quiet(c, f[n])
      BY <1>3, SeqIs
    <2>2. f[n + 1] = procAction(f[n], p, s[n + 1])
      BY <1>1 DEF Do
    <2> QED BY <2>1, <2>2, QuietKeeps, ActionQuiet, QuietThen
  <1> HIDE DEF S
  <1>4. Len(s) \in S
    BY <1>2, <1>3, SetInduction, SeqIs
  <1> QED BY <1>4, SeqIs DEF S, f

(* The key of record i arrives, or will not: its actions are performed. *)
LEMMA PubKeyKeeps ==
    ASSUME NEW c, NEW A, NEW i, UsersOK(c, A \union {i}), NEW u, NEW valid
    PROVE  UsersOK(pubKeyResult(c, i, u, valid), A)
  <1> DEFINE B == A \union {i}
             m == mapanswer(c, i, u)
             d == IF valid THEN [m EXCEPT !.users[i].pubk = TRUE] ELSE c
             p == IF valid THEN i ELSE 0
             s == d.users[i].pkrs
             e == Each(LAMBDA g, x : procAction(g, p, x), d, s)
  <1>1. pubKeyResult(c, i, u, valid) = [e EXCEPT !.users[i].pkrs = << >>]
    BY DEF pubKeyResult
  <1>2. UsersOK(d, B)
    <2>1. UsersOK(m, B)
      BY MapKeeps DEF mapanswer
    <2> HIDE DEF m
    <2> DEFINE t == [m.users EXCEPT ![i] = [m.users[i] EXCEPT !["pubk"] = TRUE]]
               w == Mapped(m, t, m.uh, m.um, m.told)
    <2>2. i \in DOMAIN m.users /\ DOMAIN m = Fields
      BY <2>1 DEF UsersOK
    <2>3. [m EXCEPT !.users[i].pubk = TRUE] = w
      BY <2>2 DEF Mapped, Fields
    <2>4. /\ SameRecords(m.users, t) /\ \A j \in DOMAIN m.users : j # i => t[j] = m.users[j]
          /\ "pubk" # "email" => t[i].email = m.users[i].email
      BY <2>1, <2>2, FlagSet
    <2> HIDE DEF t
    <2>5. \A j \in DOMAIN m.users : t[j].email = m.users[j].email
      BY <2>4
    <2>6. w.users = t /\ w.uh = m.uh /\ w.um = m.um /\ w.told = m.told
      BY <2>2 DEF Mapped, Fields
    <2> HIDE DEF w
    <2>7. Indexed(w)
      BY <2>1, <2>4, <2>5, <2>6 DEF UsersOK, Indexed, SameRecords
    <2>8. Confirmed(w)
      BY <2>1, <2>6 DEF UsersOK, Confirmed
    <2>9. UsersOK(w, B)
      BY <2>1, <2>4, <2>7, <2>8, MappedKeeps DEF w
    <2> QED BY <2>3, <2>9
  <1> HIDE DEF d
  <1>3. i \in DOMAIN d.users /\ IsSeq(s)
    BY <1>2 DEF UsersOK, Records
  <1> HIDE DEF p, s
  <1>4. e = Loop("action", p, d, s)[Len(s)]
    BY Loops
  <1>5. Quiet(d, e)
    BY <1>2, <1>3, <1>4, ActionsQuiet
  <1> HIDE DEF e
  <1>6. UsersOK(e, B) /\ i \in DOMAIN e.users
    BY <1>2, <1>5, QuietKeeps DEF UsersOK
  <1>7. IsSeq(<< >>)
    BY DEF IsSeq
  <1> DEFINE r == Acts(e, i, << >>)
  <1>8. /\ DOMAIN r = Fields /\ r.new = e.new /\ r.cmds = e.cmds
        /\ r.uh = e.uh /\ r.um = e.um /\ r.told = e.told
        /\ DOMAIN r.users = DOMAIN e.users
        /\ Records(r) /\ Indexed(r) /\ Confirmed(r)
        /\ r.users[i].pkrs = << >>
        /\ \A j \in DOMAIN e.users : j # i => r.users[j] = e.users[j]
    BY <1>6, <1>7, ActsIs
  <1>9. pubKeyResult(c, i, u, valid) = r
    BY <1>1 DEF Acts
  <1> HIDE DEF r
  <1>10. Queue(r)
    BY <1>6, <1>8 DEF UsersOK, Queue
  <1>11. Waiting(r, A)
    BY <1>6, <1>8 DEF UsersOK, Waiting
  <1>12. UsersOK(r, A)
    BY <1>6, <1>8, <1>10, <1>11 DEF UsersOK
  <1> QED BY <1>9, <1>12

-----------------------------------------------------------------------------
(* The server's actions *)

(* A share is merged. *)
LEMMA MergedKeeps ==
    ASSUME NEW c, NEW A, UsersOK(c, A), NEW s
    PROVE  UsersOK(merged(c, s), A)
  <1> DEFINE w == IF c.key = 0 THEN [c EXCEPT !.key = s.key] ELSE c
             a == adduser(w, s.peer, TRUE)
             b == adduser(c, s.peer, TRUE)
             r1 == [w EXCEPT !.out = w.out \ {s.peer},
                             !.key = IF w.out \ {s.peer} = {} THEN 0 ELSE @]
             r2 == [w EXCEPT !.out = @ \union {EXP}]
             r3 == [a EXCEPT !.out = @ \union {s.peer}]
             r4 == [c EXCEPT !.in.node = "removed"]
             r5 == [b EXCEPT !.in.key = IF @ = 0 THEN s.key ELSE @, !.in.share = TRUE]
  <1>1. \/ merged(c, s) = r1 \/ merged(c, s) = r2 \/ merged(c, s) = r3
        \/ merged(c, s) = r4 \/ merged(c, s) = r5 \/ merged(c, s) = c
    <2> DEFINE mine == IF s.del THEN r1 ELSE IF s.peer = EXP THEN r2 ELSE r3
               theirs == IF s.del THEN r4 ELSE r5
    <2>1. merged(c, s) = CASE s.outgoing /\ known(c.node) -> mine
                           [] ~s.outgoing /\ known(c.in.node) -> theirs
                           [] s.outgoing /\ ~known(c.node) -> c
                           [] ~s.outgoing /\ ~known(c.in.node) -> c
      BY DEF merged, revoked
    <2> HIDE DEF r1, r2, r3, r4, r5
    <2>2. mine = r1 \/ mine = r2 \/ mine = r3
      OBVIOUS
    <2>3. theirs = r4 \/ theirs = r5
      OBVIOUS
    <2> HIDE DEF mine, theirs
    <2>4. merged(c, s) = mine \/ merged(c, s) = theirs \/ merged(c, s) = c
      BY <2>1
    <2> QED BY <2>2, <2>3, <2>4
  <1>2. Elsewhere(c, w)
    BY DEF UsersOK, Elsewhere, Fields
  <1>3. UsersOK(w, A)
    BY <1>2, ElsewhereQuiet
  <1> HIDE DEF w
  <1>4. UsersOK(a, A) /\ UsersOK(b, A)
    BY <1>3, AddByHandle
  <1> HIDE DEF a, b
  <1>5. Elsewhere(w, r1)
    BY <1>3 DEF UsersOK, Elsewhere, Fields
  <1>6. Elsewhere(w, r2)
    BY <1>3 DEF UsersOK, Elsewhere, Fields
  <1>7. Elsewhere(a, r3)
    BY <1>4 DEF UsersOK, Elsewhere, Fields
  <1>8. Elsewhere(c, r4)
    BY DEF UsersOK, Elsewhere, Fields
  <1>9. Elsewhere(b, r5)
    BY <1>4 DEF UsersOK, Elsewhere, Fields
  <1> HIDE DEF r1, r2, r3, r4, r5
  <1> QED BY <1>1, <1>3, <1>4, <1>5, <1>6, <1>7, <1>8, <1>9, ElsewhereQuiet

(* All shares that have been announced are merged. *)
LEMMA MergeKeeps ==
    ASSUME NEW c, NEW A, UsersOK(c, A)
    PROVE  UsersOK(mergenewshares(c), A)
  <1> DEFINE s == c.new
             f == Loop("share", 0, c, s)
             S == {n \in Nat : n <= Len(s) => UsersOK(f[n], A)}
  <1>0. IsSeq(s)
    BY DEF UsersOK
  <1> HIDE DEF s
  <1>1. f[0] = c /\ \A n \in Nat : n + 1 <= Len(s) => f[n + 1] = Do("share", 0, f[n], s[n + 1])
    BY <1>0, LoopExists
  <1>2. Each(merged, c, s) = f[Len(s)]
    BY Loops
  <1> HIDE DEF f
  <1>3. 0 \in S
    BY <1>1
  <1>4. ASSUME NEW n \in Nat, n \in S PROVE n + 1 \in S
    <2> SUFFICES ASSUME n + 1 <= Len(s) PROVE UsersOK(f[n + 1], A)
      OBVIOUS
    <2>1. UsersOK(f[n], A)
      BY <1>0, <1>4, SeqIs
    <2>2. f[n + 1] = merged(f[n], s[n + 1])
      BY <1>1 DEF Do
    <2> QED BY <2>1, <2>2, MergedKeeps
  <1> HIDE DEF S
  <1>5. Len(s) \in S
    BY <1>0, <1>3, <1>4, SetInduction, SeqIs
  <1> DEFINE e == Each(merged, c, s)
             d == [e EXCEPT !.new = << >>]
  <1>6. UsersOK(e, A)
    BY <1>0, <1>2, <1>5, SeqIs DEF S
  <1> HIDE DEF e
  <1>7. IsSeq(<< >>)
    BY DEF IsSeq
  <1>8. Elsewhere(e, d)
    BY <1>6, <1>7 DEF UsersOK, Elsewhere, Fields
  <1>9. mergenewshares(c) = d
    BY DEF mergenewshares, e, s
  <1> HIDE DEF d
  <1> QED BY <1>6, <1>8, <1>9, ElsewhereQuiet

(* Node keys are sent one by one. *)
LEMMA KeysKeep ==
    ASSUME NEW c, NEW A, UsersOK(c, A), NEW s, IsSeq(s)
    PROVE  UsersOK(Loop("key", 0, c, s)[Len(s)], A)
  <1> DEFINE f == Loop("key", 0, c, s)
             S == {n \in Nat : n <= Len(s) => UsersOK(f[n], A)}
  <1>1. f[0] = c /\ \A n \in Nat : n + 1 <= Len(s) => f[n + 1] = Do("key", 0, f[n], s[n + 1])
    BY LoopExists
  <1> HIDE DEF f
  <1>2. 0 \in S
    BY <1>1
  <1>3. ASSUME NEW n \in Nat, n \in S PROVE n + 1 \in S
    <2> SUFFICES ASSUME n + 1 <= Len(s) PROVE UsersOK(f[n + 1], A)
      OBVIOUS
    <2>1. UsersOK(f[n], A)
      BY <1>3, SeqIs
    <2>2. f[n + 1] = cr_response(f[n], {s[n + 1]})
      BY <1>1 DEF Do
    <2> QED BY <2>1, <2>2, ResponseQuiet, QuietKeeps
  <1> HIDE DEF S
  <1>4. Len(s) \in S
    BY <1>2, <1>3, SetInduction, SeqIs
  <1> QED BY <1>4, SeqIs DEF S, f

\* an action of the server: of a known kind, with a list if it has one
ActionOK(x) ==
    /\ x.a \in {"s", "t", "d", "c", "k"}
    /\ x.a = "k" => /\ x.how \in {"list", "selector", "snk", "sr"}
                    /\ x.how = "snk" => IsSeq(x.files)

(* The server asks for keys. *)
LEMMA AskedKeeps ==
    ASSUME NEW c, NEW A, UsersOK(c, A), NEW x, ActionOK(x), x.a = "k"
    PROVE  UsersOK(sc_keys(c, x), A)
  <1>1. CASE x.how = "list"
    <2>1. sc_keys(c, x) = listed(c, x.files)
      BY <1>1 DEF sc_keys
    <2> QED BY <2>1, ListedQuiet, QuietKeeps
  <1>2. CASE x.how = "selector"
    <2>1. sc_keys(c, x) = cr_response(c, Range(x.files))
      BY <1>2 DEF sc_keys, proccr
    <2> QED BY <2>1, ResponseQuiet, QuietKeeps
  <1>3. CASE x.how = "snk"
    <2> DEFINE s == x.files
    <2>1. IsSeq(s)
      BY <1>3 DEF ActionOK
    <2>2. sc_keys(c, x) = Each(LAMBDA d, f : cr_response(d, {f}), c, s)
      BY <1>3 DEF sc_keys, procsnk
    <2> HIDE DEF s
    <2>3. Each(LAMBDA d, f : cr_response(d, {f}), c, s) = Loop("key", 0, c, s)[Len(s)]
      BY Loops
    <2>4. UsersOK(Loop("key", 0, c, s)[Len(s)], A)
      BY <2>1, KeysKeep
    <2>5. sc_keys(c, x) = Loop("key", 0, c, s)[Len(s)]
      BY <2>2, <2>3, Zenon
    <2> QED BY <2>4, <2>5
  <1>4. CASE x.how = "sr"
    <2> DEFINE u == x.peer
               act == [op |-> "send", for |-> u, set |-> TRUE]
    <2>1. \/ sc_keys(c, x) = c
          \/ u \in DOMAIN c.uh /\ sc_keys(c, x) = queuepubkeyreq(c, c.uh[u], act)
      BY <1>4 DEF sc_keys, procsr
    <2>2. u \in DOMAIN c.uh => c.uh[u] \in DOMAIN c.users
      BY DEF UsersOK, Indexed
    <2> HIDE DEF act
    <2> QED BY <2>1, <2>2, QueueKeeps
  <1> QED BY <1>1, <1>2, <1>3, <1>4 DEF ActionOK

(* One action. *)
LEMMA ScKeeps ==
    ASSUME NEW c, NEW A, UsersOK(c, A), NEW x, ActionOK(x)
    PROVE  UsersOK(sc(c, x), A)
  <1>1. CASE x.a = "s"
    <2> DEFINE d == [c EXCEPT !.new = Append(@, x)]
    <2>1. sc(c, x) = mergenewshares(d) \/ sc(c, x) = d
      BY <1>1 DEF sc, sc_shares
    <2>2. IsSeq(Append(c.new, x))
      BY AppendIs DEF UsersOK
    <2>3. Elsewhere(c, d)
      BY <2>2 DEF UsersOK, Elsewhere, Fields
    <2> HIDE DEF d
    <2>4. UsersOK(d, A)
      BY <2>3, ElsewhereQuiet
    <2> QED BY <2>1, <2>4, MergeKeeps
  <1>2. CASE x.a = "t"
    <2> DEFINE d == [c EXCEPT !.in.node = "yes"]
               e == [c EXCEPT !.files = @ \union {x.file}]
    <2>1. sc(c, x) = mergenewshares(d) \/ sc(c, x) = mergenewshares(e)
      BY <1>2 DEF sc, sc_newnodes
    <2>2. Elsewhere(c, d) /\ Elsewhere(c, e)
      BY DEF UsersOK, Elsewhere, Fields
    <2> HIDE DEF d, e
    <2>3. UsersOK(d, A) /\ UsersOK(e, A)
      BY <2>2, ElsewhereQuiet
    <2> QED BY <2>1, <2>3, MergeKeeps
  <1>3. CASE x.a = "d"
    <2> DEFINE d == [c EXCEPT !.node = "removed"]
    <2>1. sc(c, x) = d
      BY <1>3 DEF sc
    <2>2. Elsewhere(c, d)
      BY DEF UsersOK, Elsewhere, Fields
    <2> HIDE DEF d
    <2> QED BY <2>1, <2>2, ElsewhereQuiet
  <1>4. CASE x.a = "c"
    <2>1. sc(c, x) = mapuser(adduser(c, x.peer, TRUE), x.peer)
      BY <1>4 DEF sc, sc_contacts, readuser
    <2> QED BY <2>1, AddByHandle, MapKeeps
  <1>5. CASE x.a = "k"
    <2>1. sc(c, x) = sc_keys(c, x)
      BY <1>5 DEF sc
    <2> QED BY <1>5, <2>1, AskedKeeps
  <1> QED BY <1>1, <1>2, <1>3, <1>4, <1>5 DEF ActionOK

PacketOK(p) == IsSeq(p) /\ \A i \in DOMAIN p : ActionOK(p[i])

(* A packet, and what procsc() does at its end. *)
LEMMA PacketKeeps ==
    ASSUME NEW c, NEW A, UsersOK(c, A), NEW s, PacketOK(s)
    PROVE  UsersOK(notifypurge(applykeys(mergenewshares(Each(sc, c, s)))), A)
  <1> DEFINE f == Loop("packet", 0, c, s)
             S == {n \in Nat : n <= Len(s) => UsersOK(f[n], A)}
  <1>0. IsSeq(s)
    BY DEF PacketOK
  <1>1. f[0] = c /\ \A n \in Nat : n + 1 <= Len(s) => f[n + 1] = Do("packet", 0, f[n], s[n + 1])
    BY <1>0, LoopExists
  <1>2. Each(sc, c, s) = f[Len(s)]
    BY Loops
  <1> HIDE DEF f
  <1>3. 0 \in S
    BY <1>1
  <1>4. ASSUME NEW n \in Nat, n \in S PROVE n + 1 \in S
    <2> SUFFICES ASSUME n + 1 <= Len(s) PROVE UsersOK(f[n + 1], A)
      OBVIOUS
    <2>1. UsersOK(f[n], A) /\ n + 1 \in DOMAIN s
      BY <1>0, <1>4, SeqIs
    <2>2. f[n + 1] = sc(f[n], s[n + 1])
      BY <1>1 DEF Do
    <2>3. ActionOK(s[n + 1])
      BY <2>1 DEF PacketOK
    <2> QED BY <2>1, <2>2, <2>3, ScKeeps
  <1> HIDE DEF S
  <1>5. Len(s) \in S
    BY <1>0, <1>3, <1>4, SetInduction, SeqIs
  <1> DEFINE d == Each(sc, c, s)
  <1>6. UsersOK(d, A)
    BY <1>0, <1>2, <1>5, SeqIs DEF S
  <1> HIDE DEF d
  <1>7. UsersOK(mergenewshares(d), A)
    BY <1>6, MergeKeeps
  <1>8. UsersOK(applykeys(mergenewshares(d)), A)
    BY <1>7, ApplyQuiet, QuietKeeps
  <1>9. UsersOK(notifypurge(applykeys(mergenewshares(d))), A)
    BY <1>8, PurgeQuiet, QuietKeeps
  <1> QED BY <1>9 DEF d

-----------------------------------------------------------------------------
(* The system *)

\* the records whose keys are in the results to come
Arriving(s) == {s[k].rec : k \in {j \in DOMAIN s : s[j].op = "uk"}}

ResultsOK(s) == IsSeq(s) /\ \A i \in DOMAIN s : s[i].op \in Commands

PacketsOK(s) == IsSeq(s) /\ \A i \in DOMAIN s : PacketOK(s[i])

ServerOK(s) ==
    /\ DOMAIN s = {"there", "key", "shares", "cr", "ukey", "inbound"}
    /\ IsFiniteSet(DOMAIN s.cr)

\* the inductive invariant
KeysArrive ==
    /\ UsersOK(Client, Arriving(answers))
    /\ ResultsOK(answers) /\ PacketsOK(pending) /\ ServerOK(srv)

(* The record and the variables it stands for. *)
LEMMA ClientIs ==
    /\ /\ DOMAIN Client = Fields /\ Client.new = << >>
       /\ Client.users = users /\ Client.uh = uhindex /\ Client.um = umindex
       /\ Client.cmds = cmds /\ Client.told = told
    /\ /\ DOMAIN Client' = Fields /\ Client'.new = << >>
       /\ Client'.users = users' /\ Client'.uh = uhindex' /\ Client'.um = umindex'
       /\ Client'.cmds = cmds' /\ Client'.told = told'
  BY DEF Client, Fields

(* The invariant after a step, from its parts. *)
LEMMA KeysNext ==
    ASSUME UsersOK(Client', Arriving(answers')), ResultsOK(answers'), PacketsOK(pending'),
           ServerOK(srv')
    PROVE  KeysArrive'
  <1>1. UsersOK(Client, Arriving(answers))'
    BY DEF UsersOK, Records, Indexed, Confirmed, Queue, Waiting, Arriving
  <1>2. ResultsOK(answers)'
    BY DEF ResultsOK
  <1>3. PacketsOK(pending)'
    BY DEF PacketsOK
  <1>4. ServerOK(srv)'
    BY DEF ServerOK
  <1> QED BY <1>1, <1>2, <1>3, <1>4 DEF KeysArrive

(* An operation's result becomes the client's state. *)
LEMMA BecomeKeeps ==
    ASSUME NEW c, NEW A, UsersOK(c, A), Become(c)
    PROVE  UsersOK(Client', A)
  <1>1. /\ Client'.users = c.users /\ Client'.uh = c.uh /\ Client'.um = c.um
        /\ Client'.cmds = c.cmds /\ Client'.told = c.told
    BY ClientIs DEF Become
  <1>2. DOMAIN Client' = Fields /\ Client'.new = << >> /\ IsSeq(<< >>)
    BY ClientIs DEF IsSeq
  <1> DEFINE d == Client'
  <1> HIDE DEF d
  <1>3. Elsewhere(c, d)
    BY <1>1, <1>2 DEF Elsewhere, d
  <1>4. UsersOK(d, A)
    BY <1>3, ElsewhereQuiet
  <1> QED BY <1>4 DEF d

(* Nothing that concerns users or commands has changed. *)
LEMMA OthersKeep ==
    ASSUME NEW A, UsersOK(Client, A), UNCHANGED <<users, uhindex, umindex, cmds, told>>
    PROVE  UsersOK(Client', A)
  <1>1. /\ Client'.users = Client.users /\ Client'.uh = Client.uh /\ Client'.um = Client.um
        /\ Client'.cmds = Client.cmds /\ Client'.told = Client.told
    BY ClientIs
  <1>2. DOMAIN Client' = Fields /\ Client'.new = << >> /\ IsSeq(<< >>)
    BY ClientIs DEF IsSeq
  <1> DEFINE c == Client
             d == Client'
  <1> HIDE DEF c, d
  <1>3. Elsewhere(c, d)
    BY <1>1, <1>2 DEF Elsewhere, c, d
  <1>4. UsersOK(d, A)
    BY <1>3, ElsewhereQuiet DEF c
  <1> QED BY <1>4 DEF d

(* The application shares the folder. *)
LEMMA SetshareKeeps ==
    ASSUME KeysArrive, NEW u, NEW set, setshare(u, set)
    PROVE  KeysArrive'
  <1> DEFINE c == IF u = EXP THEN Client ELSE adduser(Client, u, FALSE)
             i == IF u = EXP THEN 0 ELSE c.um[u]
             act == [op |-> "create", for |-> u, set |-> set]
             A == Arriving(answers)
  <1>1. Become(queuepubkeyreq(c, i, act)) /\ UNCHANGED <<answers, srv, pending>>
    BY DEF setshare
  <1>2. UsersOK(c, A) /\ (u # EXP => u \in DOMAIN c.um)
    BY AddByEmail DEF KeysArrive
  <1> HIDE DEF c
  <1>3. i = 0 \/ i \in DOMAIN c.users
    BY <1>2 DEF UsersOK, Indexed
  <1> HIDE DEF act, i
  <1>4. UsersOK(queuepubkeyreq(c, i, act), A)
    BY <1>2, <1>3, QueueKeeps
  <1>5. UsersOK(Client', A)
    BY <1>1, <1>4, BecomeKeeps
  <1>6. UsersOK(Client', Arriving(answers')) /\ ResultsOK(answers') /\ PacketsOK(pending') /\ ServerOK(srv')
    BY <1>1, <1>5 DEF KeysArrive
  <1> QED BY <1>6, KeysNext

(* The application adds a file. *)
LEMMA PutnodesKeeps ==
    ASSUME KeysArrive, NEW f, putnodes(f)
    PROVE  KeysArrive'
  <1> DEFINE x == [op |-> "p", file |-> f, key |-> sharekey]
             A == Arriving(answers)
  <1>1. Become(command(Client, x)) /\ UNCHANGED <<answers, srv, pending>>
    BY DEF putnodes
  <1>2. "op" \in DOMAIN x /\ x.op \in Commands \ {"uk"}
    BY DEF Commands
  <1> HIDE DEF x
  <1>3. UsersOK(Client, A)
    BY DEF KeysArrive
  <1>4. UsersOK(command(Client, x), A)
    BY <1>2, <1>3, CommandQuiet, QuietKeeps
  <1>5. UsersOK(Client', A)
    BY <1>1, <1>4, BecomeKeeps
  <1>6. UsersOK(Client', Arriving(answers')) /\ ResultsOK(answers') /\ PacketsOK(pending') /\ ServerOK(srv')
    BY <1>1, <1>5 DEF KeysArrive
  <1> QED BY <1>6, KeysNext

(* A packet is processed. *)
LEMMA ProcscKeeps ==
    ASSUME KeysArrive, procsc
    PROVE  KeysArrive'
  <1> DEFINE p == Head(pending)
             d == notifypurge(applykeys(mergenewshares(Each(sc, Client, p))))
             A == Arriving(answers)
  <1>1. pending # << >> /\ Become(d) /\ pending' = Tail(pending) /\ UNCHANGED <<answers, srv>>
    BY DEF procsc
  <1>2. /\ IsSeq(Tail(pending)) /\ 1 \in DOMAIN pending /\ Head(pending) = pending[1]
        /\ \A i \in DOMAIN Tail(pending) : i + 1 \in DOMAIN pending /\ Tail(pending)[i] = pending[i + 1]
    BY <1>1, TailIs DEF KeysArrive, PacketsOK
  <1>3. PacketOK(p) /\ UsersOK(Client, A)
    BY <1>2 DEF KeysArrive, PacketsOK
  <1> HIDE DEF p
  <1>4. UsersOK(d, A)
    BY <1>3, PacketKeeps
  <1> HIDE DEF d
  <1>5. UsersOK(Client', A)
    BY <1>1, <1>4, BecomeKeeps
  <1>6. PacketsOK(pending')
    BY <1>1, <1>2 DEF KeysArrive, PacketsOK
  <1>7. UsersOK(Client', Arriving(answers')) /\ ResultsOK(answers') /\ ServerOK(srv')
    BY <1>1, <1>5 DEF KeysArrive
  <1> QED BY <1>6, <1>7, KeysNext

(* The results to come, without the first. *)
LEMMA ArrivingTail ==
    ASSUME NEW s, IsSeq(s), s # << >>
    PROVE  /\ Head(s).op = "uk" => Arriving(s) = Arriving(Tail(s)) \union {Head(s).rec}
           /\ Head(s).op # "uk" => Arriving(s) = Arriving(Tail(s))
  <1> DEFINE t == Tail(s)
  <1>1. /\ 1 \in DOMAIN s /\ Head(s) = s[1]
        /\ \A i \in DOMAIN t : i + 1 \in DOMAIN s /\ t[i] = s[i + 1]
        /\ \A i \in DOMAIN s : i # 1 => i - 1 \in DOMAIN t /\ t[i - 1] = s[i]
    BY TailIs
  <1> HIDE DEF t
  <1>2. \A r \in Arriving(t) : r \in Arriving(s)
    BY <1>1 DEF Arriving
  <1>3. \A r \in Arriving(s) : r \in Arriving(t) \/ (s[1].op = "uk" /\ r = s[1].rec)
    BY <1>1 DEF Arriving
  <1>4. s[1].op = "uk" => s[1].rec \in Arriving(s)
    BY <1>1 DEF Arriving
  <1> QED BY <1>1, <1>2, <1>3, <1>4 DEF t

(* A command's result is processed. *)
LEMMA ProcresultKeeps ==
    ASSUME KeysArrive, procresult
    PROVE  KeysArrive'
  <1> DEFINE x == Head(answers)
             A == Arriving(Tail(answers))
  <1>1. /\ answers # << >> /\ Become(result(Client, x)) /\ answers' = Tail(answers)
        /\ UNCHANGED <<srv, pending>>
    BY DEF procresult
  <1>2. IsSeq(answers) /\ UsersOK(Client, Arriving(answers)) /\ \A i \in DOMAIN answers : answers[i].op \in Commands
    BY DEF KeysArrive, ResultsOK
  <1>3. /\ IsSeq(Tail(answers)) /\ 1 \in DOMAIN answers /\ x = answers[1]
        /\ \A i \in DOMAIN Tail(answers) : i + 1 \in DOMAIN answers /\ Tail(answers)[i] = answers[i + 1]
    BY <1>1, <1>2, TailIs
  <1>4. x.op \in Commands /\ ResultsOK(answers')
    BY <1>1, <1>2, <1>3 DEF ResultsOK
  <1>5. /\ x.op = "uk" => UsersOK(Client, A \union {x.rec})
        /\ x.op # "uk" => UsersOK(Client, A)
    BY <1>1, <1>2, ArrivingTail
  <1> HIDE DEF x, A
  <1>6. UsersOK(result(Client, x), A)
    <2>1. CASE x.op = "uk"
      <3> DEFINE u == Client.users[x.rec].who
                 v == x.ok /\ u \in Registered
      <3>1. result(Client, x) = pubKeyResult(Client, x.rec, u, v)
        BY <2>1 DEF result
      <3> HIDE DEF u, v
      <3> QED BY <1>5, <2>1, <3>1, PubKeyKeeps
    <2>2. CASE x.op = "s"
      <3> DEFINE c == Client
                 d == [c EXCEPT !.key = x.other]
                 y == setShareCommand(x.rec, x.to, x.for, x.set, d.key, FALSE, {})
      <3>1. UsersOK(c, A)
        BY <1>5, <2>2
      <3> HIDE DEF c
      <3>2. \/ result(c, x) = c \/ result(c, x) = mapuser(c, x.to)
            \/ result(c, x) = command(d, y)
        BY <2>2 DEF result, shareResult
      <3>3. "op" \in DOMAIN y /\ y.op \in Commands \ {"uk"}
        BY DEF setShareCommand, Commands
      <3>4. Elsewhere(c, d)
        BY <3>1 DEF UsersOK, Elsewhere, Fields
      <3> HIDE DEF d, y
      <3>5. UsersOK(command(d, y), A)
        BY <3>1, <3>3, <3>4, ThenCommandQuiet, QuietKeeps
      <3>6. UsersOK(result(c, x), A)
        BY <3>1, <3>2, <3>5, MapKeeps
      <3> QED BY <3>6 DEF c
    <2>3. CASE x.op = "p"
      <3> DEFINE c == Client
                 d == [c EXCEPT !.files = @ \union {x.file}]
      <3>1. UsersOK(c, A)
        BY <1>5, <2>3
      <3> HIDE DEF c
      <3>2. result(c, x) = c \/ result(c, x) = d
        BY <2>3 DEF result
      <3>3. Elsewhere(c, d)
        BY <3>1 DEF UsersOK, Elsewhere, Fields
      <3> HIDE DEF d
      <3>4. UsersOK(result(c, x), A)
        BY <3>1, <3>2, <3>3, ElsewhereQuiet
      <3> QED BY <3>4 DEF c
    <2>4. CASE x.op \in {"sk", "cr", "rw"}
      <3>1. result(Client, x) = Client
        BY <2>4 DEF result
      <3> QED BY <1>5, <2>4, <3>1
    <2> QED BY <1>4, <2>1, <2>2, <2>3, <2>4 DEF Commands
  <1>7. UsersOK(Client', A)
    BY <1>1, <1>6, BecomeKeeps
  <1>8. UsersOK(Client', Arriving(answers')) /\ PacketsOK(pending') /\ ServerOK(srv')
    BY <1>1, <1>7 DEF KeysArrive, A
  <1> QED BY <1>4, <1>8, KeysNext

-----------------------------------------------------------------------------
(* The server *)

\* the result of a command is for the command
AnswerOK(x, y) ==
    /\ {"ok", "other", "op"} \subseteq DOMAIN y /\ y.op = x.op
    /\ x.op = "uk" => y.rec = x.rec

\* what the server returns: a result, its state and a packet
Returned(x, r) ==
    /\ DOMAIN r = {"answer", "srv", "news"}
    /\ AnswerOK(x, r.answer) /\ ServerOK(r.srv)
    /\ r.news = << >> \/ PacketOK(r.news)

(* A result carries the fields of its command. *)
LEMMA AnswerIs ==
    ASSUME NEW x, "op" \in DOMAIN x, x.op = "uk" => "rec" \in DOMAIN x
    PROVE  AnswerOK(x, Insert(Insert(x, "ok", TRUE), "other", 0))
  <1> DEFINE z == Insert(x, "ok", TRUE)
             y == Insert(z, "other", 0)
  <1>1. DOMAIN z = DOMAIN x \union {"ok"} /\ \A k \in DOMAIN x : k # "ok" => z[k] = x[k]
    BY DEF Insert
  <1> HIDE DEF z
  <1>2. DOMAIN y = DOMAIN z \union {"other"} /\ \A k \in DOMAIN z : k # "other" => y[k] = z[k]
    BY DEF Insert
  <1> HIDE DEF y
  <1>3. {"ok", "other", "op"} \subseteq DOMAIN y /\ y["op"] = x["op"]
    BY <1>1, <1>2
  <1>4. "rec" \in DOMAIN x => y["rec"] = x["rec"]
    BY <1>1, <1>2
  <1>5. AnswerOK(x, y)
    BY <1>3, <1>4 DEF AnswerOK
  <1> QED BY <1>5 DEF y, z

(* A result that says something else of the outcome. *)
LEMMA AnswerAlso ==
    ASSUME NEW x, NEW y, AnswerOK(x, y), NEW v
    PROVE  AnswerOK(x, [y EXCEPT !.ok = v]) /\ AnswerOK(x, [y EXCEPT !.other = v])
  BY DEF AnswerOK

(* An action in a packet of its own. *)
LEMMA OneAction ==
    ASSUME NEW x, ActionOK(x)
    PROVE  PacketOK(<<x>>)
  <1>1. <<x>> \in Seq({x}) /\ Len(<<x>>) = 1 /\ <<x>>[1] = x
    OBVIOUS
  <1>2. DOMAIN <<x>> = {1}
    OBVIOUS
  <1> QED BY <1>1, <1>2 DEF PacketOK, IsSeq

(* The server's state stays one, whatever becomes of a share or a file. *)
LEMMA ServerKept ==
    ASSUME NEW s, ServerOK(s)
    PROVE  /\ \A x : ServerOK(given(s, x))
           /\ \A u : ServerOK(dropped(s, u))
           /\ \A f, k : ServerOK([s EXCEPT !.cr = Insert(@, f, k)])
           /\ \A F, k : ServerOK([s EXCEPT !.cr = [f \in DOMAIN @ |-> IF f \in F THEN k ELSE @[f]]])
           /\ \A u, k : ServerOK([s EXCEPT !.ukey = Insert(@, u, k)])
  <1>1. ASSUME NEW x PROVE ServerOK(given(s, x))
    BY DEF ServerOK, given
  <1>2. ASSUME NEW u PROVE ServerOK(dropped(s, u))
    BY DEF ServerOK, dropped
  <1>3. ASSUME NEW f, NEW k PROVE ServerOK([s EXCEPT !.cr = Insert(@, f, k)])
    <2>1. DOMAIN Insert(s.cr, f, k) = DOMAIN s.cr \union {f}
      BY DEF Insert
    <2>2. IsFiniteSet(DOMAIN s.cr \union {f})
      BY FS_AddElement DEF ServerOK
    <2> QED BY <2>1, <2>2 DEF ServerOK
  <1>4. ASSUME NEW F, NEW k
        PROVE  ServerOK([s EXCEPT !.cr = [f \in DOMAIN @ |-> IF f \in F THEN k ELSE @[f]]])
    BY DEF ServerOK
  <1>5. ASSUME NEW u, NEW k PROVE ServerOK([s EXCEPT !.ukey = Insert(@, u, k)])
    BY DEF ServerOK
  <1> QED BY <1>1, <1>2, <1>3, <1>4, <1>5

(* Every command has a result, and leaves the server's state in order. *)
LEMMA ServedIs ==
    ASSUME NEW x, "op" \in DOMAIN x, x.op \in Commands, x.op = "uk" => "rec" \in DOMAIN x,
           ServerOK(srv)
    PROVE  Returned(x, served(x))
  <1> DEFINE done == Insert(Insert(x, "ok", TRUE), "other", 0)
             Is(y, s, p) == [answer |-> y, srv |-> s, news |-> p]
  <1>1. AnswerOK(x, done)
    BY AnswerIs
  <1> DEFINE failed == [done EXCEPT !.ok = FALSE]
             repeated == [done EXCEPT !.other = srv.key]
             added == [srv EXCEPT !.cr = Insert(@, x.file, IF srv.key = 0 THEN 0 ELSE x.key)]
             filled == [srv EXCEPT !.cr = [f \in DOMAIN @ |-> IF f \in x.files THEN x.key ELSE @[f]]]
             keyed == [srv EXCEPT !.ukey = Insert(@, x.to, x.key)]
  <1>2. \/ served(x) = Is(failed, srv, << >>)
        \/ served(x) = Is(repeated, srv, << >>)
        \/ served(x) = Is(done, given(srv, x), <<share(x.to, x.key, FALSE)>>)
        \/ served(x) = Is(done, dropped(srv, x.to), <<share(x.to, 0, TRUE)>>)
        \/ served(x) = Is(done, added, << >>)
        \/ served(x) = Is(done, srv, << >>)
        \/ served(x) = Is(done, filled, << >>)
        \/ served(x) = Is(done, keyed, << >>)
    <2> HIDE DEF done, added, keyed, filled
    <2>1. CASE x.op = "s"
      BY <2>1 DEF served, done
    <2>2. CASE x.op = "p"
      BY <2>2 DEF served, done, added
    <2>3. CASE x.op = "cr"
      BY <2>3 DEF served, done, filled
    <2>4. CASE x.op = "sk"
      BY <2>4 DEF served, done, keyed
    <2>5. CASE x.op \in {"uk", "rw"}
      BY <2>5 DEF served, done
    <2> QED BY <2>1, <2>2, <2>3, <2>4, <2>5 DEF Commands
  <1>3. AnswerOK(x, failed) /\ AnswerOK(x, repeated)
    <2> HIDE DEF done
    <2> QED BY <1>1, AnswerAlso
  <1>4. ServerOK(given(srv, x)) /\ ServerOK(dropped(srv, x.to)) /\ ServerOK(added)
    BY ServerKept
  <1>5. ServerOK(filled) /\ ServerOK(keyed)
    BY ServerKept
  <1>6. PacketOK(<<share(x.to, x.key, FALSE)>>) /\ PacketOK(<<share(x.to, 0, TRUE)>>)
    <2>1. ActionOK(share(x.to, x.key, FALSE)) /\ ActionOK(share(x.to, 0, TRUE))
      BY DEF ActionOK, share
    <2> QED BY <2>1, OneAction
  <1>7. \A y, s, p : AnswerOK(x, y) /\ ServerOK(s) /\ (p = << >> \/ PacketOK(p)) => Returned(x, Is(y, s, p))
    BY DEF Returned
  <1> HIDE DEF done, failed, repeated, added, filled, keyed, Is
  <1> QED BY <1>1, <1>2, <1>3, <1>4, <1>5, <1>6, <1>7

(* The results to come, and one more. *)
LEMMA ArrivingMore ==
    ASSUME NEW s, ResultsOK(s), NEW y, y.op \in Commands
    PROVE  /\ ResultsOK(Append(s, y))
           /\ y.op = "uk" => Arriving(Append(s, y)) = Arriving(s) \union {y.rec}
           /\ y.op # "uk" => Arriving(Append(s, y)) = Arriving(s)
  <1> DEFINE t == Append(s, y)
             n == Len(s) + 1
  <1>1. /\ IsSeq(t) /\ DOMAIN t = DOMAIN s \union {n} /\ n \notin DOMAIN s
        /\ \A i \in DOMAIN s : t[i] = s[i]
        /\ t[n] = y
    BY AppendIs DEF ResultsOK
  <1> HIDE DEF t, n
  <1>2. ResultsOK(t)
    BY <1>1 DEF ResultsOK
  <1>3. \A r \in Arriving(s) : r \in Arriving(t)
    BY <1>1 DEF Arriving
  <1>4. \A r \in Arriving(t) : r \in Arriving(s) \/ (y.op = "uk" /\ r = y.rec)
    BY <1>1 DEF Arriving
  <1>5. y.op = "uk" => y.rec \in Arriving(t)
    BY <1>1 DEF Arriving
  <1> QED BY <1>2, <1>3, <1>4, <1>5 DEF t

(* One more packet. *)
LEMMA PacketsMore ==
    ASSUME NEW s, PacketsOK(s), NEW p, PacketOK(p)
    PROVE  PacketsOK(Append(s, p))
  <1> DEFINE t == Append(s, p)
             n == Len(s) + 1
  <1>1. /\ IsSeq(t) /\ DOMAIN t = DOMAIN s \union {n}
        /\ \A i \in DOMAIN s : t[i] = s[i]
        /\ t[n] = p
    BY AppendIs DEF PacketsOK
  <1> HIDE DEF t, n
  <1>2. PacketsOK(t)
    BY <1>1 DEF PacketsOK
  <1> QED BY <1>2 DEF t

(* A command has been performed: it leaves the queue, and its result takes
   its place for the actions that wait for it. *)
LEMMA ServeKeeps ==
    ASSUME KeysArrive, serve
    PROVE  KeysArrive'
  <1> DEFINE x == Head(cmds)
             r == served(x)
             A == Arriving(answers)
  <1>1. cmds # << >> /\ cmds' = Tail(cmds) /\ UNCHANGED <<users, uhindex, umindex, told>>
    BY DEF serve, userVars
  <1>2. \/ answers' = Append(answers, r.answer) /\ srv' = r.srv /\ pending' = IF r.news = << >> THEN pending ELSE Append(pending, r.news)
        \/ answers' = Append(answers, [r.answer EXCEPT !.ok = FALSE]) /\ UNCHANGED <<srv, pending>>
    BY DEF serve
  <1>3. UsersOK(Client, A) /\ ResultsOK(answers) /\ PacketsOK(pending) /\ ServerOK(srv)
    BY DEF KeysArrive
  <1>4. /\ Client.users = users /\ Client.uh = uhindex /\ Client.um = umindex
        /\ Client.cmds = cmds /\ Client.told = told
    BY ClientIs
  <1>5. /\ Client'.users = users /\ Client'.uh = uhindex /\ Client'.um = umindex
        /\ Client'.cmds = Tail(cmds) /\ Client'.told = told
        /\ DOMAIN Client' = Fields /\ Client'.new = << >>
    BY <1>1, ClientIs
  <1> DEFINE c == Client
             d == Client'
  <1> HIDE DEF c, d
  <1>6. /\ IsSeq(cmds)
        /\ \A i \in DOMAIN cmds :
              /\ "op" \in DOMAIN cmds[i] /\ cmds[i].op \in Commands
              /\ cmds[i].op = "uk" => "rec" \in DOMAIN cmds[i] /\ cmds[i].rec \in DOMAIN users
    BY <1>3, <1>4 DEF UsersOK, Queue, c
  <1>7. /\ IsSeq(Tail(cmds)) /\ 1 \in DOMAIN cmds /\ x = cmds[1]
        /\ \A i \in DOMAIN Tail(cmds) : i + 1 \in DOMAIN cmds /\ Tail(cmds)[i] = cmds[i + 1]
        /\ \A i \in DOMAIN cmds : i # 1 => i - 1 \in DOMAIN Tail(cmds) /\ Tail(cmds)[i - 1] = cmds[i]
    BY <1>1, <1>6, TailIs
  <1>8. "op" \in DOMAIN x /\ x.op \in Commands /\ (x.op = "uk" => "rec" \in DOMAIN x /\ x.rec \in DOMAIN users)
    BY <1>6, <1>7
  <1> HIDE DEF x
  <1>9. Returned(x, r)
    BY <1>3, <1>8, ServedIs
  <1> HIDE DEF r
  <1>10. PICK y : AnswerOK(x, y) /\ answers' = Append(answers, y)
    BY <1>2, <1>9, AnswerAlso DEF Returned
  <1>11. ServerOK(srv') /\ PacketsOK(pending')
    BY <1>2, <1>3, <1>9, PacketsMore DEF Returned
  <1> DEFINE B == Arriving(answers')
  <1>12. y.op \in Commands
    BY <1>8, <1>10 DEF AnswerOK
  <1>13. ResultsOK(answers') /\ (x.op = "uk" => B = A \union {x.rec}) /\ (x.op # "uk" => B = A)
    BY <1>3, <1>10, <1>12, ArrivingMore DEF AnswerOK
  <1> HIDE DEF A, B
  <1>14. A \subseteq DOMAIN users
    BY <1>3, <1>4 DEF UsersOK, c
  <1>15. B \subseteq DOMAIN users /\ A \subseteq B
    BY <1>8, <1>13, <1>14
  <1>16. DOMAIN d = Fields /\ IsSeq(d.new) /\ B \subseteq DOMAIN d.users
    BY <1>5, <1>15 DEF d, IsSeq
  <1>17. Records(d) /\ Indexed(d) /\ Confirmed(d)
    BY <1>3, <1>4, <1>5 DEF UsersOK, Records, Indexed, Confirmed, c, d
  <1>18. Queue(d)
    BY <1>5, <1>6, <1>7 DEF Queue, d
  <1>19. Waiting(d, B)
    <2> SUFFICES ASSUME NEW i \in DOMAIN users, users[i].pkrs # << >>
                 PROVE  i \in B \/ \E k \in DOMAIN Tail(cmds) : Tail(cmds)[k].op = "uk" /\ Tail(cmds)[k].rec = i
      BY <1>5 DEF Waiting, d
    <2>1. i \in A \/ \E k \in DOMAIN cmds : cmds[k].op = "uk" /\ cmds[k].rec = i
      BY <1>3, <1>4 DEF UsersOK, Waiting, c
    <2>2. CASE i \in A
      BY <1>15, <2>2
    <2>3. ASSUME NEW k \in DOMAIN cmds, cmds[k].op = "uk", cmds[k].rec = i
          PROVE  i \in B \/ \E j \in DOMAIN Tail(cmds) : Tail(cmds)[j].op = "uk" /\ Tail(cmds)[j].rec = i
      <3>1. CASE k = 1
        BY <1>7, <1>13, <2>3, <3>1
      <3>2. CASE k # 1
        BY <1>7, <2>3, <3>2
      <3> QED BY <3>1, <3>2
    <2> QED BY <2>1, <2>2, <2>3
  <1>20. UsersOK(d, B)
    BY <1>16, <1>17, <1>18, <1>19 DEF UsersOK
  <1> QED BY <1>11, <1>13, <1>20, KeysNext DEF d, B

-----------------------------------------------------------------------------
(* Other sessions, other users, and the server's questions *)

(* Something has happened elsewhere, of which a packet tells. *)
LEMMA HappensKeeps ==
    ASSUME KeysArrive, NEW s, ServerOK(s), NEW p, PacketOK(p), happens(s, p)
    PROVE  KeysArrive'
  <1>1. /\ srv' = s /\ pending' = Append(pending, p)
        /\ UNCHANGED <<users, uhindex, umindex, cmds, told, answers>>
    BY DEF happens, userVars
  <1> DEFINE A == Arriving(answers)
  <1>2. UsersOK(Client, A) /\ PacketsOK(pending)
    BY DEF KeysArrive
  <1>3. UsersOK(Client', A)
    BY <1>1, <1>2, OthersKeep
  <1>4. PacketsOK(pending')
    BY <1>1, <1>2, PacketsMore
  <1>5. UsersOK(Client', Arriving(answers')) /\ ResultsOK(answers') /\ ServerOK(srv')
    BY <1>1, <1>3 DEF KeysArrive
  <1> QED BY <1>4, <1>5, KeysNext

(* A finite set as a list. *)
LEMMA ListIs ==
    ASSUME NEW P, IsFiniteSet(P)
    PROVE  IsSeq(SetToSeq(P))
  <1> DEFINE n == Cardinality(P)
             f == SetToSeq(P)
  <1>1. n \in Nat /\ ExistsBijection(1 .. n, P)
    BY FS_CardinalityType
  <1>2. \E g \in [1 .. n -> P] : IsInjective(g)
    BY <1>1 DEF ExistsBijection, Bijection, Injection
  <1>3. f \in [1 .. n -> P]
    BY <1>2 DEF SetToSeq
  <1> HIDE DEF f, n
  <1>4. f \in Seq(P)
    BY <1>1, <1>3
  <1> QED BY <1>4 DEF IsSeq, f

(* Another session shares the folder, revokes a share, adds a file or removes
   the folder. *)
LEMMA SessionKeeps ==
    ASSUME KeysArrive, NEW u, NEW f,
           otherShares(u) \/ otherRevokes(u) \/ otherAdds(f) \/ otherRemoves
    PROVE  KeysArrive'
  <1>0. ServerOK(srv)
    BY DEF KeysArrive
  <1>1. CASE otherShares(u)
    <2>1. PICK x, k : happens(given(srv, x), <<share(u, k, FALSE)>>)
      BY <1>1 DEF otherShares
    <2>2. ActionOK(share(u, k, FALSE))
      BY DEF ActionOK, share
    <2>3. PacketOK(<<share(u, k, FALSE)>>) /\ ServerOK(given(srv, x))
      BY <1>0, <2>2, OneAction, ServerKept
    <2> QED BY <2>1, <2>3, HappensKeeps
  <1>2. CASE otherRevokes(u)
    <2>1. happens(dropped(srv, u), <<share(u, 0, TRUE)>>)
      BY <1>2 DEF otherRevokes
    <2>2. ActionOK(share(u, 0, TRUE))
      BY DEF ActionOK, share
    <2>3. PacketOK(<<share(u, 0, TRUE)>>) /\ ServerOK(dropped(srv, u))
      BY <1>0, <2>2, OneAction, ServerKept
    <2> QED BY <2>1, <2>3, HappensKeeps
  <1>3. CASE otherAdds(f)
    <2> DEFINE x == [a |-> "t", node |-> "file", file |-> f]
               s == [srv EXCEPT !.cr = Insert(@, f, srv.key)]
    <2>1. happens(s, <<x>>)
      BY <1>3 DEF otherAdds
    <2>2. ActionOK(x)
      BY DEF ActionOK
    <2>3. ServerOK(s)
      BY <1>0, ServerKept
    <2> HIDE DEF s, x
    <2>4. PacketOK(<<x>>)
      BY <2>2, OneAction
    <2> QED BY <2>1, <2>3, <2>4, HappensKeeps
  <1>4. CASE otherRemoves
    <2> DEFINE x == [a |-> "d"]
               s == [srv EXCEPT !.there = FALSE, !.key = 0, !.shares = {}, !.cr = << >>]
    <2>1. happens(s, <<x>>)
      BY <1>4 DEF otherRemoves
    <2>2. ActionOK(x)
      BY DEF ActionOK
    <2>3. DOMAIN << >> = {} /\ IsFiniteSet({})
      BY FS_EmptySet
    <2>4. ServerOK(s)
      BY <1>0, <2>3 DEF ServerOK
    <2> HIDE DEF s, x
    <2>5. PacketOK(<<x>>)
      BY <2>2, OneAction
    <2> QED BY <2>1, <2>4, <2>5, HappensKeeps
  <1> QED BY <1>1, <1>2, <1>3, <1>4

(* The server asks for node keys. *)
LEMMA AsksKeeps ==
    ASSUME KeysArrive, NEW how \in Ask, asks(how)
    PROVE  KeysArrive'
  <1>0. ServerOK(srv)
    BY DEF KeysArrive
  <1> DEFINE x == [a |-> "k", how |-> how, files |-> SetToSeq(lacking)]
  <1>1. happens(srv, <<x>>)
    BY DEF asks
  <1>2. IsFiniteSet(lacking)
    <2>1. lacking \in SUBSET (DOMAIN srv.cr)
      BY DEF lacking
    <2>2. IsFiniteSet(DOMAIN srv.cr)
      BY <1>0 DEF ServerOK
    <2> QED BY <2>1, <2>2, FS_Subset
  <1>3. IsSeq(SetToSeq(lacking))
    BY <1>2, ListIs
  <1>4. how \in {"list", "selector", "snk"}
    BY ShareAssumption
  <1>5. ActionOK(x)
    BY <1>3, <1>4 DEF ActionOK
  <1> HIDE DEF x
  <1>6. PacketOK(<<x>>)
    BY <1>5, OneAction
  <1> QED BY <1>0, <1>1, <1>6, HappensKeeps

(* The server asks for the share key, tells of a contact, or of a share of another
   user's. *)
LEMMA ServerKeeps ==
    ASSUME KeysArrive, NEW u,
           asksShareKey(u) \/ contact(u) \/ incoming(u) \/ withdrawn(u)
    PROVE  KeysArrive'
  <1>0. ServerOK(srv)
    BY DEF KeysArrive
  <1>1. CASE asksShareKey(u)
    <2> DEFINE x == [a |-> "k", how |-> "sr", peer |-> u]
    <2>1. happens(srv, <<x>>)
      BY <1>1 DEF asksShareKey
    <2>2. ActionOK(x)
      BY DEF ActionOK
    <2> HIDE DEF x
    <2>3. PacketOK(<<x>>)
      BY <2>2, OneAction
    <2> QED BY <1>0, <2>1, <2>3, HappensKeeps
  <1>2. CASE contact(u)
    <2> DEFINE x == [a |-> "c", peer |-> u]
    <2>1. happens(srv, <<x>>)
      BY <1>2 DEF contact
    <2>2. ActionOK(x)
      BY DEF ActionOK
    <2> HIDE DEF x
    <2>3. PacketOK(<<x>>)
      BY <2>2, OneAction
    <2> QED BY <1>0, <2>1, <2>3, HappensKeeps
  <1>3. CASE incoming(u)
    <2> DEFINE x == [share(u, 1, FALSE) EXCEPT !.outgoing = FALSE]
               y == [a |-> "t", node |-> "inbound"]
               s == [srv EXCEPT !.inbound = TRUE]
    <2>1. happens(s, <<x, y>>)
      BY <1>3 DEF incoming
    <2>2. ActionOK(x) /\ ActionOK(y)
      BY DEF ActionOK, share
    <2>3. ServerOK(s)
      BY <1>0 DEF ServerOK
    <2> HIDE DEF s, x, y
    <2>4. <<x, y>> \in Seq({x, y}) /\ DOMAIN <<x, y>> = {1, 2} /\ <<x, y>>[1] = x /\ <<x, y>>[2] = y
      OBVIOUS
    <2>5. PacketOK(<<x, y>>)
      BY <2>2, <2>4 DEF PacketOK, IsSeq
    <2> QED BY <2>1, <2>3, <2>5, HappensKeeps
  <1>4. CASE withdrawn(u)
    <2> DEFINE x == [share(u, 0, TRUE) EXCEPT !.outgoing = FALSE]
               s == [srv EXCEPT !.inbound = FALSE]
    <2>1. happens(s, <<x>>)
      BY <1>4 DEF withdrawn
    <2>2. ActionOK(x)
      BY DEF ActionOK, share
    <2>3. ServerOK(s)
      BY <1>0 DEF ServerOK
    <2> HIDE DEF s, x
    <2>4. PacketOK(<<x>>)
      BY <2>2, OneAction
    <2> QED BY <2>1, <2>3, <2>4, HappensKeeps
  <1> QED BY <1>1, <1>2, <1>3, <1>4

(* Two packets in one. *)
LEMMA JoinedIs ==
    ASSUME NEW p, PacketOK(p), NEW q, PacketOK(q)
    PROVE  PacketOK(p \o q)
  <1>1. PICK P : p \in Seq(P)
    BY DEF PacketOK, IsSeq
  <1>2. PICK Q : q \in Seq(Q)
    BY DEF PacketOK, IsSeq
  <1> DEFINE S == P \union Q
             r == p \o q
  <1>3. p \in Seq(S) /\ q \in Seq(S)
    BY <1>1, <1>2
  <1> HIDE DEF S
  <1>4. r \in Seq(S) /\ Len(r) = Len(p) + Len(q) /\ Len(p) \in Nat /\ Len(q) \in Nat
    BY <1>3
  <1>5. \A i \in 1 .. Len(p) + Len(q) : r[i] = IF i <= Len(p) THEN p[i] ELSE q[i - Len(p)]
    BY <1>3
  <1>6. DOMAIN p = 1 .. Len(p) /\ DOMAIN q = 1 .. Len(q) /\ DOMAIN r = 1 .. Len(p) + Len(q)
    BY <1>3, <1>4
  <1> HIDE DEF r
  <1>7. ASSUME NEW i \in DOMAIN r PROVE ActionOK(r[i])
    <2>1. CASE i <= Len(p)
      BY <1>4, <1>5, <1>6, <2>1 DEF PacketOK
    <2>2. CASE ~(i <= Len(p))
      <3>1. i - Len(p) \in DOMAIN q /\ r[i] = q[i - Len(p)]
        BY <1>4, <1>5, <1>6, <2>2
      <3> QED BY <3>1 DEF PacketOK
    <2> QED BY <2>1, <2>2
  <1>8. PacketOK(r)
    BY <1>4, <1>7 DEF PacketOK, IsSeq
  <1> QED BY <1>8 DEF r

(* Two packets are delivered as one. *)
LEMMA JoinedKeeps ==
    ASSUME KeysArrive, joined
    PROVE  KeysArrive'
  <1> DEFINE A == Arriving(answers)
             n == Len(pending)
             p == pending[1] \o pending[2]
             t == SubSeq(pending, 3, n)
  <1>1. /\ n >= 2 /\ pending' = <<p>> \o t
        /\ UNCHANGED <<users, uhindex, umindex, cmds, told, answers, srv>>
    BY DEF joined, clientVars, userVars
  <1>2. UsersOK(Client, A) /\ PacketsOK(pending)
    BY DEF KeysArrive
  <1>3. UsersOK(Client', A)
    BY <1>1, <1>2, OthersKeep
  <1>4. PacketsOK(pending')
    <2>1. PICK P : pending \in Seq(P)
      BY <1>2 DEF PacketsOK, IsSeq
    <2>2. n \in Nat /\ DOMAIN pending = 1 .. n
      BY <2>1
    <2>3. PacketOK(pending[1]) /\ PacketOK(pending[2])
      <3>1. 1 \in DOMAIN pending /\ 2 \in DOMAIN pending
        BY <1>1, <2>2
      <3> QED BY <1>2, <3>1, Zenon DEF PacketsOK
    <2>4. PacketOK(p)
      BY <2>3, JoinedIs
    <2>5. t \in Seq(P) /\ Len(t) = n - 2 /\ \A i \in 1 .. n - 2 : t[i] = pending[i + 2]
      BY <1>1, <2>1, <2>2
    <2> HIDE DEF p, t, n
    <2> DEFINE S == P \union {p}
    <2>6. t \in Seq(S) /\ <<p>> \in Seq(S) /\ Len(<<p>>) = 1 /\ <<p>>[1] = p
      BY <2>5
    <2> HIDE DEF S
    <2> DEFINE r == <<p>> \o t
    <2>7. r \in Seq(S) /\ Len(r) = n - 1
      BY <2>2, <2>5, <2>6
    <2>8. \A i \in 1 .. n - 1 : r[i] = IF i = 1 THEN p ELSE t[i - 1]
      BY <1>1, <2>2, <2>5, <2>6
    <2>9. DOMAIN r = 1 .. n - 1
      BY <2>7
    <2> HIDE DEF r
    <2>10. ASSUME NEW i \in DOMAIN r PROVE PacketOK(r[i])
      <3>1. CASE i = 1
        BY <2>4, <2>8, <2>9, <3>1
      <3>2. CASE i # 1
        <4>1. i - 1 \in 1 .. n - 2 /\ (i - 1) + 2 = i + 1 /\ i + 1 \in 1 .. n
          BY <2>2, <2>9, <3>2
        <4>2. r[i] = pending[i + 1]
          BY <2>5, <2>8, <2>9, <3>2, <4>1
        <4> QED BY <1>2, <2>2, <4>1, <4>2 DEF PacketsOK
      <3> QED BY <3>1, <3>2
    <2>11. PacketsOK(r)
      BY <2>7, <2>10 DEF PacketsOK, IsSeq
    <2> QED BY <1>1, <2>11 DEF r, p, t, n
  <1>5. UsersOK(Client', Arriving(answers')) /\ ResultsOK(answers') /\ ServerOK(srv')
    BY <1>1, <1>3 DEF KeysArrive
  <1> QED BY <1>4, <1>5, KeysNext

-----------------------------------------------------------------------------
(* The invariant *)

(* Nobody is known, and nothing is on its way. *)
LEMMA KeysInit == Init => KeysArrive
  <1> SUFFICES ASSUME Init PROVE KeysArrive
    OBVIOUS
  <1>1. /\ users = << >> /\ uhindex = << >> /\ umindex = << >> /\ cmds = << >>
        /\ answers = << >> /\ pending = << >> /\ told = {}
    BY DEF Init
  <1>2. IsSeq(<< >>) /\ DOMAIN << >> = {}
    BY DEF IsSeq
  <1>3. Arriving(answers) = {}
    BY <1>1, <1>2 DEF Arriving
  <1>4. ResultsOK(answers) /\ PacketsOK(pending)
    BY <1>1, <1>2 DEF ResultsOK, PacketsOK
  <1>5. ServerOK(srv)
    <2>1. DOMAIN srv.cr = files /\ DOMAIN srv = {"there", "key", "shares", "cr", "ukey", "inbound"}
      BY DEF Init
    <2>2. files = {} \/ files = {Min(File)}
      BY DEF Init
    <2>3. IsFiniteSet(files)
      BY <2>2, FS_EmptySet, FS_Singleton
    <2> QED BY <2>1, <2>3 DEF ServerOK
  <1> DEFINE c == Client
  <1>6. /\ DOMAIN c = Fields /\ c.new = << >> /\ c.users = << >> /\ c.uh = << >>
        /\ c.um = << >> /\ c.cmds = << >> /\ c.told = {}
    BY <1>1, ClientIs
  <1> HIDE DEF c
  <1>7. UsersOK(c, {})
    BY <1>2, <1>6 DEF UsersOK, Records, Indexed, Confirmed, Queue, Waiting
  <1> QED BY <1>3, <1>4, <1>5, <1>7 DEF KeysArrive, c

(* Every step keeps it. *)
LEMMA KeysStep == KeysArrive /\ [Next]_vars => KeysArrive'
  <1> SUFFICES ASSUME KeysArrive, [Next]_vars PROVE KeysArrive'
    OBVIOUS
  <1>1. CASE UNCHANGED vars
    <2> DEFINE A == Arriving(answers)
    <2>1. UNCHANGED <<users, uhindex, umindex, cmds, told, answers, pending, srv>>
      BY <1>1 DEF vars, clientVars, userVars
    <2>2. UsersOK(Client, A)
      BY DEF KeysArrive
    <2>3. UsersOK(Client', A)
      BY <2>1, <2>2, OthersKeep
    <2>4. UsersOK(Client', Arriving(answers')) /\ ResultsOK(answers') /\ PacketsOK(pending') /\ ServerOK(srv')
      BY <2>1, <2>3 DEF KeysArrive
    <2> QED BY <2>4, KeysNext
  <1>2. ASSUME NEW u \in User \union {EXP}, NEW set \in BOOLEAN, setshare(u, set) PROVE KeysArrive'
    BY <1>2, SetshareKeeps
  <1>3. ASSUME NEW f \in File, putnodes(f) PROVE KeysArrive'
    BY <1>3, PutnodesKeeps
  <1>4. ASSUME NEW f \in File, otherAdds(f) PROVE KeysArrive'
    BY <1>4, SessionKeeps
  <1>5. CASE serve
    BY <1>5, ServeKeeps
  <1>6. CASE procresult
    BY <1>6, ProcresultKeeps
  <1>7. CASE procsc
    BY <1>7, ProcscKeeps
  <1>8. CASE joined
    BY <1>8, JoinedKeeps
  <1>9. ASSUME NEW u \in User \union {EXP}, otherShares(u) \/ otherRevokes(u) PROVE KeysArrive'
    BY <1>9, SessionKeeps
  <1>10. CASE otherRemoves
    BY <1>10, SessionKeeps
  <1>11. ASSUME NEW how \in Ask, asks(how) PROVE KeysArrive'
    BY <1>11, AsksKeeps
  <1>12. ASSUME NEW u \in User, asksShareKey(u) \/ contact(u) \/ incoming(u) \/ withdrawn(u)
         PROVE  KeysArrive'
    BY <1>12, ServerKeeps
  <1> QED BY <1>1, <1>2, <1>3, <1>4, <1>5, <1>6, <1>7, <1>8, <1>9, <1>10, <1>11, <1>12 DEF Next

(* The inductive invariant holds: users are found under the handles and
   addresses they are registered by in uhindex and umindex, every command on
   its way is one the server performs, and a key that is waited for is in a
   command or in a result. *)
THEOREM KeysAlways == Spec => []KeysArrive
  BY KeysInit, KeysStep, PTL DEF Spec

(* Whatever shares, contacts and results name a user, by handle or by address
   and in whatever order, once mapuser() has been told that they belong together
   both lead to one record. *)
THEOREM OneUser == Spec => []OneRecord
  <1>1. KeysArrive => OneRecord
    <2> SUFFICES ASSUME KeysArrive PROVE OneRecord
      OBVIOUS
    <2>1. Confirmed(Client)
      BY DEF KeysArrive, UsersOK
    <2>2. Client.uh = uhindex /\ Client.um = umindex /\ Client.told = told
      BY ClientIs
    <2> QED BY <2>1, <2>2 DEF Confirmed, OneRecord
  <1> QED BY <1>1, KeysAlways, PTL

(* An action that queuepubkeyreq() has deferred is never forgotten, whatever
   fails and whatever comes in between: its record's key has been requested,
   and the result is still to be processed by CommandPubKeyRequest. *)
THEOREM Requests == Spec => []WaitingIsRequested
  <1>1. KeysArrive => WaitingIsRequested
    <2> SUFFICES ASSUME KeysArrive, NEW i \in DOMAIN users, users[i].pkrs # << >>
                 PROVE  \E x \in Range(cmds) \union Range(answers) : x.op = "uk" /\ x.rec = i
      BY DEF WaitingIsRequested
    <2>1. Waiting(Client, Arriving(answers))
      BY DEF KeysArrive, UsersOK
    <2>2. Client.users = users /\ Client.cmds = cmds
      BY ClientIs
    <2>3. i \in Arriving(answers) \/ \E k \in DOMAIN cmds : cmds[k].op = "uk" /\ cmds[k].rec = i
      BY <2>1, <2>2 DEF Waiting
    <2>4. CASE i \in Arriving(answers)
      BY <2>4 DEF Arriving, Range
    <2>5. ASSUME NEW k \in DOMAIN cmds, cmds[k].op = "uk", cmds[k].rec = i
          PROVE  \E x \in Range(cmds) \union Range(answers) : x.op = "uk" /\ x.rec = i
      BY <2>5 DEF Range
    <2> QED BY <2>3, <2>4, <2>5
  <1> QED BY <1>1, KeysAlways, PTL
-----------------------------------------------------------------------------
(* Operations that leave folders and shares alone *)

\* d has c's folders, shares and keys
Alike(c, d) ==
    /\ DOMAIN d = Fields /\ d.node = c.node /\ d.key = c.key /\ d.out = c.out
    /\ d.in = c.in /\ d.new = c.new /\ d.keys = c.keys

\* the commands s, and others after them, in t
More(s, t) == \A i \in DOMAIN s : i \in DOMAIN t /\ t[i] = s[i]

ShareFields == {"op", "rec", "to", "for", "set", "key", "new", "cr"}

\* a share carries a key that has been made up
Carries(x, K) == x.op = "s" => DOMAIN x = ShareFields /\ x.key \in 1 .. K

\* moreover, d has c's commands, and more that share nothing
Calm(c, d) ==
    /\ Alike(c, d) /\ More(c.cmds, d.cmds)
    /\ \A i \in DOMAIN d.cmds : i \in DOMAIN c.cmds \/ d.cmds[i].op # "s"

(* Doing nothing is calm, and so is doing calm things one after the other. *)
LEMMA CalmSame ==
    ASSUME NEW c, DOMAIN c = Fields
    PROVE  Calm(c, c)
  BY DEF Calm, Alike, More

LEMMA CalmThen ==
    ASSUME NEW c, NEW d, NEW e, Calm(c, d), Calm(d, e)
    PROVE  Calm(c, e)
  BY DEF Calm, Alike, More

(* Changing something else is calm. *)
LEMMA AlikeCalm ==
    ASSUME NEW c, NEW d, Alike(c, d), d.cmds = c.cmds
    PROVE  Calm(c, d)
  BY DEF Calm, More

(* What a command adds. *)
LEMMA CommandIs ==
    ASSUME NEW c, DOMAIN c = Fields, IsSeq(c.cmds), NEW x
    PROVE  LET d == command(c, x)
               n == Len(c.cmds) + 1
           IN  /\ Alike(c, d) /\ More(c.cmds, d.cmds) /\ IsSeq(d.cmds)
               /\ n \notin DOMAIN c.cmds /\ DOMAIN d.cmds = DOMAIN c.cmds \union {n} /\ d.cmds[n] = x
               /\ d.users = c.users
  <1> DEFINE d == command(c, x)
             s == Append(c.cmds, x)
             n == Len(c.cmds) + 1
  <1>1. /\ IsSeq(s) /\ DOMAIN s = DOMAIN c.cmds \union {n} /\ n \notin DOMAIN c.cmds
        /\ \A i \in DOMAIN c.cmds : s[i] = c.cmds[i]
        /\ s[n] = x
    BY AppendIs
  <1> HIDE DEF s, n
  <1>2. Alike(c, d) /\ d.cmds = s /\ d.users = c.users
    BY DEF command, Fields, Alike, s
  <1> HIDE DEF d
  <1>3. /\ Alike(c, d) /\ More(c.cmds, d.cmds) /\ IsSeq(d.cmds)
        /\ n \notin DOMAIN c.cmds /\ DOMAIN d.cmds = DOMAIN c.cmds \union {n} /\ d.cmds[n] = x
        /\ d.users = c.users
    BY <1>1, <1>2 DEF More
  <1> QED BY <1>3 DEF d, n

LEMMA CommandCalm ==
    ASSUME NEW c, DOMAIN c = Fields, IsSeq(c.cmds), NEW x, x.op # "s"
    PROVE  Calm(c, command(c, x)) /\ IsSeq(command(c, x).cmds)
  BY CommandIs DEF Calm

(* Node keys are sent. *)
LEMMA ResponseCalm ==
    ASSUME NEW c, DOMAIN c = Fields, IsSeq(c.cmds), NEW F
    PROVE  Calm(c, cr_response(c, F)) /\ IsSeq(cr_response(c, F).cmds)
  <1> DEFINE x == [op |-> "cr", files |-> F \intersect c.files, key |-> c.key]
  <1>1. cr_response(c, F) = command(c, x) \/ cr_response(c, F) = c
    BY DEF cr_response
  <1>2. x.op # "s"
    OBVIOUS
  <1> HIDE DEF x
  <1> QED BY <1>1, <1>2, CommandCalm, CalmSame

LEMMA ListedCalm ==
    ASSUME NEW c, DOMAIN c = Fields, IsSeq(c.cmds), NEW list
    PROVE  Calm(c, listed(c, list))
  <1>1. PICK F, G, w : \/ listed(c, list) = [cr_response(c, F) EXCEPT !.unsent = @ \union G]
                       \/ listed(c, list) = [c EXCEPT !.wrong = @ \/ w]
    BY Zenon DEF listed
  <1> DEFINE d == cr_response(c, F)
             e == [d EXCEPT !.unsent = @ \union G]
             g == [c EXCEPT !.wrong = @ \/ w]
  <1>2. Calm(c, d)
    BY ResponseCalm
  <1> HIDE DEF d
  <1>3. Alike(d, e) /\ e.cmds = d.cmds
    BY <1>2 DEF Calm, Alike, Fields
  <1>4. Alike(c, g) /\ g.cmds = c.cmds
    BY DEF Alike, Fields
  <1> HIDE DEF e, g
  <1>5. Calm(c, e) /\ Calm(c, g)
    BY <1>2, <1>3, <1>4, AlikeCalm, CalmThen
  <1> QED BY <1>1, <1>5 DEF e, d, g

LEMMA KeysCalm ==
    ASSUME NEW c, DOMAIN c = Fields, IsSeq(c.cmds), NEW s, IsSeq(s)
    PROVE  Calm(c, Loop("key", 0, c, s)[Len(s)])
  <1> DEFINE f == Loop("key", 0, c, s)
             S == {n \in Nat : n <= Len(s) => Calm(c, f[n]) /\ IsSeq(f[n].cmds)}
  <1>1. f[0] = c /\ \A n \in Nat : n + 1 <= Len(s) => f[n + 1] = Do("key", 0, f[n], s[n + 1])
    BY LoopExists
  <1> HIDE DEF f
  <1>2. 0 \in S
    BY <1>1, CalmSame
  <1>3. ASSUME NEW n \in Nat, n \in S PROVE n + 1 \in S
    <2> SUFFICES ASSUME n + 1 <= Len(s) PROVE Calm(c, f[n + 1]) /\ IsSeq(f[n + 1].cmds)
      OBVIOUS
    <2>1. Calm(c, f[n]) /\ IsSeq(f[n].cmds)
      BY <1>3, SeqIs
    <2>2. DOMAIN f[n] = Fields
      BY <2>1 DEF Calm, Alike
    <2>3. f[n + 1] = cr_response(f[n], {s[n + 1]})
      BY <1>1 DEF Do
    <2>4. Calm(f[n], f[n + 1]) /\ IsSeq(f[n + 1].cmds)
      BY <2>1, <2>2, <2>3, ResponseCalm
    <2> QED BY <2>1, <2>4, CalmThen
  <1> HIDE DEF S
  <1>4. Len(s) \in S
    BY <1>2, <1>3, SetInduction, SeqIs
  <1> QED BY <1>4, SeqIs DEF S, f

(* Users are added and mapped. *)
LEMMA UsersAlike ==
    ASSUME NEW c, DOMAIN c = Fields, NEW u, NEW b
    PROVE  /\ Alike(c, adduser(c, u, b)) /\ adduser(c, u, b).cmds = c.cmds
           /\ Alike(c, mapuser(c, u)) /\ mapuser(c, u).cmds = c.cmds
  <1> DEFINE Fine(d) == Alike(c, d) /\ d.cmds = c.cmds
  <1>1. Fine(c)
    BY DEF Alike
  <1>2. ASSUME NEW s, NEW f, NEW g, NEW t
        PROVE  /\ Fine([[c EXCEPT !.users = s] EXCEPT !.uh = f])
               /\ Fine([[c EXCEPT !.users = s] EXCEPT !.um = f])
               /\ Fine([c EXCEPT !.told = t])
               /\ Fine([[c EXCEPT !.told = t] EXCEPT !.users = s, !.um = g])
               /\ Fine([c EXCEPT !.uh = f, !.users = s, !.told = t])
    BY DEF Alike, Fields
  <1> HIDE DEF Fine
  <1>3. Fine(adduser(c, u, b))
    BY <1>1, <1>2 DEF adduser
  <1>4. Fine(mapuser(c, u))
    BY <1>1, <1>2 DEF mapuser
  <1> QED BY <1>3, <1>4 DEF Fine

-----------------------------------------------------------------------------
(* Operations that send shares *)

\* keys are numbers that have been made up
KeyFits(c) == c.keys \in Nat /\ (c.node # "no" => c.key \in 0 .. c.keys)

\* A share key is made up for a share that is sent.
MadeUp(c, d) ==
    /\ c.key = 0 /\ d.key \in c.keys + 1 .. d.keys
    /\ \E i \in DOMAIN d.cmds : /\ i \notin DOMAIN c.cmds
                                /\ d.cmds[i].op = "s" /\ d.cmds[i].key = d.key
                                /\ d.cmds[i].set \/ d.cmds[i].new

\* d has c's folders and shares, and c's commands and more; if it has another
\* key, that has just been made up
Work(c, d) ==
    /\ DOMAIN d = Fields /\ d.node = c.node /\ d.out = c.out /\ d.in = c.in /\ d.new = c.new
    /\ d.keys \in Nat /\ c.keys <= d.keys
    /\ More(c.cmds, d.cmds) /\ IsSeq(d.cmds)
    /\ \A i \in DOMAIN d.cmds : i \in DOMAIN c.cmds \/ Carries(d.cmds[i], d.keys)
    /\ d.key = c.key \/ MadeUp(c, d)

(* What is calm is work. *)
LEMMA CalmWork ==
    ASSUME NEW c, KeyFits(c), NEW d, Calm(c, d), IsSeq(d.cmds)
    PROVE  Work(c, d) /\ KeyFits(d)
  BY DEF Calm, Alike, Work, KeyFits, Carries

(* Work after work. *)
LEMMA WorkThen ==
    ASSUME NEW c, KeyFits(c), NEW d, Work(c, d), NEW e, Work(d, e)
    PROVE  Work(c, e)
  <1>1. c.keys \in Nat /\ d.keys \in Nat /\ e.keys \in Nat /\ c.keys <= d.keys /\ d.keys <= e.keys
    BY DEF KeyFits, Work
  <1>2. \A x : Carries(x, d.keys) => Carries(x, e.keys)
    BY <1>1 DEF Carries
  <1>3. \A i \in DOMAIN e.cmds : i \in DOMAIN c.cmds \/ Carries(e.cmds[i], e.keys)
    BY <1>2 DEF Work, More
  <1>4. More(c.cmds, e.cmds)
    BY DEF Work, More
  <1>5. e.key = c.key \/ MadeUp(c, e)
    <2>1. CASE d.key = c.key /\ e.key = d.key
      BY <2>1
    <2>2. CASE d.key = c.key /\ MadeUp(d, e)
      BY <1>1, <2>2 DEF MadeUp, Work, More
    <2>3. CASE MadeUp(c, d) /\ e.key = d.key
      <3>1. d.key \in c.keys + 1 .. e.keys /\ e.key = d.key /\ c.key = 0
        BY <1>1, <2>3 DEF MadeUp
      <3>2. PICK i \in DOMAIN d.cmds : /\ i \notin DOMAIN c.cmds
                                       /\ d.cmds[i].op = "s" /\ d.cmds[i].key = d.key
                                       /\ d.cmds[i].set \/ d.cmds[i].new
        BY <2>3 DEF MadeUp
      <3>3. i \in DOMAIN e.cmds /\ e.cmds[i] = d.cmds[i]
        BY DEF Work, More
      <3> QED BY <3>1, <3>2, <3>3 DEF MadeUp
    <2>4. CASE MadeUp(c, d) /\ MadeUp(d, e)
      BY <1>1, <2>4 DEF MadeUp
    <2> QED BY <2>1, <2>2, <2>3, <2>4 DEF Work
  <1> QED BY <1>1, <1>3, <1>4, <1>5 DEF Work

(* Keys stay numbers that have been made up. *)
LEMMA WorkFits ==
    ASSUME NEW c, KeyFits(c), NEW d, Work(c, d)
    PROVE  KeyFits(d)
  BY DEF KeyFits, Work, MadeUp

(* PubKeyActionCreateShare::proc() *)
LEMMA CreateWorks ==
    ASSUME NEW c, DOMAIN c = Fields, IsSeq(c.cmds), KeyFits(c), NEW i, NEW act
    PROVE  Work(c, createShare(c, i, act))
  <1> DEFINE new == c.key = 0
             e == [c EXCEPT !.keys = @ + 1, !.key = c.keys + 1]
             d == IF new THEN e ELSE c
             x == setShareCommand(i, IF i = 0 THEN EXP ELSE c.users[i].who, act.for,
                                  act.set, d.key, new, IF new THEN c.files ELSE {})
             g == command(d, x)
  <1>1. createShare(c, i, act) = IF c.node = "no" THEN c ELSE g
    BY DEF createShare
  <1>2. Work(c, c)
    BY DEF Work, More, KeyFits
  <1>3. /\ DOMAIN e = Fields /\ e.node = c.node /\ e.out = c.out /\ e.in = c.in /\ e.new = c.new
        /\ e.keys = c.keys + 1 /\ e.key = c.keys + 1 /\ e.cmds = c.cmds
    BY DEF Fields
  <1> HIDE DEF e
  <1>4. /\ DOMAIN d = Fields /\ d.node = c.node /\ d.out = c.out /\ d.in = c.in /\ d.new = c.new
        /\ d.cmds = c.cmds
    BY <1>3
  <1>5. ASSUME c.node # "no" PROVE Work(c, g)
    <2>1. /\ d.keys \in Nat /\ c.keys <= d.keys /\ d.key \in 1 .. d.keys
          /\ d.key # c.key => c.key = 0 /\ d.key = c.keys + 1 /\ d.keys = c.keys + 1
      BY <1>3, <1>5 DEF KeyFits
    <2>2. /\ DOMAIN x = ShareFields /\ x.op = "s" /\ x.key = d.key /\ x.new = new
      BY DEF setShareCommand, ShareFields
    <2> HIDE DEF x, d
    <2> DEFINE n == Len(d.cmds) + 1
    <2>3. /\ Alike(d, g) /\ More(d.cmds, g.cmds) /\ IsSeq(g.cmds)
          /\ n \notin DOMAIN d.cmds /\ DOMAIN g.cmds = DOMAIN d.cmds \union {n} /\ g.cmds[n] = x
      BY <1>4, CommandIs
    <2> HIDE DEF g, n
    <2>4. Carries(x, g.keys) /\ g.keys = d.keys /\ g.key = d.key
      BY <2>1, <2>2, <2>3 DEF Alike, Carries
    <2>5. \A k \in DOMAIN g.cmds : k \in DOMAIN c.cmds \/ Carries(g.cmds[k], g.keys)
      BY <1>4, <2>3, <2>4
    <2>6. g.key = c.key \/ MadeUp(c, g)
      <3>1. CASE d.key = c.key
        BY <2>4, <3>1
      <3>2. CASE d.key # c.key
        <4>1. c.key = 0 /\ g.key \in c.keys + 1 .. g.keys
          BY <2>1, <2>4, <3>2 DEF KeyFits
        <4>2. n \in DOMAIN g.cmds /\ n \notin DOMAIN c.cmds /\ g.cmds[n].op = "s" /\ g.cmds[n].key = g.key
          BY <1>4, <2>2, <2>3, <2>4
        <4>3. g.cmds[n].new
          BY <2>2, <2>3, <4>1
        <4> QED BY <4>1, <4>2, <4>3 DEF MadeUp
      <3> QED BY <3>1, <3>2
    <2> QED BY <1>4, <2>1, <2>3, <2>4, <2>5, <2>6 DEF Work, Alike
  <1> HIDE DEF g
  <1> QED BY <1>1, <1>2, <1>5

(* PubKeyActionSendShareKey::proc() *)
LEMMA SendCalm ==
    ASSUME NEW c, DOMAIN c = Fields, IsSeq(c.cmds), NEW i
    PROVE  Calm(c, sendShareKey(c, i)) /\ IsSeq(sendShareKey(c, i).cmds)
  <1> DEFINE x == [op |-> "sk", to |-> c.users[i].who, key |-> c.key]
  <1>1. sendShareKey(c, i) = command(c, x) \/ sendShareKey(c, i) = c
    BY DEF sendShareKey
  <1>2. x.op # "s"
    OBVIOUS
  <1> HIDE DEF x
  <1> QED BY <1>1, <1>2, CommandCalm, CalmSame

LEMMA ActionWorks ==
    ASSUME NEW c, DOMAIN c = Fields, IsSeq(c.cmds), KeyFits(c), NEW i, NEW act
    PROVE  Work(c, procAction(c, i, act))
  BY CreateWorks, SendCalm, CalmWork DEF procAction

(* A request for a key. *)
LEMMA RequestCalm ==
    ASSUME NEW c, DOMAIN c = Fields, IsSeq(c.cmds), NEW i, NEW act
    PROVE  LET d == command([c EXCEPT !.users[i].pkrs = Append(@, act)], [op |-> "uk", rec |-> i])
           IN  Calm(c, d) /\ IsSeq(d.cmds)
  <1> DEFINE e == [c EXCEPT !.users[i].pkrs = Append(@, act)]
             x == [op |-> "uk", rec |-> i]
  <1>1. Alike(c, e) /\ e.cmds = c.cmds /\ DOMAIN e = Fields
    BY DEF Alike, Fields
  <1>2. x.op # "s"
    OBVIOUS
  <1> HIDE DEF e, x
  <1>3. Calm(c, e) /\ Calm(e, command(e, x)) /\ IsSeq(command(e, x).cmds)
    BY <1>1, <1>2, AlikeCalm, CommandCalm
  <1>4. Calm(c, command(e, x))
    BY <1>3, CalmThen
  <1> QED BY <1>3, <1>4 DEF e, x

(* queuepubkeyreq() *)
LEMMA QueueWorks ==
    ASSUME NEW c, DOMAIN c = Fields, IsSeq(c.cmds), KeyFits(c), NEW i, NEW act
    PROVE  Work(c, queuepubkeyreq(c, i, act))
  <1> DEFINE d == command([c EXCEPT !.users[i].pkrs = Append(@, act)], [op |-> "uk", rec |-> i])
  <1>1. queuepubkeyreq(c, i, act) = procAction(c, i, act) \/ queuepubkeyreq(c, i, act) = d
    BY DEF queuepubkeyreq
  <1>2. Calm(c, d) /\ IsSeq(d.cmds)
    BY RequestCalm
  <1> HIDE DEF d
  <1> QED BY <1>1, <1>2, CalmWork, ActionWorks

LEMMA QueueCalm ==
    ASSUME NEW c, DOMAIN c = Fields, IsSeq(c.cmds), NEW i, NEW act, act.op # "create"
    PROVE  Calm(c, queuepubkeyreq(c, i, act))
  <1> DEFINE d == command([c EXCEPT !.users[i].pkrs = Append(@, act)], [op |-> "uk", rec |-> i])
  <1>1. queuepubkeyreq(c, i, act) = sendShareKey(c, i) \/ queuepubkeyreq(c, i, act) = d
    BY DEF queuepubkeyreq, procAction
  <1>2. Calm(c, d)
    BY RequestCalm
  <1> HIDE DEF d
  <1> QED BY <1>1, <1>2, SendCalm

(* The actions that have waited. *)
LEMMA ActionsWork ==
    ASSUME NEW c, DOMAIN c = Fields, IsSeq(c.cmds), KeyFits(c), NEW p, NEW s, IsSeq(s)
    PROVE  Work(c, Loop("action", p, c, s)[Len(s)])
  <1> DEFINE f == Loop("action", p, c, s)
             S == {n \in Nat : n <= Len(s) => Work(c, f[n])}
  <1>1. f[0] = c /\ \A n \in Nat : n + 1 <= Len(s) => f[n + 1] = Do("action", p, f[n], s[n + 1])
    BY LoopExists
  <1> HIDE DEF f
  <1>2. 0 \in S
    BY <1>1, CalmSame, CalmWork
  <1>3. ASSUME NEW n \in Nat, n \in S PROVE n + 1 \in S
    <2> SUFFICES ASSUME n + 1 <= Len(s) PROVE Work(c, f[n + 1])
      OBVIOUS
    <2>1. Work(c, f[n])
      BY <1>3, SeqIs
    <2>2. f[n + 1] = procAction(f[n], p, s[n + 1])
      BY <1>1 DEF Do
    <2>3. DOMAIN f[n] = Fields /\ IsSeq(f[n].cmds) /\ KeyFits(f[n])
      BY <2>1, WorkFits DEF Work
    <2>4. Work(f[n], f[n + 1])
      BY <2>2, <2>3, ActionWorks
    <2> QED BY <2>1, <2>4, WorkThen
  <1> HIDE DEF S
  <1>4. Len(s) \in S
    BY <1>2, <1>3, SetInduction, SeqIs
  <1> QED BY <1>4, SeqIs DEF S, f

(* CommandPubKeyRequest::procresult() *)
LEMMA PubKeyWorks ==
    ASSUME NEW c, NEW A, NEW i, UsersOK(c, A \union {i}), KeyFits(c), NEW u, NEW valid
    PROVE  Work(c, pubKeyResult(c, i, u, valid))
  <1> DEFINE m == mapanswer(c, i, u)
             g == [m EXCEPT !.users[i].pubk = TRUE]
             d == IF valid THEN g ELSE c
             p == IF valid THEN i ELSE 0
             s == d.users[i].pkrs
             e == Each(LAMBDA q, x : procAction(q, p, x), d, s)
             r == [e EXCEPT !.users[i].pkrs = << >>]
  <1>1. pubKeyResult(c, i, u, valid) = r
    BY DEF pubKeyResult
  <1>2. UsersOK(m, A \union {i}) /\ DOMAIN c = Fields /\ IsSeq(c.cmds)
    BY MapKeeps DEF UsersOK, Queue, mapanswer
  <1>3. Alike(c, m) /\ m.cmds = c.cmds
    BY <1>2, UsersAlike DEF mapanswer, Alike
  <1> HIDE DEF m
  <1>4. /\ i \in DOMAIN m.users /\ IsSeq(m.users[i].pkrs) /\ DOMAIN m.users[i] = UserFields
        /\ i \in DOMAIN c.users /\ IsSeq(c.users[i].pkrs)
        /\ DOMAIN m = Fields
    BY <1>2 DEF UsersOK, Records
  <1>5. Alike(m, g) /\ g.cmds = m.cmds /\ g.users[i].pkrs = m.users[i].pkrs
    BY <1>4 DEF Alike, Fields, UserFields
  <1> HIDE DEF g
  <1>6. Calm(c, d) /\ d.cmds = c.cmds /\ DOMAIN d = Fields /\ IsSeq(s)
    <2>1. Calm(c, g) /\ Calm(c, c)
      BY <1>2, <1>3, <1>5, AlikeCalm, CalmThen, CalmSame
    <2> QED BY <1>2, <1>3, <1>4, <1>5, <2>1 DEF Alike
  <1> HIDE DEF d
  <1>7. Work(c, d) /\ KeyFits(d)
    BY <1>2, <1>6, CalmWork
  <1> HIDE DEF p, s
  <1>8. e = Loop("action", p, d, s)[Len(s)]
    BY Loops
  <1>9. Work(d, e)
    BY <1>2, <1>6, <1>7, <1>8, ActionsWork
  <1> HIDE DEF e
  <1>10. DOMAIN e = Fields /\ IsSeq(e.cmds) /\ KeyFits(e)
    BY <1>7, <1>9, WorkFits DEF Work
  <1>11. Alike(e, r) /\ r.cmds = e.cmds
    BY <1>10 DEF Alike, Fields
  <1> HIDE DEF r
  <1>12. Work(e, r)
    BY <1>10, <1>11, AlikeCalm, CalmWork
  <1>13. Work(c, e)
    BY <1>7, <1>9, WorkThen
  <1> QED BY <1>1, <1>12, <1>13, WorkThen

(* The server asks for keys. *)
LEMMA AskedCalm ==
    ASSUME NEW c, DOMAIN c = Fields, IsSeq(c.cmds), NEW x, ActionOK(x), x.a = "k"
    PROVE  Calm(c, sc_keys(c, x))
  <1>1. CASE x.how = "list"
    <2>1. sc_keys(c, x) = listed(c, x.files)
      BY <1>1 DEF sc_keys
    <2> QED BY <2>1, ListedCalm
  <1>2. CASE x.how = "selector"
    <2>1. sc_keys(c, x) = cr_response(c, Range(x.files))
      BY <1>2 DEF sc_keys, proccr
    <2> QED BY <2>1, ResponseCalm
  <1>3. CASE x.how = "snk"
    <2> DEFINE s == x.files
    <2>1. IsSeq(s)
      BY <1>3 DEF ActionOK
    <2>2. sc_keys(c, x) = Each(LAMBDA d, f : cr_response(d, {f}), c, s)
      BY <1>3 DEF sc_keys, procsnk
    <2> HIDE DEF s
    <2>3. Each(LAMBDA d, f : cr_response(d, {f}), c, s) = Loop("key", 0, c, s)[Len(s)]
      BY Loops
    <2>4. Calm(c, Loop("key", 0, c, s)[Len(s)])
      BY <2>1, KeysCalm
    <2>5. sc_keys(c, x) = Loop("key", 0, c, s)[Len(s)]
      BY <2>2, <2>3, Zenon
    <2> QED BY <2>4, <2>5
  <1>4. CASE x.how = "sr"
    <2> DEFINE u == x.peer
               act == [op |-> "send", for |-> u, set |-> TRUE]
    <2>1. sc_keys(c, x) = c \/ sc_keys(c, x) = queuepubkeyreq(c, c.uh[u], act)
      BY <1>4 DEF sc_keys, procsr
    <2>2. act.op # "create"
      OBVIOUS
    <2> HIDE DEF act
    <2> QED BY <2>1, <2>2, QueueCalm, CalmSame
  <1> QED BY <1>1, <1>2, <1>3, <1>4 DEF ActionOK

-----------------------------------------------------------------------------
(* What packets tell.  A view is the server's state between two actions: is    *)
(* the folder there, its shares, its key, and how often its last share, or the *)
(* folder, has gone (epoch); and of the folder that others share, whether it   *)
(* is shared, "coming" after the share and before its nodes.                   *)

IsView(v, K) ==
    /\ v.key \in 0 .. K /\ v.epoch \in Nat
    /\ v.shares = {} <=> v.key = 0
    /\ ~v.there => v.shares = {}

SameOut(v, w) ==
    /\ w.there <=> v.there
    /\ w.shares = v.shares /\ w.key = v.key /\ w.epoch = v.epoch

Outgoing(x) == x.a = "s" /\ x.outgoing

\* action x leads from view v to view w, concerning the own folder ...
TellsOut(v, x, w) ==
    /\ Outgoing(x) => v.there /\ w.there
    /\ Outgoing(x) /\ ~x.del =>
          /\ x.key # 0 /\ v.key \in {0, x.key}
          /\ w.shares = v.shares \union {x.peer} /\ w.key = x.key /\ w.epoch = v.epoch
    /\ Outgoing(x) /\ x.del =>
          /\ x.key = 0 /\ w.shares = v.shares \ {x.peer}
          /\ w.shares = {} => w.epoch = v.epoch + 1
          /\ w.shares # {} => w.key = v.key /\ w.epoch = v.epoch
    /\ x.a = "d" => ~w.there /\ w.epoch = v.epoch + 1
    /\ ~Outgoing(x) /\ x.a # "d" => SameOut(v, w)

Inbound(x) == x.a = "s" /\ ~x.outgoing

Nodes(x) == x.a = "t" /\ x.node = "inbound"

\* ... and the one that others share
TellsIn(v, x, w) ==
    /\ v.in = "coming" => Nodes(x)
    /\ Inbound(x) /\ ~x.del => v.in = "no" /\ w.in = "coming" /\ x.key # 0
    /\ Inbound(x) /\ x.del => v.in = "yes" /\ w.in = "no"
    /\ Nodes(x) => v.in = "coming" /\ w.in = "yes"
    /\ ~Inbound(x) /\ ~Nodes(x) => w.in = v.in

\* v comes before w: while no epoch ends, the key of the folder stays
Before(v, w) ==
    /\ w.there => v.there
    /\ v.epoch <= w.epoch
    /\ v.epoch = w.epoch => v.key \in {0, w.key}

(* An action leads to a later view. *)
LEMMA TellsBefore ==
    ASSUME NEW K, NEW v, IsView(v, K), NEW w, IsView(w, K), NEW x, TellsOut(v, x, w)
    PROVE  Before(v, w)
  <1>1. CASE Outgoing(x) /\ ~x.del
    BY <1>1 DEF IsView, TellsOut, Before
  <1>2. CASE Outgoing(x) /\ x.del
    BY <1>2 DEF IsView, TellsOut, Before
  <1>3. CASE x.a = "d"
    BY <1>3 DEF IsView, TellsOut, Before
  <1>4. CASE ~Outgoing(x) /\ x.a # "d"
    BY <1>4 DEF IsView, TellsOut, Before, SameOut
  <1> QED BY <1>1, <1>2, <1>3, <1>4

LEMMA BeforeThen ==
    ASSUME NEW K, NEW u, IsView(u, K), NEW v, IsView(v, K), NEW w, IsView(w, K),
           Before(u, v), Before(v, w)
    PROVE  Before(u, w)
  BY DEF IsView, Before

(* Each view of a list comes before the last. *)
LEMMA AllBefore ==
    ASSUME NEW K, NEW N \in Nat, NEW f, \A i \in 0 .. N : IsView(f[i], K),
           \A i \in Nat : i + 1 <= N => Before(f[i], f[i + 1])
    PROVE  \A i \in 0 .. N : Before(f[i], f[N])
  <1> DEFINE S == {k \in Nat : k <= N => Before(f[N - k], f[N])}
  <1>1. 0 \in S
    BY DEF Before, IsView
  <1>2. ASSUME NEW k \in Nat, k \in S PROVE k + 1 \in S
    <2> SUFFICES ASSUME k + 1 <= N PROVE Before(f[N - (k + 1)], f[N])
      OBVIOUS
    <2>1. Before(f[N - k], f[N])
      BY <1>2
    <2>2. PICK j : j = N - (k + 1) /\ j \in Nat /\ j + 1 = N - k /\ j + 1 <= N
      OBVIOUS
    <2>3. Before(f[j], f[j + 1]) /\ j \in 0 .. N /\ j + 1 \in 0 .. N /\ N \in 0 .. N
      BY <2>2
    <2> QED BY <2>1, <2>2, <2>3, BeforeThen
  <1> HIDE DEF S
  <1>3. \A k \in Nat : k \in S
    BY <1>1, <1>2, SetInduction
  <1> QED
    <2> SUFFICES ASSUME NEW i \in 0 .. N PROVE Before(f[i], f[N])
      OBVIOUS
    <2>1. PICK k : k = N - i /\ k \in Nat /\ k <= N /\ N - k = i
      OBVIOUS
    <2> QED BY <1>3, <2>1 DEF S

-----------------------------------------------------------------------------
(* The client follows the views *)

\* A share that is to be sent, or a result that is to be processed, will lead
\* a client with key ck to the server's key k.  The key of a revocation that
\* no share preceded is the exception, stale, once it is sent.
Corrected(s, a, ck, k) ==
    \/ \E i \in DOMAIN a : a[i].op = "s" /\ a[i].ok /\ a[i].other # 0
    \/ \E i \in DOMAIN s : /\ s[i].op = "s"
                           /\ \/ s[i].set /\ s[i].key # k /\ (k = 0 => s[i].key = ck)
                              \/ ~s[i].set /\ s[i].new

\* w is the rest of the world: the latest view, keys made up, results, stale
KeyAs(c, v, w) ==
    ~w.stale /\ w.end.there /\ v.epoch = w.end.epoch =>
        c.key \in {0, w.end.key} \/ Corrected(c.cmds, w.answers, c.key, w.end.key)

\* the client has the own folder as in view v
OutAs(c, v, w) ==
    /\ v.there => /\ c.node = "yes" /\ c.out = v.shares /\ c.key \in 0 .. w.keys
                  /\ c.out # {} => c.key # 0
                  /\ KeyAs(c, v, w)
    /\ ~v.there => c.node = "removed" \/ (c.node = "no" /\ c.out = {})

(* Views that say the same of the own folder. *)
LEMMA OutSame ==
    ASSUME NEW c, NEW w, NEW u, NEW v, SameOut(u, v), OutAs(c, u, w)
    PROVE  OutAs(c, v, w)
  BY DEF SameOut, OutAs, KeyAs

(* What does not concern the folder. *)
LEMMA OutCalm ==
    ASSUME NEW c, NEW d, NEW v, NEW w, OutAs(c, v, w),
           d.node = c.node, d.out = c.out, d.key = c.key, More(c.cmds, d.cmds)
    PROVE  OutAs(d, v, w)
  <1>1. Corrected(c.cmds, w.answers, c.key, w.end.key) => Corrected(d.cmds, w.answers, d.key, w.end.key)
    BY DEF Corrected, More
  <1>2. KeyAs(c, v, w) => KeyAs(d, v, w)
    BY <1>1 DEF KeyAs
  <1> QED BY <1>2 DEF OutAs

\* a share of the own folder is merged
Mine(c, s, d) ==
    /\ DOMAIN d = Fields /\ d.node = c.node /\ d.in = c.in /\ d.new = c.new
    /\ d.cmds = c.cmds /\ d.keys = c.keys
    /\ ~s.del => /\ d.out = c.out \union {s.peer}
                 /\ d.key = IF c.key = 0 THEN s.key ELSE c.key
    /\ s.del => /\ d.out = c.out \ {s.peer}
                /\ d.out = {} => d.key = 0
                /\ d.out # {} => d.key = IF c.key = 0 THEN s.key ELSE c.key

\* one of others'
Theirs(c, s, d) ==
    /\ DOMAIN d = Fields /\ d.node = c.node /\ d.out = c.out /\ d.key = c.key
    /\ d.new = c.new /\ d.cmds = c.cmds /\ d.keys = c.keys
    /\ DOMAIN d.in = DOMAIN c.in
    /\ s.del => d.in.node = "removed"
    /\ ~s.del => /\ d.in.node = c.in.node /\ d.in.share = TRUE
                 /\ d.in.key = IF c.in.key = 0 THEN s.key ELSE c.in.key

InFields == {"node", "share", "key", "read"}

(* What mergenewshares() does with one share. *)
LEMMA MergedIs ==
    ASSUME NEW c, DOMAIN c = Fields, DOMAIN c.in = InFields, NEW s
    PROVE  LET d == merged(c, s)
           IN  /\ s.outgoing /\ known(c.node) => Mine(c, s, d)
               /\ ~s.outgoing /\ known(c.in.node) => Theirs(c, s, d)
               /\ s.outgoing /\ ~known(c.node) => d = c
               /\ ~s.outgoing /\ ~known(c.in.node) => d = c
  <1> DEFINE w == IF c.key = 0 THEN [c EXCEPT !.key = s.key] ELSE c
             a == adduser(w, s.peer, TRUE)
             b == adduser(c, s.peer, TRUE)
             r1 == [w EXCEPT !.out = w.out \ {s.peer},
                             !.key = IF w.out \ {s.peer} = {} THEN 0 ELSE @]
             r2 == [w EXCEPT !.out = @ \union {EXP}]
             r3 == [a EXCEPT !.out = @ \union {s.peer}]
             r4 == [c EXCEPT !.in.node = "removed"]
             r5 == [b EXCEPT !.in.key = IF @ = 0 THEN s.key ELSE @, !.in.share = TRUE]
             mine == IF s.del THEN r1 ELSE IF s.peer = EXP THEN r2 ELSE r3
             theirs == IF s.del THEN r4 ELSE r5
             d == merged(c, s)
  <1>1. d = CASE s.outgoing /\ known(c.node) -> mine
              [] ~s.outgoing /\ known(c.in.node) -> theirs
              [] s.outgoing /\ ~known(c.node) -> c
              [] ~s.outgoing /\ ~known(c.in.node) -> c
    BY DEF merged, revoked
  <1> HIDE DEF d
  <1>2. /\ DOMAIN w = Fields /\ w.node = c.node /\ w.out = c.out /\ w.in = c.in /\ w.new = c.new
        /\ w.cmds = c.cmds /\ w.keys = c.keys
        /\ w.key = IF c.key = 0 THEN s.key ELSE c.key
    BY DEF Fields
  <1> HIDE DEF w
  <1>3. Alike(w, a) /\ a.cmds = w.cmds /\ Alike(c, b) /\ b.cmds = c.cmds
    <2>1. DOMAIN w = Fields
      BY <1>2
    <2>2. PICK peer : peer = s.peer
      OBVIOUS
    <2>3. Alike(w, adduser(w, peer, TRUE)) /\ adduser(w, peer, TRUE).cmds = w.cmds
      BY <2>1, UsersAlike
    <2>4. Alike(c, adduser(c, peer, TRUE)) /\ adduser(c, peer, TRUE).cmds = c.cmds
      BY UsersAlike
    <2> QED BY <2>2, <2>3, <2>4, Zenon
  <1> HIDE DEF a, b
  <1>4. s.del => Mine(c, s, r1)
    BY <1>2 DEF Mine, Fields
  <1>5. ~s.del /\ s.peer = EXP => Mine(c, s, r2)
    BY <1>2 DEF Mine, Fields
  <1>6. ~s.del => Mine(c, s, r3)
    BY <1>2, <1>3 DEF Mine, Fields, Alike
  <1>7. s.del => Theirs(c, s, r4)
    BY DEF Theirs, Fields, InFields
  <1>8. ~s.del => Theirs(c, s, r5)
    BY <1>3 DEF Theirs, Fields, InFields, Alike
  <1> HIDE DEF r1, r2, r3, r4, r5
  <1>9. Mine(c, s, mine) /\ Theirs(c, s, theirs)
    BY <1>4, <1>5, <1>6, <1>7, <1>8
  <1> HIDE DEF mine, theirs
  <1>10. /\ s.outgoing /\ known(c.node) => d = mine
         /\ ~s.outgoing /\ known(c.in.node) => d = theirs
         /\ s.outgoing /\ ~known(c.node) => d = c
         /\ ~s.outgoing /\ ~known(c.in.node) => d = c
    BY <1>1
  <1> QED BY <1>9, <1>10 DEF d

(* A share of which a packet tells, merged. *)
LEMMA MergedOut ==
    ASSUME NEW c, DOMAIN c = Fields, DOMAIN c.in = InFields, NEW w, NEW s, s.a = "s",
           NEW v, IsView(v, w.keys), NEW u, IsView(u, w.keys), TellsOut(v, s, u),
           Before(u, w.end), w.keys \in Nat, OutAs(c, v, w)
    PROVE  OutAs(merged(c, s), u, w)
  <1>1. CASE s.outgoing
    <2> DEFINE d == merged(c, s)
    <2>1. v.there /\ u.there /\ c.node = "yes" /\ Outgoing(s)
      BY <1>1 DEF TellsOut, Outgoing, OutAs
    <2>2. Mine(c, s, d)
      BY <1>1, <2>1, MergedIs DEF known
    <2> HIDE DEF d
    <2>3. /\ c.out = v.shares /\ c.key \in 0 .. w.keys /\ (c.out # {} => c.key # 0) /\ KeyAs(c, v, w)
      BY <2>1 DEF OutAs
    <2>4. ASSUME ~s.del PROVE OutAs(d, u, w)
      <3>1. s.key # 0 /\ u.shares = v.shares \union {s.peer} /\ u.key = s.key /\ u.epoch = v.epoch
        BY <2>1, <2>4 DEF TellsOut
      <3>2. d.out = u.shares /\ d.key = IF c.key = 0 THEN s.key ELSE c.key
        BY <2>2, <2>3, <2>4, <3>1 DEF Mine
      <3>3. d.key \in 0 .. w.keys /\ d.key # 0
        BY <2>3, <3>1, <3>2 DEF IsView
      <3>4. v.epoch = w.end.epoch => w.end.key = s.key
        BY <3>1 DEF Before
      <3>5. KeyAs(d, u, w)
        <4>1. CASE c.key = 0
          BY <3>1, <3>2, <3>4, <4>1 DEF KeyAs
        <4>2. CASE c.key # 0
          BY <2>2, <2>3, <3>1, <3>2, <4>2 DEF KeyAs, Mine
        <4> QED BY <4>1, <4>2
      <3> QED BY <2>1, <2>2, <3>2, <3>3, <3>5 DEF OutAs, Mine
    <2>5. ASSUME s.del PROVE OutAs(d, u, w)
      <3>1. /\ s.key = 0 /\ u.shares = v.shares \ {s.peer}
            /\ u.shares # {} => u.epoch = v.epoch
        BY <2>1, <2>5 DEF TellsOut
      <3>2. /\ d.out = u.shares
            /\ d.out = {} => d.key = 0
            /\ d.out # {} => d.key = IF c.key = 0 THEN s.key ELSE c.key
        BY <2>2, <2>3, <2>5, <3>1 DEF Mine
      <3>3. d.out # {} => c.out # {} /\ c.key # 0
        BY <2>3, <3>1, <3>2
      <3>4. d.key \in 0 .. w.keys /\ (d.out # {} => d.key # 0)
        BY <2>3, <3>2, <3>3
      <3>5. KeyAs(d, u, w)
        <4>1. CASE d.out = {}
          BY <3>2, <4>1 DEF KeyAs
        <4>2. CASE d.out # {}
          BY <2>2, <2>3, <3>1, <3>2, <3>3, <4>2 DEF KeyAs, Mine
        <4> QED BY <4>1, <4>2
      <3> QED BY <2>1, <2>2, <3>2, <3>4, <3>5 DEF OutAs, Mine
    <2> QED BY <2>4, <2>5 DEF d
  <1>2. CASE ~s.outgoing
    <2> DEFINE d == merged(c, s)
    <2>0. Theirs(c, s, d) \/ d = c
      BY <1>2, MergedIs
    <2> HIDE DEF d
    <2>1. d.node = c.node /\ d.out = c.out /\ d.key = c.key /\ d.cmds = c.cmds
      BY <2>0 DEF Theirs
    <2>2. SameOut(v, u)
      BY <1>2 DEF TellsOut, Outgoing
    <2>3. OutAs(d, v, w)
      BY <2>1, OutCalm DEF More
    <2> QED BY <2>2, <2>3, OutSame DEF d
  <1> QED BY <1>1, <1>2

\* the folder is gone, or going
Gone(c) == c.node = "removed" \/ (c.node = "no" /\ c.out = {})

LEMMA MergedGone ==
    ASSUME NEW c, DOMAIN c = Fields, DOMAIN c.in = InFields, NEW s, Gone(c)
    PROVE  Gone(merged(c, s))
  <1> DEFINE d == merged(c, s)
  <1>1. \/ s.outgoing /\ c.node = "removed" /\ Mine(c, s, d)
        \/ ~s.outgoing /\ Theirs(c, s, d)
        \/ d = c
    BY MergedIs DEF Gone, known
  <1> HIDE DEF d
  <1>2. Gone(d)
    BY <1>1 DEF Gone, Mine, Theirs
  <1> QED BY <1>2 DEF d

\* what merging leaves as it is
Kept(c, d) ==
    /\ DOMAIN d = Fields /\ DOMAIN d.in = InFields
    /\ d.node = c.node /\ d.cmds = c.cmds /\ d.keys = c.keys /\ d.new = c.new

LEMMA MergedKept ==
    ASSUME NEW c, DOMAIN c = Fields, DOMAIN c.in = InFields, NEW s
    PROVE  Kept(c, merged(c, s))
  <1> DEFINE d == merged(c, s)
  <1>1. Mine(c, s, d) \/ Theirs(c, s, d) \/ d = c
    BY MergedIs
  <1> HIDE DEF d
  <1>2. Kept(c, d)
    BY <1>1 DEF Mine, Theirs, Kept
  <1> QED BY <1>2 DEF d

\* all shares of c.new are merged, one after the other, and the last is f's
Merging(c, f, d) ==
    /\ f[0] = c
    /\ \A n \in Nat : n + 1 <= Len(c.new) => f[n + 1] = merged(f[n], c.new[n + 1])
    /\ \A n \in 0 .. Len(c.new) : Kept(c, f[n])
    /\ LET e == f[Len(c.new)]
       IN  /\ DOMAIN d = Fields /\ d.node = e.node /\ d.key = e.key /\ d.out = e.out
           /\ d.in = e.in /\ d.keys = e.keys /\ d.cmds = e.cmds
    /\ d.new = << >>

LEMMA MergeIs ==
    ASSUME NEW c, DOMAIN c = Fields, DOMAIN c.in = InFields, IsSeq(c.new)
    PROVE  \E f : Merging(c, f, mergenewshares(c))
  <1> DEFINE s == c.new
             f == Loop("share", 0, c, s)
             S == {n \in Nat : n <= Len(s) => Kept(c, f[n])}
             e == Each(merged, c, s)
             d == [e EXCEPT !.new = << >>]
  <1>1. f[0] = c /\ \A n \in Nat : n + 1 <= Len(s) => f[n + 1] = Do("share", 0, f[n], s[n + 1])
    BY LoopExists
  <1>2. e = f[Len(s)]
    BY Loops
  <1> HIDE DEF f
  <1>3. \A n \in Nat : n + 1 <= Len(s) => f[n + 1] = merged(f[n], s[n + 1])
    BY <1>1 DEF Do
  <1>4. 0 \in S
    BY <1>1 DEF Kept
  <1>5. ASSUME NEW n \in Nat, n \in S PROVE n + 1 \in S
    <2> SUFFICES ASSUME n + 1 <= Len(s) PROVE Kept(c, f[n + 1])
      OBVIOUS
    <2>1. Kept(c, f[n])
      BY <1>5, SeqIs
    <2>2. Kept(f[n], f[n + 1])
      BY <1>3, <2>1, MergedKept DEF Kept
    <2> QED BY <2>1, <2>2 DEF Kept
  <1> HIDE DEF S
  <1>6. \A n \in 0 .. Len(s) : Kept(c, f[n])
    <2>1. \A n \in Nat : n \in S
      BY <1>4, <1>5, SetInduction
    <2> QED BY <2>1, SeqIs DEF S
  <1>7. Kept(c, e)
    BY <1>2, <1>6, SeqIs
  <1>8. mergenewshares(c) = d
    BY DEF mergenewshares
  <1> HIDE DEF e
  <1>9. /\ DOMAIN d = Fields /\ d.node = e.node /\ d.key = e.key /\ d.out = e.out
        /\ d.in = e.in /\ d.keys = e.keys /\ d.cmds = e.cmds /\ d.new = << >>
    BY <1>7 DEF Kept, Fields
  <1> HIDE DEF d
  <1>10. Merging(c, f, d)
    BY <1>1, <1>2, <1>3, <1>6, <1>9 DEF Merging
  <1> QED BY <1>8, <1>10

\* the shares s lead from view v to view u
Leads(s, v, u, w) == \E f :
    /\ f[0] = v /\ SameOut(f[Len(s)], u)
    /\ \A n \in 0 .. Len(s) : IsView(f[n], w.keys) /\ Before(f[n], w.end)
    /\ \A n \in Nat : n + 1 <= Len(s) => TellsOut(f[n], s[n + 1], f[n + 1])

(* All shares are merged: the own folder. *)
LEMMA MergeOut ==
    ASSUME NEW c, DOMAIN c = Fields, DOMAIN c.in = InFields, IsSeq(c.new),
           \A n \in DOMAIN c.new : c.new[n].a = "s",
           NEW w, w.keys \in Nat, NEW v, NEW u, Leads(c.new, v, u, w), OutAs(c, v, w)
    PROVE  OutAs(mergenewshares(c), u, w)
  <1> DEFINE s == c.new
             d == mergenewshares(c)
  <1>1. PICK f : Merging(c, f, d)
    BY MergeIs
  <1> HIDE DEF d
  <1>2. PICK g : /\ g[0] = v /\ SameOut(g[Len(s)], u)
                 /\ \A n \in 0 .. Len(s) : IsView(g[n], w.keys) /\ Before(g[n], w.end)
                 /\ \A n \in Nat : n + 1 <= Len(s) => TellsOut(g[n], s[n + 1], g[n + 1])
    BY DEF Leads
  <1> DEFINE S == {n \in Nat : n <= Len(s) => OutAs(f[n], g[n], w)}
  <1>3. 0 \in S
    BY <1>1, <1>2 DEF Merging
  <1>4. ASSUME NEW n \in Nat, n \in S PROVE n + 1 \in S
    <2> SUFFICES ASSUME n + 1 <= Len(s) PROVE OutAs(f[n + 1], g[n + 1], w)
      OBVIOUS
    <2>1. OutAs(f[n], g[n], w) /\ n \in 0 .. Len(s) /\ n + 1 \in 0 .. Len(s) /\ n + 1 \in DOMAIN s
      BY <1>4, SeqIs
    <2>2. f[n + 1] = merged(f[n], s[n + 1]) /\ DOMAIN f[n] = Fields /\ DOMAIN f[n].in = InFields
      BY <1>1, <2>1 DEF Merging, Kept
    <2>3. /\ IsView(g[n], w.keys) /\ IsView(g[n + 1], w.keys) /\ Before(g[n + 1], w.end)
          /\ TellsOut(g[n], s[n + 1], g[n + 1]) /\ s[n + 1].a = "s"
      BY <1>2, <2>1
    <2> QED BY <2>1, <2>2, <2>3, MergedOut
  <1> HIDE DEF S
  <1>5. Len(s) \in S /\ Len(s) \in Nat
    BY <1>3, <1>4, SetInduction, SeqIs
  <1>6. OutAs(f[Len(s)], u, w)
    BY <1>2, <1>5, OutSame DEF S
  <1> DEFINE e == f[Len(s)]
  <1>7. d.node = e.node /\ d.key = e.key /\ d.out = e.out /\ d.cmds = e.cmds
    BY <1>1 DEF Merging
  <1> HIDE DEF e
  <1>8. OutAs(e, u, w)
    BY <1>6 DEF e
  <1>9. OutAs(d, u, w)
    BY <1>7, <1>8, OutCalm DEF More
  <1> QED BY <1>9 DEF d

LEMMA MergeGone ==
    ASSUME NEW c, DOMAIN c = Fields, DOMAIN c.in = InFields, IsSeq(c.new), Gone(c)
    PROVE  Gone(mergenewshares(c))
  <1> DEFINE s == c.new
             d == mergenewshares(c)
  <1>1. PICK f : Merging(c, f, d)
    BY MergeIs
  <1> HIDE DEF d
  <1> DEFINE S == {n \in Nat : n <= Len(s) => Gone(f[n])}
  <1>2. 0 \in S
    BY <1>1 DEF Merging
  <1>3. ASSUME NEW n \in Nat, n \in S PROVE n + 1 \in S
    <2> SUFFICES ASSUME n + 1 <= Len(s) PROVE Gone(f[n + 1])
      OBVIOUS
    <2>1. Gone(f[n]) /\ n \in 0 .. Len(s)
      BY <1>3, SeqIs
    <2>2. f[n + 1] = merged(f[n], s[n + 1]) /\ DOMAIN f[n] = Fields /\ DOMAIN f[n].in = InFields
      BY <1>1, <2>1 DEF Merging, Kept
    <2> QED BY <2>1, <2>2, MergedGone
  <1> HIDE DEF S
  <1>4. Gone(f[Len(s)])
    <2>1. Len(s) \in S /\ Len(s) \in Nat
      BY <1>2, <1>3, SetInduction, SeqIs
    <2> QED BY <2>1 DEF S
  <1>5. Gone(d)
    BY <1>1, <1>4 DEF Merging, Gone
  <1> QED BY <1>5 DEF d

(* All shares are merged: the folder of others, if only the last share is one
   of theirs. *)
LEMMA MergeIn ==
    ASSUME NEW c, DOMAIN c = Fields, DOMAIN c.in = InFields, IsSeq(c.new),
           \A n \in DOMAIN c.new : n # Len(c.new) => c.new[n].outgoing
    PROVE  LET d == mergenewshares(c)
               s == c.new[Len(c.new)]
           IN  /\ c.new = << >> \/ s.outgoing => d.in = c.in
               /\ c.new # << >> /\ ~s.outgoing /\ ~known(c.in.node) => d.in = c.in
               /\ c.new # << >> /\ ~s.outgoing /\ known(c.in.node) =>
                     /\ DOMAIN d.in = InFields
                     /\ s.del => d.in.node = "removed"
                     /\ ~s.del => /\ d.in.node = c.in.node /\ d.in.share = TRUE
                                  /\ d.in.key = IF c.in.key = 0 THEN s.key ELSE c.in.key
  <1> DEFINE l == c.new
             N == Len(l)
             s == l[N]
             d == mergenewshares(c)
  <1>1. PICK f : Merging(c, f, d)
    BY MergeIs
  <1> HIDE DEF d
  <1>2. N \in Nat /\ DOMAIN l = 1 .. N /\ (N = 0 <=> l = << >>)
    <2>1. PICK P : l \in Seq(P)
      BY DEF IsSeq
    <2> QED BY <2>1
  <1>3. \A n \in 0 .. N : DOMAIN f[n] = Fields /\ DOMAIN f[n].in = InFields
    BY <1>1 DEF Merging, Kept
  <1>4. \A n \in Nat : n + 1 <= N => f[n + 1] = merged(f[n], l[n + 1])
    BY <1>1 DEF Merging
  <1>5. f[0] = c /\ d.in = f[N].in
    BY <1>1 DEF Merging
  <1> HIDE DEF l, N
  <1>6. ASSUME NEW n \in Nat, n \in 0 .. N, n + 1 <= N, l[n + 1].outgoing PROVE f[n + 1].in = f[n].in
    <2>1. DOMAIN f[n] = Fields /\ DOMAIN f[n].in = InFields /\ f[n + 1] = merged(f[n], l[n + 1])
      BY <1>2, <1>3, <1>4, <1>6
    <2> QED BY <1>6, <2>1, MergedIs DEF Mine
  <1> DEFINE S == {n \in Nat : n + 1 <= N => f[n].in = c.in}
  <1>7. 0 \in S
    BY <1>5
  <1>8. ASSUME NEW n \in Nat, n \in S PROVE n + 1 \in S
    <2> SUFFICES ASSUME (n + 1) + 1 <= N PROVE f[n + 1].in = c.in
      OBVIOUS
    <2>1. n + 1 <= N /\ n \in 0 .. N /\ n + 1 \in DOMAIN l /\ n + 1 # N
      BY <1>2
    <2>2. f[n].in = c.in /\ l[n + 1].outgoing
      BY <1>8, <2>1 DEF l, N
    <2> QED BY <1>6, <2>1, <2>2
  <1> HIDE DEF S
  <1>9. \A n \in Nat : n \in S
    BY <1>7, <1>8, SetInduction
  <1>10. CASE N = 0
    BY <1>2, <1>5, <1>10 DEF d, l
  <1>11. CASE N # 0
    <2>1. PICK n \in Nat : n + 1 = N
      BY <1>2, <1>11
    <2>2. f[n].in = c.in /\ n \in 0 .. N /\ n + 1 <= N /\ l # << >>
      BY <1>2, <1>9, <1>11, <2>1 DEF S
    <2> DEFINE g == f[n]
    <2>3. DOMAIN g = Fields /\ DOMAIN g.in = InFields /\ f[N] = merged(g, s) /\ g.in = c.in
      BY <1>3, <1>4, <2>1, <2>2
    <2> HIDE DEF g, s
    <2> DEFINE m == merged(g, s)
    <2>4. /\ s.outgoing => Mine(g, s, m) \/ m = g
          /\ ~s.outgoing /\ ~known(g.in.node) => m = g
          /\ ~s.outgoing /\ known(g.in.node) => Theirs(g, s, m)
      BY <2>3, MergedIs
    <2>5. d.in = m.in
      BY <1>5, <2>3
    <2> HIDE DEF m
    <2>6. s.outgoing => d.in = c.in
      BY <2>3, <2>4, <2>5 DEF Mine
    <2>7. ~s.outgoing /\ ~known(c.in.node) => d.in = c.in
      BY <2>3, <2>4, <2>5
    <2>8. ~s.outgoing /\ known(c.in.node) =>
             /\ DOMAIN d.in = InFields
             /\ s.del => d.in.node = "removed"
             /\ ~s.del => /\ d.in.node = c.in.node /\ d.in.share = TRUE
                          /\ d.in.key = IF c.in.key = 0 THEN s.key ELSE c.in.key
      BY <2>3, <2>4, <2>5 DEF Theirs
    <2> QED BY <2>2, <2>6, <2>7, <2>8 DEF d, l, N, s
  <1> QED BY <1>10, <1>11

-----------------------------------------------------------------------------
(* The client in the middle of a packet, after the actions that lead to view v *)

\* shares that have been announced lead there
OutMid(c, v, w) ==
    /\ v.there => \E u : OutAs(c, u, w) /\ Leads(c.new, u, v, w)
    /\ ~v.there => Gone(c)

\* the folder that others share, as in a view
InAs(n, x) ==
    /\ DOMAIN n = InFields
    /\ x = "yes" => n.node = "yes" /\ n.share = TRUE /\ n.key # 0
    /\ x = "no" => n = Unknown \/ n.node = "removed"

Ours(s) == \A n \in DOMAIN s : s[n].outgoing

\* a share of theirs has been announced last, and its nodes follow
Announced(s) ==
    /\ s # << >> /\ \A n \in DOMAIN s : n # Len(s) => s[n].outgoing
    /\ LET x == s[Len(s)] IN ~x.outgoing /\ ~x.del /\ x.key # 0

InMid(c, v) ==
    /\ v.in \in {"no", "coming", "yes"}
    /\ v.in # "coming" => InAs(c.in, v.in) /\ Ours(c.new)
    /\ v.in = "coming" => InAs(c.in, "no") /\ Announced(c.new)

\* no share is sent
Silent(c, d) ==
    /\ d.keys = c.keys /\ More(c.cmds, d.cmds)
    /\ \A i \in DOMAIN d.cmds : i \in DOMAIN c.cmds \/ d.cmds[i].op # "s"

IsState(c) ==
    /\ DOMAIN c = Fields /\ DOMAIN c.in = InFields /\ IsSeq(c.new) /\ IsSeq(c.cmds)
    /\ \A n \in DOMAIN c.new : c.new[n].a = "s"

\* a view on the way
OnWay(v, w) == IsView(v, w.keys) /\ Before(v, w.end) /\ w.keys \in Nat

LEMMA SilentThen ==
    ASSUME NEW c, NEW d, NEW e, Silent(c, d), Silent(d, e)
    PROVE  Silent(c, e)
  BY DEF Silent, More

(* What an action tells does not depend on the other folder. *)
LEMMA TellsSame ==
    ASSUME NEW v, NEW v1, SameOut(v, v1), NEW x, NEW u, TellsOut(v1, x, u)
    PROVE  TellsOut(v, x, u)
  <1>1. CASE Outgoing(x) /\ ~x.del
    BY <1>1 DEF SameOut, TellsOut, Outgoing
  <1>2. CASE Outgoing(x) /\ x.del
    BY <1>2 DEF SameOut, TellsOut, Outgoing
  <1>3. CASE x.a = "d"
    BY <1>3 DEF SameOut, TellsOut, Outgoing
  <1>4. CASE ~Outgoing(x) /\ x.a # "d"
    BY <1>4 DEF SameOut, TellsOut
  <1> QED BY <1>1, <1>2, <1>3, <1>4

(* No share leads nowhere. *)
LEMMA LeadsNone ==
    ASSUME NEW w, NEW v, OnWay(v, w)
    PROVE  Leads(<< >>, v, v, w)
  <1> DEFINE f == [n \in {0} |-> v]
  <1>1. f[0] = v /\ Len(<< >>) = 0 /\ SameOut(v, v)
    BY DEF SameOut
  <1> HIDE DEF f
  <1> QED BY <1>1 DEF Leads, OnWay

(* One more share. *)
LEMMA LeadsMore ==
    ASSUME NEW w, NEW s, IsSeq(s), NEW v, NEW u, Leads(s, v, u, w),
           NEW x, NEW t, OnWay(t, w), TellsOut(u, x, t)
    PROVE  Leads(Append(s, x), v, t, w)
  <1>1. PICK f : /\ f[0] = v /\ SameOut(f[Len(s)], u)
                 /\ \A n \in 0 .. Len(s) : IsView(f[n], w.keys) /\ Before(f[n], w.end)
                 /\ \A n \in Nat : n + 1 <= Len(s) => TellsOut(f[n], s[n + 1], f[n + 1])
    BY DEF Leads
  <1> DEFINE N == Len(s)
             a == Append(s, x)
             g == [n \in 0 .. N + 1 |-> IF n <= N THEN f[n] ELSE t]
  <1>2. /\ N \in Nat /\ Len(a) = N + 1 /\ DOMAIN s = 1 .. N
        /\ \A i \in DOMAIN s : a[i] = s[i]
        /\ a[N + 1] = x
    BY AppendIs, SeqIs
  <1>3. (\A n \in 0 .. N : g[n] = f[n]) /\ g[N + 1] = t
    BY <1>2
  <1> HIDE DEF N, a, g
  <1>4. g[0] = v /\ SameOut(g[N + 1], t)
    BY <1>1, <1>2, <1>3 DEF SameOut
  <1>5. ASSUME NEW n \in 0 .. N + 1 PROVE IsView(g[n], w.keys) /\ Before(g[n], w.end)
    <2>1. n \in 0 .. N \/ n = N + 1
      BY <1>2
    <2> QED BY <1>1, <1>3, <2>1 DEF OnWay, N
  <1>6. ASSUME NEW n \in Nat, n + 1 <= N + 1 PROVE TellsOut(g[n], a[n + 1], g[n + 1])
    <2>1. CASE n + 1 <= N
      <3>1. n \in 0 .. N /\ n + 1 \in 0 .. N /\ n + 1 \in DOMAIN s
        BY <1>2, <2>1
      <3>2. g[n] = f[n] /\ g[n + 1] = f[n + 1] /\ a[n + 1] = s[n + 1]
        BY <1>2, <1>3, <3>1
      <3> QED BY <1>1, <2>1, <3>2 DEF N
    <2>2. CASE n = N
      <3>1. g[n] = f[N] /\ g[n + 1] = t /\ a[n + 1] = x
        BY <1>2, <1>3, <2>2
      <3>2. TellsOut(f[N], x, t)
        BY <1>1, TellsSame DEF N
      <3> QED BY <3>1, <3>2
    <2> QED BY <1>2, <1>6, <2>1, <2>2
  <1>7. Leads(a, v, t, w)
    BY <1>2, <1>4, <1>5, <1>6 DEF Leads
  <1> QED BY <1>7 DEF a

LEMMA LeadsSame ==
    ASSUME NEW w, NEW s, NEW v, NEW u, Leads(s, v, u, w), NEW t, SameOut(u, t)
    PROVE  Leads(s, v, t, w)
  BY DEF Leads, SameOut

(* All shares that have been announced are merged. *)
LEMMA MidMerge ==
    ASSUME NEW c, IsState(c), NEW w, NEW v, OnWay(v, w), OutMid(c, v, w)
    PROVE  OutMid(mergenewshares(c), v, w)
  <1> DEFINE d == mergenewshares(c)
  <1>1. PICK f : Merging(c, f, d)
    BY MergeIs DEF IsState
  <1> HIDE DEF d
  <1>2. d.new = << >>
    BY <1>1 DEF Merging
  <1>3. ASSUME v.there PROVE OutAs(d, v, w) /\ Leads(d.new, v, v, w)
    <2>1. PICK u : OutAs(c, u, w) /\ Leads(c.new, u, v, w)
      BY <1>3 DEF OutMid
    <2>2. OutAs(d, v, w)
      BY <2>1, MergeOut DEF d, IsState, OnWay
    <2> QED BY <1>2, <2>2, LeadsNone
  <1>4. ASSUME ~v.there PROVE Gone(d)
    BY <1>4, MergeGone DEF OutMid, d, IsState
  <1>5. OutMid(d, v, w)
    BY <1>3, <1>4 DEF OutMid
  <1> QED BY <1>5 DEF d

(* Merging leaves a state, and sends nothing. *)
LEMMA MergeState ==
    ASSUME NEW c, IsState(c)
    PROVE  /\ IsState(mergenewshares(c)) /\ Silent(c, mergenewshares(c))
           /\ mergenewshares(c).new = << >> /\ mergenewshares(c).node = c.node
  <1> DEFINE d == mergenewshares(c)
             N == Len(c.new)
  <1>1. PICK f : Merging(c, f, d)
    BY MergeIs DEF IsState
  <1> HIDE DEF d
  <1>2. N \in 0 .. N
    BY SeqIs DEF IsState
  <1>3. Kept(c, f[N])
    BY <1>1, <1>2 DEF Merging
  <1>4. IsSeq(<< >>) /\ DOMAIN << >> = {}
    BY DEF IsSeq
  <1>5. /\ DOMAIN d = Fields /\ d.node = c.node /\ d.in = f[N].in /\ d.keys = c.keys
        /\ d.cmds = c.cmds /\ d.new = << >>
    BY <1>1, <1>3 DEF Merging, Kept
  <1>6. IsState(d)
    BY <1>3, <1>4, <1>5 DEF IsState, Kept
  <1>7. Silent(c, d)
    BY <1>5 DEF Silent, More
  <1> QED BY <1>5, <1>6, <1>7 DEF d

(* What does not concern the own folder. *)
LEMMA MidCalm ==
    ASSUME NEW c, NEW d, NEW w, NEW v, OutMid(c, v, w), NEW u, SameOut(v, u),
           d.node = c.node, d.out = c.out, d.key = c.key, d.new = c.new, More(c.cmds, d.cmds)
    PROVE  OutMid(d, u, w)
  <1>1. ASSUME u.there PROVE \E t : OutAs(d, t, w) /\ Leads(d.new, t, u, w)
    <2>1. PICK t : OutAs(c, t, w) /\ Leads(c.new, t, v, w)
      BY <1>1 DEF OutMid, SameOut
    <2>2. OutAs(d, t, w) /\ Leads(c.new, t, u, w)
      BY <2>1, OutCalm, LeadsSame
    <2> QED BY <2>2
  <1>2. ASSUME ~u.there PROVE Gone(d)
    BY <1>2 DEF OutMid, SameOut, Gone
  <1> QED BY <1>1, <1>2 DEF OutMid

(* A share of which a packet tells is taken down. *)
LEMMA MidAppend ==
    ASSUME NEW c, IsState(c), NEW w, NEW v, OutMid(c, v, w), NEW u, OnWay(u, w), NEW x, x.a = "s",
           TellsOut(v, x, u), NEW d, DOMAIN d = Fields, d.new = Append(c.new, x),
           d.node = c.node, d.out = c.out, d.key = c.key, d.in = c.in, d.keys = c.keys,
           d.cmds = c.cmds
    PROVE  IsState(d) /\ Silent(c, d) /\ OutMid(d, u, w)
  <1>1. IsState(d)
    <2>1. /\ IsSeq(d.new) /\ DOMAIN d.new = DOMAIN c.new \union {Len(c.new) + 1}
          /\ \A i \in DOMAIN c.new : d.new[i] = c.new[i]
          /\ d.new[Len(c.new) + 1] = x
      BY AppendIs DEF IsState
    <2> QED BY <2>1 DEF IsState
  <1>2. Silent(c, d)
    BY DEF Silent, More
  <1>3. ASSUME u.there PROVE \E t : OutAs(d, t, w) /\ Leads(d.new, t, u, w)
    <2>1. v.there
      BY <1>3 DEF TellsOut, SameOut, Outgoing
    <2>2. PICK t : OutAs(c, t, w) /\ Leads(c.new, t, v, w)
      BY <2>1 DEF OutMid
    <2>3. OutAs(d, t, w)
      BY <2>2, OutCalm DEF More
    <2>4. Leads(d.new, t, u, w)
      BY <2>2, LeadsMore DEF IsState
    <2> QED BY <2>3, <2>4
  <1>4. ASSUME ~u.there PROVE Gone(d)
    <2>1. ~v.there
      BY <1>4 DEF TellsOut, SameOut
    <2> QED BY <2>1 DEF OutMid, Gone
  <1> QED BY <1>1, <1>2, <1>3, <1>4 DEF OutMid

(* The list of new shares, and one more. *)
LEMMA OursMore ==
    ASSUME NEW s, IsSeq(s), Ours(s), NEW x
    PROVE  /\ x.outgoing => Ours(Append(s, x))
           /\ ~x.outgoing /\ ~x.del /\ x.key # 0 => Announced(Append(s, x))
           /\ Append(s, x) # << >> /\ Append(s, x)[Len(Append(s, x))] = x
           /\ \A n \in DOMAIN Append(s, x) : n # Len(Append(s, x)) => Append(s, x)[n].outgoing
  <1> DEFINE t == Append(s, x)
  <1>1. /\ IsSeq(t) /\ Len(t) = Len(s) + 1
        /\ DOMAIN t = DOMAIN s \union {Len(s) + 1}
        /\ \A i \in DOMAIN s : t[i] = s[i]
        /\ t[Len(s) + 1] = x
    BY AppendIs
  <1>2. t # << >>
    BY <1>1
  <1> HIDE DEF t
  <1>3. \A n \in DOMAIN t : n # Len(t) => t[n].outgoing
    BY <1>1 DEF Ours
  <1>4. t[Len(t)] = x
    BY <1>1
  <1>5. x.outgoing => Ours(t)
    BY <1>1 DEF Ours
  <1>6. ~x.outgoing /\ ~x.del /\ x.key # 0 => Announced(t)
    BY <1>2, <1>3, <1>4 DEF Announced
  <1> QED BY <1>2, <1>3, <1>4, <1>5, <1>6 DEF t

(* sc_shares() *)
LEMMA MidShare ==
    ASSUME NEW c, IsState(c), NEW w, NEW v, OutMid(c, v, w), InMid(c, v), NEW u, OnWay(u, w),
           NEW x, x.a = "s", TellsOut(v, x, u), TellsIn(v, x, u)
    PROVE  /\ IsState(sc_shares(c, x)) /\ Silent(c, sc_shares(c, x))
           /\ OutMid(sc_shares(c, x), u, w) /\ InMid(sc_shares(c, x), u)
  <1> DEFINE d == [c EXCEPT !.new = Append(@, x)]
             m == mergenewshares(d)
  <1>1. sc_shares(c, x) = IF x.del THEN m ELSE d
    BY DEF sc_shares, mergedAtOnce
  <1>2. /\ DOMAIN d = Fields /\ d.new = Append(c.new, x)
        /\ d.node = c.node /\ d.out = c.out /\ d.key = c.key /\ d.in = c.in /\ d.keys = c.keys
        /\ d.cmds = c.cmds
    BY DEF IsState, Fields
  <1> HIDE DEF d
  <1>3. IsState(d) /\ Silent(c, d) /\ OutMid(d, u, w)
    BY <1>2, MidAppend
  <1>4. v.in \in {"no", "yes"} /\ InAs(c.in, v.in) /\ Ours(c.new)
    BY DEF InMid, TellsIn, Nodes
  <1>5. /\ x.outgoing => Ours(d.new)
        /\ ~x.outgoing /\ ~x.del /\ x.key # 0 => Announced(d.new)
        /\ d.new # << >> /\ d.new[Len(d.new)] = x
        /\ \A n \in DOMAIN d.new : n # Len(d.new) => d.new[n].outgoing
    BY <1>2, <1>4, OursMore DEF IsState
  <1>6. /\ IsState(m) /\ Silent(d, m) /\ m.new = << >> /\ OutMid(m, u, w)
    BY <1>3, MergeState, MidMerge
  <1>7. Silent(c, m)
    BY <1>3, <1>6, SilentThen
  <1>8. /\ x.outgoing => m.in = d.in
        /\ ~x.outgoing /\ known(d.in.node) /\ x.del => m.in.node = "removed" /\ DOMAIN m.in = InFields
    <2>1. DOMAIN d = Fields /\ DOMAIN d.in = InFields /\ IsSeq(d.new)
      BY <1>3 DEF IsState
    <2> QED BY <1>5, <2>1, MergeIn
  <1> HIDE DEF m
  <1>9. Ours(<< >>)
    BY DEF Ours
  <1>10. x.outgoing => u.in = v.in
    BY DEF TellsIn, Inbound, Nodes
  <1>11. x.outgoing => InMid(d, u) /\ InMid(m, u)
    BY <1>2, <1>4, <1>5, <1>6, <1>8, <1>9, <1>10 DEF InMid
  <1>12. ~x.outgoing /\ x.del => InMid(m, u)
    <2> SUFFICES ASSUME ~x.outgoing, x.del PROVE InMid(m, u)
      OBVIOUS
    <2>1. v.in = "yes" /\ u.in = "no"
      BY DEF TellsIn, Inbound
    <2>2. known(d.in.node)
      BY <1>2, <1>4, <2>1 DEF InAs, known
    <2>3. InAs(m.in, "no")
      BY <1>8, <2>2 DEF InAs
    <2> QED BY <1>6, <1>9, <2>1, <2>3 DEF InMid
  <1>13. ~x.outgoing /\ ~x.del => InMid(d, u)
    <2> SUFFICES ASSUME ~x.outgoing, ~x.del PROVE InMid(d, u)
      OBVIOUS
    <2>1. v.in = "no" /\ u.in = "coming" /\ x.key # 0
      BY DEF TellsIn, Inbound
    <2> QED BY <1>2, <1>4, <1>5, <2>1 DEF InMid
  <1> QED BY <1>1, <1>3, <1>6, <1>7, <1>11, <1>12, <1>13

(* sc_newnodes() *)
LEMMA MidNodes ==
    ASSUME NEW c, IsState(c), NEW w, NEW v, OutMid(c, v, w), InMid(c, v), NEW u, OnWay(u, w),
           NEW x, x.a = "t", TellsOut(v, x, u), TellsIn(v, x, u)
    PROVE  /\ IsState(sc_newnodes(c, x)) /\ Silent(c, sc_newnodes(c, x))
           /\ OutMid(sc_newnodes(c, x), u, w) /\ InMid(sc_newnodes(c, x), u)
  <1> DEFINE a == [c EXCEPT !.in.node = "yes"]
             b == [c EXCEPT !.files = @ \union {x.file}]
             d == IF x.node = "inbound" THEN a ELSE b
             m == mergenewshares(d)
  <1>1. sc_newnodes(c, x) = m
    BY DEF sc_newnodes
  <1>2. /\ DOMAIN a = Fields /\ a.new = c.new /\ a.node = c.node /\ a.out = c.out /\ a.key = c.key
        /\ a.keys = c.keys /\ a.cmds = c.cmds
        /\ DOMAIN a.in = InFields /\ a.in.node = "yes" /\ a.in.share = c.in.share
        /\ a.in.key = c.in.key
    BY DEF IsState, Fields, InFields
  <1>3. /\ DOMAIN b = Fields /\ b.new = c.new /\ b.node = c.node /\ b.out = c.out /\ b.key = c.key
        /\ b.keys = c.keys /\ b.cmds = c.cmds /\ b.in = c.in
    BY DEF IsState, Fields
  <1> HIDE DEF a, b
  <1>4. /\ DOMAIN d = Fields /\ d.new = c.new /\ d.node = c.node /\ d.out = c.out /\ d.key = c.key
        /\ d.keys = c.keys /\ d.cmds = c.cmds /\ DOMAIN d.in = InFields
    BY <1>2, <1>3 DEF IsState
  <1>5. /\ x.node = "inbound" => d.in.node = "yes" /\ d.in.share = c.in.share /\ d.in.key = c.in.key
        /\ x.node # "inbound" => d.in = c.in
    BY <1>2, <1>3
  <1> HIDE DEF d
  <1>6. IsState(d) /\ Silent(c, d)
    BY <1>4 DEF IsState, Silent, More
  <1>7. SameOut(v, u)
    BY DEF TellsOut, Outgoing
  <1>8. OutMid(d, u, w)
    BY <1>4, <1>7, MidCalm DEF More
  <1>9. /\ IsState(m) /\ Silent(d, m) /\ m.new = << >> /\ OutMid(m, u, w)
    BY <1>6, <1>8, MergeState, MidMerge
  <1>10. Silent(c, m)
    BY <1>6, <1>9, SilentThen
  <1>11. Ours(<< >>)
    BY DEF Ours
  <1>12. InMid(m, u)
    <2>1. CASE x.node = "inbound"
      <3>1. v.in = "coming" /\ u.in = "yes"
        BY <2>1 DEF TellsIn, Nodes
      <3>2. Announced(d.new) /\ known(d.in.node)
        BY <1>4, <1>5, <2>1, <3>1 DEF InMid, known
      <3> DEFINE s == d.new[Len(d.new)]
      <3>3. /\ DOMAIN m.in = InFields /\ m.in.node = d.in.node /\ m.in.share = TRUE
            /\ m.in.key = IF d.in.key = 0 THEN s.key ELSE d.in.key
        <4>1. /\ DOMAIN d = Fields /\ DOMAIN d.in = InFields /\ IsSeq(d.new) /\ d.new # << >>
              /\ \A n \in DOMAIN d.new : n # Len(d.new) => d.new[n].outgoing
              /\ ~s.outgoing /\ ~s.del
          BY <1>6, <3>2 DEF IsState, Announced
        <4> QED BY <3>2, <4>1, MergeIn
      <3>4. s.key # 0
        BY <3>2 DEF Announced
      <3> HIDE DEF m, s
      <3>5. InAs(m.in, "yes")
        BY <1>5, <2>1, <3>3, <3>4 DEF InAs
      <3> QED BY <1>9, <1>11, <3>1, <3>5 DEF InMid
    <2>2. CASE x.node # "inbound"
      <3>1. v.in # "coming" /\ u.in = v.in
        BY <2>2 DEF TellsIn, Nodes, Inbound
      <3>2. Ours(d.new) /\ InAs(d.in, u.in) /\ u.in \in {"no", "yes"}
        BY <1>4, <1>5, <2>2, <3>1 DEF InMid
      <3>3. m.in = d.in
        <4>1. /\ DOMAIN d = Fields /\ DOMAIN d.in = InFields /\ IsSeq(d.new)
              /\ \A n \in DOMAIN d.new : n # Len(d.new) => d.new[n].outgoing
          BY <1>6, <3>2 DEF IsState, Ours
        <4>2. d.new = << >> \/ d.new[Len(d.new)].outgoing
          <5>1. PICK P : d.new \in Seq(P)
            BY <4>1 DEF IsSeq
          <5>2. d.new = << >> \/ Len(d.new) \in DOMAIN d.new
            BY <5>1
          <5> QED BY <3>2, <5>2 DEF Ours
        <4> QED BY <4>1, <4>2, MergeIn
      <3> HIDE DEF m
      <3> QED BY <1>9, <1>11, <3>2, <3>3 DEF InMid
    <2> QED BY <2>1, <2>2
  <1> QED BY <1>1, <1>9, <1>10, <1>12

(* One action. *)
LEMMA MidStep ==
    ASSUME NEW c, IsState(c), NEW w, NEW v, OutMid(c, v, w), InMid(c, v), NEW u, OnWay(u, w),
           NEW x, ActionOK(x), TellsOut(v, x, u), TellsIn(v, x, u), IsSeq(sc(c, x).cmds)
    PROVE  /\ IsState(sc(c, x)) /\ Silent(c, sc(c, x))
           /\ OutMid(sc(c, x), u, w) /\ InMid(sc(c, x), u)
  <1>1. CASE x.a = "s"
    <2>1. sc(c, x) = sc_shares(c, x)
      BY <1>1 DEF sc
    <2> QED BY <1>1, <2>1, MidShare
  <1>2. CASE x.a = "t"
    <2>1. sc(c, x) = sc_newnodes(c, x)
      BY <1>2 DEF sc
    <2> QED BY <1>2, <2>1, MidNodes
  <1>3. CASE x.a \in {"d", "c", "k"}
    <2> DEFINE d == sc(c, x)
    <2>1. u.in = v.in /\ v.in # "coming"
      BY <1>3 DEF TellsIn, Inbound, Nodes
    <2>2. ASSUME DOMAIN d = Fields, d.in = c.in, d.new = c.new, Silent(c, d)
          PROVE  IsState(d) /\ InMid(d, u)
      BY <2>1, <2>2 DEF IsState, InMid
    <2>3. CASE x.a = "d"
      <3> DEFINE e == [c EXCEPT !.node = "removed"]
      <3>1. d = e
        BY <2>3 DEF sc
      <3>2. /\ DOMAIN e = Fields /\ e.in = c.in /\ e.new = c.new /\ e.keys = c.keys
            /\ e.cmds = c.cmds /\ e.node = "removed"
        BY DEF Fields, IsState
      <3> HIDE DEF d, e
      <3>3. Silent(c, d) /\ Gone(d) /\ ~u.there
        BY <2>3, <3>1, <3>2 DEF Silent, More, Gone, TellsOut
      <3>4. IsState(d) /\ InMid(d, u)
        BY <2>2, <3>1, <3>2, <3>3
      <3> QED BY <3>3, <3>4 DEF OutMid, d
    <2>4. CASE x.a \in {"c", "k"}
      <3>1. Calm(c, d)
        <4>1. CASE x.a = "k"
          <5>1. d = sc_keys(c, x)
            BY <4>1 DEF sc
          <5> QED BY <4>1, <5>1, AskedCalm DEF IsState
        <4>2. CASE x.a = "c"
          <5> DEFINE e == adduser(c, x.peer, TRUE)
          <5>1. d = mapuser(e, x.peer)
            BY <4>2 DEF sc, sc_contacts, readuser
          <5>2. Alike(c, e) /\ e.cmds = c.cmds
            BY UsersAlike DEF IsState
          <5> HIDE DEF e
          <5>3. Alike(e, mapuser(e, x.peer)) /\ mapuser(e, x.peer).cmds = e.cmds
            BY <5>2, UsersAlike DEF Alike
          <5>4. Alike(e, d) /\ d.cmds = e.cmds
            BY <5>1, <5>3
          <5> HIDE DEF d
          <5> QED BY <5>2, <5>4, AlikeCalm, CalmThen
        <4> QED BY <2>4, <4>1, <4>2
      <3> HIDE DEF d
      <3>2. SameOut(v, u)
        BY <2>4 DEF TellsOut, Outgoing
      <3>3. Silent(c, d)
        BY <3>1 DEF Calm, Alike, Silent
      <3>4. IsState(d) /\ InMid(d, u)
        BY <2>2, <3>1, <3>3 DEF Calm, Alike
      <3>5. OutMid(d, u, w)
        BY <3>1, <3>2, MidCalm DEF Calm, Alike
      <3> QED BY <3>3, <3>4, <3>5 DEF d
    <2> QED BY <1>3, <2>3, <2>4
  <1> QED BY <1>1, <1>2, <1>3 DEF ActionOK

-----------------------------------------------------------------------------
(* Packets *)

\* the actions of packet p lead from view v to view u, by way of T
By(p, T, v, u, K) ==
    /\ T[0] = v /\ T[Len(p)] = u
    /\ \A n \in 0 .. Len(p) : IsView(T[n], K)
    /\ \A n \in Nat : n + 1 <= Len(p) =>
          TellsOut(T[n], p[n + 1], T[n + 1]) /\ TellsIn(T[n], p[n + 1], T[n + 1])

Tells(p, v, u, K) == \E T : By(p, T, v, u, K)

(* All views of a packet are on the way to its end. *)
LEMMA PacketBefore ==
    ASSUME NEW w, IsView(w.end, w.keys), NEW p, IsSeq(p), NEW T, NEW v, NEW u,
           By(p, T, v, u, w.keys), OnWay(u, w)
    PROVE  \A n \in 0 .. Len(p) : OnWay(T[n], w)
  <1> DEFINE N == Len(p)
  <1>1. N \in Nat
    BY SeqIs
  <1>2. /\ T[N] = u /\ \A n \in 0 .. N : IsView(T[n], w.keys)
        /\ \A n \in Nat : n + 1 <= N => TellsOut(T[n], p[n + 1], T[n + 1])
    BY DEF By
  <1> HIDE DEF N
  <1>3. ASSUME NEW n \in Nat, n + 1 <= N PROVE Before(T[n], T[n + 1])
    <2>1. n \in 0 .. N /\ n + 1 \in 0 .. N
      BY <1>1, <1>3
    <2> QED BY <1>2, <1>3, <2>1, TellsBefore
  <1>4. \A n \in 0 .. N : Before(T[n], T[N])
    BY <1>1, <1>2, <1>3, AllBefore
  <1>5. ASSUME NEW n \in 0 .. N PROVE OnWay(T[n], w)
    <2>1. IsView(T[n], w.keys) /\ IsView(u, w.keys) /\ Before(T[n], u) /\ Before(u, w.end)
      BY <1>2, <1>4 DEF OnWay
    <2> QED BY <2>1, BeforeThen DEF OnWay
  <1> QED BY <1>5 DEF N

LEMMA TellsBetween ==
    ASSUME NEW K, NEW p, IsSeq(p), NEW v, NEW u, Tells(p, v, u, K)
    PROVE  Before(v, u)
  <1> DEFINE N == Len(p)
  <1>1. N \in Nat
    BY SeqIs
  <1>2. PICK T : By(p, T, v, u, K)
    BY DEF Tells
  <1>3. /\ T[0] = v /\ T[N] = u /\ \A n \in 0 .. N : IsView(T[n], K)
        /\ \A n \in Nat : n + 1 <= N => TellsOut(T[n], p[n + 1], T[n + 1])
    BY <1>2 DEF By
  <1> HIDE DEF N
  <1>4. ASSUME NEW n \in Nat, n + 1 <= N PROVE Before(T[n], T[n + 1])
    <2>1. n \in 0 .. N /\ n + 1 \in 0 .. N
      BY <1>1, <1>4
    <2> QED BY <1>3, <1>4, <2>1, TellsBefore
  <1>5. \A n \in 0 .. N : Before(T[n], T[N])
    BY <1>1, <1>3, <1>4, AllBefore
  <1> QED BY <1>1, <1>3, <1>5

(* All actions of a packet. *)
LEMMA PacketMid ==
    ASSUME NEW c, NEW A, UsersOK(c, A), IsState(c), c.new = << >>,
           NEW w, IsView(w.end, w.keys), NEW p, PacketOK(p),
           NEW v, NEW u, Tells(p, v, u, w.keys), OnWay(u, w),
           OutAs(c, v, w), v.in \in {"no", "yes"}, InAs(c.in, v.in)
    PROVE  LET d == Each(sc, c, p)
           IN  /\ IsState(d) /\ Silent(c, d)
               /\ OutMid(d, u, w) /\ InMid(d, u)
  <1> DEFINE f == Loop("packet", 0, c, p)
             N == Len(p)
  <1>0. IsSeq(p) /\ N \in Nat /\ DOMAIN p = 1 .. N
    BY SeqIs DEF PacketOK
  <1>1. f[0] = c /\ \A n \in Nat : n + 1 <= N => f[n + 1] = Do("packet", 0, f[n], p[n + 1])
    BY <1>0, LoopExists
  <1>2. Each(sc, c, p) = f[N]
    BY Loops
  <1>3. PICK T : By(p, T, v, u, w.keys)
    BY DEF Tells
  <1>4. \A n \in 0 .. N : OnWay(T[n], w)
    BY <1>0, <1>3, PacketBefore
  <1>5. /\ T[0] = v /\ T[N] = u
        /\ \A n \in Nat : n + 1 <= N =>
              TellsOut(T[n], p[n + 1], T[n + 1]) /\ TellsIn(T[n], p[n + 1], T[n + 1])
    BY <1>3 DEF By
  <1> HIDE DEF f, N
  <1> DEFINE Good(n) == /\ UsersOK(f[n], A) /\ IsState(f[n]) /\ Silent(c, f[n])
                        /\ OutMid(f[n], T[n], w) /\ InMid(f[n], T[n])
             S == {n \in Nat : n <= N => Good(n)}
  <1>6. 0 \in S
    <2>1. OnWay(v, w)
      BY <1>0, <1>4, <1>5
    <2>2. Leads(c.new, v, v, w)
      BY <2>1, LeadsNone
    <2>3. OutMid(c, v, w)
      BY <2>2 DEF OutMid, OutAs, Gone
    <2>4. InMid(c, v) /\ Silent(c, c)
      BY DEF InMid, Ours, Silent, More
    <2> QED BY <1>1, <1>5, <2>3, <2>4
  <1>7. ASSUME NEW n \in Nat, n \in S PROVE n + 1 \in S
    <2> HIDE DEF Good
    <2> SUFFICES ASSUME n + 1 <= N PROVE Good(n + 1)
      OBVIOUS
    <2>1. Good(n) /\ n + 1 \in 0 .. N /\ n + 1 \in DOMAIN p
      BY <1>0, <1>7
    <2> DEFINE e == f[n]
               g == f[n + 1]
               x == p[n + 1]
               t == T[n]
               r == T[n + 1]
    <2>2. g = sc(e, x)
      BY <1>1 DEF Do
    <2>3. ActionOK(x) /\ OnWay(r, w) /\ TellsOut(t, x, r) /\ TellsIn(t, x, r)
      BY <1>4, <1>5, <2>1 DEF PacketOK
    <2>4. UsersOK(e, A) /\ IsState(e) /\ Silent(c, e) /\ OutMid(e, t, w) /\ InMid(e, t)
      BY <2>1 DEF Good
    <2> HIDE DEF e, g, x, t, r
    <2>5. UsersOK(g, A)
      BY <2>2, <2>3, <2>4, ScKeeps
    <2>6. IsSeq(g.cmds)
      BY <2>5 DEF UsersOK, Queue
    <2>7. IsState(g) /\ Silent(e, g) /\ OutMid(g, r, w) /\ InMid(g, r)
      BY <2>2, <2>3, <2>4, <2>6, MidStep
    <2>8. Silent(c, g)
      BY <2>4, <2>7, SilentThen
    <2> QED BY <2>5, <2>7, <2>8 DEF Good, g, r
  <1> HIDE DEF S, Good
  <1>8. N \in S
    BY <1>0, <1>6, <1>7, SetInduction
  <1>9. Good(N)
    BY <1>0, <1>8 DEF S
  <1> QED BY <1>2, <1>5, <1>9 DEF Good

\* the client between two packets
Follows(c, v, w) ==
    /\ OutAs(c, v, w) /\ InAs(c.in, v.in)
    /\ c.node # "removed" /\ c.in.node # "removed"
    /\ v.in = "yes" => c.in.read

(* applykeys() *)
LEMMA ApplyIs ==
    ASSUME NEW c, IsState(c)
    PROVE  LET d == applykeys(c)
           IN  /\ DOMAIN d = Fields /\ d.node = c.node /\ d.key = c.key /\ d.out = c.out
               /\ Silent(c, d) /\ DOMAIN d.in = InFields
               /\ d.in.node = c.in.node /\ d.in.key = c.in.key /\ d.in.share = c.in.share
               /\ c.in.node = "no" => d.in = c.in
               /\ c.in.node = "yes" /\ c.in.key # 0 => d.in.read
  <1> DEFINE e == [c EXCEPT !.in.read = TRUE]
             x == [op |-> "rw", key |-> c.in.key]
             g == command(e, x)
             d == applykeys(c)
  <1>1. d = IF applykey(c.in) THEN g ELSE c
    BY DEF applykeys
  <1>2. /\ DOMAIN e = Fields /\ e.node = c.node /\ e.key = c.key /\ e.out = c.out /\ e.keys = c.keys
        /\ e.cmds = c.cmds /\ DOMAIN e.in = InFields /\ e.in.read = TRUE
        /\ e.in.node = c.in.node /\ e.in.key = c.in.key /\ e.in.share = c.in.share
    BY DEF IsState, Fields, InFields
  <1>3. x.op # "s" /\ IsSeq(e.cmds)
    BY <1>2 DEF IsState
  <1> HIDE DEF e, x
  <1>4. Calm(e, g)
    BY <1>2, <1>3, CommandCalm
  <1> HIDE DEF g
  <1>5. /\ DOMAIN g = Fields /\ g.node = c.node /\ g.key = c.key /\ g.out = c.out /\ g.in = e.in
        /\ Silent(c, g)
    BY <1>2, <1>4 DEF Calm, Alike, Silent
  <1>6. Silent(c, c)
    BY DEF Silent, More
  <1> HIDE DEF d
  <1>7. CASE applykey(c.in)
    <2>1. d = g /\ c.in.node = "yes"
      BY <1>1, <1>7 DEF applykey
    <2> QED BY <1>2, <1>5, <2>1 DEF d
  <1>8. CASE ~applykey(c.in)
    <2>1. d = c /\ (c.in.node = "yes" /\ c.in.key # 0 => c.in.read)
      BY <1>1, <1>8 DEF applykey
    <2> QED BY <1>6, <2>1 DEF IsState, d
  <1> QED BY <1>7, <1>8

(* notifypurge() *)
LEMMA PurgeIs ==
    ASSUME NEW c, DOMAIN c = Fields
    PROVE  LET d == notifypurge(c)
           IN  /\ Silent(c, d) /\ DOMAIN d = Fields
               /\ c.in.node = "removed" => d.in = Unknown
               /\ c.in.node # "removed" => d.in = c.in
               /\ c.node = "removed" => d.node = "no" /\ d.out = {} /\ d.key = 0
               /\ c.node # "removed" => d.node = c.node /\ d.out = c.out /\ d.key = c.key
               /\ d.cmds = c.cmds
  <1> DEFINE a == [c EXCEPT !.in = Unknown]
             b == IF c.in.node = "removed" THEN a ELSE c
             e == [b EXCEPT !.node = "no", !.files = {}, !.key = 0, !.out = {}]
             d == notifypurge(c)
  <1>1. d = IF c.node = "removed" THEN e ELSE b
    BY DEF notifypurge
  <1>2. /\ DOMAIN a = Fields /\ a.node = c.node /\ a.key = c.key /\ a.out = c.out /\ a.keys = c.keys
        /\ a.cmds = c.cmds /\ a.in = Unknown
    BY DEF Fields
  <1> HIDE DEF a
  <1>3. /\ DOMAIN b = Fields /\ b.node = c.node /\ b.key = c.key /\ b.out = c.out /\ b.keys = c.keys
        /\ b.cmds = c.cmds
        /\ c.in.node = "removed" => b.in = Unknown
        /\ c.in.node # "removed" => b.in = c.in
    BY <1>2
  <1> HIDE DEF b
  <1>4. /\ DOMAIN e = Fields /\ e.node = "no" /\ e.key = 0 /\ e.out = {} /\ e.keys = c.keys
        /\ e.cmds = c.cmds /\ e.in = b.in
    BY <1>3 DEF Fields
  <1> HIDE DEF d, e
  <1>5. Silent(c, d)
    BY <1>1, <1>3, <1>4 DEF Silent, More
  <1> QED BY <1>1, <1>3, <1>4, <1>5 DEF d

(* procsc(), a packet and what follows. *)
LEMMA PacketFollows ==
    ASSUME NEW c, NEW A, UsersOK(c, A), c.new = << >>,
           NEW w, IsView(w.end, w.keys), NEW p, PacketOK(p),
           NEW v, NEW u, Tells(p, v, u, w.keys), OnWay(u, w), v.in \in {"no", "yes"}, u.in \in {"no", "yes"},
           Follows(c, v, w)
    PROVE  LET d == notifypurge(applykeys(mergenewshares(Each(sc, c, p))))
           IN  Follows(d, u, w) /\ Silent(c, d)
  <1> DEFINE d == Each(sc, c, p)
             m == mergenewshares(d)
             a == applykeys(m)
             e == notifypurge(a)
  <1>1. IsState(c)
    BY DEF IsState, UsersOK, Queue, Follows, InAs
  <1>2. IsState(d) /\ Silent(c, d) /\ OutMid(d, u, w) /\ InMid(d, u)
    BY <1>1, PacketMid DEF Follows
  <1> HIDE DEF d
  <1>3. IsState(m) /\ Silent(d, m) /\ m.new = << >> /\ OutMid(m, u, w)
    BY <1>2, MergeState, MidMerge
  <1>4. m.in = d.in /\ InAs(d.in, u.in)
    <2>1. /\ DOMAIN d = Fields /\ DOMAIN d.in = InFields /\ IsSeq(d.new) /\ Ours(d.new) /\ InAs(d.in, u.in)
          /\ \A n \in DOMAIN d.new : n # Len(d.new) => d.new[n].outgoing
      BY <1>2 DEF IsState, Ours, InMid
    <2>2. d.new = << >> \/ d.new[Len(d.new)].outgoing
      <3>1. PICK P : d.new \in Seq(P)
        BY <2>1 DEF IsSeq
      <3>2. d.new = << >> \/ Len(d.new) \in DOMAIN d.new
        BY <3>1
      <3> QED BY <2>1, <3>2 DEF Ours
    <2> QED BY <2>1, <2>2, MergeIn
  <1> HIDE DEF m
  <1>5. OutAs(m, u, w)
    <2>1. ASSUME u.there PROVE OutAs(m, u, w)
      <3>1. PICK t : OutAs(m, t, w) /\ Leads(<< >>, t, u, w)
        BY <1>3, <2>1 DEF OutMid
      <3>2. SameOut(t, u)
        <4>1. Len(<< >>) = 0
          OBVIOUS
        <4> QED BY <3>1, <4>1 DEF Leads
      <3> QED BY <3>1, <3>2, OutSame
    <2>2. ASSUME ~u.there PROVE OutAs(m, u, w)
      BY <1>3, <2>2 DEF OutMid, OutAs, Gone
    <2> QED BY <2>1, <2>2
  <1>6. /\ DOMAIN a = Fields /\ a.node = m.node /\ a.key = m.key /\ a.out = m.out
        /\ Silent(m, a) /\ DOMAIN a.in = InFields
        /\ a.in.node = m.in.node /\ a.in.key = m.in.key /\ a.in.share = m.in.share
        /\ m.in.node = "no" => a.in = m.in
        /\ m.in.node = "yes" /\ m.in.key # 0 => a.in.read
    BY <1>3, ApplyIs
  <1> HIDE DEF a
  <1>7. OutAs(a, u, w)
    BY <1>5, <1>6, OutCalm DEF Silent
  <1>8. /\ Silent(a, e) /\ DOMAIN e = Fields
        /\ a.in.node = "removed" => e.in = Unknown
        /\ a.in.node # "removed" => e.in = a.in
        /\ a.node = "removed" => e.node = "no" /\ e.out = {} /\ e.key = 0
        /\ a.node # "removed" => e.node = a.node /\ e.out = a.out /\ e.key = a.key
        /\ e.cmds = a.cmds
    BY <1>6, PurgeIs
  <1> HIDE DEF e
  <1>9. DOMAIN Unknown = InFields /\ Unknown.node = "no"
    BY DEF Unknown, InFields
  <1>10. e.node # "removed" /\ e.in.node # "removed"
    BY <1>8, <1>9
  <1>11. OutAs(e, u, w)
    <2>1. CASE a.node = "removed"
      <3>1. ~u.there
        BY <1>7, <2>1 DEF OutAs
      <3> QED BY <1>8, <2>1, <3>1 DEF OutAs
    <2>2. CASE a.node # "removed"
      BY <1>7, <1>8, <2>2, OutCalm DEF More
    <2> QED BY <2>1, <2>2
  <1>12. InAs(e.in, u.in) /\ (u.in = "yes" => e.in.read)
    <2>1. CASE u.in = "yes"
      <3>1. d.in.node = "yes" /\ d.in.share = TRUE /\ d.in.key # 0
        BY <1>4, <2>1 DEF InAs
      <3>2. e.in = a.in /\ a.in.node = "yes" /\ a.in.share = TRUE /\ a.in.key # 0 /\ a.in.read
        BY <1>4, <1>6, <1>8, <3>1
      <3> QED BY <1>6, <2>1, <3>2 DEF InAs
    <2>2. CASE u.in = "no"
      <3>1. d.in = Unknown \/ d.in.node = "removed"
        BY <1>4, <2>2 DEF InAs
      <3>2. e.in = Unknown
        BY <1>4, <1>6, <1>8, <1>9, <3>1
      <3> QED BY <1>9, <2>2, <3>2 DEF InAs
    <2> QED BY <2>1, <2>2
  <1>13. Silent(c, e)
    BY <1>2, <1>3, <1>6, <1>8, SilentThen
  <1>14. Follows(e, u, w)
    BY <1>10, <1>11, <1>12 DEF Follows
  <1> QED BY <1>13, <1>14 DEF e, a, m, d

-----------------------------------------------------------------------------
(* All packets that are on their way *)

\* they lead from view v to view u, by way of B
Way(P, B, v, u, K) ==
    /\ B[0] = v /\ B[Len(P)] = u
    /\ \A i \in 0 .. Len(P) : IsView(B[i], K) /\ B[i].in \in {"no", "yes"}
    /\ \A i \in Nat : i + 1 <= Len(P) => Tells(P[i + 1], B[i], B[i + 1], K)

Past(P, v, u, K) == \E B : Way(P, B, v, u, K)

(* The first view is before the last. *)
LEMMA PastBefore ==
    ASSUME NEW P, PacketsOK(P), NEW v, NEW u, NEW K, Past(P, v, u, K)
    PROVE  /\ IsView(v, K) /\ IsView(u, K) /\ v.in \in {"no", "yes"} /\ u.in \in {"no", "yes"}
           /\ Before(v, u)
  <1> DEFINE N == Len(P)
  <1>1. N \in Nat /\ DOMAIN P = 1 .. N
    BY SeqIs DEF PacketsOK
  <1>2. PICK B : Way(P, B, v, u, K)
    BY DEF Past
  <1>3. /\ B[0] = v /\ B[N] = u
        /\ \A i \in 0 .. N : IsView(B[i], K) /\ B[i].in \in {"no", "yes"}
        /\ \A i \in Nat : i + 1 <= N => Tells(P[i + 1], B[i], B[i + 1], K)
    BY <1>2 DEF Way
  <1>4. ASSUME NEW i \in Nat, i + 1 <= N PROVE Before(B[i], B[i + 1])
    <2>1. IsSeq(P[i + 1])
      BY <1>1, <1>4 DEF PacketsOK, PacketOK
    <2> QED BY <1>3, <1>4, <2>1, TellsBetween
  <1> HIDE DEF N
  <1>5. \A i \in 0 .. N : Before(B[i], B[N])
    BY <1>1, <1>3, <1>4, AllBefore
  <1>6. 0 \in 0 .. N /\ N \in 0 .. N
    BY <1>1
  <1> QED BY <1>3, <1>5, <1>6

(* No packet leads nowhere. *)
LEMMA PastNone ==
    ASSUME NEW v, NEW K, IsView(v, K), v.in \in {"no", "yes"}
    PROVE  Past(<< >>, v, v, K)
  <1> DEFINE B == [n \in {0} |-> v]
  <1>1. B[0] = v /\ Len(<< >>) = 0
    OBVIOUS
  <1> HIDE DEF B
  <1> QED BY <1>1 DEF Past, Way

LEMMA PastEnd ==
    ASSUME NEW v, NEW u, NEW K, Past(<< >>, v, u, K)
    PROVE  u = v
  <1>1. Len(<< >>) = 0
    OBVIOUS
  <1> QED BY <1>1 DEF Past, Way

(* Keys are made up. *)
LEMMA ViewGrows ==
    ASSUME NEW K \in Nat, NEW L \in Nat, K <= L, NEW v, IsView(v, K)
    PROVE  IsView(v, L)
  BY DEF IsView

LEMMA TellsGrows ==
    ASSUME NEW K \in Nat, NEW L \in Nat, K <= L, NEW p, NEW v, NEW u, Tells(p, v, u, K)
    PROVE  Tells(p, v, u, L)
  <1>1. PICK T : By(p, T, v, u, K)
    BY DEF Tells
  <1>2. \A n \in 0 .. Len(p) : IsView(T[n], L)
    BY <1>1, ViewGrows DEF By
  <1>3. By(p, T, v, u, L)
    BY <1>1, <1>2 DEF By
  <1> QED BY <1>3 DEF Tells

LEMMA PastGrows ==
    ASSUME NEW K \in Nat, NEW L \in Nat, K <= L, NEW P, NEW v, NEW u, Past(P, v, u, K)
    PROVE  Past(P, v, u, L)
  <1>1. PICK B : Way(P, B, v, u, K)
    BY DEF Past
  <1>2. \A i \in 0 .. Len(P) : IsView(B[i], L) /\ B[i].in \in {"no", "yes"}
    BY <1>1, ViewGrows DEF Way
  <1>3. \A i \in Nat : i + 1 <= Len(P) => Tells(P[i + 1], B[i], B[i + 1], L)
    BY <1>1, TellsGrows DEF Way
  <1>4. Way(P, B, v, u, L)
    BY <1>1, <1>2, <1>3 DEF Way
  <1> QED BY <1>4 DEF Past

(* One more packet. *)
LEMMA PastMore ==
    ASSUME NEW P, IsSeq(P), NEW v, NEW u, NEW K, Past(P, v, u, K),
           NEW p, NEW t, Tells(p, u, t, K), IsView(t, K), t.in \in {"no", "yes"}
    PROVE  Past(Append(P, p), v, t, K)
  <1>1. PICK B : Way(P, B, v, u, K)
    BY DEF Past
  <1> DEFINE N == Len(P)
             a == Append(P, p)
             C == [n \in 0 .. N + 1 |-> IF n <= N THEN B[n] ELSE t]
  <1>2. /\ N \in Nat /\ Len(a) = N + 1 /\ DOMAIN P = 1 .. N
        /\ \A i \in DOMAIN P : a[i] = P[i]
        /\ a[N + 1] = p
    BY AppendIs, SeqIs
  <1>3. (\A n \in 0 .. N : C[n] = B[n]) /\ C[N + 1] = t
    BY <1>2
  <1>4. /\ B[0] = v /\ B[N] = u
        /\ \A i \in 0 .. N : IsView(B[i], K) /\ B[i].in \in {"no", "yes"}
        /\ \A i \in Nat : i + 1 <= N => Tells(P[i + 1], B[i], B[i + 1], K)
    BY <1>1 DEF Way
  <1> HIDE DEF N, a, C
  <1>5. C[0] = v
    BY <1>2, <1>3, <1>4
  <1>6. ASSUME NEW n \in 0 .. N + 1 PROVE IsView(C[n], K) /\ C[n].in \in {"no", "yes"}
    <2>1. n \in 0 .. N \/ n = N + 1
      BY <1>2
    <2> QED BY <1>3, <1>4, <2>1
  <1>7. ASSUME NEW n \in Nat, n + 1 <= N + 1 PROVE Tells(a[n + 1], C[n], C[n + 1], K)
    <2>1. CASE n + 1 <= N
      <3>1. n \in 0 .. N /\ n + 1 \in 0 .. N /\ n + 1 \in DOMAIN P
        BY <1>2, <2>1
      <3>2. C[n] = B[n] /\ C[n + 1] = B[n + 1] /\ a[n + 1] = P[n + 1]
        BY <1>2, <1>3, <3>1
      <3> QED BY <1>4, <2>1, <3>2
    <2>2. CASE n = N
      <3>1. C[n] = u /\ C[n + 1] = t /\ a[n + 1] = p
        BY <1>2, <1>3, <1>4, <2>2
      <3> QED BY <3>1
    <2> QED BY <1>2, <1>7, <2>1, <2>2
  <1>8. Way(a, C, v, t, K)
    BY <1>2, <1>3, <1>5, <1>6, <1>7 DEF Way
  <1> QED BY <1>8 DEF Past, a

(* The first packet, and the others. *)
LEMMA PastTail ==
    ASSUME NEW P, IsSeq(P), P # << >>, NEW v, NEW u, NEW K, Past(P, v, u, K)
    PROVE  \E t : Tells(Head(P), v, t, K) /\ Past(Tail(P), t, u, K)
  <1>1. PICK B : Way(P, B, v, u, K)
    BY DEF Past
  <1> DEFINE N == Len(P)
             Q == Tail(P)
             C == [n \in 0 .. N - 1 |-> B[n + 1]]
  <1>2. N \in Nat /\ N # 0 /\ Len(Q) = N - 1 /\ Head(P) = P[1]
    <2>1. PICK S : P \in Seq(S)
      BY DEF IsSeq
    <2> QED BY <2>1
  <1>3. \A i \in DOMAIN Q : Q[i] = P[i + 1]
    BY TailIs
  <1>4. DOMAIN Q = 1 .. N - 1
    BY <1>2, TailIs, SeqIs
  <1>5. \A n \in 0 .. N - 1 : C[n] = B[n + 1]
    OBVIOUS
  <1>6. /\ B[0] = v /\ B[N] = u
        /\ \A i \in 0 .. N : IsView(B[i], K) /\ B[i].in \in {"no", "yes"}
        /\ \A i \in Nat : i + 1 <= N => Tells(P[i + 1], B[i], B[i + 1], K)
    BY <1>1 DEF Way
  <1> HIDE DEF N, Q, C
  <1>7. Tells(Head(P), v, B[1], K)
    <2>1. 0 \in Nat /\ 0 + 1 = 1 /\ 1 <= N
      BY <1>2
    <2> QED BY <1>2, <1>6, <2>1
  <1>8. C[0] = B[1] /\ C[N - 1] = u
    <2>1. 0 \in 0 .. N - 1 /\ N - 1 \in 0 .. N - 1 /\ (N - 1) + 1 = N /\ 0 + 1 = 1
      BY <1>2
    <2> QED BY <1>5, <1>6, <2>1
  <1>9. ASSUME NEW n \in 0 .. N - 1 PROVE IsView(C[n], K) /\ C[n].in \in {"no", "yes"}
    <2>1. n + 1 \in 0 .. N
      BY <1>2
    <2> QED BY <1>5, <1>6, <2>1
  <1>10. ASSUME NEW n \in Nat, n + 1 <= N - 1 PROVE Tells(Q[n + 1], C[n], C[n + 1], K)
    <2>1. n \in 0 .. N - 1 /\ n + 1 \in 0 .. N - 1 /\ n + 1 \in DOMAIN Q /\ (n + 1) + 1 <= N /\ n + 1 \in Nat
      BY <1>2, <1>4, <1>10
    <2>2. C[n] = B[n + 1] /\ C[n + 1] = B[(n + 1) + 1] /\ Q[n + 1] = P[(n + 1) + 1]
      BY <1>3, <1>5, <2>1
    <2> QED BY <1>6, <2>1, <2>2
  <1>11. Way(Q, C, B[1], u, K)
    BY <1>2, <1>8, <1>9, <1>10 DEF Way
  <1> QED BY <1>7, <1>11 DEF Past, Q

(* Two packets in one. *)
LEMMA TellsBoth ==
    ASSUME NEW p, IsSeq(p), NEW q, IsSeq(q), NEW v, NEW t, NEW u, NEW K,
           Tells(p, v, t, K), Tells(q, t, u, K)
    PROVE  Tells(p \o q, v, u, K)
  <1>1. PICK T : By(p, T, v, t, K)
    BY DEF Tells
  <1>2. PICK U : By(q, U, t, u, K)
    BY DEF Tells
  <1> DEFINE M == Len(p)
             N == Len(q)
             r == p \o q
             V == [n \in 0 .. M + N |-> IF n <= M THEN T[n] ELSE U[n - M]]
  <1>3. PICK P : p \in Seq(P)
    BY DEF IsSeq
  <1>4. PICK Q : q \in Seq(Q)
    BY DEF IsSeq
  <1>5. /\ M \in Nat /\ N \in Nat /\ Len(r) = M + N
        /\ \A i \in 1 .. M + N : r[i] = IF i <= M THEN p[i] ELSE q[i - M]
    <2> DEFINE S == P \union Q
    <2>1. p \in Seq(S) /\ q \in Seq(S)
      BY <1>3, <1>4
    <2> HIDE DEF S
    <2> QED BY <2>1
  <1>6. /\ T[0] = v /\ T[M] = t /\ \A n \in 0 .. M : IsView(T[n], K)
        /\ \A n \in Nat : n + 1 <= M =>
              TellsOut(T[n], p[n + 1], T[n + 1]) /\ TellsIn(T[n], p[n + 1], T[n + 1])
    BY <1>1 DEF By
  <1>7. /\ U[0] = t /\ U[N] = u /\ \A n \in 0 .. N : IsView(U[n], K)
        /\ \A n \in Nat : n + 1 <= N =>
              TellsOut(U[n], q[n + 1], U[n + 1]) /\ TellsIn(U[n], q[n + 1], U[n + 1])
    BY <1>2 DEF By
  <1>8. \A n \in 0 .. M + N : V[n] = IF n <= M THEN T[n] ELSE U[n - M]
    OBVIOUS
  <1> HIDE DEF M, N, r, V
  <1>9. /\ \A n \in 0 .. M : V[n] = T[n]
        /\ \A n \in 0 .. N : V[M + n] = U[n]
    <2>1. ASSUME NEW n \in 0 .. M PROVE V[n] = T[n]
      <3>1. n \in 0 .. M + N /\ n <= M
        BY <1>5
      <3> QED BY <1>8, <3>1
    <2>2. ASSUME NEW n \in 0 .. N PROVE V[M + n] = U[n]
      <3>1. CASE n = 0
        <4>1. M + n = M /\ M \in 0 .. M
          BY <1>5, <3>1
        <4> QED BY <1>6, <1>7, <2>1, <3>1, <4>1
      <3>2. CASE n # 0
        <4>1. M + n \in 0 .. M + N /\ ~(M + n <= M) /\ (M + n) - M = n
          BY <1>5, <3>2
        <4> QED BY <1>8, <4>1
      <3> QED BY <3>1, <3>2
    <2> QED BY <2>1, <2>2
  <1>10. V[0] = v /\ V[M + N] = u
    <2>1. 0 \in 0 .. M /\ N \in 0 .. N
      BY <1>5
    <2> QED BY <1>6, <1>7, <1>9, <2>1
  <1>11. ASSUME NEW n \in 0 .. M + N PROVE IsView(V[n], K)
    <2>1. CASE n <= M
      <3>1. n \in 0 .. M
        BY <1>5, <2>1
      <3> QED BY <1>6, <1>9, <3>1
    <2>2. CASE ~(n <= M)
      <3>1. PICK k : k \in 0 .. N /\ n = M + k
        <4>1. n - M \in 0 .. N /\ n = M + (n - M)
          BY <1>5, <2>2
        <4> QED BY <4>1
      <3> QED BY <1>7, <1>9, <3>1
    <2> QED BY <2>1, <2>2
  <1>12. ASSUME NEW n \in Nat, n + 1 <= M + N
         PROVE  TellsOut(V[n], r[n + 1], V[n + 1]) /\ TellsIn(V[n], r[n + 1], V[n + 1])
    <2>1. CASE n + 1 <= M
      <3>1. n \in 0 .. M /\ n + 1 \in 0 .. M /\ n + 1 \in 1 .. M + N
        BY <1>5, <1>12, <2>1
      <3>2. V[n] = T[n] /\ V[n + 1] = T[n + 1] /\ r[n + 1] = p[n + 1]
        BY <1>5, <1>9, <2>1, <3>1
      <3> QED BY <1>6, <2>1, <3>2
    <2>2. CASE ~(n + 1 <= M)
      <3>1. PICK k \in Nat : n = M + k
        <4>1. n - M \in Nat /\ n = M + (n - M)
          BY <1>5, <2>2
        <4> QED BY <4>1
      <3>2. k \in 0 .. N /\ k + 1 \in 0 .. N /\ n + 1 = M + (k + 1) /\ k + 1 <= N
        BY <1>5, <1>12, <3>1
      <3>3. V[n] = U[k] /\ V[n + 1] = U[k + 1]
        BY <1>9, <3>1, <3>2
      <3>4. n + 1 \in 1 .. M + N /\ (n + 1) - M = k + 1
        BY <1>5, <1>12, <3>1
      <3>5. r[n + 1] = q[k + 1]
        BY <1>5, <2>2, <3>4
      <3> QED BY <1>7, <3>2, <3>3, <3>5
    <2> QED BY <2>1, <2>2
  <1>13. By(r, V, v, u, K)
    BY <1>5, <1>10, <1>11, <1>12 DEF By
  <1> QED BY <1>13 DEF Tells, r

LEMMA PastJoined ==
    ASSUME NEW P, PacketsOK(P), Len(P) >= 2, NEW v, NEW u, NEW K, Past(P, v, u, K)
    PROVE  Past(<<P[1] \o P[2]>> \o SubSeq(P, 3, Len(P)), v, u, K)
  <1>1. PICK B : Way(P, B, v, u, K)
    BY DEF Past
  <1> DEFINE N == Len(P)
             p == P[1] \o P[2]
             t == SubSeq(P, 3, N)
             Q == <<p>> \o t
             C == [n \in 0 .. N - 1 |-> IF n = 0 THEN v ELSE B[n + 1]]
  <1>2. PICK S : P \in Seq(S)
    BY DEF PacketsOK, IsSeq
  <1>3. N \in Nat /\ DOMAIN P = 1 .. N /\ N >= 2
    BY <1>2
  <1>4. /\ Len(Q) = N - 1
        /\ Q[1] = p /\ \A n \in 2 .. N - 1 : Q[n] = P[n + 1]
    <2>1. t \in Seq(S) /\ Len(t) = N - 2 /\ \A i \in 1 .. N - 2 : t[i] = P[i + 2]
      BY <1>2, <1>3
    <2> HIDE DEF p, t, N
    <2> DEFINE R == S \union {p}
    <2>2. t \in Seq(R) /\ <<p>> \in Seq(R) /\ Len(<<p>>) = 1 /\ <<p>>[1] = p
      BY <2>1
    <2> HIDE DEF R
    <2>3. Len(Q) = N - 1
      BY <1>3, <2>1, <2>2
    <2>4. \A i \in 1 .. N - 1 : Q[i] = IF i = 1 THEN p ELSE t[i - 1]
      BY <1>3, <2>1, <2>2
    <2> HIDE DEF Q
    <2>5. Q[1] = p
      BY <1>3, <2>4
    <2>6. ASSUME NEW n \in 2 .. N - 1 PROVE Q[n] = P[n + 1]
      <3>1. n \in 1 .. N - 1 /\ n # 1 /\ n - 1 \in 1 .. N - 2 /\ (n - 1) + 2 = n + 1
        BY <1>3
      <3> QED BY <2>1, <2>4, <3>1
    <2> QED BY <2>3, <2>5, <2>6
  <1>5. \A n \in 0 .. N - 1 : C[n] = IF n = 0 THEN v ELSE B[n + 1]
    OBVIOUS
  <1>6. /\ B[0] = v /\ B[N] = u
        /\ \A i \in 0 .. N : IsView(B[i], K) /\ B[i].in \in {"no", "yes"}
        /\ \A i \in Nat : i + 1 <= N => Tells(P[i + 1], B[i], B[i + 1], K)
    BY <1>1 DEF Way
  <1>7. IsSeq(P[1]) /\ IsSeq(P[2])
    BY <1>3 DEF PacketsOK, PacketOK
  <1>8. Tells(p, v, B[2], K)
    <2>1. 0 \in Nat /\ 0 + 1 = 1 /\ 1 <= N /\ 1 \in Nat /\ 1 + 1 = 2 /\ 2 <= N
      BY <1>3
    <2>2. Tells(P[1], v, B[1], K) /\ Tells(P[2], B[1], B[2], K)
      BY <1>6, <2>1
    <2> QED BY <1>7, <2>2, TellsBoth
  <1> HIDE DEF N, p, t, Q, C
  <1>9. C[0] = v /\ C[N - 1] = u
    <2>1. 0 \in 0 .. N - 1 /\ N - 1 \in 0 .. N - 1 /\ N - 1 # 0 /\ (N - 1) + 1 = N
      BY <1>3
    <2> QED BY <1>5, <1>6, <2>1
  <1>10. ASSUME NEW n \in 0 .. N - 1 PROVE IsView(C[n], K) /\ C[n].in \in {"no", "yes"}
    <2>1. n + 1 \in 0 .. N /\ 0 \in 0 .. N
      BY <1>3
    <2> QED BY <1>5, <1>6, <2>1
  <1>11. ASSUME NEW n \in Nat, n + 1 <= N - 1 PROVE Tells(Q[n + 1], C[n], C[n + 1], K)
    <2>1. CASE n = 0
      <3>1. 1 \in 0 .. N - 1 /\ n + 1 = 1 /\ 1 + 1 = 2
        BY <1>3, <2>1
      <3>2. C[n + 1] = B[2] /\ Q[n + 1] = p /\ C[n] = v
        BY <1>4, <1>5, <1>9, <2>1, <3>1
      <3> QED BY <1>8, <3>2
    <2>2. CASE n # 0
      <3>1. /\ n \in 0 .. N - 1 /\ n + 1 \in 0 .. N - 1 /\ n + 1 # 0 /\ n + 1 \in 2 .. N - 1
            /\ n + 1 \in Nat /\ (n + 1) + 1 <= N
        BY <1>3, <1>11, <2>2
      <3>2. C[n] = B[n + 1] /\ C[n + 1] = B[(n + 1) + 1] /\ Q[n + 1] = P[(n + 1) + 1]
        BY <1>4, <1>5, <2>2, <3>1
      <3> QED BY <1>6, <3>1, <3>2
    <2> QED BY <2>1, <2>2
  <1>12. Way(Q, C, v, u, K)
    BY <1>4, <1>9, <1>10, <1>11 DEF Way
  <1> QED BY <1>12 DEF Past, Q, p, t, N

-----------------------------------------------------------------------------
(* The client and the server *)

\* v is the server's state
Latest(v, S) ==
    /\ v.there <=> S.there
    /\ v.shares = S.shares /\ v.key = S.key
    /\ v.in = "yes" <=> S.inbound

World(u, K, a, st) == [end |-> u, keys |-> K, answers |-> a, stale |-> st]

\* Another key, in the result of a share, is one that has been made up.
Right(x, K) == x.op = "s" /\ x.ok /\ x.other # 0 => x.set /\ x.other \in 1 .. K

Sound(c, S, a) ==
    /\ DOMAIN c = Fields /\ c.keys \in Nat
    /\ IsSeq(c.cmds) /\ \A i \in DOMAIN c.cmds : Carries(c.cmds[i], c.keys)
    /\ IsSeq(a) /\ \A i \in DOMAIN a : Right(a[i], c.keys)
    /\ S.there \in BOOLEAN /\ S.inbound \in BOOLEAN

\* the client has the view that the packets on their way lead from, to the
\* server's state
Agrees(c, P, S, a, st) ==
    /\ Sound(c, S, a)
    /\ \E v, u : /\ Past(P, v, u, c.keys) /\ Latest(u, S)
                 /\ Follows(c, v, World(u, c.keys, a, st))

\* the inductive invariant
Agreement == Agrees(Client, pending, srv, answers, stale)

Within(s, t) == \A i \in DOMAIN s : \E j \in DOMAIN t : t[j] = s[i]

\* t has the commands of s, except x
Without(s, t, x) == \A i \in DOMAIN s : s[i] = x \/ \E j \in DOMAIN t : t[j] = s[i]

(* A share that is given, by this client or another: the key of the folder is
   the one it had, or its first. *)
LEMMA KeyGiven ==
    ASSUME NEW c, NEW d, NEW v, NEW w, NEW z, NEW k, NEW x, d.key = c.key,
           w.end.there, w.end.key \in {0, k}, z.end.key = k, z.end.epoch = w.end.epoch, k # 0,
           z.stale = w.stale, Within(w.answers, z.answers), Without(c.cmds, d.cmds, x),
           x.op = "s" => x.set /\ x.key = k, KeyAs(c, v, w)
    PROVE  KeyAs(d, v, z)
  <1> SUFFICES ASSUME ~z.stale, v.epoch = z.end.epoch, d.key \notin {0, k}
               PROVE  Corrected(d.cmds, z.answers, d.key, k)
    BY DEF KeyAs
  <1>1. Corrected(c.cmds, w.answers, c.key, w.end.key)
    BY DEF KeyAs
  <1>2. ASSUME NEW i \in DOMAIN w.answers, w.answers[i].op = "s", w.answers[i].ok, w.answers[i].other # 0
        PROVE  Corrected(d.cmds, z.answers, d.key, k)
    BY <1>2 DEF Within, Corrected
  <1>3. ASSUME NEW i \in DOMAIN c.cmds, c.cmds[i].op = "s", c.cmds[i].set, c.cmds[i].key # w.end.key,
               w.end.key = 0 => c.cmds[i].key = c.key
        PROVE  Corrected(d.cmds, z.answers, d.key, k)
    <2>1. c.cmds[i].key # k
      BY <1>3
    <2>2. PICK j \in DOMAIN d.cmds : d.cmds[j] = c.cmds[i]
      BY <1>3, <2>1 DEF Without
    <2> QED BY <1>3, <2>1, <2>2 DEF Corrected
  <1>4. ASSUME NEW i \in DOMAIN c.cmds, c.cmds[i].op = "s", ~c.cmds[i].set, c.cmds[i].new
        PROVE  Corrected(d.cmds, z.answers, d.key, k)
    <2>1. PICK j \in DOMAIN d.cmds : d.cmds[j] = c.cmds[i]
      BY <1>4 DEF Without
    <2> QED BY <1>4, <2>1 DEF Corrected
  <1> QED BY <1>1, <1>2, <1>3, <1>4 DEF Corrected

(* The key of the folder is the same, or nothing is said of it any more. *)
LEMMA KeySame ==
    ASSUME NEW c, NEW d, NEW v, NEW w, NEW z, NEW x, d.key = c.key, KeyAs(c, v, w),
           ~z.stale /\ z.end.there /\ v.epoch = z.end.epoch =>
               /\ ~w.stale /\ w.end.there /\ v.epoch = w.end.epoch /\ z.end.key = w.end.key
               /\ x.op = "s" => ~x.set /\ ~x.new
               /\ Within(w.answers, z.answers),
           Without(c.cmds, d.cmds, x)
    PROVE  KeyAs(d, v, z)
  <1> SUFFICES ASSUME ~z.stale, z.end.there, v.epoch = z.end.epoch, d.key \notin {0, z.end.key}
               PROVE  Corrected(d.cmds, z.answers, d.key, z.end.key)
    BY DEF KeyAs
  <1>1. Corrected(c.cmds, w.answers, c.key, w.end.key) /\ z.end.key = w.end.key
    BY DEF KeyAs
  <1>2. ASSUME NEW i \in DOMAIN w.answers, w.answers[i].op = "s", w.answers[i].ok, w.answers[i].other # 0
        PROVE  Corrected(d.cmds, z.answers, d.key, z.end.key)
    BY <1>2 DEF Within, Corrected
  <1>3. ASSUME NEW i \in DOMAIN c.cmds, c.cmds[i].op = "s", c.cmds[i].set, c.cmds[i].key # w.end.key,
               w.end.key = 0 => c.cmds[i].key = c.key
        PROVE  Corrected(d.cmds, z.answers, d.key, z.end.key)
    <2>1. PICK j \in DOMAIN d.cmds : d.cmds[j] = c.cmds[i]
      BY <1>3 DEF Without
    <2> QED BY <1>1, <1>3, <2>1 DEF Corrected
  <1>4. ASSUME NEW i \in DOMAIN c.cmds, c.cmds[i].op = "s", ~c.cmds[i].set, c.cmds[i].new
        PROVE  Corrected(d.cmds, z.answers, d.key, z.end.key)
    <2>1. PICK j \in DOMAIN d.cmds : d.cmds[j] = c.cmds[i]
      BY <1>4 DEF Without
    <2> QED BY <1>4, <2>1 DEF Corrected
  <1> QED BY <1>1, <1>2, <1>3, <1>4 DEF Corrected

(* The client has changed nothing. *)
LEMMA FollowsAlso ==
    ASSUME NEW c, NEW d, NEW v, NEW w, NEW z, Follows(c, v, w), w.keys \in Nat, z.keys \in Nat,
           w.keys <= z.keys, d.node = c.node, d.out = c.out, d.key = c.key, d.in = c.in,
           KeyAs(c, v, w) => KeyAs(d, v, z)
    PROVE  Follows(d, v, z)
  <1>1. OutAs(d, v, z)
    BY DEF Follows, OutAs
  <1> QED BY <1>1 DEF Follows

(* Its keys are numbers that have been made up. *)
LEMMA AgreesFits ==
    ASSUME NEW c, NEW P, NEW S, NEW a, NEW st, Agrees(c, P, S, a, st)
    PROVE  KeyFits(c)
  <1>1. PICK v, u : Follows(c, v, World(u, c.keys, a, st))
    BY DEF Agrees
  <1>2. World(u, c.keys, a, st).keys = c.keys
    BY DEF World
  <1> QED BY <1>1, <1>2 DEF Agrees, Sound, KeyFits, Follows, OutAs

(* The same in another record. *)
LEMMA AgreesAlso ==
    ASSUME NEW c, NEW P, NEW S, NEW a, NEW st, Agrees(c, P, S, a, st), NEW d, DOMAIN d = Fields,
           d.node = c.node, d.out = c.out, d.key = c.key, d.in = c.in, d.cmds = c.cmds, d.keys = c.keys
    PROVE  Agrees(d, P, S, a, st)
  <1>1. PICK v, u : /\ Past(P, v, u, c.keys) /\ Latest(u, S)
                    /\ Follows(c, v, World(u, c.keys, a, st))
    BY DEF Agrees
  <1>2. Sound(d, S, a)
    BY DEF Agrees, Sound
  <1> DEFINE w == World(u, c.keys, a, st)
  <1>3. w.keys \in Nat
    BY DEF World, Agrees, Sound
  <1> HIDE DEF w
  <1>4. KeyAs(c, v, w) => KeyAs(d, v, w)
    BY DEF KeyAs
  <1>5. Follows(d, v, w)
    BY <1>1, <1>3, <1>4, FollowsAlso DEF w
  <1> QED BY <1>1, <1>2, <1>5 DEF Agrees, w

(* The client works on its own. *)
LEMMA AgreesWork ==
    ASSUME NEW c, NEW P, PacketsOK(P), NEW S, NEW a, NEW st, Agrees(c, P, S, a, st), NEW d, Work(c, d)
    PROVE  Agrees(d, P, S, a, st)
  <1>1. PICK v, u : /\ Past(P, v, u, c.keys) /\ Latest(u, S)
                    /\ Follows(c, v, World(u, c.keys, a, st))
    BY DEF Agrees
  <1>2. c.keys \in Nat /\ d.keys \in Nat /\ c.keys <= d.keys
    BY DEF Agrees, Sound, Work
  <1>3. Past(P, v, u, d.keys)
    BY <1>1, <1>2, PastGrows
  <1>4. \A x : Carries(x, c.keys) => Carries(x, d.keys)
    BY <1>2 DEF Carries
  <1>5. \A x : Right(x, c.keys) => Right(x, d.keys)
    BY <1>2 DEF Right
  <1>6. Sound(d, S, a)
    <2>1. \A i \in DOMAIN d.cmds : Carries(d.cmds[i], d.keys)
      BY <1>4 DEF Work, More, Agrees, Sound
    <2>2. \A i \in DOMAIN a : Right(a[i], d.keys)
      BY <1>5 DEF Agrees, Sound
    <2> QED BY <2>1, <2>2 DEF Work, Agrees, Sound
  <1> DEFINE w == World(u, c.keys, a, st)
             z == World(u, d.keys, a, st)
  <1>7. /\ w.keys = c.keys /\ z.keys = d.keys /\ w.end = u /\ z.end = u /\ w.answers = a /\ z.answers = a
        /\ w.stale = st /\ z.stale = st
    BY DEF World
  <1> HIDE DEF w, z
  <1>8. Follows(c, v, w)
    BY <1>1 DEF w
  <1>9. CASE d.key = c.key
    <2>1. KeyAs(c, v, w) => KeyAs(d, v, z)
      <3>1. Corrected(c.cmds, a, c.key, u.key) => Corrected(d.cmds, a, c.key, u.key)
        BY DEF Corrected, Work, More
      <3> QED BY <1>7, <1>9, <3>1 DEF KeyAs
    <2>2. Follows(d, v, z)
      BY <1>2, <1>7, <1>8, <1>9, <2>1, FollowsAlso DEF Work
    <2> QED BY <1>1, <1>3, <1>6, <2>2 DEF Agrees, z
  <1>10. CASE MadeUp(c, d)
    <2>1. c.key = 0 /\ d.key \in c.keys + 1 .. d.keys
      BY <1>10 DEF MadeUp
    <2>2. u.key \in 0 .. c.keys
      BY <1>1, PastBefore DEF IsView
    <2>3. PICK i \in DOMAIN d.cmds : /\ d.cmds[i].op = "s" /\ d.cmds[i].key = d.key
                                     /\ d.cmds[i].set \/ d.cmds[i].new
      BY <1>10 DEF MadeUp
    <2>4. d.cmds[i].key # u.key
      BY <1>2, <2>1, <2>2, <2>3
    <2>5. Corrected(d.cmds, a, d.key, u.key)
      BY <2>3, <2>4 DEF Corrected
    <2>6. KeyAs(d, v, z)
      BY <1>7, <2>5 DEF KeyAs
    <2>7. d.key \in 0 .. z.keys /\ d.key # 0
      BY <1>2, <1>7, <2>1
    <2>8. OutAs(d, v, z)
      BY <1>8, <2>6, <2>7 DEF OutAs, Follows, Work
    <2>9. Follows(d, v, z)
      BY <1>8, <2>8 DEF Follows, Work
    <2> QED BY <1>1, <1>3, <1>6, <2>9 DEF Agrees, z
  <1> QED BY <1>9, <1>10 DEF Work

(* The first result, if it does not tell another key, says nothing. *)
LEMMA AgreesTail ==
    ASSUME NEW c, NEW P, NEW S, NEW a, NEW st, Agrees(c, P, S, a, st), a # << >>,
           ~(Head(a).op = "s" /\ Head(a).ok /\ Head(a).other # 0)
    PROVE  Agrees(c, P, S, Tail(a), st)
  <1> DEFINE b == Tail(a)
  <1>1. PICK v, u : /\ Past(P, v, u, c.keys) /\ Latest(u, S)
                    /\ Follows(c, v, World(u, c.keys, a, st))
    BY DEF Agrees
  <1>2. /\ IsSeq(b) /\ 1 \in DOMAIN a /\ Head(a) = a[1]
        /\ \A i \in DOMAIN b : i + 1 \in DOMAIN a /\ b[i] = a[i + 1]
        /\ \A i \in DOMAIN a : i # 1 => i - 1 \in DOMAIN b /\ b[i - 1] = a[i]
    BY TailIs DEF Agrees, Sound
  <1> HIDE DEF b
  <1>3. Sound(c, S, b)
    BY <1>2 DEF Agrees, Sound
  <1> DEFINE w == World(u, c.keys, a, st)
             z == World(u, c.keys, b, st)
  <1>4. /\ w.keys = c.keys /\ z.keys = c.keys /\ w.end = u /\ z.end = u /\ w.answers = a /\ z.answers = b
        /\ w.stale = st /\ z.stale = st
    BY DEF World
  <1> HIDE DEF w, z
  <1>5. Follows(c, v, w) /\ c.keys \in Nat
    BY <1>1 DEF w, Agrees, Sound
  <1>6. Corrected(c.cmds, a, c.key, u.key) => Corrected(c.cmds, b, c.key, u.key)
    <2>1. ASSUME NEW i \in DOMAIN a, a[i].op = "s", a[i].ok, a[i].other # 0
          PROVE  \E j \in DOMAIN b : b[j].op = "s" /\ b[j].ok /\ b[j].other # 0
      <3>1. i # 1
        BY <1>2, <2>1
      <3> QED BY <1>2, <2>1, <3>1
    <2> QED BY <2>1 DEF Corrected
  <1>7. KeyAs(c, v, w) => KeyAs(c, v, z)
    BY <1>4, <1>6 DEF KeyAs
  <1>8. Follows(c, v, z)
    BY <1>4, <1>5, <1>7, FollowsAlso
  <1> QED BY <1>1, <1>3, <1>8 DEF Agrees, z, b

(* The same share was created with another key: it is taken, and the attempt
   repeated. *)
LEMMA AgreesOther ==
    ASSUME NEW c, NEW P, NEW S, NEW a, NEW st, Agrees(c, P, S, a, st), a # << >>,
           Head(a).op = "s", Head(a).ok, Head(a).other # 0
    PROVE  Agrees(shareResult(c, Head(a)), P, S, Tail(a), st)
  <1> DEFINE b == Tail(a)
             x == Head(a)
             e == [c EXCEPT !.key = x.other]
             y == setShareCommand(x.rec, x.to, x.for, x.set, e.key, FALSE, {})
             g == command(e, y)
             d == shareResult(c, x)
  <1>1. PICK v, u : /\ Past(P, v, u, c.keys) /\ Latest(u, S)
                    /\ Follows(c, v, World(u, c.keys, a, st))
    BY DEF Agrees
  <1>2. /\ IsSeq(b) /\ 1 \in DOMAIN a /\ x = a[1]
        /\ \A i \in DOMAIN b : i + 1 \in DOMAIN a /\ b[i] = a[i + 1]
    BY TailIs DEF Agrees, Sound
  <1>3. d = IF known(c.node) /\ c.key # 0 THEN g ELSE c
    BY DEF shareResult
  <1>4. x.op = "s" /\ x.ok /\ x.other # 0
    OBVIOUS
  <1> HIDE DEF b, x, d
  <1>5. x.set /\ x.other \in 1 .. c.keys /\ c.keys \in Nat /\ DOMAIN c = Fields /\ IsSeq(c.cmds)
    BY <1>2, <1>4 DEF Agrees, Sound, Right
  <1>6. /\ DOMAIN e = Fields /\ e.node = c.node /\ e.out = c.out /\ e.in = c.in /\ e.keys = c.keys
        /\ e.cmds = c.cmds /\ e.key = x.other
    BY <1>5 DEF Fields
  <1> HIDE DEF e
  <1>7. DOMAIN y = ShareFields /\ y.op = "s" /\ y.key = x.other /\ y.set = x.set
    BY <1>6 DEF setShareCommand, ShareFields
  <1> HIDE DEF y
  <1> DEFINE n == Len(e.cmds) + 1
  <1>8. /\ Alike(e, g) /\ More(e.cmds, g.cmds) /\ IsSeq(g.cmds)
        /\ DOMAIN g.cmds = DOMAIN e.cmds \union {n} /\ g.cmds[n] = y
    BY <1>5, <1>6, CommandIs
  <1> HIDE DEF g, n
  <1>9. Carries(y, c.keys)
    BY <1>5, <1>7 DEF Carries
  <1>10. Sound(c, S, b)
    BY <1>2 DEF Agrees, Sound
  <1>11. Sound(g, S, b)
    <2>1. \A i \in DOMAIN g.cmds : Carries(g.cmds[i], g.keys)
      BY <1>6, <1>8, <1>9, <1>10 DEF Sound, Alike, More
    <2> QED BY <1>6, <1>8, <1>10, <2>1 DEF Sound, Alike
  <1> DEFINE w == World(u, c.keys, a, st)
             z == World(u, c.keys, b, st)
  <1>12. /\ w.keys = c.keys /\ z.keys = c.keys /\ w.end = u /\ z.end = u /\ w.answers = a /\ z.answers = b
         /\ w.stale = st /\ z.stale = st
    BY DEF World
  <1> HIDE DEF w, z
  <1>13. Follows(c, v, w)
    BY <1>1 DEF w
  <1>14. CASE known(c.node) /\ c.key # 0
    <2>1. d = g
      BY <1>3, <1>14
    <2>2. g.key = x.other /\ n \in DOMAIN g.cmds /\ g.cmds[n].op = "s" /\ g.cmds[n].set /\ g.cmds[n].key = x.other
      BY <1>5, <1>6, <1>7, <1>8 DEF Alike
    <2>3. KeyAs(g, v, z)
      <3>1. CASE x.other = u.key
        BY <1>12, <2>2, <3>1 DEF KeyAs
      <3>2. CASE x.other # u.key
        <4>1. Corrected(g.cmds, b, g.key, u.key)
          BY <2>2, <3>2 DEF Corrected
        <4> QED BY <1>12, <4>1 DEF KeyAs
      <3> QED BY <3>1, <3>2
    <2>4. g.key \in 0 .. z.keys /\ g.key # 0
      BY <1>5, <1>12, <2>2
    <2>5. g.node = c.node /\ g.out = c.out /\ g.in = c.in /\ g.keys = c.keys
      BY <1>6, <1>8 DEF Alike
    <2>6. OutAs(g, v, z)
      BY <1>13, <2>3, <2>4, <2>5 DEF OutAs, Follows
    <2>7. Follows(g, v, z)
      BY <1>13, <2>5, <2>6 DEF Follows
    <2>8. Agrees(g, P, S, b, st)
      BY <1>1, <1>11, <2>5, <2>7 DEF Agrees, z
    <2> QED BY <2>1, <2>8 DEF d, x, b
  <1>15. CASE ~(known(c.node) /\ c.key # 0)
    <2>1. d = c
      BY <1>3, <1>15
    <2>2. v.there => c.key = 0
      BY <1>13, <1>15 DEF Follows, OutAs, known
    <2>3. v.there => KeyAs(c, v, z)
      BY <2>2 DEF KeyAs
    <2>4. OutAs(c, v, z)
      BY <1>12, <1>13, <2>3 DEF OutAs, Follows
    <2>5. Follows(c, v, z)
      BY <1>13, <2>4 DEF Follows
    <2>6. Agrees(c, P, S, b, st)
      BY <1>1, <1>10, <2>5 DEF Agrees, z
    <2> QED BY <2>1, <2>6 DEF d, x, b
  <1> QED BY <1>14, <1>15

(* A packet is sent. *)
LEMMA AgreesNews ==
    ASSUME NEW P, PacketsOK(P), NEW v, NEW u, NEW K \in Nat, Past(P, v, u, K),
           NEW d, d.keys \in Nat, K <= d.keys, NEW S, NEW a, NEW st, Sound(d, S, a),
           NEW p, NEW e, Tells(p, u, e, d.keys), IsView(e, d.keys), e.in \in {"no", "yes"},
           Latest(e, S), Follows(d, v, World(e, d.keys, a, st))
    PROVE  Agrees(d, Append(P, p), S, a, st)
  <1>1. Past(P, v, u, d.keys)
    BY PastGrows
  <1>2. Past(Append(P, p), v, e, d.keys)
    BY <1>1, PastMore DEF PacketsOK
  <1> QED BY <1>2 DEF Agrees

LEMMA OneTells ==
    ASSUME NEW x, NEW K, NEW u, IsView(u, K), NEW e, IsView(e, K), TellsOut(u, x, e), TellsIn(u, x, e)
    PROVE  Tells(<<x>>, u, e, K)
  <1> DEFINE T == [n \in {0, 1} |-> IF n = 0 THEN u ELSE e]
  <1>1. T[0] = u /\ T[1] = e /\ Len(<<x>>) = 1 /\ <<x>>[1] = x
    OBVIOUS
  <1> HIDE DEF T
  <1>2. \A n \in 0 .. 1 : IsView(T[n], K)
    BY <1>1
  <1>3. ASSUME NEW n \in Nat, n + 1 <= 1
        PROVE  TellsOut(T[n], <<x>>[n + 1], T[n + 1]) /\ TellsIn(T[n], <<x>>[n + 1], T[n + 1])
    <2>1. n = 0 /\ n + 1 = 1
      BY <1>3
    <2> QED BY <1>1, <2>1
  <1>4. By(<<x>>, T, u, e, K)
    BY <1>1, <1>2, <1>3 DEF By
  <1> QED BY <1>4 DEF Tells

\* d is c, except for commands, and keys made up elsewhere
Besides(c, d) ==
    /\ d.node = c.node /\ d.out = c.out /\ d.key = c.key /\ d.in = c.in
    /\ d.keys \in Nat /\ c.keys <= d.keys

(* The folder has been shared, with this client's command or by another session. *)
LEMMA AgreesGiven ==
    ASSUME NEW c, NEW P, PacketsOK(P), NEW S, NEW a, NEW st, Agrees(c, P, S, a, st),
           NEW d, Besides(c, d), NEW R, NEW b, Sound(d, R, b),
           S.there, NEW k, k \in 1 .. d.keys, S.key \in {0, k}, NEW to,
           R.there = S.there, R.shares = S.shares \union {to}, R.key = k, R.inbound = S.inbound,
           Within(a, b), NEW x, Without(c.cmds, d.cmds, x), x.op = "s" => x.set /\ x.key = k
    PROVE  Agrees(d, Append(P, <<share(to, k, FALSE)>>), R, b, st)
  <1>1. PICK v, u : /\ Past(P, v, u, c.keys) /\ Latest(u, S)
                    /\ Follows(c, v, World(u, c.keys, a, st))
    BY DEF Agrees
  <1>2. c.keys \in Nat /\ d.keys \in Nat /\ c.keys <= d.keys
    BY DEF Agrees, Sound, Besides
  <1>3. IsView(u, c.keys) /\ u.in \in {"no", "yes"}
    BY <1>1, PastBefore
  <1>4. IsView(u, d.keys)
    BY <1>2, <1>3, ViewGrows
  <1>5. u.there /\ u.shares = S.shares /\ u.key = S.key /\ (u.in = "yes" <=> S.inbound)
    BY <1>1 DEF Latest
  <1> DEFINE e == [there |-> TRUE, shares |-> u.shares \union {to}, key |-> k, epoch |-> u.epoch, in |-> u.in]
             y == share(to, k, FALSE)
  <1>6. /\ e.there = TRUE /\ e.shares = u.shares \union {to} /\ e.key = k /\ e.epoch = u.epoch
        /\ e.in = u.in
    OBVIOUS
  <1>7. y.a = "s" /\ y.outgoing = TRUE /\ y.del = FALSE /\ y.key = k /\ y.peer = to
    BY DEF share
  <1> HIDE DEF e, y
  <1>8. IsView(e, d.keys)
    BY <1>2, <1>4, <1>6 DEF IsView
  <1>9. k # 0
    BY <1>2
  <1>10. TellsOut(u, y, e)
    BY <1>5, <1>6, <1>7, <1>9 DEF TellsOut, Outgoing
  <1>11. TellsIn(u, y, e)
    BY <1>3, <1>6, <1>7 DEF TellsIn, Inbound, Nodes
  <1>12. Tells(<<y>>, u, e, d.keys)
    BY <1>4, <1>8, <1>10, <1>11, OneTells
  <1>13. Latest(e, R)
    BY <1>5, <1>6 DEF Latest
  <1> DEFINE w == World(u, c.keys, a, st)
             z == World(e, d.keys, b, st)
  <1>14. /\ w.keys = c.keys /\ z.keys = d.keys /\ w.end = u /\ z.end = e /\ w.answers = a /\ z.answers = b
         /\ w.stale = st /\ z.stale = st
    BY DEF World
  <1> HIDE DEF w, z
  <1>15. KeyAs(c, v, w) => KeyAs(d, v, z)
    BY <1>5, <1>6, <1>9, <1>14, KeyGiven DEF Besides
  <1>16. Follows(c, v, w)
    BY <1>1 DEF w
  <1>17. Follows(d, v, z)
    BY <1>2, <1>14, <1>15, <1>16, FollowsAlso DEF Besides
  <1>18. e.in \in {"no", "yes"}
    BY <1>3, <1>6
  <1> QED BY <1>1, <1>2, <1>8, <1>12, <1>13, <1>17, <1>18, AgreesNews DEF z, y

(* A share has been revoked. *)
LEMMA AgreesDropped ==
    ASSUME NEW c, NEW P, PacketsOK(P), NEW S, NEW a, NEW st, Agrees(c, P, S, a, st),
           NEW d, Besides(c, d), NEW R, NEW b, Sound(d, R, b), S.there, NEW to,
           R.there = S.there, R.shares = S.shares \ {to}, R.inbound = S.inbound,
           R.key = IF R.shares = {} THEN 0 ELSE S.key,
           Within(a, b), NEW x, Without(c.cmds, d.cmds, x), NEW su, st => su,
           x.op = "s" => ~x.set /\ (x.new => su)
    PROVE  Agrees(d, Append(P, <<share(to, 0, TRUE)>>), R, b, su)
  <1>1. PICK v, u : /\ Past(P, v, u, c.keys) /\ Latest(u, S)
                    /\ Follows(c, v, World(u, c.keys, a, st))
    BY DEF Agrees
  <1>2. c.keys \in Nat /\ d.keys \in Nat /\ c.keys <= d.keys
    BY DEF Agrees, Sound, Besides
  <1>3. IsView(v, c.keys) /\ IsView(u, c.keys) /\ u.in \in {"no", "yes"} /\ Before(v, u)
    BY <1>1, PastBefore
  <1>4. IsView(u, d.keys)
    BY <1>2, <1>3, ViewGrows
  <1>5. u.there /\ u.shares = S.shares /\ u.key = S.key /\ (u.in = "yes" <=> S.inbound)
    BY <1>1 DEF Latest
  <1> DEFINE left == u.shares \ {to}
             e == [there |-> TRUE, shares |-> left, key |-> IF left = {} THEN 0 ELSE u.key,
                   epoch |-> IF left = {} THEN u.epoch + 1 ELSE u.epoch, in |-> u.in]
             y == share(to, 0, TRUE)
  <1>6. /\ e.there = TRUE /\ e.shares = left /\ e.in = u.in
        /\ left = {} => e.key = 0 /\ e.epoch = u.epoch + 1
        /\ left # {} => e.key = u.key /\ e.epoch = u.epoch
    OBVIOUS
  <1>7. y.a = "s" /\ y.outgoing = TRUE /\ y.del = TRUE /\ y.key = 0 /\ y.peer = to
    BY DEF share
  <1> HIDE DEF e, y
  <1>8. IsView(e, d.keys)
    <2>1. left # {} => u.shares # {}
      OBVIOUS
    <2> HIDE DEF left
    <2> QED BY <1>2, <1>4, <1>6, <2>1 DEF IsView
  <1>9. TellsOut(u, y, e)
    BY <1>5, <1>6, <1>7 DEF TellsOut, Outgoing
  <1>10. TellsIn(u, y, e)
    BY <1>3, <1>6, <1>7 DEF TellsIn, Inbound, Nodes
  <1>11. Tells(<<y>>, u, e, d.keys)
    BY <1>4, <1>8, <1>9, <1>10, OneTells
  <1>12. Latest(e, R)
    BY <1>5, <1>6 DEF Latest
  <1> DEFINE w == World(u, c.keys, a, st)
             z == World(e, d.keys, b, su)
  <1>13. /\ w.keys = c.keys /\ z.keys = d.keys /\ w.end = u /\ z.end = e /\ w.answers = a /\ z.answers = b
         /\ w.stale = st /\ z.stale = su
    BY DEF World
  <1> HIDE DEF w, z, left
  <1>14. v.epoch = e.epoch => v.epoch = u.epoch /\ e.key = u.key
    BY <1>3, <1>6 DEF IsView, Before
  <1>15. KeyAs(c, v, w) => KeyAs(d, v, z)
    BY <1>5, <1>13, <1>14, KeySame DEF Besides
  <1>16. Follows(c, v, w)
    BY <1>1 DEF w
  <1>17. Follows(d, v, z)
    BY <1>2, <1>13, <1>15, <1>16, FollowsAlso DEF Besides
  <1>18. e.in \in {"no", "yes"}
    BY <1>3, <1>6
  <1> QED BY <1>1, <1>2, <1>8, <1>11, <1>12, <1>17, <1>18, AgreesNews DEF z, y

(* The folder has been removed. *)
LEMMA AgreesRemoved ==
    ASSUME NEW c, NEW P, PacketsOK(P), NEW S, NEW a, NEW st, Agrees(c, P, S, a, st),
           NEW d, Besides(c, d), NEW R, Sound(d, R, a),
           R.there = FALSE, R.shares = {}, R.key = 0, R.inbound = S.inbound, NEW y, y.a = "d"
    PROVE  Agrees(d, Append(P, <<y>>), R, a, st)
  <1>1. PICK v, u : /\ Past(P, v, u, c.keys) /\ Latest(u, S)
                    /\ Follows(c, v, World(u, c.keys, a, st))
    BY DEF Agrees
  <1>2. c.keys \in Nat /\ d.keys \in Nat /\ c.keys <= d.keys
    BY DEF Agrees, Sound, Besides
  <1>3. IsView(u, c.keys) /\ u.in \in {"no", "yes"}
    BY <1>1, PastBefore
  <1>4. IsView(u, d.keys)
    BY <1>2, <1>3, ViewGrows
  <1>5. u.in = "yes" <=> S.inbound
    BY <1>1 DEF Latest
  <1> DEFINE e == [there |-> FALSE, shares |-> {}, key |-> 0, epoch |-> u.epoch + 1, in |-> u.in]
  <1>6. e.there = FALSE /\ e.shares = {} /\ e.key = 0 /\ e.epoch = u.epoch + 1 /\ e.in = u.in
    OBVIOUS
  <1> HIDE DEF e
  <1>7. IsView(e, d.keys)
    BY <1>2, <1>4, <1>6 DEF IsView
  <1>8. TellsOut(u, y, e)
    BY <1>6 DEF TellsOut, Outgoing
  <1>9. TellsIn(u, y, e)
    BY <1>3, <1>6 DEF TellsIn, Inbound, Nodes
  <1>10. Tells(<<y>>, u, e, d.keys)
    BY <1>4, <1>7, <1>8, <1>9, OneTells
  <1>11. Latest(e, R)
    BY <1>5, <1>6 DEF Latest
  <1> DEFINE w == World(u, c.keys, a, st)
             z == World(e, d.keys, a, st)
  <1>12. w.keys = c.keys /\ z.keys = d.keys /\ z.end = e
    BY DEF World
  <1> HIDE DEF w, z
  <1>13. KeyAs(d, v, z)
    BY <1>6, <1>12 DEF KeyAs
  <1>14. Follows(c, v, w)
    BY <1>1 DEF w
  <1>15. Follows(d, v, z)
    BY <1>2, <1>12, <1>13, <1>14, FollowsAlso DEF Besides
  <1>16. e.in \in {"no", "yes"}
    BY <1>3, <1>6
  <1> QED BY <1>1, <1>2, <1>7, <1>10, <1>11, <1>15, <1>16, AgreesNews DEF z

\* R says the same of the own folder
SameFolder(S, R) == R.there = S.there /\ R.shares = S.shares /\ R.key = S.key

(* Anything else that happens: a view that says the same of the own folder
   follows. *)
LEMMA AgreesTold ==
    ASSUME NEW c, NEW P, PacketsOK(P), NEW S, NEW a, NEW st, Agrees(c, P, S, a, st),
           NEW d, Besides(c, d), d.cmds = c.cmds, NEW R, Sound(d, R, a), SameFolder(S, R),
           NEW p,
           \A u, e : /\ IsView(u, d.keys) /\ IsView(e, d.keys) /\ SameOut(u, e)
                     /\ u.in \in {"no", "yes"} /\ e.in \in {"no", "yes"}
                     /\ u.in = "yes" <=> S.inbound
                     /\ e.in = "yes" <=> R.inbound
                     => Tells(p, u, e, d.keys)
    PROVE  Agrees(d, Append(P, p), R, a, st)
  <1>1. PICK v, u : /\ Past(P, v, u, c.keys) /\ Latest(u, S)
                    /\ Follows(c, v, World(u, c.keys, a, st))
    BY DEF Agrees
  <1>2. c.keys \in Nat /\ d.keys \in Nat /\ c.keys <= d.keys
    BY DEF Agrees, Sound, Besides
  <1>3. IsView(u, c.keys) /\ u.in \in {"no", "yes"}
    BY <1>1, PastBefore
  <1>4. IsView(u, d.keys)
    BY <1>2, <1>3, ViewGrows
  <1> DEFINE e == [there |-> u.there, shares |-> u.shares, key |-> u.key, epoch |-> u.epoch,
                   in |-> IF R.inbound THEN "yes" ELSE "no"]
  <1>5. /\ e.there = u.there /\ e.shares = u.shares /\ e.key = u.key /\ e.epoch = u.epoch
        /\ e.in = IF R.inbound THEN "yes" ELSE "no"
    OBVIOUS
  <1> HIDE DEF e
  <1>6. SameOut(u, e) /\ IsView(e, d.keys) /\ e.in \in {"no", "yes"} /\ (e.in = "yes" <=> R.inbound)
    BY <1>4, <1>5 DEF SameOut, IsView
  <1>7. Tells(p, u, e, d.keys)
    BY <1>1, <1>3, <1>4, <1>6 DEF Latest
  <1>8. Latest(e, R)
    BY <1>1, <1>5, <1>6 DEF Latest, SameFolder
  <1> DEFINE w == World(u, c.keys, a, st)
             z == World(e, d.keys, a, st)
  <1>9. /\ w.keys = c.keys /\ z.keys = d.keys /\ w.end = u /\ z.end = e /\ w.answers = a /\ z.answers = a
        /\ w.stale = st /\ z.stale = st
    BY DEF World
  <1> HIDE DEF w, z
  <1>10. KeyAs(c, v, w) => KeyAs(d, v, z)
    BY <1>5, <1>9 DEF KeyAs, Besides
  <1>11. Follows(c, v, w)
    BY <1>1 DEF w
  <1>12. Follows(d, v, z)
    BY <1>2, <1>9, <1>10, <1>11, FollowsAlso DEF Besides
  <1> QED BY <1>1, <1>2, <1>6, <1>7, <1>8, <1>12, AgreesNews DEF z

(* A command has been performed, or has failed, and no packet tells of it. *)
LEMMA AgreesServed ==
    ASSUME NEW c, NEW P, NEW S, NEW a, NEW st, Agrees(c, P, S, a, st),
           NEW d, Besides(c, d), d.keys = c.keys, NEW R, NEW b, Sound(d, R, b), SameFolder(S, R),
           R.inbound = S.inbound, Within(a, b), NEW x, Without(c.cmds, d.cmds, x), NEW su, st => su,
           \/ x.op # "s" \/ su
           \/ \E i \in DOMAIN b : b[i].op = "s" /\ b[i].ok /\ b[i].other # 0
    PROVE  Agrees(d, P, R, b, su)
  <1>1. PICK v, u : /\ Past(P, v, u, c.keys) /\ Latest(u, S)
                    /\ Follows(c, v, World(u, c.keys, a, st))
    BY DEF Agrees
  <1>2. Latest(u, R)
    BY <1>1 DEF Latest, SameFolder
  <1> DEFINE w == World(u, c.keys, a, st)
             z == World(u, d.keys, b, su)
  <1>3. /\ w.keys = c.keys /\ z.keys = d.keys /\ w.end = u /\ z.end = u /\ w.answers = a /\ z.answers = b
        /\ w.stale = st /\ z.stale = su /\ c.keys \in Nat
    BY DEF World, Agrees, Sound
  <1> HIDE DEF w, z
  <1>4. KeyAs(c, v, w) => KeyAs(d, v, z)
    <2>1. CASE x.op # "s"
      BY <1>3, <2>1, KeySame DEF Besides
    <2>2. CASE su
      BY <1>3, <2>2 DEF KeyAs
    <2>3. CASE \E i \in DOMAIN b : b[i].op = "s" /\ b[i].ok /\ b[i].other # 0
      <3>1. Corrected(d.cmds, b, d.key, u.key)
        BY <2>3 DEF Corrected
      <3> QED BY <1>3, <3>1 DEF KeyAs
    <2> QED BY <2>1, <2>2, <2>3
  <1>5. Follows(c, v, w)
    BY <1>1 DEF w
  <1>6. Follows(d, v, z)
    BY <1>3, <1>4, <1>5, FollowsAlso DEF Besides
  <1> QED BY <1>1, <1>2, <1>6 DEF Agrees, z

-----------------------------------------------------------------------------
(* Every step keeps the agreement *)

(* The record, and the variables it stands for. *)
LEMMA FolderIs ==
    /\ /\ DOMAIN Client = Fields /\ Client.node = node /\ Client.key = sharekey
       /\ Client.out = outshares /\ Client.in = inbound /\ Client.keys = keys /\ Client.cmds = cmds
       /\ Client.new = << >>
    /\ /\ DOMAIN Client' = Fields /\ Client'.node = node' /\ Client'.key = sharekey'
       /\ Client'.out = outshares' /\ Client'.in = inbound' /\ Client'.keys = keys' /\ Client'.cmds = cmds'
  BY DEF Client, Fields

LEMMA AgreementNext ==
    ASSUME Agrees(Client', pending', srv', answers', stale')
    PROVE  Agreement'
  BY DEF Agreement

(* An operation's result becomes the client's state. *)
LEMMA BecomeAgrees ==
    ASSUME NEW c, Become(c), NEW P, NEW S, NEW a, NEW st, Agrees(c, P, S, a, st)
    PROVE  Agrees(Client', P, S, a, st)
  <1> DEFINE d == Client'
  <1>1. /\ DOMAIN d = Fields /\ d.node = c.node /\ d.out = c.out /\ d.key = c.key /\ d.in = c.in
        /\ d.cmds = c.cmds /\ d.keys = c.keys
    BY FolderIs DEF Become
  <1> HIDE DEF d
  <1>2. Agrees(d, P, S, a, st)
    BY <1>1, AgreesAlso
  <1> QED BY <1>2 DEF d

(* The application shares the folder. *)
LEMMA SetshareAgrees ==
    ASSUME KeysArrive, Agreement, NEW u, NEW set, setshare(u, set)
    PROVE  Agreement'
  <1> DEFINE b == Client
             c == IF u = EXP THEN b ELSE adduser(b, u, FALSE)
             i == IF u = EXP THEN 0 ELSE c.um[u]
             act == [op |-> "create", for |-> u, set |-> set]
             q == queuepubkeyreq(c, i, act)
  <1>1. Become(q) /\ UNCHANGED <<answers, srv, pending, stale>>
    BY DEF setshare
  <1>2. PICK P, S, a, st : P = pending /\ S = srv /\ a = answers /\ st = stale
    OBVIOUS
  <1>3. Agrees(b, P, S, a, st) /\ PacketsOK(P)
    BY <1>2 DEF Agreement, KeysArrive
  <1> HIDE DEF b
  <1>4. DOMAIN b = Fields /\ IsSeq(b.cmds)
    BY <1>3 DEF Agrees, Sound
  <1>5. Alike(b, c) /\ c.cmds = b.cmds
    <2>1. Alike(b, b)
      BY <1>4 DEF Alike
    <2>2. Alike(b, adduser(b, u, FALSE)) /\ adduser(b, u, FALSE).cmds = b.cmds
      BY <1>4, UsersAlike
    <2> QED BY <2>1, <2>2
  <1> HIDE DEF c, i, act
  <1>6. Agrees(c, P, S, a, st)
    BY <1>3, <1>5, AgreesAlso DEF Alike
  <1>7. DOMAIN c = Fields /\ IsSeq(c.cmds) /\ KeyFits(c)
    BY <1>4, <1>5, <1>6, AgreesFits DEF Alike
  <1>8. Work(c, q)
    BY <1>7, QueueWorks
  <1> HIDE DEF q
  <1>9. Agrees(q, P, S, a, st)
    BY <1>3, <1>6, <1>8, AgreesWork
  <1>10. Agrees(Client', P, S, a, st)
    BY <1>1, <1>9, BecomeAgrees
  <1> QED BY <1>1, <1>2, <1>10, AgreementNext

(* The application adds a file. *)
LEMMA PutnodesAgrees ==
    ASSUME KeysArrive, Agreement, NEW f, putnodes(f)
    PROVE  Agreement'
  <1> DEFINE b == Client
             x == [op |-> "p", file |-> f, key |-> sharekey]
             q == command(b, x)
  <1>1. Become(q) /\ UNCHANGED <<answers, srv, pending, stale>>
    BY DEF putnodes
  <1>2. PICK P, S, a, st : P = pending /\ S = srv /\ a = answers /\ st = stale
    OBVIOUS
  <1>3. Agrees(b, P, S, a, st) /\ PacketsOK(P)
    BY <1>2 DEF Agreement, KeysArrive
  <1>4. x.op # "s"
    OBVIOUS
  <1> HIDE DEF b, x
  <1>5. DOMAIN b = Fields /\ IsSeq(b.cmds) /\ KeyFits(b)
    BY <1>3, AgreesFits DEF Agrees, Sound
  <1>6. Work(b, q)
    BY <1>4, <1>5, CommandCalm, CalmWork
  <1> HIDE DEF q
  <1>7. Agrees(q, P, S, a, st)
    BY <1>3, <1>6, AgreesWork
  <1>8. Agrees(Client', P, S, a, st)
    BY <1>1, <1>7, BecomeAgrees
  <1> QED BY <1>1, <1>2, <1>8, AgreementNext

(* A command's result is processed. *)
LEMMA ProcresultAgrees ==
    ASSUME KeysArrive, Agreement, procresult
    PROVE  Agreement'
  <1> DEFINE c == Client
             x == Head(answers)
             q == result(c, x)
             b == Tail(answers)
             A == Arriving(Tail(answers))
  <1>1. /\ answers # << >> /\ Become(q) /\ answers' = b
        /\ UNCHANGED <<srv, pending, stale>>
    BY DEF procresult
  <1>2. PICK P, S, a, st : P = pending /\ S = srv /\ a = answers /\ st = stale
    OBVIOUS
  <1>3. Agrees(c, P, S, a, st) /\ PacketsOK(P) /\ x = Head(a) /\ b = Tail(a) /\ a # << >>
    BY <1>1, <1>2 DEF Agreement, KeysArrive
  <1>4. IsSeq(answers) /\ UsersOK(c, Arriving(answers)) /\ \A i \in DOMAIN answers : answers[i].op \in Commands
    BY DEF KeysArrive, ResultsOK
  <1>5. x.op \in Commands
    BY <1>1, <1>4, TailIs
  <1>6. x.op = "uk" => UsersOK(c, A \union {x.rec})
    BY <1>1, <1>4, ArrivingTail
  <1> HIDE DEF c, x, b, A
  <1>7. DOMAIN c = Fields /\ IsSeq(c.cmds) /\ KeyFits(c)
    BY <1>3, AgreesFits DEF Agrees, Sound
  <1>8. Agrees(q, P, S, b, st)
    <2>1. CASE x.op = "s" /\ x.ok /\ x.other # 0
      <3>1. q = shareResult(c, x)
        BY <2>1 DEF result
      <3> QED BY <1>3, <2>1, <3>1, AgreesOther
    <2>2. CASE ~(x.op = "s" /\ x.ok /\ x.other # 0)
      <3>1. Agrees(c, P, S, b, st)
        BY <1>3, <2>2, AgreesTail
      <3>2. CASE x.op = "uk"
        <4> DEFINE u == c.users[x.rec].who
                   v == x.ok /\ u \in Registered
        <4>1. q = pubKeyResult(c, x.rec, u, v)
          BY <3>2 DEF result
        <4> HIDE DEF u, v
        <4>2. Work(c, q)
          BY <1>6, <1>7, <3>2, <4>1, PubKeyWorks
        <4> HIDE DEF q
        <4> QED BY <1>3, <3>1, <4>2, AgreesWork
      <3>3. CASE x.op = "s"
        <4>1. q = c \/ q = mapuser(c, x.to)
          BY <2>2, <3>3 DEF result, shareResult
        <4>2. Alike(c, mapuser(c, x.to)) /\ mapuser(c, x.to).cmds = c.cmds
          BY <1>7, UsersAlike
        <4> HIDE DEF q
        <4>3. CASE q = c
          BY <3>1, <4>3
        <4>4. CASE q = mapuser(c, x.to)
          <5>1. Alike(c, q) /\ q.cmds = c.cmds
            BY <4>2, <4>4
          <5> QED BY <3>1, <5>1, AgreesAlso DEF Alike
        <4> QED BY <4>1, <4>3, <4>4
      <3>4. CASE x.op = "p"
        <4> DEFINE d == [c EXCEPT !.files = @ \union {x.file}]
        <4>1. q = c \/ q = d
          BY <3>4 DEF result
        <4>2. /\ DOMAIN d = Fields /\ d.node = c.node /\ d.out = c.out /\ d.key = c.key /\ d.in = c.in
              /\ d.cmds = c.cmds /\ d.keys = c.keys
          BY <1>7 DEF Fields
        <4> HIDE DEF d, q
        <4>3. Agrees(d, P, S, b, st)
          BY <3>1, <4>2, AgreesAlso
        <4> QED BY <3>1, <4>1, <4>3
      <3>5. CASE x.op \in {"sk", "cr", "rw"}
        <4>1. q = c
          BY <3>5 DEF result
        <4> QED BY <3>1, <4>1
      <3> QED BY <1>5, <3>2, <3>3, <3>4, <3>5 DEF Commands
    <2> QED BY <2>1, <2>2
  <1> HIDE DEF q
  <1>9. Agrees(Client', P, S, b, st)
    BY <1>1, <1>8, BecomeAgrees
  <1> QED BY <1>1, <1>2, <1>9, AgreementNext

(* A packet is processed. *)
LEMMA ProcscAgrees ==
    ASSUME KeysArrive, Agreement, procsc
    PROVE  Agreement'
  <1> DEFINE c == Client
             p == Head(pending)
             d == notifypurge(applykeys(mergenewshares(Each(sc, c, p))))
             Q == Tail(pending)
             A == Arriving(answers)
  <1>1. pending # << >> /\ Become(d) /\ pending' = Q /\ UNCHANGED <<answers, srv, stale>>
    BY DEF procsc
  <1>2. PICK P, S, a, st : P = pending /\ S = srv /\ a = answers /\ st = stale
    OBVIOUS
  <1>3. UsersOK(c, A) /\ PacketsOK(P) /\ p = Head(P) /\ Q = Tail(P) /\ P # << >> /\ IsSeq(P)
    BY <1>1, <1>2 DEF KeysArrive, PacketsOK
  <1>4. PacketOK(p) /\ PacketsOK(Q)
    <2> HIDE DEF p, Q
    <2>1. /\ IsSeq(Q) /\ 1 \in DOMAIN P /\ p = P[1]
          /\ \A i \in DOMAIN Q : i + 1 \in DOMAIN P /\ Q[i] = P[i + 1]
      BY <1>3, TailIs
    <2> QED BY <1>3, <2>1 DEF PacketsOK
  <1>5. Agrees(c, P, S, a, st) /\ c.new = << >>
    BY <1>2, FolderIs DEF Agreement
  <1> HIDE DEF c, p, Q, A
  <1>6. PICK v, u : /\ Past(P, v, u, c.keys) /\ Latest(u, S)
                    /\ Follows(c, v, World(u, c.keys, a, st))
    BY <1>5 DEF Agrees
  <1>7. PICK t : Tells(p, v, t, c.keys) /\ Past(Q, t, u, c.keys)
    BY <1>3, <1>6, PastTail
  <1> DEFINE w == World(u, c.keys, a, st)
  <1>8. w.keys = c.keys /\ w.end = u /\ c.keys \in Nat
    BY <1>5 DEF World, Agrees, Sound
  <1> HIDE DEF w
  <1>9. IsView(u, c.keys) /\ IsView(t, c.keys) /\ Before(t, u) /\ t.in \in {"no", "yes"}
    BY <1>4, <1>7, PastBefore
  <1>10. v.in \in {"no", "yes"}
    BY <1>3, <1>6, PastBefore
  <1>11. OnWay(t, w) /\ IsView(w.end, w.keys) /\ Tells(p, v, t, w.keys) /\ Follows(c, v, w)
    BY <1>6, <1>7, <1>8, <1>9 DEF OnWay, w
  <1>12. Follows(d, t, w) /\ Silent(c, d)
    BY <1>3, <1>4, <1>5, <1>9, <1>10, <1>11, PacketFollows
  <1>13. UsersOK(d, A)
    BY <1>3, <1>4, PacketKeeps
  <1> HIDE DEF d
  <1>14. DOMAIN d = Fields /\ IsSeq(d.cmds) /\ d.keys = c.keys
    BY <1>12, <1>13 DEF UsersOK, Queue, Silent
  <1>15. \A i \in DOMAIN d.cmds : Carries(d.cmds[i], d.keys)
    <2> SUFFICES ASSUME NEW i \in DOMAIN d.cmds PROVE Carries(d.cmds[i], d.keys)
      OBVIOUS
    <2>1. CASE i \in DOMAIN c.cmds
      BY <1>5, <1>12, <1>14, <2>1 DEF Silent, More, Agrees, Sound
    <2>2. CASE i \notin DOMAIN c.cmds
      BY <1>12, <2>2 DEF Silent, Carries
    <2> QED BY <2>1, <2>2
  <1>16. Sound(d, S, a)
    BY <1>5, <1>14, <1>15 DEF Agrees, Sound
  <1>17. Agrees(d, Q, S, a, st)
    BY <1>6, <1>7, <1>12, <1>14, <1>16 DEF Agrees, w
  <1>18. Agrees(Client', Q, S, a, st)
    BY <1>1, <1>17, BecomeAgrees
  <1> QED BY <1>1, <1>2, <1>18, AgreementNext

(* Two packets are delivered as one. *)
LEMMA JoinedAgrees ==
    ASSUME KeysArrive, Agreement, joined
    PROVE  Agreement'
  <1> DEFINE c == Client
             d == Client'
  <1>1. /\ Len(pending) >= 2
        /\ pending' = <<pending[1] \o pending[2]>> \o SubSeq(pending, 3, Len(pending))
        /\ UNCHANGED <<node, sharekey, outshares, inbound, cmds, keys, answers, srv, stale>>
    BY DEF joined, clientVars, folderVars, historyVars
  <1>2. PICK P, S, a, st : P = pending /\ S = srv /\ a = answers /\ st = stale
    OBVIOUS
  <1>3. PacketsOK(P) /\ Len(P) >= 2 /\ Agrees(c, P, S, a, st)
    BY <1>1, <1>2 DEF KeysArrive, Agreement
  <1>4. /\ DOMAIN d = Fields /\ d.node = c.node /\ d.out = c.out /\ d.key = c.key /\ d.in = c.in
        /\ d.cmds = c.cmds /\ d.keys = c.keys
    BY <1>1, FolderIs
  <1> HIDE DEF c, d
  <1> DEFINE Q == <<P[1] \o P[2]>> \o SubSeq(P, 3, Len(P))
  <1>5. pending' = Q
    BY <1>1, <1>2
  <1>6. Agrees(c, Q, S, a, st)
    <2>1. PICK v, u : /\ Past(P, v, u, c.keys) /\ Latest(u, S)
                      /\ Follows(c, v, World(u, c.keys, a, st))
      BY <1>3 DEF Agrees
    <2>2. Past(Q, v, u, c.keys)
      BY <1>3, <2>1, PastJoined
    <2> HIDE DEF Q
    <2> QED BY <1>3, <2>1, <2>2 DEF Agrees
  <1> HIDE DEF Q
  <1>7. Agrees(d, Q, S, a, st)
    BY <1>4, <1>6, AgreesAlso
  <1> QED BY <1>1, <1>2, <1>5, <1>7, AgreementNext DEF d

(* Nothing happens. *)
LEMMA StutterAgrees ==
    ASSUME Agreement, UNCHANGED vars
    PROVE  Agreement'
  <1> DEFINE c == Client
             d == Client'
  <1>1. UNCHANGED <<node, sharekey, outshares, inbound, cmds, keys, answers, srv, stale, pending>>
    BY DEF vars, clientVars, folderVars, historyVars
  <1>2. PICK P, S, a, st : P = pending /\ S = srv /\ a = answers /\ st = stale
    OBVIOUS
  <1>3. Agrees(c, P, S, a, st)
    BY <1>2 DEF Agreement
  <1>4. /\ DOMAIN d = Fields /\ d.node = c.node /\ d.out = c.out /\ d.key = c.key /\ d.in = c.in
        /\ d.cmds = c.cmds /\ d.keys = c.keys
    BY <1>1, FolderIs
  <1> HIDE DEF c, d
  <1>5. Agrees(d, P, S, a, st)
    BY <1>3, <1>4, AgreesAlso
  <1> QED BY <1>1, <1>2, <1>5, AgreementNext DEF d

(* What the server makes of its state. *)
LEMMA ServerIs ==
    ASSUME NEW s, ServerOK(s)
    PROVE  /\ \A x : LET g == given(s, x)
                     IN  /\ g.there = s.there /\ g.inbound = s.inbound
                         /\ g.shares = s.shares \union {x.to} /\ g.key = x.key
           /\ \A u : LET g == dropped(s, u)
                     IN  /\ g.there = s.there /\ g.inbound = s.inbound
                         /\ g.shares = s.shares \ {u}
                         /\ g.key = IF g.shares = {} THEN 0 ELSE s.key
  <1>1. ASSUME NEW x
        PROVE  LET g == given(s, x)
               IN  /\ g.there = s.there /\ g.inbound = s.inbound
                   /\ g.shares = s.shares \union {x.to} /\ g.key = x.key
    BY DEF ServerOK, given
  <1>2. ASSUME NEW u
        PROVE  LET g == dropped(s, u)
               IN  /\ g.there = s.there /\ g.inbound = s.inbound
                   /\ g.shares = s.shares \ {u}
                   /\ g.key = IF g.shares = {} THEN 0 ELSE s.key
    BY DEF ServerOK, dropped
  <1> QED BY <1>1, <1>2

(* The server's key is one that has been made up. *)
LEMMA AgreesKey ==
    ASSUME NEW c, NEW P, PacketsOK(P), NEW S, NEW a, NEW st, Agrees(c, P, S, a, st)
    PROVE  S.key \in 0 .. c.keys /\ c.keys \in Nat
  <1>1. PICK v, u : Past(P, v, u, c.keys) /\ Latest(u, S)
    BY DEF Agrees
  <1>2. IsView(u, c.keys)
    BY <1>1, PastBefore
  <1> QED BY <1>1, <1>2 DEF Agrees, Sound, Latest, IsView

(* Something has happened elsewhere. *)
LEMMA SoundElsewhere ==
    ASSUME NEW c, NEW S, NEW a, Sound(c, S, a), NEW d, DOMAIN d = Fields, Besides(c, d),
           d.cmds = c.cmds, NEW R, R.there \in BOOLEAN, R.inbound \in BOOLEAN
    PROVE  Sound(d, R, a) /\ Within(a, a) /\ \A x : Without(c.cmds, d.cmds, x)
  <1>1. c.keys \in Nat /\ d.keys \in Nat /\ c.keys <= d.keys
    BY DEF Sound, Besides
  <1>2. \A x : Carries(x, c.keys) => Carries(x, d.keys)
    BY <1>1 DEF Carries
  <1>3. \A x : Right(x, c.keys) => Right(x, d.keys)
    BY <1>1 DEF Right
  <1>4. Sound(d, R, a)
    BY <1>1, <1>2, <1>3 DEF Sound
  <1>5. Within(a, a) /\ \A x : Without(c.cmds, d.cmds, x)
    BY DEF Within, Without
  <1> QED BY <1>4, <1>5

LEMMA HappensIs ==
    ASSUME NEW s, NEW p, happens(s, p), keys \in Nat, keys' \in Nat, keys <= keys'
    PROVE  /\ srv' = s /\ pending' = Append(pending, p)
           /\ UNCHANGED <<answers, stale>>
           /\ DOMAIN Client' = Fields /\ Besides(Client, Client') /\ Client'.cmds = Client.cmds
           /\ Client.keys = keys /\ Client'.keys = keys'
  <1>1. /\ srv' = s /\ pending' = Append(pending, p)
        /\ UNCHANGED <<node, sharekey, outshares, inbound, cmds, answers, stale>>
    BY DEF happens, folderVars, historyVars
  <1> QED BY <1>1, FolderIs DEF Besides

(* Another session shares the folder. *)
LEMMA OtherSharesAgrees ==
    ASSUME KeysArrive, Agreement, NEW to, otherShares(to)
    PROVE  Agreement'
  <1> DEFINE c == Client
             d == Client'
  <1>1. PICK P, S, a, st : P = pending /\ S = srv /\ a = answers /\ st = stale
    OBVIOUS
  <1>2. PacketsOK(P) /\ Agrees(c, P, S, a, st) /\ ServerOK(S)
    BY <1>1 DEF KeysArrive, Agreement
  <1>3. S.key \in 0 .. keys /\ keys \in Nat
    BY <1>2, AgreesKey, FolderIs
  <1>4. PICK k : k = IF srv.key = 0 THEN keys + 1 ELSE srv.key
    OBVIOUS
  <1> DEFINE y == [key |-> k, to |-> to, cr |-> IF srv.key = 0 THEN DOMAIN srv.cr ELSE {}]
  <1>5. /\ S.there /\ happens(given(srv, y), <<share(to, k, FALSE)>>)
        /\ keys' = IF srv.key = 0 THEN k ELSE keys
    BY <1>1, <1>4 DEF otherShares
  <1>6. keys' \in Nat /\ keys <= keys' /\ k \in 1 .. keys' /\ S.key \in {0, k}
    BY <1>1, <1>3, <1>4, <1>5
  <1>7. y.key = k /\ y.to = to
    OBVIOUS
  <1> HIDE DEF y
  <1>8. PICK R : R = given(S, y)
    OBVIOUS
  <1>9. R.there = S.there /\ R.inbound = S.inbound /\ R.shares = S.shares \union {to} /\ R.key = k
    BY <1>2, <1>7, <1>8, ServerIs
  <1>10. /\ srv' = R /\ pending' = Append(P, <<share(to, k, FALSE)>>)
         /\ UNCHANGED <<answers, stale>>
         /\ DOMAIN d = Fields /\ Besides(c, d) /\ d.cmds = c.cmds /\ d.keys = keys'
    BY <1>1, <1>3, <1>5, <1>6, <1>8, HappensIs
  <1>11. k \in 1 .. d.keys
    BY <1>6, <1>10
  <1> HIDE DEF c, d
  <1>12. Sound(c, S, a) /\ R.there \in BOOLEAN /\ R.inbound \in BOOLEAN
    BY <1>2, <1>9 DEF Agrees, Sound
  <1> DEFINE x == [op |-> "uk"]
  <1>13. x.op # "s"
    OBVIOUS
  <1> HIDE DEF x
  <1>14. Sound(d, R, a) /\ Within(a, a) /\ Without(c.cmds, d.cmds, x)
    BY <1>10, <1>12, SoundElsewhere
  <1>15. Agrees(d, Append(P, <<share(to, k, FALSE)>>), R, a, st)
    BY <1>2, <1>5, <1>6, <1>9, <1>10, <1>11, <1>13, <1>14, AgreesGiven
  <1>16. Agrees(Client', pending', srv', answers', stale')
    BY <1>1, <1>10, <1>15 DEF d
  <1> QED BY <1>16, AgreementNext

(* Another session revokes a share, or removes the folder. *)
LEMMA OtherRevokesAgrees ==
    ASSUME KeysArrive, Agreement, NEW to, otherRevokes(to)
    PROVE  Agreement'
  <1> DEFINE c == Client
             d == Client'
  <1>1. PICK P, S, a, st : P = pending /\ S = srv /\ a = answers /\ st = stale
    OBVIOUS
  <1>2. PacketsOK(P) /\ Agrees(c, P, S, a, st) /\ ServerOK(S)
    BY <1>1 DEF KeysArrive, Agreement
  <1>3. keys \in Nat
    BY <1>2, AgreesKey, FolderIs
  <1>4. S.there /\ happens(dropped(srv, to), <<share(to, 0, TRUE)>>) /\ keys' = keys
    BY <1>1 DEF otherRevokes
  <1>5. PICK R : R = dropped(S, to)
    OBVIOUS
  <1>6. /\ R.there = S.there /\ R.inbound = S.inbound /\ R.shares = S.shares \ {to}
        /\ R.key = IF R.shares = {} THEN 0 ELSE S.key
    BY <1>2, <1>5, ServerIs
  <1> DEFINE q == <<share(to, 0, TRUE)>>
  <1> HIDE DEF q
  <1>7. /\ srv' = R /\ pending' = Append(P, q)
        /\ UNCHANGED <<answers, stale>>
        /\ DOMAIN d = Fields /\ Besides(c, d) /\ d.cmds = c.cmds
    <2>1. happens(R, q) /\ keys' \in Nat /\ keys <= keys'
      BY <1>1, <1>3, <1>4, <1>5 DEF q
    <2> QED BY <1>1, <1>3, <2>1, HappensIs
  <1> HIDE DEF c, d
  <1>8. Sound(c, S, a) /\ R.there \in BOOLEAN /\ R.inbound \in BOOLEAN
    BY <1>2, <1>6 DEF Agrees, Sound
  <1> DEFINE x == [op |-> "uk"]
  <1>9. x.op # "s"
    OBVIOUS
  <1> HIDE DEF x
  <1>10. Sound(d, R, a) /\ Within(a, a) /\ Without(c.cmds, d.cmds, x)
    BY <1>7, <1>8, SoundElsewhere
  <1>11. Agrees(d, Append(P, q), R, a, st)
    <2>1. st => st
      OBVIOUS
    <2>2. x.op = "s" => ~x.set /\ (x.new => st)
      BY <1>9
    <2> QED BY <1>2, <1>4, <1>6, <1>7, <1>10, <2>1, <2>2, AgreesDropped DEF q
  <1>12. Agrees(Client', pending', srv', answers', stale')
    BY <1>1, <1>7, <1>11 DEF d
  <1> QED BY <1>12, AgreementNext

LEMMA OtherRemovesAgrees ==
    ASSUME KeysArrive, Agreement, otherRemoves
    PROVE  Agreement'
  <1> DEFINE c == Client
             d == Client'
             y == [a |-> "d"]
             s == [srv EXCEPT !.there = FALSE, !.key = 0, !.shares = {}, !.cr = << >>]
  <1>1. PICK P, S, a, st : P = pending /\ S = srv /\ a = answers /\ st = stale
    OBVIOUS
  <1>2. PacketsOK(P) /\ Agrees(c, P, S, a, st) /\ ServerOK(S)
    BY <1>1 DEF KeysArrive, Agreement
  <1>3. keys \in Nat
    BY <1>2, AgreesKey, FolderIs
  <1>4. happens(s, <<y>>) /\ keys' = keys
    BY DEF otherRemoves
  <1>5. s.there = FALSE /\ s.inbound = S.inbound /\ s.shares = {} /\ s.key = 0
    BY <1>1, <1>2 DEF ServerOK
  <1>6. y.a = "d"
    OBVIOUS
  <1> HIDE DEF s, y
  <1>7. PICK R : R = s
    OBVIOUS
  <1>8. /\ srv' = R /\ pending' = Append(P, <<y>>)
        /\ UNCHANGED <<answers, stale>>
        /\ DOMAIN d = Fields /\ Besides(c, d) /\ d.cmds = c.cmds
    BY <1>1, <1>3, <1>4, <1>7, HappensIs
  <1> HIDE DEF c, d
  <1>9. Sound(c, S, a) /\ R.there \in BOOLEAN /\ R.inbound \in BOOLEAN
    BY <1>2, <1>5, <1>7 DEF Agrees, Sound
  <1>10. Sound(d, R, a)
    BY <1>8, <1>9, SoundElsewhere
  <1>11. Agrees(d, Append(P, <<y>>), R, a, st)
    BY <1>2, <1>5, <1>6, <1>7, <1>8, <1>10, AgreesRemoved
  <1>12. Agrees(Client', pending', srv', answers', stale')
    BY <1>1, <1>8, <1>11 DEF d
  <1> QED BY <1>12, AgreementNext

(* Something else happens, that does not concern the shares of the folder. *)
LEMMA ToldAgrees ==
    ASSUME KeysArrive, Agreement, NEW s, NEW p, happens(s, p), keys' = keys,
           SameFolder(srv, s), s.inbound \in BOOLEAN,
           \A u, e : /\ IsView(u, keys) /\ IsView(e, keys) /\ SameOut(u, e)
                     /\ u.in \in {"no", "yes"} /\ e.in \in {"no", "yes"}
                     /\ u.in = "yes" <=> srv.inbound
                     /\ e.in = "yes" <=> s.inbound
                     => Tells(p, u, e, keys)
    PROVE  Agreement'
  <1> DEFINE c == Client
             d == Client'
  <1>1. PICK P, S, a, st, K : P = pending /\ S = srv /\ a = answers /\ st = stale /\ K = keys
    OBVIOUS
  <1>2. PacketsOK(P) /\ Agrees(c, P, S, a, st) /\ ServerOK(S)
    BY <1>1 DEF KeysArrive, Agreement
  <1>3. keys \in Nat
    BY <1>2, AgreesKey, FolderIs
  <1>4. PICK R, q : R = s /\ q = p
    OBVIOUS
  <1>5. /\ srv' = R /\ pending' = Append(P, q)
        /\ UNCHANGED <<answers, stale>>
        /\ DOMAIN d = Fields /\ Besides(c, d) /\ d.cmds = c.cmds /\ d.keys = K
    BY <1>1, <1>3, <1>4, HappensIs
  <1> HIDE DEF c, d
  <1>6. SameFolder(S, R) /\ R.inbound \in BOOLEAN
    BY <1>1, <1>4
  <1>7. Sound(c, S, a) /\ R.there \in BOOLEAN
    BY <1>2, <1>6 DEF Agrees, Sound, SameFolder
  <1>8. Sound(d, R, a)
    BY <1>5, <1>6, <1>7, SoundElsewhere
  <1>9. ASSUME NEW u, NEW e, IsView(u, d.keys), IsView(e, d.keys), SameOut(u, e),
               u.in \in {"no", "yes"}, e.in \in {"no", "yes"},
               u.in = "yes" <=> S.inbound, e.in = "yes" <=> R.inbound
        PROVE  Tells(q, u, e, d.keys)
    BY <1>1, <1>4, <1>5, <1>9
  <1>10. Agrees(d, Append(P, q), R, a, st)
    BY <1>2, <1>5, <1>6, <1>8, <1>9, AgreesTold
  <1>11. Agrees(Client', pending', srv', answers', stale')
    BY <1>1, <1>5, <1>10 DEF d
  <1> QED BY <1>11, AgreementNext

\* an action that concerns no share
Idle(x) == x.a \in {"t", "k", "c"} /\ (x.a = "t" => x.node # "inbound")

LEMMA IdleAgrees ==
    ASSUME KeysArrive, Agreement, NEW s, NEW x, Idle(x), happens(s, <<x>>), keys' = keys,
           SameFolder(srv, s), s.inbound = srv.inbound
    PROVE  Agreement'
  <1>1. srv.inbound \in BOOLEAN
    BY DEF Agreement, Agrees, Sound
  <1>2. ASSUME NEW u, NEW e, IsView(u, keys), IsView(e, keys), SameOut(u, e),
               u.in \in {"no", "yes"}, e.in \in {"no", "yes"},
               u.in = "yes" <=> srv.inbound, e.in = "yes" <=> s.inbound
        PROVE  Tells(<<x>>, u, e, keys)
    <2>1. PICK K : K = keys
      OBVIOUS
    <2>2. u.in = e.in
      BY <1>2
    <2>3. TellsOut(u, x, e)
      BY <1>2 DEF TellsOut, Outgoing, Idle
    <2>4. TellsIn(u, x, e)
      BY <1>2, <2>2 DEF TellsIn, Inbound, Nodes, Idle
    <2>5. Tells(<<x>>, u, e, K)
      BY <1>2, <2>1, <2>3, <2>4, OneTells
    <2> QED BY <2>1, <2>5
  <1> QED BY <1>1, <1>2, ToldAgrees

(* Another session adds a file; the server asks for keys, or tells of a
   contact. *)
LEMMA OtherAddsAgrees ==
    ASSUME KeysArrive, Agreement, NEW f, otherAdds(f)
    PROVE  Agreement'
  <1> DEFINE x == [a |-> "t", node |-> "file", file |-> f]
             s == [srv EXCEPT !.cr = Insert(@, f, srv.key)]
  <1>1. happens(s, <<x>>) /\ keys' = keys
    BY DEF otherAdds
  <1>2. Idle(x)
    BY DEF Idle
  <1>3. SameFolder(srv, s) /\ s.inbound = srv.inbound
    BY DEF SameFolder, KeysArrive, ServerOK
  <1> HIDE DEF x, s
  <1> QED BY <1>1, <1>2, <1>3, IdleAgrees

LEMMA AskedAgrees ==
    ASSUME KeysArrive, Agreement, NEW x, Idle(x), happens(srv, <<x>>), keys' = keys
    PROVE  Agreement'
  <1>1. SameFolder(srv, srv)
    BY DEF SameFolder
  <1> QED BY <1>1, IdleAgrees

LEMMA AsksAgrees ==
    ASSUME KeysArrive, Agreement, NEW how, asks(how)
    PROVE  Agreement'
  <1> DEFINE x == [a |-> "k", how |-> how, files |-> SetToSeq(lacking)]
  <1>1. happens(srv, <<x>>) /\ keys' = keys
    BY DEF asks
  <1>2. Idle(x)
    BY DEF Idle
  <1> HIDE DEF x
  <1> QED BY <1>1, <1>2, AskedAgrees

LEMMA AsksShareKeyAgrees ==
    ASSUME KeysArrive, Agreement, NEW u, asksShareKey(u)
    PROVE  Agreement'
  <1> DEFINE x == [a |-> "k", how |-> "sr", peer |-> u]
  <1>1. happens(srv, <<x>>) /\ keys' = keys
    BY DEF asksShareKey
  <1>2. Idle(x)
    BY DEF Idle
  <1> HIDE DEF x
  <1> QED BY <1>1, <1>2, AskedAgrees

LEMMA ContactAgrees ==
    ASSUME KeysArrive, Agreement, NEW u, contact(u)
    PROVE  Agreement'
  <1> DEFINE x == [a |-> "c", peer |-> u]
  <1>1. happens(srv, <<x>>) /\ keys' = keys
    BY DEF contact
  <1>2. Idle(x)
    BY DEF Idle
  <1> HIDE DEF x
  <1> QED BY <1>1, <1>2, AskedAgrees

LEMMA TwoTell ==
    ASSUME NEW x, NEW y, NEW K, NEW u, IsView(u, K), NEW m, IsView(m, K), NEW e, IsView(e, K),
           TellsOut(u, x, m), TellsIn(u, x, m), TellsOut(m, y, e), TellsIn(m, y, e)
    PROVE  Tells(<<x, y>>, u, e, K)
  <1> DEFINE T == [n \in {0, 1, 2} |-> IF n = 0 THEN u ELSE IF n = 1 THEN m ELSE e]
             p == <<x, y>>
  <1>1. T[0] = u /\ T[1] = m /\ T[2] = e /\ Len(p) = 2 /\ p[1] = x /\ p[2] = y
    OBVIOUS
  <1> HIDE DEF T, p
  <1>2. \A n \in 0 .. 2 : IsView(T[n], K)
    BY <1>1
  <1>3. ASSUME NEW n \in Nat, n + 1 <= 2
        PROVE  TellsOut(T[n], p[n + 1], T[n + 1]) /\ TellsIn(T[n], p[n + 1], T[n + 1])
    <2>1. CASE n = 0
      <3>1. n + 1 = 1
        BY <2>1
      <3> QED BY <1>1, <2>1, <3>1
    <2>2. CASE n = 1
      <3>1. n + 1 = 2
        BY <2>2
      <3> QED BY <1>1, <2>2, <3>1
    <2> QED BY <1>3, <2>1, <2>2
  <1>4. By(p, T, u, e, K)
    BY <1>1, <1>2, <1>3 DEF By
  <1> QED BY <1>4 DEF Tells, p

(* Another user shares a folder, or no longer. *)
LEMMA IncomingAgrees ==
    ASSUME KeysArrive, Agreement, NEW w, incoming(w)
    PROVE  Agreement'
  <1> DEFINE x == [share(w, 1, FALSE) EXCEPT !.outgoing = FALSE]
             y == [a |-> "t", node |-> "inbound"]
             s == [srv EXCEPT !.inbound = TRUE]
  <1>1. ~srv.inbound /\ happens(s, <<x, y>>) /\ keys' = keys
    BY DEF incoming
  <1>2. SameFolder(srv, s) /\ s.inbound = TRUE
    BY DEF SameFolder, KeysArrive, ServerOK
  <1>3. x.a = "s" /\ x.outgoing = FALSE /\ x.del = FALSE /\ x.key = 1
    BY DEF share
  <1>4. y.a = "t" /\ y.node = "inbound"
    OBVIOUS
  <1> HIDE DEF x, y, s
  <1>5. ASSUME NEW u, NEW e, IsView(u, keys), IsView(e, keys), SameOut(u, e),
               u.in \in {"no", "yes"}, e.in \in {"no", "yes"},
               u.in = "yes" <=> srv.inbound, e.in = "yes" <=> s.inbound
        PROVE  Tells(<<x, y>>, u, e, keys)
    <2>1. PICK K : K = keys
      OBVIOUS
    <2>2. u.in = "no" /\ e.in = "yes"
      BY <1>1, <1>2, <1>5
    <2> DEFINE m == [there |-> u.there, shares |-> u.shares, key |-> u.key, epoch |-> u.epoch,
                     in |-> "coming"]
    <2>3. /\ m.there = u.there /\ m.shares = u.shares /\ m.key = u.key /\ m.epoch = u.epoch
          /\ m.in = "coming"
      OBVIOUS
    <2> HIDE DEF m
    <2>4. IsView(m, K)
      BY <1>5, <2>1, <2>3 DEF IsView
    <2>5. TellsOut(u, x, m) /\ TellsOut(m, y, e)
      BY <1>3, <1>4, <1>5, <2>3 DEF TellsOut, Outgoing, SameOut
    <2>6. TellsIn(u, x, m)
      BY <1>3, <2>2, <2>3 DEF TellsIn, Inbound, Nodes
    <2>7. TellsIn(m, y, e)
      BY <1>4, <2>2, <2>3 DEF TellsIn, Inbound, Nodes
    <2>8. Tells(<<x, y>>, u, e, K)
      BY <1>5, <2>1, <2>4, <2>5, <2>6, <2>7, TwoTell
    <2> QED BY <2>1, <2>8
  <1>6. s.inbound \in BOOLEAN
    BY <1>2
  <1> QED BY <1>1, <1>2, <1>5, <1>6, ToldAgrees

LEMMA WithdrawnAgrees ==
    ASSUME KeysArrive, Agreement, NEW w, withdrawn(w)
    PROVE  Agreement'
  <1> DEFINE x == [share(w, 0, TRUE) EXCEPT !.outgoing = FALSE]
             s == [srv EXCEPT !.inbound = FALSE]
  <1>1. srv.inbound /\ happens(s, <<x>>) /\ keys' = keys
    BY DEF withdrawn
  <1>2. SameFolder(srv, s) /\ s.inbound = FALSE
    BY DEF SameFolder, KeysArrive, ServerOK
  <1>3. x.a = "s" /\ x.outgoing = FALSE /\ x.del = TRUE
    BY DEF share
  <1> HIDE DEF x, s
  <1>4. ASSUME NEW u, NEW e, IsView(u, keys), IsView(e, keys), SameOut(u, e),
               u.in \in {"no", "yes"}, e.in \in {"no", "yes"},
               u.in = "yes" <=> srv.inbound, e.in = "yes" <=> s.inbound
        PROVE  Tells(<<x>>, u, e, keys)
    <2>1. PICK K : K = keys
      OBVIOUS
    <2>2. u.in = "yes" /\ e.in = "no"
      BY <1>1, <1>2, <1>4
    <2>3. TellsOut(u, x, e)
      BY <1>3, <1>4 DEF TellsOut, Outgoing
    <2>4. TellsIn(u, x, e)
      BY <1>3, <2>2 DEF TellsIn, Inbound, Nodes
    <2>5. Tells(<<x>>, u, e, K)
      BY <1>4, <2>1, <2>3, <2>4, OneTells
    <2> QED BY <2>1, <2>5
  <1>5. s.inbound \in BOOLEAN
    BY <1>2
  <1> QED BY <1>1, <1>2, <1>4, <1>5, ToldAgrees

-----------------------------------------------------------------------------
(* Commands are performed *)

\* the server has made R and the packets Q of S and P, of a share x, and
\* returns y
Performed(x, y, S, R, P, Q, su) ==
    /\ y.op = "s"
    /\ \/ ~y.ok /\ su /\ R = S /\ Q = P
       \/ y.set /\ y.other = S.key /\ y.ok /\ y.other # 0 /\ R = S /\ Q = P
       \/ /\ x.set /\ S.there /\ S.key \in {0, x.key} /\ y.other = 0
          /\ R = given(S, x) /\ Q = Append(P, <<share(x.to, x.key, FALSE)>>)
       \/ /\ ~x.set /\ S.there /\ (x.new => su) /\ y.other = 0
          /\ R = dropped(S, x.to) /\ Q = Append(P, <<share(x.to, 0, TRUE)>>)

(* The result of a share has its fields. *)
LEMMA DoneIs ==
    ASSUME NEW x, DOMAIN x = ShareFields,
           NEW y, y = Insert(Insert(x, "ok", TRUE), "other", 0)
    PROVE  /\ {"op", "set", "ok", "other"} \subseteq DOMAIN y
           /\ y.op = x.op /\ y.set = x.set /\ y.ok = TRUE /\ y.other = 0
  <1> DEFINE z == Insert(x, "ok", TRUE)
  <1>1. DOMAIN z = DOMAIN x \union {"ok"} /\ (\A k \in DOMAIN x : k # "ok" => z[k] = x[k]) /\ z["ok"] = TRUE
    BY DEF Insert
  <1> HIDE DEF z
  <1>2. /\ DOMAIN y = DOMAIN z \union {"other"} /\ (\A k \in DOMAIN z : k # "other" => y[k] = z[k])
        /\ y["other"] = 0
    BY DEF Insert, z
  <1>3. "op" \in DOMAIN x /\ "set" \in DOMAIN x
    BY DEF ShareFields
  <1>4. {"op", "set", "ok", "other"} \subseteq DOMAIN y /\ "op" \in DOMAIN z /\ "set" \in DOMAIN z /\ "ok" \in DOMAIN z
    BY <1>1, <1>2, <1>3
  <1>5. z["op"] = x["op"] /\ z["set"] = x["set"]
    BY <1>1, <1>3
  <1>6. y["op"] = x["op"] /\ y["set"] = x["set"] /\ y["ok"] = TRUE
    BY <1>1, <1>2, <1>4, <1>5
  <1> QED BY <1>2, <1>4, <1>6

LEMMA ReturnIs ==
    ASSUME NEW r, NEW y, NEW s, NEW p, r = [answer |-> y, srv |-> s, news |-> p]
    PROVE  r.answer = y /\ r.srv = s /\ r.news = p
  OBVIOUS

LEMMA ServedShare ==
    ASSUME NEW x, x.op = "s", DOMAIN x = ShareFields, NEW P, NEW r, r = served(x)
    PROVE  /\ {"op", "set", "ok", "other"} \subseteq DOMAIN r.answer /\ r.answer.op = "s"
           /\ \/ ~r.answer.ok /\ r.srv = srv /\ r.news = << >>
              \/ /\ r.answer.set /\ srv.key # 0 /\ r.answer.other = srv.key /\ r.answer.ok
                 /\ r.srv = srv /\ r.news = << >>
              \/ /\ x.set /\ srv.there /\ srv.key \in {0, x.key} /\ r.answer.other = 0 /\ r.answer.ok
                 /\ r.srv = given(srv, x) /\ r.news = <<share(x.to, x.key, FALSE)>>
              \/ /\ ~x.set /\ srv.there /\ r.answer.other = 0 /\ r.answer.ok
                 /\ r.srv = dropped(srv, x.to) /\ r.news = <<share(x.to, 0, TRUE)>>
  <1> DEFINE done == Insert(Insert(x, "ok", TRUE), "other", 0)
             Is(y, s, p) == [answer |-> y, srv |-> s, news |-> p]
             failed == [done EXCEPT !.ok = FALSE]
             repeated == [done EXCEPT !.other = srv.key]
  <1>1. /\ {"op", "set", "ok", "other"} \subseteq DOMAIN done
        /\ done.op = x.op /\ done.set = x.set /\ done.ok = TRUE /\ done.other = 0
    BY DoneIs
  <1>2. \/ served(x) = Is(failed, srv, << >>)
        \/ x.set /\ srv.key \notin {0, x.key} /\ served(x) = Is(repeated, srv, << >>)
        \/ /\ x.set /\ srv.there /\ srv.key \in {0, x.key}
           /\ served(x) = Is(done, given(srv, x), <<share(x.to, x.key, FALSE)>>)
        \/ /\ ~x.set /\ srv.there
           /\ served(x) = Is(done, dropped(srv, x.to), <<share(x.to, 0, TRUE)>>)
    <2> HIDE DEF done
    <2> QED BY DEF served, done
  <1> HIDE DEF done
  <1>3. /\ {"op", "set", "ok", "other"} \subseteq DOMAIN failed
        /\ failed.op = "s" /\ failed.ok = FALSE
    BY <1>1
  <1>4. /\ {"op", "set", "ok", "other"} \subseteq DOMAIN repeated
        /\ repeated.op = "s" /\ repeated.set = x.set /\ repeated.ok = TRUE /\ repeated.other = srv.key
    BY <1>1
  <1> HIDE DEF failed, repeated
  <1>5. CASE served(x) = Is(failed, srv, << >>)
    <2>1. r.answer = failed /\ r.srv = srv /\ r.news = << >>
      BY <1>5
    <2> QED BY <1>3, <2>1
  <1>6. CASE x.set /\ srv.key \notin {0, x.key} /\ served(x) = Is(repeated, srv, << >>)
    <2>1. r.answer = repeated /\ r.srv = srv /\ r.news = << >>
      BY <1>6
    <2>2. r.answer.set
      BY <1>4, <1>6, <2>1, Zenon
    <2> QED BY <1>4, <1>6, <2>1, <2>2
  <1>7. CASE /\ x.set /\ srv.there /\ srv.key \in {0, x.key}
             /\ served(x) = Is(done, given(srv, x), <<share(x.to, x.key, FALSE)>>)
    <2>1. r.answer = done /\ r.srv = given(srv, x) /\ r.news = <<share(x.to, x.key, FALSE)>>
      <3> DEFINE g == given(srv, x)
                 q == <<share(x.to, x.key, FALSE)>>
      <3>1. r = Is(done, g, q)
        BY <1>7, Zenon
      <3> HIDE DEF g, q
      <3>2. r.answer = done /\ r.srv = g /\ r.news = q
        BY <3>1, ReturnIs
      <3> QED BY <3>2 DEF g, q
    <2> QED BY <1>1, <1>7, <2>1
  <1>8. CASE /\ ~x.set /\ srv.there
             /\ served(x) = Is(done, dropped(srv, x.to), <<share(x.to, 0, TRUE)>>)
    <2>1. r.answer = done /\ r.srv = dropped(srv, x.to) /\ r.news = <<share(x.to, 0, TRUE)>>
      <3> DEFINE g == dropped(srv, x.to)
                 q == <<share(x.to, 0, TRUE)>>
      <3>1. r = Is(done, g, q)
        BY <1>8, Zenon
      <3> HIDE DEF g, q
      <3>2. r.answer = done /\ r.srv = g /\ r.news = q
        BY <3>1, ReturnIs
      <3> QED BY <3>2 DEF g, q
    <2> QED BY <1>1, <1>8, <2>1
  <1> QED BY <1>2, <1>5, <1>6, <1>7, <1>8

LEMMA ServedElse ==
    ASSUME NEW x, "op" \in DOMAIN x, x.op \in Commands \ {"s"}, x.op = "uk" => "rec" \in DOMAIN x,
           ServerOK(srv), NEW r, r = served(x)
    PROVE  /\ r.news = << >> /\ SameFolder(srv, r.srv) /\ r.srv.inbound = srv.inbound
           /\ AnswerOK(x, r.answer)
  <1> DEFINE done == Insert(Insert(x, "ok", TRUE), "other", 0)
             Is(y, s, p) == [answer |-> y, srv |-> s, news |-> p]
             failed == [done EXCEPT !.ok = FALSE]
             added == [srv EXCEPT !.cr = Insert(@, x.file, IF srv.key = 0 THEN 0 ELSE x.key)]
             filled == [srv EXCEPT !.cr = [f \in DOMAIN @ |-> IF f \in x.files THEN x.key ELSE @[f]]]
             keyed == [srv EXCEPT !.ukey = Insert(@, x.to, x.key)]
             Same(s) == SameFolder(srv, s) /\ s.inbound = srv.inbound
  <1>1. AnswerOK(x, done)
    BY AnswerIs
  <1>2. \E y \in {done, failed}, s \in {srv, added, filled, keyed} : served(x) = Is(y, s, << >>)
    <2> HIDE DEF done, added, keyed, filled
    <2>1. CASE x.op = "p"
      BY <2>1 DEF served, done, added
    <2>2. CASE x.op = "cr"
      BY <2>2 DEF served, done, filled
    <2>3. CASE x.op = "sk"
      BY <2>3 DEF served, done, keyed
    <2>4. CASE x.op \in {"uk", "rw"}
      BY <2>4 DEF served, done
    <2> QED BY <2>1, <2>2, <2>3, <2>4 DEF Commands
  <1>3. Same(srv) /\ Same(added) /\ Same(filled) /\ Same(keyed)
    BY DEF SameFolder, ServerOK
  <1>4. AnswerOK(x, failed)
    <2> HIDE DEF done
    <2> QED BY <1>1, AnswerAlso
  <1> HIDE DEF done, failed, added, filled, keyed
  <1>5. PICK y \in {done, failed}, s \in {srv, added, filled, keyed} : served(x) = Is(y, s, << >>)
    BY <1>2
  <1>6. r.answer = y /\ r.srv = s /\ r.news = << >>
    BY <1>5
  <1> QED BY <1>1, <1>3, <1>4, <1>5, <1>6

\* x is the first of s, the others are t
Taken(s, x, t) == s # << >> /\ x = Head(s) /\ t = Tail(s)

Appended(a, y, b) == b = Append(a, y)

(* A command has gone, and a result has come. *)
LEMMA SoundServed ==
    ASSUME NEW c, NEW S, NEW a, Sound(c, S, a), NEW d, DOMAIN d = Fields, d.keys = c.keys,
           NEW x, Taken(c.cmds, x, d.cmds), NEW R, R.there \in BOOLEAN, R.inbound \in BOOLEAN,
           NEW y, Right(y, c.keys), NEW b, Appended(a, y, b)
    PROVE  /\ Sound(d, R, b) /\ Within(a, b) /\ Without(c.cmds, d.cmds, x)
           /\ Carries(x, c.keys) /\ \E i \in DOMAIN b : b[i] = y
  <1>1. IsSeq(c.cmds) /\ IsSeq(a)
    BY DEF Sound
  <1>2. /\ IsSeq(b) /\ DOMAIN b = DOMAIN a \union {Len(a) + 1}
        /\ (\A i \in DOMAIN a : b[i] = a[i]) /\ b[Len(a) + 1] = y
    BY <1>1, AppendIs DEF Appended
  <1>3. /\ IsSeq(d.cmds) /\ 1 \in DOMAIN c.cmds /\ x = c.cmds[1]
        /\ \A i \in DOMAIN d.cmds : i + 1 \in DOMAIN c.cmds /\ d.cmds[i] = c.cmds[i + 1]
        /\ \A i \in DOMAIN c.cmds : i # 1 => i - 1 \in DOMAIN d.cmds /\ d.cmds[i - 1] = c.cmds[i]
    BY <1>1, TailIs DEF Taken
  <1>4. \A i \in DOMAIN d.cmds : Carries(d.cmds[i], d.keys)
    BY <1>3 DEF Sound
  <1>5. \A i \in DOMAIN b : Right(b[i], d.keys)
    BY <1>2 DEF Sound
  <1>6. Sound(d, R, b)
    BY <1>2, <1>3, <1>4, <1>5 DEF Sound
  <1>7. Within(a, b)
    BY <1>2 DEF Within
  <1>8. Without(c.cmds, d.cmds, x) /\ Carries(x, c.keys)
    BY <1>3 DEF Without, Sound
  <1> QED BY <1>2, <1>6, <1>7, <1>8

LEMMA AgreesStale ==
    ASSUME NEW c, NEW P, NEW S, NEW a, NEW st, Agrees(c, P, S, a, st), NEW su, st => su
    PROVE  Agrees(c, P, S, a, su)
  <1>1. PICK v, u : /\ Past(P, v, u, c.keys) /\ Latest(u, S)
                    /\ Follows(c, v, World(u, c.keys, a, st))
    BY DEF Agrees
  <1> DEFINE w == World(u, c.keys, a, st)
             z == World(u, c.keys, a, su)
  <1>2. /\ w.keys = c.keys /\ z.keys = c.keys /\ w.end = u /\ z.end = u /\ w.answers = a /\ z.answers = a
        /\ w.stale = st /\ z.stale = su /\ c.keys \in Nat
    BY DEF World, Agrees, Sound
  <1> HIDE DEF w, z
  <1>3. KeyAs(c, v, w) => KeyAs(c, v, z)
    BY <1>2 DEF KeyAs
  <1>4. Follows(c, v, w)
    BY <1>1 DEF w
  <1>5. Follows(c, v, z)
    BY <1>2, <1>3, <1>4, FollowsAlso
  <1> QED BY <1>1, <1>5 DEF Agrees, z

(* A share has been performed. *)
LEMMA AgreesPerformed ==
    ASSUME NEW c, NEW P, PacketsOK(P), NEW S, ServerOK(S), NEW a, NEW st, Agrees(c, P, S, a, st),
           NEW d, DOMAIN d = Fields, Besides(c, d), d.keys = c.keys,
           NEW x, Taken(c.cmds, x, d.cmds), x.op = "s", x.key \in 1 .. c.keys,
           NEW y, NEW R, NEW Q, NEW su, st => su, Performed(x, y, S, R, P, Q, su),
           NEW b, Appended(a, y, b)
    PROVE  Agrees(d, Q, R, b, su)
  <1>1. Sound(c, S, a) /\ S.there \in BOOLEAN /\ S.inbound \in BOOLEAN
    BY DEF Agrees, Sound
  <1>2. S.key \in 0 .. c.keys /\ c.keys \in Nat
    BY AgreesKey
  <1>3. x.key \in 1 .. c.keys
    OBVIOUS
  <1>4. Right(y, c.keys)
    <2>1. y.ok /\ y.other # 0 => y.set /\ y.other = S.key
      BY Zenon DEF Performed
    <2> QED BY <1>2, <2>1 DEF Right
  <1>5. R.there = S.there /\ R.inbound = S.inbound
    <2>1. CASE R = S
      BY <2>1
    <2>2. CASE R = given(S, x)
      BY <2>2, ServerIs
    <2>3. CASE R = dropped(S, x.to)
      BY <2>3, ServerIs
    <2> QED BY <2>1, <2>2, <2>3 DEF Performed
  <1>6. R.there \in BOOLEAN /\ R.inbound \in BOOLEAN
    BY <1>1, <1>5
  <1>7. /\ Sound(d, R, b) /\ Within(a, b) /\ Without(c.cmds, d.cmds, x)
        /\ \E i \in DOMAIN b : b[i] = y
    BY <1>1, <1>4, <1>6, SoundServed
  <1>8. CASE R = S /\ Q = P /\ (su \/ (y.ok /\ y.other # 0))
    <2>1. SameFolder(S, R)
      BY <1>8 DEF SameFolder
    <2>2. su \/ \E i \in DOMAIN b : b[i].op = "s" /\ b[i].ok /\ b[i].other # 0
      BY <1>7, <1>8 DEF Performed
    <2>3. Agrees(d, P, R, b, su)
      BY <1>5, <1>7, <2>1, <2>2, AgreesServed
    <2> QED BY <1>8, <2>3
  <1>9. CASE /\ x.set /\ S.there /\ S.key \in {0, x.key}
             /\ R = given(S, x) /\ Q = Append(P, <<share(x.to, x.key, FALSE)>>)
    <2>1. PICK k, to : k = x.key /\ to = x.to
      OBVIOUS
    <2>2. R.shares = S.shares \union {to} /\ R.key = k
      BY <1>9, <2>1, ServerIs
    <2>3. k \in 1 .. d.keys /\ S.key \in {0, k} /\ (x.op = "s" => x.set /\ x.key = k)
      BY <1>3, <1>9, <2>1
    <2>4. Agrees(d, Append(P, <<share(to, k, FALSE)>>), R, b, st)
      BY <1>5, <1>7, <1>9, <2>2, <2>3, AgreesGiven
    <2>5. Agrees(d, Q, R, b, st)
      BY <1>9, <2>1, <2>4
    <2> QED BY <2>5, AgreesStale
  <1>10. CASE /\ ~x.set /\ S.there /\ (x.new => su)
              /\ R = dropped(S, x.to) /\ Q = Append(P, <<share(x.to, 0, TRUE)>>)
    <2>1. PICK to : to = x.to
      OBVIOUS
    <2>2. R.shares = S.shares \ {to} /\ R.key = IF R.shares = {} THEN 0 ELSE S.key
      BY <1>10, <2>1, ServerIs
    <2>3. S.there /\ (x.op = "s" => ~x.set /\ (x.new => su))
      BY <1>10
    <2>4. Agrees(d, Append(P, <<share(to, 0, TRUE)>>), R, b, su)
      BY <1>5, <1>7, <2>2, <2>3, AgreesDropped
    <2> QED BY <1>10, <2>1, <2>4
  <1> QED BY <1>8, <1>9, <1>10 DEF Performed

(* Another command has been performed. *)
LEMMA AgreesElse ==
    ASSUME NEW c, NEW P, NEW S, NEW a, NEW st, Agrees(c, P, S, a, st),
           NEW d, DOMAIN d = Fields, Besides(c, d), d.keys = c.keys,
           NEW x, Taken(c.cmds, x, d.cmds), x.op # "s",
           NEW y, y.op # "s", NEW R, SameFolder(S, R), R.inbound = S.inbound, NEW su, st => su,
           NEW b, Appended(a, y, b)
    PROVE  Agrees(d, P, R, b, su)
  <1>1. Sound(c, S, a) /\ R.there \in BOOLEAN /\ R.inbound \in BOOLEAN
    BY DEF Agrees, Sound, SameFolder
  <1>2. Right(y, c.keys)
    BY DEF Right
  <1>3. Sound(d, R, b) /\ Within(a, b) /\ Without(c.cmds, d.cmds, x)
    BY <1>1, <1>2, SoundServed
  <1> QED BY <1>3, AgreesServed

(* The server performs a share, or fails. *)
LEMMA ServeShare ==
    ASSUME NEW x, x = Head(cmds), x.op = "s", DOMAIN x = ShareFields, serve
    PROVE  \E y : /\ answers' = Append(answers, y)
                  /\ Performed(x, y, srv, srv', pending, pending', stale')
  <1> DEFINE r == served(x)
  <1>1. /\ {"op", "set", "ok", "other"} \subseteq DOMAIN r.answer /\ r.answer.op = "s"
        /\ \/ ~r.answer.ok /\ r.srv = srv /\ r.news = << >>
           \/ /\ r.answer.set /\ srv.key # 0 /\ r.answer.other = srv.key /\ r.answer.ok
              /\ r.srv = srv /\ r.news = << >>
           \/ /\ x.set /\ srv.there /\ srv.key \in {0, x.key} /\ r.answer.other = 0 /\ r.answer.ok
              /\ r.srv = given(srv, x) /\ r.news = <<share(x.to, x.key, FALSE)>>
           \/ /\ ~x.set /\ srv.there /\ r.answer.other = 0 /\ r.answer.ok
              /\ r.srv = dropped(srv, x.to) /\ r.news = <<share(x.to, 0, TRUE)>>
    BY ServedShare
  <1>2. \/ /\ answers' = Append(answers, r.answer) /\ srv' = r.srv
           /\ pending' = IF r.news = << >> THEN pending ELSE Append(pending, r.news)
           /\ stale' = (stale \/ (x.op = "s" /\ (~r.answer.ok \/ (x.new /\ ~x.set))))
        \/ /\ answers' = Append(answers, [r.answer EXCEPT !.ok = FALSE])
           /\ stale' = (stale \/ x.op = "s")
           /\ UNCHANGED <<srv, pending>>
    BY Zenon DEF serve
  <1> HIDE DEF r
  <1>3. CASE /\ answers' = Append(answers, r.answer) /\ srv' = r.srv
             /\ pending' = IF r.news = << >> THEN pending ELSE Append(pending, r.news)
             /\ stale' = (stale \/ (x.op = "s" /\ (~r.answer.ok \/ (x.new /\ ~x.set))))
    <2>1. CASE ~r.answer.ok /\ r.srv = srv /\ r.news = << >>
      BY <1>1, <1>3, <2>1 DEF Performed
    <2>2. CASE /\ r.answer.set /\ srv.key # 0 /\ r.answer.other = srv.key /\ r.answer.ok
               /\ r.srv = srv /\ r.news = << >>
      BY <1>1, <1>3, <2>2 DEF Performed
    <2>3. CASE /\ x.set /\ srv.there /\ srv.key \in {0, x.key} /\ r.answer.other = 0 /\ r.answer.ok
               /\ r.srv = given(srv, x) /\ r.news = <<share(x.to, x.key, FALSE)>>
      <3> DEFINE q == <<share(x.to, x.key, FALSE)>>
                 g == given(srv, x)
      <3>1. q # << >>
        OBVIOUS
      <3>2. r.news = q /\ r.srv = g
        BY <2>3
      <3> HIDE DEF q, g
      <3>3. pending' = Append(pending, q) /\ srv' = g
        BY <1>3, <3>1, <3>2
      <3> QED BY <1>1, <1>3, <2>3, <3>3 DEF Performed, q, g
    <2>4. CASE /\ ~x.set /\ srv.there /\ r.answer.other = 0 /\ r.answer.ok
               /\ r.srv = dropped(srv, x.to) /\ r.news = <<share(x.to, 0, TRUE)>>
      <3> DEFINE q == <<share(x.to, 0, TRUE)>>
                 g == dropped(srv, x.to)
      <3>1. q # << >>
        OBVIOUS
      <3>2. r.news = q /\ r.srv = g
        BY <2>4
      <3> HIDE DEF q, g
      <3>3. pending' = Append(pending, q) /\ srv' = g
        BY <1>3, <3>1, <3>2
      <3>4. x.new => stale'
        BY <1>3, <2>4
      <3> QED BY <1>1, <1>3, <2>4, <3>3, <3>4 DEF Performed, q, g
    <2> QED BY <1>1, <2>1, <2>2, <2>3, <2>4
  <1>4. CASE /\ answers' = Append(answers, [r.answer EXCEPT !.ok = FALSE])
             /\ stale' = (stale \/ x.op = "s")
             /\ UNCHANGED <<srv, pending>>
    <2> DEFINE y == [r.answer EXCEPT !.ok = FALSE]
    <2>1. y.op = "s" /\ ~y.ok
      BY <1>1
    <2> HIDE DEF y
    <2>2. answers' = Append(answers, y) /\ stale' /\ srv' = srv /\ pending' = pending
      BY <1>4 DEF y
    <2> QED BY <2>1, <2>2 DEF Performed
  <1> QED BY <1>2, <1>3, <1>4

LEMMA ServeElse ==
    ASSUME NEW x, x = Head(cmds), "op" \in DOMAIN x, x.op \in Commands \ {"s"},
           x.op = "uk" => "rec" \in DOMAIN x, ServerOK(srv), serve
    PROVE  /\ \E y : y.op # "s" /\ answers' = Append(answers, y)
           /\ SameFolder(srv, srv') /\ srv'.inbound = srv.inbound /\ pending' = pending
  <1> DEFINE r == served(x)
  <1>1. /\ r.news = << >> /\ SameFolder(srv, r.srv) /\ r.srv.inbound = srv.inbound
        /\ AnswerOK(x, r.answer)
    BY ServedElse
  <1>2. \/ /\ answers' = Append(answers, r.answer) /\ srv' = r.srv
           /\ pending' = IF r.news = << >> THEN pending ELSE Append(pending, r.news)
        \/ /\ answers' = Append(answers, [r.answer EXCEPT !.ok = FALSE])
           /\ UNCHANGED <<srv, pending>>
    BY Zenon DEF serve
  <1> HIDE DEF r
  <1>3. AnswerOK(x, [r.answer EXCEPT !.ok = FALSE])
    BY <1>1, AnswerAlso
  <1>4. PICK y : AnswerOK(x, y) /\ answers' = Append(answers, y)
    BY <1>1, <1>2, <1>3, Zenon
  <1>5. y.op # "s"
    BY <1>4 DEF AnswerOK
  <1>6. SameFolder(srv, srv)
    BY DEF SameFolder
  <1>7. SameFolder(srv, srv') /\ srv'.inbound = srv.inbound /\ pending' = pending
    BY <1>1, <1>2, <1>6
  <1> QED BY <1>4, <1>5, <1>7

LEMMA ServeAgrees ==
    ASSUME KeysArrive, Agreement, serve
    PROVE  Agreement'
  <1> DEFINE c == Client
             d == Client'
  <1>1. /\ cmds # << >> /\ cmds' = Tail(cmds)
        /\ UNCHANGED <<node, sharekey, outshares, inbound, keys>>
    BY DEF serve, folderVars
  <1>2. stale => stale'
    BY DEF serve
  <1>3. PICK P, S, a, st, x : P = pending /\ S = srv /\ a = answers /\ st = stale /\ x = Head(cmds)
    OBVIOUS
  <1>4. PICK Q, R, b, su : Q = pending' /\ R = srv' /\ b = answers' /\ su = stale'
    OBVIOUS
  <1>5. PacketsOK(P) /\ ServerOK(S) /\ Agrees(c, P, S, a, st) /\ (st => su)
    BY <1>2, <1>3, <1>4 DEF KeysArrive, Agreement
  <1>6. /\ DOMAIN d = Fields /\ Besides(c, d) /\ d.keys = c.keys
        /\ Taken(c.cmds, x, d.cmds)
    <2>1. keys \in Nat
      BY <1>5, FolderIs DEF Agrees, Sound
    <2> QED BY <1>1, <1>3, <2>1, FolderIs DEF Besides, Taken
  <1>7. /\ "op" \in DOMAIN x /\ x.op \in Commands /\ (x.op = "uk" => "rec" \in DOMAIN x)
        /\ Carries(x, c.keys)
    <2>1. Queue(c) /\ Sound(c, S, a)
      BY <1>5 DEF KeysArrive, UsersOK, Agrees
    <2> HIDE DEF c
    <2>2. 1 \in DOMAIN c.cmds /\ x = c.cmds[1]
      BY <1>6, <2>1, TailIs DEF Sound, Taken
    <2> QED BY <2>1, <2>2 DEF Queue, Sound
  <1> HIDE DEF c, d
  <1>8. Agrees(d, Q, R, b, su)
    <2>1. CASE x.op = "s"
      <3>1. DOMAIN x = ShareFields /\ x.key \in 1 .. c.keys
        BY <1>7, <2>1 DEF Carries
      <3>2. PICK y : Appended(a, y, b) /\ Performed(x, y, S, R, P, Q, su)
        <4>1. \E y : /\ answers' = Append(answers, y)
                     /\ Performed(x, y, srv, srv', pending, pending', stale')
          BY <1>3, <2>1, <3>1, ServeShare
        <4> QED BY <1>3, <1>4, <4>1 DEF Appended
      <3> QED BY <1>5, <1>6, <2>1, <3>1, <3>2, AgreesPerformed
    <2>2. CASE x.op # "s"
      <3>1. /\ \E y : y.op # "s" /\ answers' = Append(answers, y)
            /\ SameFolder(srv, srv') /\ srv'.inbound = srv.inbound /\ pending' = pending
        BY <1>3, <1>5, <1>7, <2>2, ServeElse
      <3>2. PICK y : y.op # "s" /\ Appended(a, y, b)
        BY <1>3, <1>4, <3>1 DEF Appended
      <3>3. SameFolder(S, R) /\ R.inbound = S.inbound /\ Q = P
        BY <1>3, <1>4, <3>1
      <3>4. Agrees(d, P, R, b, su)
        BY <1>5, <1>6, <2>2, <3>2, <3>3, AgreesElse
      <3> QED BY <3>3, <3>4
    <2> QED BY <2>1, <2>2
  <1> QED BY <1>4, <1>8, AgreementNext DEF d

LEMMA AgreementInit == Init => Agreement
  <1> SUFFICES ASSUME Init PROVE Agreement
    OBVIOUS
  <1> DEFINE c == Client
             v == [there |-> TRUE, shares |-> {}, key |-> 0, epoch |-> 0, in |-> "no"]
             w == World(v, 0, << >>, FALSE)
  <1>1. /\ node = "yes" /\ sharekey = 0 /\ outshares = {} /\ inbound = Unknown /\ cmds = << >>
        /\ answers = << >> /\ pending = << >> /\ stale = FALSE /\ keys = 0
        /\ srv.there = TRUE /\ srv.key = 0 /\ srv.shares = {} /\ srv.inbound = FALSE
    BY DEF Init
  <1>2. /\ DOMAIN c = Fields /\ c.node = "yes" /\ c.key = 0 /\ c.out = {} /\ c.in = Unknown
        /\ c.cmds = << >> /\ c.keys = 0
    BY <1>1, FolderIs
  <1>3. v.there = TRUE /\ v.shares = {} /\ v.key = 0 /\ v.epoch = 0 /\ v.in = "no"
    OBVIOUS
  <1> HIDE DEF c, v
  <1>4. w.end = v /\ w.keys = 0
    BY DEF World
  <1> HIDE DEF w
  <1>5. IsSeq(<< >>) /\ DOMAIN << >> = {}
    BY DEF IsSeq
  <1>6. Sound(c, srv, << >>)
    <2>1. PICK e : e = << >> /\ IsSeq(e) /\ DOMAIN e = {}
      BY <1>5
    <2>2. srv.there \in BOOLEAN /\ srv.inbound \in BOOLEAN
      BY <1>1, Zenon
    <2>3. c.keys \in Nat /\ c.cmds = e
      BY <1>2, <2>1
    <2>4. Sound(c, srv, e)
      BY <1>2, <2>1, <2>2, <2>3, Zenon DEF Sound
    <2> QED BY <2>1, <2>4
  <1>7. IsView(v, 0)
    BY <1>3 DEF IsView
  <1>8. Past(<< >>, v, v, 0)
    BY <1>3, <1>7, PastNone
  <1>9. Latest(v, srv)
    BY <1>1, <1>3 DEF Latest
  <1>10. OutAs(c, v, w)
    BY <1>2, <1>3, <1>4 DEF OutAs, KeyAs
  <1>11. InAs(c.in, v.in)
    BY <1>2, <1>3 DEF InAs, Unknown, InFields
  <1>12. c.in.node # "removed"
    BY <1>2 DEF Unknown
  <1>13. Follows(c, v, w)
    BY <1>2, <1>3, <1>10, <1>11, <1>12 DEF Follows
  <1>14. Agrees(c, << >>, srv, << >>, FALSE)
    BY <1>2, <1>6, <1>8, <1>9, <1>13 DEF Agrees, w
  <1> QED BY <1>1, <1>14 DEF Agreement, c

LEMMA AgreementStep == KeysArrive /\ Agreement /\ [Next]_vars => Agreement'
  <1> SUFFICES ASSUME KeysArrive, Agreement, [Next]_vars PROVE Agreement'
    OBVIOUS
  <1>1. CASE UNCHANGED vars
    BY <1>1, StutterAgrees
  <1>2. ASSUME NEW u \in User \union {EXP}, NEW set \in BOOLEAN, setshare(u, set) PROVE Agreement'
    BY <1>2, SetshareAgrees
  <1>3. ASSUME NEW f \in File, putnodes(f) PROVE Agreement'
    BY <1>3, PutnodesAgrees
  <1>4. ASSUME NEW f \in File, otherAdds(f) PROVE Agreement'
    BY <1>4, OtherAddsAgrees
  <1>5. CASE serve
    BY <1>5, ServeAgrees
  <1>6. CASE procresult
    BY <1>6, ProcresultAgrees
  <1>7. CASE procsc
    BY <1>7, ProcscAgrees
  <1>8. CASE joined
    BY <1>8, JoinedAgrees
  <1>9. ASSUME NEW u \in User \union {EXP}, otherShares(u) PROVE Agreement'
    BY <1>9, OtherSharesAgrees
  <1>10. ASSUME NEW u \in User \union {EXP}, otherRevokes(u) PROVE Agreement'
    BY <1>10, OtherRevokesAgrees
  <1>11. CASE otherRemoves
    BY <1>11, OtherRemovesAgrees
  <1>12. ASSUME NEW how \in Ask, asks(how) PROVE Agreement'
    BY <1>12, AsksAgrees
  <1>13. ASSUME NEW u \in User, asksShareKey(u) PROVE Agreement'
    BY <1>13, AsksShareKeyAgrees
  <1>14. ASSUME NEW u \in User, contact(u) PROVE Agreement'
    BY <1>14, ContactAgrees
  <1>15. ASSUME NEW u \in User, incoming(u) PROVE Agreement'
    BY <1>15, IncomingAgrees
  <1>16. ASSUME NEW u \in User, withdrawn(u) PROVE Agreement'
    BY <1>16, WithdrawnAgrees
  <1> QED BY <1>1, <1>2, <1>3, <1>4, <1>5, <1>6, <1>7, <1>8, <1>9, <1>10, <1>11, <1>12, <1>13,
             <1>14, <1>15, <1>16 DEF Next

(* The inductive invariant holds: procsc() leaves the client with the shares,
   and the folders, of the server's state that the packets it has processed
   lead to, and the packets on their way lead from there to the server's state
   now.  While the folder keeps its epoch, a share key here that is not the
   server's is one that CommandSetShare::procresult() will replace, unless its
   command has failed or was a revocation (stale). *)
THEOREM AgreementAlways == Spec => []Agreement
  BY KeysAlways, AgreementInit, AgreementStep, PTL DEF Spec

(* What is left once everything is processed. *)
LEMMA AtRest ==
    ASSUME NEW c, NEW S, NEW st, Agrees(c, << >>, S, << >>, st), c.cmds = << >>
    PROVE  /\ ~st => /\ c.node = "yes" <=> S.there
                     /\ c.out = S.shares
                     /\ S.shares # {} => c.key = S.key
           /\ InAs(c.in, IF S.inbound THEN "yes" ELSE "no")
           /\ S.inbound => c.in.read
           /\ c.in.node # "removed"
  <1>1. PICK v, u : /\ Past(<< >>, v, u, c.keys) /\ Latest(u, S)
                    /\ Follows(c, v, World(u, c.keys, << >>, st))
    BY DEF Agrees
  <1>2. u = v
    BY <1>1, PastEnd
  <1> DEFINE w == World(u, c.keys, << >>, st)
  <1>3. w.end = v /\ w.answers = << >> /\ w.stale = st
    BY <1>2 DEF World
  <1> HIDE DEF w
  <1>4. Follows(c, v, w) /\ Latest(v, S)
    BY <1>1, <1>2 DEF w
  <1>5. PacketsOK(<< >>) /\ DOMAIN << >> = {}
    BY DEF PacketsOK, IsSeq
  <1>6. IsView(v, c.keys) /\ v.in \in {"no", "yes"}
    BY <1>1, <1>5, PastBefore
  <1>7. v.in = (IF S.inbound THEN "yes" ELSE "no") /\ (v.in = "yes" <=> S.inbound)
    BY <1>4, <1>6 DEF Latest
  <1>8. /\ InAs(c.in, IF S.inbound THEN "yes" ELSE "no") /\ (S.inbound => c.in.read)
        /\ c.in.node # "removed" /\ c.node # "removed" /\ OutAs(c, v, w)
    BY <1>4, <1>7 DEF Follows
  <1>9. ~Corrected(c.cmds, w.answers, c.key, v.key)
    BY <1>3, <1>5 DEF Corrected
  <1>10. CASE v.there
    <2>1. c.node = "yes" /\ c.out = v.shares /\ (c.out # {} => c.key # 0) /\ KeyAs(c, v, w)
      BY <1>8, <1>10 DEF OutAs
    <2>2. ~st => c.key \in {0, v.key}
      BY <1>3, <1>9, <1>10, <2>1 DEF KeyAs
    <2> QED BY <1>4, <1>8, <1>10, <2>1, <2>2 DEF Latest
  <1>11. CASE ~v.there
    <2>1. c.node = "no" /\ c.out = {} /\ v.shares = {}
      BY <1>6, <1>8, <1>11 DEF OutAs, IsView
    <2> QED BY <1>4, <1>8, <1>11, <2>1 DEF Latest
  <1> QED BY <1>10, <1>11

(* Whatever the application, other sessions and the server do in whatever
   order, and however packets and results are delivered: once procsc() and
   CommandSetShare::procresult() have processed everything, the client and the
   server agree on whom the folder is shared with, and on its key; a key that
   was made up for an attempt that failed, or for a revocation, excepted. *)
THEOREM OutboundAgrees == Spec => []OutAgrees
  <1>1. Agreement => OutAgrees
    <2> SUFFICES ASSUME Agreement, Rest, ~stale
                 PROVE  /\ (node = "yes") = srv.there
                        /\ outshares = srv.shares
                        /\ srv.shares # {} => sharekey = srv.key
      BY DEF OutAgrees
    <2> DEFINE c == Client
    <2>1. PICK S, st : S = srv /\ st = stale
      OBVIOUS
    <2>2. Agrees(c, << >>, S, << >>, st) /\ S.there \in BOOLEAN
      BY <2>1 DEF Agreement, Rest, Agrees, Sound
    <2>3. /\ c.node = node /\ c.out = outshares /\ c.key = sharekey /\ c.cmds = << >>
      BY FolderIs DEF Rest
    <2> HIDE DEF c
    <2>4. /\ c.node = "yes" <=> S.there
          /\ c.out = S.shares
          /\ S.shares # {} => c.key = S.key
      BY <2>1, <2>2, <2>3, AtRest
    <2>5. (node = "yes") = srv.there
      BY <2>1, <2>2, <2>3, <2>4
    <2> QED BY <2>1, <2>3, <2>4, <2>5
  <1> QED BY <1>1, AgreementAlways, PTL

(* Whatever shares arrive and are withdrawn, by packets delivered one by one or
   together: once mergenewshares(), readnodes(), applykeys() and notifypurge()
   have processed them, a folder is here as an inbound share exactly if it is
   shared with the account, and its nodes are decrypted. *)
THEOREM InboundAgrees == Spec => []InAgrees
  <1>1. Agreement => InAgrees
    <2> SUFFICES ASSUME Agreement, Rest
                 PROVE  /\ inbound.share = srv.inbound
                        /\ srv.inbound => inbound.node = "yes" /\ inbound.read
      BY DEF InAgrees
    <2> DEFINE c == Client
    <2>1. PICK S, st : S = srv /\ st = stale
      OBVIOUS
    <2>2. Agrees(c, << >>, S, << >>, st) /\ S.inbound \in BOOLEAN
      BY <2>1 DEF Agreement, Rest, Agrees, Sound
    <2>3. c.in = inbound /\ c.cmds = << >>
      BY FolderIs DEF Rest
    <2> HIDE DEF c
    <2>4. /\ InAs(c.in, IF S.inbound THEN "yes" ELSE "no")
          /\ (S.inbound => c.in.read) /\ c.in.node # "removed"
      BY <2>2, <2>3, AtRest
    <2>5. CASE S.inbound
      BY <2>1, <2>2, <2>3, <2>4, <2>5 DEF InAs
    <2>6. CASE ~S.inbound
      <3>1. inbound = Unknown
        BY <2>3, <2>4, <2>6 DEF InAs
      <3> QED BY <2>1, <2>2, <2>6, <3>1 DEF Unknown
    <2> QED BY <2>5, <2>6
  <1> QED BY <1>1, AgreementAlways, PTL
=============================================================================

------------------------ MODULE FileAttributesProofs ------------------------
(***************************************************************************)
(* Safety of module FileAttributes, for any sets of uploads, attributes,   *)
(* clusters and items and any bound on failures: an attribute is attached  *)
(* once, a command finds its channel and, until one is added while a       *)
(* failed one waits, attributes are stored one at a time.                  *)
(***************************************************************************)
EXTENDS FileAttributes, FiniteSetTheorems, SequenceTheorems, TLAPS

-----------------------------------------------------------------------------
(* The record that the steps of exec() pass on *)

Stat == {"new", "READY", "INFLIGHT", "SUCCESS", "BADSIZE", "FAILURE", "done"}

PutRec(S) == [newfa : Seq(Attr), cur : Attr \union {None}, status : [Attr -> Stat],
              http : [Attr -> Nat], bt : {"ready", "waiting"}, pending : SUBSET Attr,
              cmds : Seq(S)]

(* No attribute is the null pointer. *)
LEMMA NoneIsNone == None \notin Attr
  BY AttributeAssumption DEF None

\* what stored() does besides attaching
Erase(c, a) == [c EXCEPT !.newfa = Erased(@, a), !.cur = None,
                       !.bt = "ready", !.status[a] = "done",
                       !.http[a] = IF @ = 0 THEN 0 ELSE @ - 1]

(* Erasing an entry of the queue leaves a queue. *)
LEMMA ErasedType ==
    ASSUME NEW s \in Seq(Attr), NEW a, s # << >>
    PROVE  Erased(s, a) \in Seq(Attr)
  <1> DEFINE i == CHOOSE i \in DOMAIN s : s[i] = a
  <1>1. Erased(s, a) = [j \in 1 .. Len(s) - 1 |-> IF j < i THEN s[j] ELSE s[j + 1]]
    BY DEF Erased
  <1> HIDE DEF i
  <1>2. Len(s) - 1 \in Nat /\ \A j \in 1 .. Len(s) - 1 : s[j] \in Attr /\ s[j + 1] \in Attr
    OBVIOUS
  <1>3. Erased(s, a) \in [1 .. Len(s) - 1 -> Attr]
    BY <1>1, <1>2
  <1> QED BY <1>2, <1>3

(* The fields of the record after an attribute has left the queue. *)
LEMMA EraseFields ==
    ASSUME NEW S, NEW c \in PutRec(S), NEW a \in Attr, c.newfa # << >>
    PROVE  /\ Erase(c, a) \in PutRec(S)
           /\ Erase(c, a).newfa = Erased(c.newfa, a)
           /\ Erase(c, a).cur = None /\ Erase(c, a).bt = "ready"
           /\ Erase(c, a).status = [c.status EXCEPT ![a] = "done"]
           /\ Erase(c, a).http = [c.http EXCEPT ![a] = IF @ = 0 THEN 0 ELSE @ - 1]
           /\ Erase(c, a).pending = c.pending
           /\ Erase(c, a).cmds = c.cmds
  <1>1. /\ c.newfa \in Seq(Attr) /\ c.status \in [Attr -> Stat] /\ c.http \in [Attr -> Nat]
        /\ c.pending \subseteq Attr /\ c.cmds \in Seq(S)
    BY DEF PutRec
  <1>2. Erased(c.newfa, a) \in Seq(Attr)
    BY <1>1, ErasedType
  <1>3. [c.status EXCEPT ![a] = "done"] \in [Attr -> Stat]
    BY <1>1 DEF Stat
  <1>4. [c.http EXCEPT ![a] = IF @ = 0 THEN 0 ELSE @ - 1] \in [Attr -> Nat]
    BY <1>1
  <1>5. Erase(c, a).newfa = Erased(c.newfa, a)
    BY DEF Erase, PutRec
  <1>6. Erase(c, a).cur = None /\ Erase(c, a).bt = "ready"
    BY DEF Erase, PutRec
  <1>7. Erase(c, a).status = [c.status EXCEPT ![a] = "done"]
    BY DEF Erase, PutRec
  <1>8. Erase(c, a).http = [c.http EXCEPT ![a] = IF @ = 0 THEN 0 ELSE @ - 1]
    BY DEF Erase, PutRec
  <1>9. Erase(c, a).pending = c.pending /\ Erase(c, a).cmds = c.cmds
    BY DEF Erase, PutRec
  <1>10. Erase(c, a) \in PutRec(S)
    BY <1>1, <1>2, <1>3, <1>4, Zenon DEF Erase, PutRec
  <1> QED BY <1>5, <1>6, <1>7, <1>8, <1>9, <1>10

(* The fields after an attribute has been stored: it is to be attached by a
   command if its node is known, and waits for the node otherwise. *)
LEMMA StoredFields ==
    ASSUME NEW S, NEW c \in PutRec(S), NEW a \in Attr, c.newfa # << >>
    PROVE  \E e : \E T :
           /\ e = stored(c, a) /\ e \in PutRec(T)
           /\ e.newfa = Erased(c.newfa, a)
           /\ e.cur = None /\ e.bt = "ready"
           /\ e.status = [c.status EXCEPT ![a] = "done"]
           /\ e.http = [c.http EXCEPT ![a] = IF @ = 0 THEN 0 ELSE @ - 1]
           /\ \/ /\ nodeOf(a[1]) /\ e.pending = c.pending
                 /\ e.cmds = Append(c.cmds, [op |-> "pfa", a |-> a])
              \/ /\ ~nodeOf(a[1]) /\ e.pending = c.pending \union {a}
                 /\ e.cmds = c.cmds
  <1> DEFINE d == Erase(c, a)
             q == [op |-> "pfa", a |-> a]
             T == S \union {q}
  <1>1. /\ d \in PutRec(T)
        /\ d.newfa = Erased(c.newfa, a)
        /\ d.cur = None /\ d.bt = "ready"
        /\ d.status = [c.status EXCEPT ![a] = "done"]
        /\ d.http = [c.http EXCEPT ![a] = IF @ = 0 THEN 0 ELSE @ - 1]
        /\ d.pending = c.pending /\ d.cmds = c.cmds
    <2>1. c \in PutRec(T)
      BY DEF PutRec
    <2> HIDE DEF T
    <2> QED BY <2>1, EraseFields
  <1>2. stored(c, a) = IF nodeOf(a[1]) THEN [d EXCEPT !.cmds = Append(@, q)]
                       ELSE [d EXCEPT !.pending = @ \union {a}]
    BY DEF stored, Erase
  <1>3. q \in T
    OBVIOUS
  <1> HIDE DEF d, q, T
  <1>4. d.cmds \in Seq(T) /\ d.pending \subseteq Attr
    BY <1>1 DEF PutRec
  <1>5. CASE nodeOf(a[1])
    <2> DEFINE e == [d EXCEPT !.cmds = Append(@, q)]
    <2>1. Append(d.cmds, q) \in Seq(T)
      BY <1>3, <1>4
    <2>2. e \in PutRec(T)
      BY <1>1, <2>1, Zenon DEF PutRec
    <2>3. /\ e.newfa = d.newfa /\ e.cur = d.cur /\ e.bt = d.bt /\ e.status = d.status
          /\ e.http = d.http /\ e.pending = d.pending /\ e.cmds = Append(d.cmds, q)
      BY <1>1 DEF PutRec
    <2>4. e = stored(c, a)
      BY <1>2, <1>5
    <2> HIDE DEF e
    <2> QED BY <1>1, <1>5, <2>2, <2>3, <2>4, Zenon DEF q
  <1>6. CASE ~nodeOf(a[1])
    <2> DEFINE e == [d EXCEPT !.pending = @ \union {a}]
    <2>1. d.pending \union {a} \in SUBSET Attr
      BY <1>4
    <2>2. e \in PutRec(T)
      BY <1>1, <2>1, Zenon DEF PutRec
    <2>3. /\ e.newfa = d.newfa /\ e.cur = d.cur /\ e.bt = d.bt /\ e.status = d.status
          /\ e.http = d.http /\ e.pending = d.pending \union {a} /\ e.cmds = d.cmds
      BY <1>1 DEF PutRec
    <2>4. e = stored(c, a)
      BY <1>2, <1>6
    <2> HIDE DEF e
    <2> QED BY <1>1, <1>6, <2>2, <2>3, <2>4, Zenon
  <1> QED BY <1>5, <1>6

\* the attribute in progress has been given up for now
Ended(c, b) == [c EXCEPT !.cur = None, !.bt = b]

(* The fields when the attribute in progress ends without being stored. *)
LEMMA EndFields ==
    ASSUME NEW S, NEW c \in PutRec(S), NEW b \in {"ready", "waiting"}
    PROVE  /\ Ended(c, b) \in PutRec(S) /\ Ended(c, b).newfa = c.newfa
           /\ Ended(c, b).cur = None /\ Ended(c, b).bt = b /\ Ended(c, b).status = c.status
           /\ Ended(c, b).http = c.http /\ Ended(c, b).pending = c.pending
           /\ Ended(c, b).cmds = c.cmds
  <1> DEFINE e == [c EXCEPT !.cur = None, !.bt = b]
  <1>1. e \in PutRec(S)
    BY Zenon DEF PutRec
  <1>2. /\ e.newfa = c.newfa /\ e.cur = None /\ e.bt = b /\ e.status = c.status
        /\ e.http = c.http /\ e.pending = c.pending /\ e.cmds = c.cmds
    BY DEF PutRec
  <1>3. e = Ended(c, b)
    BY DEF Ended
  <1> HIDE DEF e
  <1> QED BY <1>1, <1>2, <1>3

(* The fields after start(): nothing, or the first of the queue is requested. *)
LEMMA StartFields ==
    ASSUME NEW S, NEW c \in PutRec(S), c.newfa # << >>, c.cur = None, c.bt = "ready"
    PROVE  \E e, T, h :
              /\ e = start(c) /\ e \in PutRec(T) /\ h = c.newfa[1] /\ h \in Attr
              /\ e.newfa = c.newfa /\ e.cur = h /\ e.bt = c.bt
              /\ e.status = [c.status EXCEPT ![h] = "INFLIGHT"]
              /\ e.http = c.http /\ e.pending = c.pending
              /\ e.cmds = Append(c.cmds, [op |-> "ufa", a |-> h])
  <1> DEFINE h == Head(c.newfa)
             q == [op |-> "ufa", a |-> h]
             T == S \union {q}
             e == [c EXCEPT !.cur = h, !.status[h] = "INFLIGHT", !.cmds = Append(@, q)]
  <1>1. start(c) = e
    BY DEF start
  <1>2. h \in Attr /\ h = c.newfa[1]
    BY DEF PutRec
  <1>3. q \in T /\ c \in PutRec(T)
    BY DEF PutRec
  <1> HIDE DEF h, q, T
  <1>4. [c.status EXCEPT ![h] = "INFLIGHT"] \in [Attr -> Stat]
    BY DEF PutRec, Stat
  <1>5. Append(c.cmds, q) \in Seq(T)
    BY <1>3 DEF PutRec
  <1>6. e \in PutRec(T)
    BY <1>2, <1>3, <1>4, <1>5, Zenon DEF PutRec
  <1>7. /\ e.newfa = c.newfa /\ e.cur = h /\ e.bt = c.bt
        /\ e.http = c.http /\ e.pending = c.pending
    BY DEF PutRec
  <1>8. e.status = [c.status EXCEPT ![h] = "INFLIGHT"]
    BY DEF PutRec
  <1>9. e.cmds = Append(c.cmds, q)
    BY DEF PutRec
  <1> HIDE DEF e
  <1>10. e.cmds = Append(c.cmds, [op |-> "ufa", a |-> h])
    BY <1>9 DEF q
  <1> WITNESS e, T, h
  <1> QED BY <1>1, <1>2, <1>6, <1>7, <1>8, <1>10, Zenon

\* an attribute is added at the end of the queue
Queued(c, a) == [c EXCEPT !.newfa = Append(@, a), !.status[a] = "READY"]

(* The fields after an attribute has been queued. *)
LEMMA QueueFields ==
    ASSUME NEW S, NEW c \in PutRec(S), NEW a \in Attr
    PROVE  /\ Queued(c, a) \in PutRec(S)
           /\ Queued(c, a).newfa = Append(c.newfa, a) /\ Queued(c, a).cur = c.cur
           /\ Queued(c, a).bt = c.bt /\ Queued(c, a).status = [c.status EXCEPT ![a] = "READY"]
           /\ Queued(c, a).http = c.http /\ Queued(c, a).pending = c.pending
           /\ Queued(c, a).cmds = c.cmds
  <1>1. Append(c.newfa, a) \in Seq(Attr) /\ [c.status EXCEPT ![a] = "READY"] \in [Attr -> Stat]
    BY DEF PutRec, Stat
  <1>2. Queued(c, a) \in PutRec(S)
    BY <1>1, Zenon DEF PutRec, Queued
  <1>3. /\ Queued(c, a).newfa = Append(c.newfa, a) /\ Queued(c, a).cur = c.cur
        /\ Queued(c, a).bt = c.bt /\ Queued(c, a).http = c.http
        /\ Queued(c, a).pending = c.pending /\ Queued(c, a).cmds = c.cmds
    BY DEF PutRec, Queued
  <1>4. Queued(c, a).status = [c.status EXCEPT ![a] = "READY"]
    BY DEF PutRec, Queued
  <1> QED BY <1>2, <1>3, <1>4

\* the command that requests a place for an attribute
Ufa(h) == [op |-> "ufa", a |-> h]
Requested(c) == [c EXCEPT !.cur = Head(c.newfa), !.cmds = Append(@, Ufa(Head(c.newfa)))]

(* The fields after the first of the queue has been requested. *)
LEMMA RequestFields ==
    ASSUME NEW S, NEW c \in PutRec(S), c.newfa # << >>
    PROVE  /\ \E T : Requested(c) \in PutRec(T)
           /\ c.newfa[1] \in Attr
           /\ Requested(c).newfa = c.newfa /\ Requested(c).cur = c.newfa[1]
           /\ Requested(c).bt = c.bt /\ Requested(c).status = c.status
           /\ Requested(c).http = c.http /\ Requested(c).pending = c.pending
           /\ Requested(c).cmds = Append(c.cmds, Ufa(c.newfa[1]))
  <1> DEFINE h == Head(c.newfa)
             q == Ufa(h)
             T == S \union {q}
  <1>1. h \in Attr /\ h = c.newfa[1]
    BY DEF PutRec
  <1>2. q \in T /\ c \in PutRec(T)
    BY DEF PutRec
  <1>3. Requested(c) = [c EXCEPT !.cur = h, !.cmds = Append(@, q)]
    BY DEF Requested
  <1> HIDE DEF h, q, T
  <1>4. Append(c.cmds, q) \in Seq(T)
    BY <1>2 DEF PutRec
  <1>5. Requested(c) \in PutRec(T)
    BY <1>1, <1>2, <1>3, <1>4, Zenon DEF PutRec
  <1>6. /\ Requested(c).newfa = c.newfa /\ Requested(c).cur = h /\ Requested(c).bt = c.bt
        /\ Requested(c).status = c.status /\ Requested(c).http = c.http
        /\ Requested(c).pending = c.pending
    BY <1>3 DEF PutRec
  <1>7. Requested(c).cmds = Append(c.cmds, q)
    BY <1>3 DEF PutRec
  <1>8. q = Ufa(c.newfa[1])
    BY <1>1 DEF q
  <1> QED BY <1>1, <1>5, <1>6, <1>7, <1>8, Zenon

(* A record that replaces the queue's variables is their record afterwards. *)
LEMMA Becomes ==
    ASSUME NEW S, NEW e \in PutRec(S), Become(e)
    PROVE  Puts' = e
  <1>1. e = [newfa |-> e.newfa, cur |-> e.cur, status |-> e.status, http |-> e.http,
             bt |-> e.bt, pending |-> e.pending, cmds |-> e.cmds]
    BY DEF PutRec
  <1> QED BY <1>1 DEF Become, Puts

-----------------------------------------------------------------------------
(* Taking the first command off moves the others up by one. *)
LEMMA TailIndex ==
    ASSUME NEW S, NEW s \in Seq(S), s # << >>
    PROVE  /\ Tail(s) \in Seq(S) /\ Head(s) = s[1] /\ 1 \in DOMAIN s
           /\ DOMAIN s \subseteq Int /\ DOMAIN Tail(s) \subseteq Int
           /\ \A i \in DOMAIN Tail(s) : i + 1 \in DOMAIN s /\ i + 1 # 1 /\ Tail(s)[i] = s[i + 1]
           /\ \A i \in DOMAIN s : i # 1 => i - 1 \in DOMAIN Tail(s) /\ Tail(s)[i - 1] = s[i]
  <1>1. Tail(s) \in Seq(S) /\ Head(s) = s[1] /\ Len(s) \in Nat \ {0} /\ Len(Tail(s)) = Len(s) - 1
        /\ \A i \in 1 .. Len(s) - 1 : Tail(s)[i] = s[i + 1]
    OBVIOUS
  <1>2. DOMAIN s = 1 .. Len(s) /\ DOMAIN Tail(s) = 1 .. Len(s) - 1
    BY <1>1
  <1> QED BY <1>1, <1>2

(* Adding a command leaves the others in place. *)
LEMMA AppendIndex ==
    ASSUME NEW S, NEW s \in Seq(S), NEW x
    PROVE  /\ Append(s, x) \in Seq(S \union {x})
           /\ DOMAIN s \subseteq Int /\ DOMAIN Append(s, x) \subseteq Int
           /\ \A i \in DOMAIN Append(s, x) : \/ i \in DOMAIN s /\ Append(s, x)[i] = s[i]
                                             \/ i = Len(s) + 1 /\ Append(s, x)[i] = x
           /\ \A i \in DOMAIN s : i \in DOMAIN Append(s, x) /\ Append(s, x)[i] = s[i]
           /\ Len(s) + 1 \in DOMAIN Append(s, x) /\ Append(s, x)[Len(s) + 1] = x
           /\ Len(s) + 1 \notin DOMAIN s
  <1> DEFINE T == S \union {x}
  <1>1. s \in Seq(T) /\ x \in T
    OBVIOUS
  <1> HIDE DEF T
  <1>2. Append(s, x) \in Seq(T) /\ Len(Append(s, x)) = Len(s) + 1 /\ Len(s) \in Nat
    BY <1>1
  <1>3. \A i \in 1 .. Len(s) + 1 : Append(s, x)[i] = IF i = Len(s) + 1 THEN x ELSE s[i]
    BY <1>1
  <1>4. DOMAIN s = 1 .. Len(s) /\ DOMAIN Append(s, x) = 1 .. Len(s) + 1
    BY <1>1, <1>2
  <1> QED BY <1>2, <1>3, <1>4 DEF T

\* t is s with commands of no consequence added at the end, or taken off the
\* front (m = 1)
Silent(q) == q.op \notin {"pfa", "put"}

Shift(s, t, m) ==
    /\ DOMAIN s \subseteq Int /\ DOMAIN t \subseteq Int
    /\ \A i \in DOMAIN t : Silent(t[i]) \/ (i + m \in DOMAIN s /\ t[i] = s[i + m])
    /\ \A i \in DOMAIN s : Silent(s[i]) \/ (i - m \in DOMAIN t /\ s[i] = t[i - m])

(* Adding a command of no consequence. *)
LEMMA ShiftAppend ==
    ASSUME NEW S, NEW s \in Seq(S), NEW x, Silent(x)
    PROVE  Shift(s, Append(s, x), 0)
  BY AppendIndex DEF Shift

(* Taking a command of no consequence off the front. *)
LEMMA ShiftTail ==
    ASSUME NEW S, NEW s \in Seq(S), s # << >>, Silent(Head(s))
    PROVE  Shift(s, Tail(s), 1)
  <1> DEFINE t == Tail(s)
  <1>1. /\ DOMAIN s \subseteq Int /\ DOMAIN t \subseteq Int /\ Silent(s[1])
        /\ \A i \in DOMAIN t : i + 1 \in DOMAIN s /\ t[i] = s[i + 1]
        /\ \A i \in DOMAIN s : i # 1 => i - 1 \in DOMAIN t /\ t[i - 1] = s[i]
    BY TailIndex
  <1> HIDE DEF t
  <1>2. Shift(s, t, 1)
    BY <1>1 DEF Shift
  <1> QED BY <1>2 DEF t

(* Leaving the commands alone. *)
LEMMA ShiftSame ==
    ASSUME NEW S, NEW s \in Seq(S)
    PROVE  Shift(s, s, 0)
  <1>1. DOMAIN s \subseteq Int
    OBVIOUS
  <1> QED BY <1>1 DEF Shift

-----------------------------------------------------------------------------
\* the queue: each attribute is in it once, the one in progress is its first
QueueOK(c) ==
    /\ IsInjective(c.newfa)
    /\ c.cur # None => c.newfa # << >> /\ c.cur = c.newfa[1]
    /\ \A i \in DOMAIN c.newfa : c.status[c.newfa[i]] \notin {"new", "done"}

\* the command attaches a, or creates a node together with it
holds(q, a) == \/ q.op = "pfa" /\ q.a = a
               \/ q.op = "put" /\ a \in q.fa

\* what waits has been stored and not attached, and its node is not there
Pending(c, at, up) ==
    \A a \in c.pending : c.status[a] = "done" /\ at[a] = 0 /\ up[a[1]] # "node"

\* a command that attaches is the only one for its attribute
Held(c, at) ==
    \A i \in DOMAIN c.cmds : \A a \in Attr : holds(c.cmds[i], a) =>
          /\ c.status[a] = "done" /\ at[a] = 0 /\ a \notin c.pending
          /\ \A j \in DOMAIN c.cmds : holds(c.cmds[j], a) => i = j

\* what is attached is so once, and has been stored
Attached(c, at) == \A a \in Attr : at[a] # 0 => at[a] = 1 /\ c.status[a] = "done"

\* what has been stored is not lost: it waits, is on its way or is attached
Somewhere(c, at, up) ==
    \A a \in Attr : c.status[a] = "done" =>
          \/ a \in c.pending \/ at[a] = 1 \/ up[a[1]] \in {"failed", "removed"}
          \/ \E i \in DOMAIN c.cmds : holds(c.cmds[i], a)

\* the node of a command is being added, or has been
Sent(s, up) ==
    \A i \in DOMAIN s :
         /\ s[i].op = "put" => /\ s[i].u \in Upload /\ up[s[i].u] = "adding"
                               /\ \A a \in s[i].fa : a[1] = s[i].u
                               /\ \A j \in DOMAIN s : s[j].op = "put" /\ s[j].u = s[i].u => i = j
         /\ s[i].op = "pfa" => s[i].a \in Attr /\ up[s[i].a[1]] \in {"node", "removed"}

Once(c, at, up) ==
    /\ IsFiniteSet(c.pending)
    /\ Pending(c, at, up) /\ Held(c, at) /\ Attached(c, at) /\ Somewhere(c, at, up)
    /\ Sent(c.cmds, up)

(* Indices of commands that have moved by the same amount. *)
LEMMA Cancel ==
    ASSUME NEW m \in {0, 1}, NEW i \in Int, NEW j \in Int, i + m = j + m
    PROVE  i = j
  OBVIOUS

(* Commands of no consequence do not disturb where attributes are. *)
LEMMA OnceQuiet ==
    ASSUME NEW c, NEW e, NEW at, NEW up, NEW m \in {0, 1}, Once(c, at, up),
           Shift(c.cmds, e.cmds, m), e.pending = c.pending, c.pending \subseteq Attr,
           \A a \in Attr : e.status[a] = "done" <=> c.status[a] = "done"
    PROVE  Once(e, at, up)
  <1> DEFINE s == c.cmds
             t == e.cmds
  <1>1. /\ DOMAIN t \subseteq Int /\ DOMAIN s \subseteq Int
        /\ \A i \in DOMAIN t : \A a \in Attr : holds(t[i], a) => i + m \in DOMAIN s /\ holds(s[i + m], a)
        /\ \A i \in DOMAIN s : \A a \in Attr : holds(s[i], a) => i - m \in DOMAIN t /\ holds(t[i - m], a)
    BY DEF Shift, Silent, holds
  <1>2. Held(e, at)
    <2> SUFFICES ASSUME NEW i \in DOMAIN t, NEW a \in Attr, holds(t[i], a)
                 PROVE  /\ e.status[a] = "done" /\ at[a] = 0 /\ a \notin e.pending
                        /\ \A j \in DOMAIN t : holds(t[j], a) => i = j
      BY DEF Held
    <2>1. i + m \in DOMAIN s /\ holds(s[i + m], a) /\ i \in Int
      BY <1>1
    <2>2. /\ c.status[a] = "done" /\ at[a] = 0 /\ a \notin c.pending
          /\ \A j \in DOMAIN s : holds(s[j], a) => i + m = j
      BY <2>1 DEF Once, Held
    <2>3. ASSUME NEW j \in DOMAIN t, holds(t[j], a) PROVE i = j
      <3>1. j + m \in DOMAIN s /\ holds(s[j + m], a) /\ j \in Int
        BY <1>1, <2>3
      <3>2. i + m = j + m
        BY <2>2, <3>1
      <3> QED BY <2>1, <3>1, <3>2, Cancel
    <2> QED BY <2>2, <2>3
  <1>3. Somewhere(e, at, up)
    BY <1>1 DEF Once, Somewhere
  <1>4. Sent(e.cmds, up)
    <2> SUFFICES ASSUME NEW i \in DOMAIN t
                 PROVE
         /\ t[i].op = "put" => /\ t[i].u \in Upload /\ up[t[i].u] = "adding"
                               /\ \A a \in t[i].fa : a[1] = t[i].u
                               /\ \A j \in DOMAIN t : t[j].op = "put" /\ t[j].u = t[i].u => i = j
         /\ t[i].op = "pfa" => t[i].a \in Attr /\ up[t[i].a[1]] \in {"node", "removed"}
      BY DEF Sent
    <2>1. CASE Silent(t[i])
      BY <2>1 DEF Silent
    <2>2. CASE ~Silent(t[i])
      <3>1. i + m \in DOMAIN s /\ t[i] = s[i + m] /\ i \in Int
        BY <2>2 DEF Shift
      <3>2. ASSUME NEW j \in DOMAIN t, t[j].op = "put" PROVE j + m \in DOMAIN s /\ t[j] = s[j + m] /\ j \in Int
        BY <3>2 DEF Shift, Silent
      <3>3. ASSUME t[i].op = "put", NEW j \in DOMAIN t, t[j].op = "put", t[j].u = t[i].u PROVE i = j
        <4>1. i + m = j + m
          BY <3>1, <3>2, <3>3 DEF Once, Sent
        <4>2. j \in Int
          BY <3>2, <3>3
        <4> QED BY <3>1, <4>1, <4>2, Cancel
      <3>4. /\ s[i + m].op = "put" => /\ s[i + m].u \in Upload /\ up[s[i + m].u] = "adding"
                                      /\ \A a \in s[i + m].fa : a[1] = s[i + m].u
            /\ s[i + m].op = "pfa" => s[i + m].a \in Attr /\ up[s[i + m].a[1]] \in {"node", "removed"}
        BY <3>1 DEF Once, Sent
      <3> QED BY <3>1, <3>3, <3>4, Zenon
    <2> QED BY <2>1, <2>2
  <1>5. Pending(e, at, up) /\ Attached(e, at) /\ IsFiniteSet(e.pending)
    BY DEF Once, Pending, Attached
  <1> QED BY <1>2, <1>3, <1>4, <1>5 DEF Once

-----------------------------------------------------------------------------
\* the handle of an upload that is a node can be looked up
Known == \A u \in Upload : upload[u] = "node" => u \in uhnh \union Existing

(* Erasing the first of the queue moves the others up by one. *)
LEMMA ErasedFirst ==
    ASSUME NEW s \in Seq(Attr), s # << >>, IsInjective(s)
    PROVE  /\ DOMAIN Erased(s, s[1]) \subseteq Int
           /\ \A j \in DOMAIN Erased(s, s[1]) :
                 j + 1 \in DOMAIN s /\ j + 1 # 1 /\ Erased(s, s[1])[j] = s[j + 1]
  <1> DEFINE i == CHOOSE i \in DOMAIN s : s[i] = s[1]
  <1>1. 1 \in DOMAIN s /\ DOMAIN s = 1 .. Len(s) /\ Len(s) \in Nat
    OBVIOUS
  <1>2. i = 1
    BY <1>1, Zenon DEF IsInjective
  <1>3. Erased(s, s[1]) = [j \in 1 .. Len(s) - 1 |-> IF j < i THEN s[j] ELSE s[j + 1]]
    BY DEF Erased
  <1> HIDE DEF i
  <1> QED BY <1>1, <1>2, <1>3

(* An attribute has been stored and is attached, or waits for its node. *)
LEMMA StoredKeeps ==
    ASSUME NEW S, NEW c \in PutRec(S), QueueOK(c), Once(c, attached, upload), Known,
           c.cur # None, c.status[c.cur] = "SUCCESS"
    PROVE  \E T : /\ stored(c, c.cur) \in PutRec(T) /\ QueueOK(stored(c, c.cur))
                  /\ Once(stored(c, c.cur), attached, upload)
  <1> DEFINE a == c.cur
             q == [op |-> "pfa", a |-> a]
  <1>1. /\ a \in Attr /\ c.newfa # << >> /\ a = c.newfa[1] /\ c.newfa \in Seq(Attr)
        /\ c.status \in [Attr -> Stat] /\ c.pending \subseteq Attr /\ c.cmds \in Seq(S)
    BY DEF PutRec, QueueOK
  <1>2. PICK e, T :
           /\ e = stored(c, a) /\ e \in PutRec(T)
           /\ e.newfa = Erased(c.newfa, a)
           /\ e.cur = None /\ e.bt = "ready"
           /\ e.status = [c.status EXCEPT ![a] = "done"]
           /\ e.http = [c.http EXCEPT ![a] = IF @ = 0 THEN 0 ELSE @ - 1]
           /\ \/ /\ nodeOf(a[1]) /\ e.pending = c.pending
                 /\ e.cmds = Append(c.cmds, q)
              \/ /\ ~nodeOf(a[1]) /\ e.pending = c.pending \union {a}
                 /\ e.cmds = c.cmds
    BY <1>1, StoredFields
  <1>3. \A x \in Attr : e.status[x] = IF x = a THEN "done" ELSE c.status[x]
    BY <1>1, <1>2
  <1>4. QueueOK(e)
    <2>1. /\ DOMAIN e.newfa \subseteq Int
          /\ \A j \in DOMAIN e.newfa :
                 j + 1 \in DOMAIN c.newfa /\ j + 1 # 1 /\ e.newfa[j] = c.newfa[j + 1]
      <3>1. e.newfa = Erased(c.newfa, c.newfa[1]) /\ IsInjective(c.newfa)
        BY <1>1, <1>2 DEF QueueOK
      <3> QED BY <1>1, <3>1, ErasedFirst
    <2>2. IsInjective(e.newfa)
      <3> SUFFICES ASSUME NEW i \in DOMAIN e.newfa, NEW j \in DOMAIN e.newfa,
                          e.newfa[i] = e.newfa[j]
                   PROVE  i = j
        BY DEF IsInjective
      <3>1. i + 1 = j + 1
        BY <2>1 DEF QueueOK, IsInjective
      <3> QED BY <2>1, <3>1, Cancel
    <2>3. \A j \in DOMAIN e.newfa : e.newfa[j] \in Attr /\ e.newfa[j] # a
      <3>1. \A j \in DOMAIN c.newfa : c.newfa[j] \in Attr
        BY <1>1
      <3>2. 1 \in DOMAIN c.newfa
        BY <1>1
      <3> QED BY <1>1, <2>1, <3>1, <3>2 DEF QueueOK, IsInjective
    <2>4. \A j \in DOMAIN e.newfa : e.status[e.newfa[j]] \notin {"new", "done"}
      BY <1>3, <2>1, <2>3 DEF QueueOK
    <2> QED BY <1>2, <2>2, <2>4 DEF QueueOK
  <1> HIDE DEF a, q
  <1>5. /\ q.op = "pfa" /\ q.a = a /\ c.status[a] # "done" /\ a[1] \in Upload
    BY <1>1, AttributeAssumption DEF q, a
  <1>6. /\ a \notin c.pending /\ attached[a] = 0
        /\ \A i \in DOMAIN c.cmds : ~holds(c.cmds[i], a)
    BY <1>1, <1>5 DEF Once, Pending, Attached, Held
  <1>7. Attached(e, attached)
    BY <1>3, <1>6 DEF Once, Attached
  <1>8. CASE nodeOf(a[1])
    <2>1. e.pending = c.pending /\ e.cmds = Append(c.cmds, q)
      BY <1>2, <1>8
    <2>2. /\ \A i \in DOMAIN e.cmds : \/ i \in DOMAIN c.cmds /\ e.cmds[i] = c.cmds[i]
                                      \/ i = Len(c.cmds) + 1 /\ e.cmds[i] = q
          /\ \A i \in DOMAIN c.cmds : i \in DOMAIN e.cmds /\ e.cmds[i] = c.cmds[i]
          /\ Len(c.cmds) + 1 \in DOMAIN e.cmds /\ e.cmds[Len(c.cmds) + 1] = q
      BY <1>1, <2>1, AppendIndex
    <2>3. \A x : holds(q, x) <=> x = a
      BY <1>5 DEF holds
    <2>4. Pending(e, attached, upload) /\ IsFiniteSet(e.pending)
      BY <1>1, <1>3, <2>1 DEF Once, Pending
    <2>5. Held(e, attached)
      <3> SUFFICES ASSUME NEW i \in DOMAIN e.cmds, NEW x \in Attr, holds(e.cmds[i], x)
                   PROVE  /\ e.status[x] = "done" /\ attached[x] = 0 /\ x \notin e.pending
                          /\ \A j \in DOMAIN e.cmds : holds(e.cmds[j], x) => i = j
        BY DEF Held
      <3>1. CASE x = a
        BY <1>3, <1>6, <2>1, <2>2, <2>3, <3>1
      <3>2. CASE x # a
        BY <1>3, <2>1, <2>2, <2>3, <3>2 DEF Once, Held
      <3> QED BY <3>1, <3>2
    <2>6. Somewhere(e, attached, upload)
      BY <1>3, <2>1, <2>2, <2>3 DEF Once, Somewhere
    <2>7. Sent(e.cmds, upload)
      <3>1. upload[a[1]] = "node"
        BY <1>8 DEF nodeOf, node
      <3> QED BY <1>1, <1>5, <2>2, <3>1 DEF Once, Sent
    <2> QED BY <1>2, <1>4, <1>7, <2>4, <2>5, <2>6, <2>7 DEF Once, a
  <1>9. CASE ~nodeOf(a[1])
    <2>1. e.pending = c.pending \union {a} /\ e.cmds = c.cmds
      BY <1>2, <1>9
    <2>2. upload[a[1]] # "node"
      BY <1>5, <1>9 DEF Known, nodeOf, node
    <2>3. IsFiniteSet(e.pending)
      BY <2>1, FS_AddElement DEF Once
    <2>4. Pending(e, attached, upload)
      BY <1>1, <1>3, <1>6, <2>1, <2>2 DEF Once, Pending
    <2>5. Held(e, attached)
      BY <1>3, <1>6, <2>1 DEF Once, Held
    <2>6. Somewhere(e, attached, upload)
      BY <1>3, <2>1 DEF Once, Somewhere
    <2> QED BY <1>2, <1>4, <1>7, <2>1, <2>3, <2>4, <2>5, <2>6 DEF Once, a
  <1> QED BY <1>8, <1>9

(* exec() ends the attribute in progress. *)
LEMMA FinishKeeps ==
    ASSUME NEW S, NEW c \in PutRec(S), QueueOK(c), Once(c, attached, upload), Known
    PROVE  \E T : /\ finish(c) \in PutRec(T) /\ QueueOK(finish(c))
                  /\ Once(finish(c), attached, upload)
  <1>1. CASE c.cur = None
    <2>1. finish(c) = c
      BY <1>1 DEF finish
    <2> QED BY <2>1
  <1>2. CASE c.cur # None /\ c.status[c.cur] = "SUCCESS"
    <2>1. finish(c) = stored(c, c.cur)
      BY <1>2 DEF finish
    <2> QED BY <1>2, <2>1, StoredKeeps
  <1>3. CASE c.cur # None /\ c.status[c.cur] \in {"BADSIZE", "FAILURE"}
    <2> DEFINE b == IF c.status[c.cur] = "BADSIZE" THEN "ready" ELSE "waiting"
               e == Ended(c, b)
    <2>1. finish(c) = e
      BY <1>3 DEF finish, Ended
    <2>11. b \in {"ready", "waiting"}
      OBVIOUS
    <2> HIDE DEF b
    <2>2. /\ e \in PutRec(S)
          /\ e.newfa = c.newfa /\ e.cur = None /\ e.bt = b /\ e.status = c.status
          /\ e.http = c.http /\ e.pending = c.pending /\ e.cmds = c.cmds
      BY <2>11, EndFields
    <2> HIDE DEF e
    <2>3. QueueOK(e)
      BY <2>2 DEF QueueOK
    <2>4. Once(e, attached, upload)
      BY <2>2 DEF Once, Pending, Held, Attached, Somewhere
    <2> QED BY <2>1, <2>2, <2>3, <2>4
  <1>4. CASE c.cur # None /\ c.status[c.cur] \in {"READY", "INFLIGHT"}
    <2>1. finish(c) = c
      BY <1>4 DEF finish
    <2> QED BY <2>1
  <1>5. c.cur # None => c.status[c.cur] \in Stat \ {"new", "done"}
    <2>1. c.cur # None => c.cur = c.newfa[1] /\ 1 \in DOMAIN c.newfa /\ c.newfa[1] \in Attr
      BY DEF QueueOK, PutRec
    <2> QED BY <2>1 DEF QueueOK, PutRec
  <1> QED BY <1>1, <1>2, <1>3, <1>4, <1>5 DEF Stat

(* exec() requests the next attribute. *)
LEMMA StartKeeps ==
    ASSUME NEW S, NEW c \in PutRec(S), QueueOK(c), Once(c, attached, upload)
    PROVE  \E T : /\ start(c) \in PutRec(T) /\ QueueOK(start(c))
                  /\ Once(start(c), attached, upload)
  <1>1. CASE ~(c.newfa # << >> /\ c.cur = None /\ c.bt = "ready")
    <2>1. start(c) = c
      BY <1>1 DEF start
    <2> QED BY <2>1
  <1>2. CASE c.newfa # << >> /\ c.cur = None /\ c.bt = "ready"
    <2>1. PICK e, T, h :
              /\ e = start(c) /\ e \in PutRec(T) /\ h = c.newfa[1] /\ h \in Attr
              /\ e.newfa = c.newfa /\ e.cur = h /\ e.bt = c.bt
              /\ e.status = [c.status EXCEPT ![h] = "INFLIGHT"]
              /\ e.http = c.http /\ e.pending = c.pending
              /\ e.cmds = Append(c.cmds, [op |-> "ufa", a |-> h])
      BY <1>2, StartFields
    <2>2. /\ c.newfa \in Seq(Attr) /\ c.status \in [Attr -> Stat] /\ c.pending \subseteq Attr
          /\ c.cmds \in Seq(S) /\ 1 \in DOMAIN c.newfa
      BY <1>2 DEF PutRec
    <2>3. \A x \in Attr : e.status[x] = IF x = h THEN "INFLIGHT" ELSE c.status[x]
      BY <2>1, <2>2
    <2>4. \A i \in DOMAIN c.newfa : c.newfa[i] \in Attr
      BY <2>2
    <2>5. QueueOK(e)
      BY <1>2, <2>1, <2>2, <2>3, <2>4 DEF QueueOK
    <2>6. c.status[h] # "done"
      BY <2>1, <2>2 DEF QueueOK
    <2> DEFINE q == [op |-> "ufa", a |-> h]
    <2>7. Silent(q)
      BY DEF Silent
    <2>8. e.cmds = Append(c.cmds, q)
      BY <2>1
    <2> HIDE DEF q
    <2>9. Shift(c.cmds, e.cmds, 0)
      BY <2>2, <2>7, <2>8, ShiftAppend
    <2>10. Once(e, attached, upload)
      <3>1. \A x \in Attr : e.status[x] = "done" <=> c.status[x] = "done"
        BY <2>3, <2>6
      <3>2. e.pending = c.pending
        BY <2>1
      <3> QED BY <2>2, <2>9, <3>1, <3>2, OnceQuiet
    <2> QED BY <2>1, <2>5, <2>10
  <1> QED BY <1>1, <1>2

-----------------------------------------------------------------------------
(* Attributes and nodes *)

NodeType == /\ attached \in [Attr -> Nat]
            /\ upload \in [Upload -> {"running", "adding", "node", "failed", "removed"}]

\* the inductive invariant
Attach == /\ \E S : Puts \in PutRec(S)
          /\ NodeType /\ Known
          /\ QueueOK(Puts) /\ Once(Puts, attached, upload)

(* The invariant after a step, from the record after it. *)
LEMMA AttachNext ==
    ASSUME NEW T, Puts' \in PutRec(T), NodeType', Known', QueueOK(Puts'),
           Once(Puts', attached', upload')
    PROVE  Attach'
  <1>1. QueueOK(Puts)'
    BY DEF QueueOK
  <1>2. Once(Puts, attached, upload)'
    BY DEF Once, Pending, Held, Attached, Somewhere, Sent
  <1>3. (\E S : Puts \in PutRec(S))'
    BY DEF PutRec
  <1> QED BY <1>1, <1>2, <1>3 DEF Attach

(* The record and the variables it stands for. *)
LEMMA PutsParts ==
    /\ /\ Puts.newfa = newfa /\ Puts.cur = curfa /\ Puts.status = status /\ Puts.http = http
       /\ Puts.bt = btpfa /\ Puts.pending = pendingfa /\ Puts.cmds = cmds
    /\ /\ Puts'.newfa = newfa' /\ Puts'.cur = curfa' /\ Puts'.status = status' /\ Puts'.http = http'
       /\ Puts'.bt = btpfa' /\ Puts'.pending = pendingfa' /\ Puts'.cmds = cmds'
    /\ \A S : Puts \in PutRec(S) <=>
          /\ newfa \in Seq(Attr) /\ curfa \in Attr \union {None} /\ status \in [Attr -> Stat]
          /\ http \in [Attr -> Nat] /\ btpfa \in {"ready", "waiting"} /\ pendingfa \subseteq Attr
          /\ cmds \in Seq(S)
    /\ \A S : Puts' \in PutRec(S) <=>
          /\ newfa' \in Seq(Attr) /\ curfa' \in Attr \union {None} /\ status' \in [Attr -> Stat]
          /\ http' \in [Attr -> Nat] /\ btpfa' \in {"ready", "waiting"} /\ pendingfa' \subseteq Attr
          /\ cmds' \in Seq(S)
  BY DEF Puts, PutRec

(* An attribute that is in the queue changes its state and stays there. *)
LEMMA StatusStep ==
    ASSUME Attach, UNCHANGED <<newfa, curfa, pendingfa, attached, upload, uhnh>>,
           http' \in [Attr -> Nat], btpfa' \in {"ready", "waiting"},
           NEW T, cmds' \in Seq(T), NEW m \in {0, 1}, Shift(cmds, cmds', m),
           \/ status' = status
           \/ \E a \in Range(newfa), s \in Stat \ {"new", "done"} : status' = [status EXCEPT ![a] = s]
    PROVE  Attach'
  <1>1. PICK S : Puts \in PutRec(S)
    BY DEF Attach
  <1>2. /\ newfa \in Seq(Attr) /\ curfa \in Attr \union {None} /\ status \in [Attr -> Stat]
        /\ pendingfa \subseteq Attr
    BY <1>1, PutsParts
  <1>3. \A i \in DOMAIN newfa : newfa[i] \in Attr /\ status[newfa[i]] \notin {"new", "done"}
    BY <1>2, PutsParts DEF Attach, QueueOK
  <1>4. /\ status' \in [Attr -> Stat]
        /\ \A x \in Attr : status'[x] = "done" <=> status[x] = "done"
        /\ \A x \in Range(newfa) : status'[x] \notin {"new", "done"}
    <2>1. CASE status' = status
      BY <1>2, <1>3, <2>1 DEF Range
    <2>2. CASE \E a \in Range(newfa), s \in Stat \ {"new", "done"} : status' = [status EXCEPT ![a] = s]
      <3> PICK a \in Range(newfa), s \in Stat \ {"new", "done"} : status' = [status EXCEPT ![a] = s]
        BY <2>2
      <3>1. a \in Attr /\ status[a] \notin {"new", "done"}
        BY <1>3 DEF Range
      <3>2. \A x \in Attr : status'[x] = IF x = a THEN s ELSE status[x]
        BY <1>2
      <3>3. status' \in [Attr -> Stat]
        BY <1>2
      <3>4. \A x \in Range(newfa) : x \in Attr /\ status[x] \notin {"new", "done"}
        BY <1>3 DEF Range
      <3> QED BY <3>1, <3>2, <3>3, <3>4
    <2> QED BY <2>1, <2>2
  <1>5. Puts' \in PutRec(T)
    <2>1. /\ newfa' \in Seq(Attr) /\ curfa' \in Attr \union {None} /\ status' \in [Attr -> Stat]
          /\ pendingfa' \subseteq Attr
      BY <1>2, <1>4
    <2> QED BY <2>1, PutsParts, Zenon
  <1>6. QueueOK(Puts')
    BY <1>4, PutsParts DEF Attach, QueueOK, Range
  <1> DEFINE c == Puts
             e == Puts'
  <1>7. Once(e, attached, upload)
    <2>1. /\ Once(c, attached, upload) /\ Shift(c.cmds, e.cmds, m)
          /\ e.pending = c.pending /\ c.pending \subseteq Attr
          /\ \A x \in Attr : e.status[x] = "done" <=> c.status[x] = "done"
      BY <1>2, <1>4, PutsParts DEF Attach
    <2> HIDE DEF c, e
    <2> QED BY <2>1, OnceQuiet
  <1>8. Once(Puts', attached', upload')
    BY <1>7
  <1>9. NodeType' /\ Known'
    BY DEF Attach, NodeType, Known
  <1> QED BY <1>5, <1>6, <1>8, <1>9, AttachNext

(* exec() handles the attribute in progress and requests the next. *)
LEMMA AttachExec ==
    ASSUME Attach, execPut
    PROVE  Attach'
  <1>1. PICK S : Puts \in PutRec(S)
    BY DEF Attach
  <1> DEFINE d == finish(Puts)
             e == start(d)
  <1>2. PICK T : d \in PutRec(T) /\ QueueOK(d) /\ Once(d, attached, upload)
    BY <1>1, FinishKeeps DEF Attach
  <1>3. PICK U : e \in PutRec(U) /\ QueueOK(e) /\ Once(e, attached, upload)
    BY <1>2, StartKeeps
  <1>4. Become(e) /\ UNCHANGED <<attached, upload, uhnh>>
    BY DEF execPut, nodeVars
  <1> HIDE DEF e
  <1>5. Puts' = e
    BY <1>3, <1>4, Becomes
  <1>6. NodeType' /\ Known'
    BY <1>4 DEF Attach, NodeType, Known
  <1> QED BY <1>3, <1>4, <1>5, <1>6, AttachNext

(* Adding to a queue that is not empty leaves its first where it was. *)
LEMMA AppendFirst ==
    ASSUME NEW S, NEW s \in Seq(S), NEW x \in S
    PROVE  /\ Append(s, x) # << >> /\ (s # << >> => Append(s, x)[1] = s[1])
           /\ \A i \in DOMAIN s : s[i] \in S
  OBVIOUS

(* putfa() queues an attribute, and requests the first if none is in progress. *)
LEMMA AttachPutfa ==
    ASSUME Attach, NEW a \in Attr, putfa(a)
    PROVE  Attach'
  <1>1. PICK S : Puts \in PutRec(S)
    BY DEF Attach
  <1> DEFINE c == Puts
             d == Queued(c, a)
             e == IF curfa # None THEN d ELSE Requested(d)
  <1>2. /\ d \in PutRec(S)
        /\ d.newfa = Append(c.newfa, a) /\ d.cur = c.cur /\ d.bt = c.bt
        /\ d.status = [c.status EXCEPT ![a] = "READY"]
        /\ d.http = c.http /\ d.pending = c.pending /\ d.cmds = c.cmds
    BY <1>1, QueueFields
  <1>3. status[a] = "new" /\ Become(e) /\ UNCHANGED <<attached, upload, uhnh>>
    BY DEF putfa, nodeVars, Queued, Requested, Ufa
  <1>4. /\ c.status[a] = "new" /\ QueueOK(c) /\ Once(c, attached, upload) /\ curfa = c.cur
        /\ c.newfa \in Seq(Attr) /\ c.status \in [Attr -> Stat]
        /\ c.pending \subseteq Attr /\ c.cmds \in Seq(S)
    BY <1>1, <1>3, PutsParts DEF Attach, PutRec
  <1> HIDE DEF c, d
  <1>5. /\ Append(c.newfa, a) # << >> /\ (c.cur # None => Append(c.newfa, a)[1] = c.newfa[1])
        /\ \A i \in DOMAIN c.newfa : c.newfa[i] \in Attr
    <2>1. c.cur # None => c.newfa # << >>
      BY <1>4 DEF QueueOK
    <2> QED BY <1>4, <2>1, AppendFirst
  <1>6. \A x \in Attr : d.status[x] = IF x = a THEN "READY" ELSE c.status[x]
    BY <1>2, <1>4
  <1>7. QueueOK(d)
    <2>1. /\ \A i \in DOMAIN d.newfa : \/ i \in DOMAIN c.newfa /\ d.newfa[i] = c.newfa[i]
                                       \/ i = Len(c.newfa) + 1 /\ d.newfa[i] = a
      BY <1>2, <1>4, AppendIndex
    <2>2. \A i \in DOMAIN c.newfa : c.newfa[i] # a
      BY <1>4 DEF QueueOK
    <2>3. IsInjective(d.newfa)
      BY <1>4, <2>1, <2>2 DEF QueueOK, IsInjective
    <2>4. \A i \in DOMAIN d.newfa : d.status[d.newfa[i]] \notin {"new", "done"}
      BY <1>4, <1>5, <1>6, <2>1 DEF QueueOK
    <2>5. d.cur # None => d.newfa # << >> /\ d.cur = d.newfa[1]
      BY <1>2, <1>4, <1>5 DEF QueueOK
    <2> QED BY <2>3, <2>4, <2>5 DEF QueueOK
  <1>8. \A x \in Attr : d.status[x] = "done" <=> c.status[x] = "done"
    BY <1>4, <1>6
  <1>9. CASE curfa # None
    <2>1. e = d
      BY <1>9
    <2>2. Shift(c.cmds, d.cmds, 0)
      BY <1>2, <1>4, ShiftSame
    <2>3. Once(d, attached, upload)
      BY <1>2, <1>4, <1>8, <2>2, OnceQuiet
    <2>4. Puts' = d
      BY <1>2, <1>3, <2>1, Becomes
    <2>5. NodeType' /\ Known'
      BY <1>3 DEF Attach, NodeType, Known
    <2> QED BY <1>2, <1>3, <1>7, <2>3, <2>4, <2>5, AttachNext
  <1>10. CASE curfa = None
    <2>1. e = Requested(d)
      BY <1>10
    <2>2. d.newfa # << >>
      BY <1>2, <1>5
    <2> DEFINE f == Requested(d)
               h == d.newfa[1]
               q == Ufa(h)
    <2>3. /\ h \in Attr /\ f.newfa = d.newfa /\ f.cur = h /\ f.bt = d.bt
          /\ f.status = d.status /\ f.http = d.http /\ f.pending = d.pending
          /\ f.cmds = Append(d.cmds, q)
      BY <1>2, <2>2, RequestFields
    <2>31. PICK T : f \in PutRec(T)
      BY <1>2, <2>2, RequestFields
    <2>4. Silent(q) /\ f.cmds = Append(c.cmds, q)
      BY <1>2, <2>3 DEF Silent, Ufa
    <2> HIDE DEF q, f, h
    <2>5. Shift(c.cmds, f.cmds, 0)
      BY <1>4, <2>4, ShiftAppend
    <2>6. Once(f, attached, upload)
      <3>1. f.pending = c.pending /\ \A x \in Attr : f.status[x] = "done" <=> c.status[x] = "done"
        BY <1>2, <1>8, <2>3
      <3> QED BY <1>4, <2>5, <3>1, OnceQuiet
    <2>7. QueueOK(f)
      BY <1>7, <2>2, <2>3 DEF QueueOK, h
    <2>8. Puts' = f
      BY <1>3, <2>1, <2>31, Becomes DEF f
    <2>9. NodeType' /\ Known'
      BY <1>3 DEF Attach, NodeType, Known
    <2> QED BY <1>3, <2>31, <2>6, <2>7, <2>8, <2>9, AttachNext
  <1> QED BY <1>9, <1>10

-----------------------------------------------------------------------------
(* An attribute belongs to an upload. *)
LEMMA AttrUpload == \A a \in Attr : a[1] \in Upload
  BY AttributeAssumption

(* The queue is not touched while uploads become nodes. *)
LEMMA NodeStep ==
    ASSUME Attach, UNCHANGED <<newfa, curfa, status, http, btpfa>>,
           pendingfa' \subseteq Attr, NEW T, cmds' \in Seq(T),
           NodeType', Known', Once(Puts', attached', upload')
    PROVE  Attach'
  <1>1. PICK S : Puts \in PutRec(S)
    BY DEF Attach
  <1>2. /\ newfa \in Seq(Attr) /\ curfa \in Attr \union {None} /\ status \in [Attr -> Stat]
        /\ http \in [Attr -> Nat] /\ btpfa \in {"ready", "waiting"}
    BY <1>1, PutsParts
  <1>3. /\ newfa' \in Seq(Attr) /\ curfa' \in Attr \union {None} /\ status' \in [Attr -> Stat]
        /\ http' \in [Attr -> Nat] /\ btpfa' \in {"ready", "waiting"}
    BY <1>2
  <1>4. Puts' \in PutRec(T)
    BY <1>3, PutsParts, Zenon
  <1>5. QueueOK(Puts')
    BY PutsParts DEF Attach, QueueOK
  <1> QED BY <1>4, <1>5, AttachNext

(* A completed upload is sent to become a node, with the attributes that wait. *)
LEMMA AttachPutnodes ==
    ASSUME Attach, NEW u \in Upload, putnodes(u)
    PROVE  Attach'
  <1> DEFINE c == Puts
             e == Puts'
             P == pendingOf(u)
             q == [op |-> "put", u |-> u, fa |-> P]
  <1>0. PICK S : c \in PutRec(S)
    BY DEF Attach
  <1>1. /\ pendingfa \subseteq Attr /\ cmds \in Seq(S) /\ c.pending = pendingfa /\ c.cmds = cmds
        /\ c.status = status /\ e.pending = pendingfa' /\ e.cmds = cmds' /\ e.status = status'
    BY <1>0, PutsParts
  <1>2. /\ upload[u] = "running" /\ cmds' = Append(cmds, q) /\ pendingfa' = pendingfa \ P
        /\ UNCHANGED <<newfa, curfa, status, http, btpfa, uhnh, attached>>
        /\ upload' = [upload EXCEPT ![u] = "adding"]
    BY DEF putnodes
  <1>3. NodeType' /\ \A w \in Upload : upload'[w] = IF w = u THEN "adding" ELSE upload[w]
    BY <1>2 DEF Attach, NodeType
  <1>4. Known'
    BY <1>2, <1>3 DEF Attach, Known
  <1>5. q.op = "put" /\ q.u = u /\ q.fa = P /\ P = {a \in pendingfa : a[1] = u}
    BY DEF pendingOf
  <1>6. Once(c, attached, upload)
    BY DEF Attach
  <1> HIDE DEF c, e, P, q
  <1>7. cmds' \in Seq(S \union {q}) /\ pendingfa' \subseteq Attr
    BY <1>1, <1>2, AppendIndex
  <1>8. /\ \A i \in DOMAIN cmds' : \/ i \in DOMAIN cmds /\ cmds'[i] = cmds[i]
                                   \/ i = Len(cmds) + 1 /\ cmds'[i] = q
        /\ \A i \in DOMAIN cmds : i \in DOMAIN cmds' /\ cmds'[i] = cmds[i]
        /\ Len(cmds) + 1 \in DOMAIN cmds' /\ cmds'[Len(cmds) + 1] = q
    BY <1>1, <1>2, AppendIndex
  <1>9. \A x : holds(q, x) <=> x \in P
    BY <1>5 DEF holds
  <1>10. Once(e, attached', upload')
    <2>1. Pending(e, attached', upload') /\ Attached(e, attached')
      BY <1>1, <1>2, <1>3, <1>6, AttrUpload DEF Once, Pending, Attached
    <2>2. IsFiniteSet(e.pending)
      BY <1>1, <1>2, <1>6, FS_Subset DEF Once
    <2>3. Held(e, attached')
      <3> SUFFICES ASSUME NEW i \in DOMAIN cmds', NEW x \in Attr, holds(cmds'[i], x)
                   PROVE  /\ status[x] = "done" /\ attached[x] = 0 /\ x \notin pendingfa'
                          /\ \A j \in DOMAIN cmds' : holds(cmds'[j], x) => i = j
        BY <1>1, <1>2 DEF Held
      <3>1. CASE x \in P
        BY <1>1, <1>2, <1>5, <1>6, <1>8, <1>9, <3>1 DEF Once, Held, Pending
      <3>2. CASE x \notin P
        BY <1>1, <1>2, <1>6, <1>8, <1>9, <3>2 DEF Once, Held
      <3> QED BY <3>1, <3>2
    <2>4. Somewhere(e, attached', upload')
      <3> SUFFICES ASSUME NEW x \in Attr, status[x] = "done"
                   PROVE  \/ x \in pendingfa' \/ attached[x] = 1
                          \/ upload'[x[1]] \in {"failed", "removed"}
                          \/ \E i \in DOMAIN cmds' : holds(cmds'[i], x)
        BY <1>1, <1>2 DEF Somewhere
      <3>1. \/ x \in pendingfa \/ attached[x] = 1 \/ upload[x[1]] \in {"failed", "removed"}
            \/ \E i \in DOMAIN cmds : holds(cmds[i], x)
        BY <1>1, <1>6 DEF Once, Somewhere
      <3>2. CASE x \in pendingfa
        BY <1>2, <1>8, <1>9, <3>2
      <3>3. CASE upload[x[1]] \in {"failed", "removed"}
        BY <1>2, <1>3, <3>3, AttrUpload
      <3>4. CASE \E i \in DOMAIN cmds : holds(cmds[i], x)
        BY <1>8, <3>4
      <3> QED BY <3>1, <3>2, <3>3, <3>4
    <2>5. Sent(cmds', upload')
      <3>1. \A i \in DOMAIN cmds : cmds[i].op = "put" => cmds[i].u # u /\ cmds[i].u \in Upload
        BY <1>1, <1>2, <1>6 DEF Once, Sent
      <3>2. \A i \in DOMAIN cmds : cmds[i].op = "pfa" =>
                cmds[i].a[1] # u /\ cmds[i].a[1] \in Upload
        BY <1>1, <1>2, <1>6, AttrUpload DEF Once, Sent
      <3> SUFFICES ASSUME NEW i \in DOMAIN cmds'
                   PROVE
         /\ cmds'[i].op = "put" =>
                 /\ cmds'[i].u \in Upload /\ upload'[cmds'[i].u] = "adding"
                 /\ \A a \in cmds'[i].fa : a[1] = cmds'[i].u
                 /\ \A j \in DOMAIN cmds' : cmds'[j].op = "put" /\ cmds'[j].u = cmds'[i].u => i = j
         /\ cmds'[i].op = "pfa" =>
                 cmds'[i].a \in Attr /\ upload'[cmds'[i].a[1]] \in {"node", "removed"}
        BY DEF Sent
      <3>3. CASE i = Len(cmds) + 1 /\ cmds'[i] = q
        BY <1>3, <1>5, <1>8, <3>1, <3>3
      <3>4. CASE i \in DOMAIN cmds /\ cmds'[i] = cmds[i]
        BY <1>1, <1>3, <1>5, <1>6, <1>8, <3>1, <3>2, <3>4 DEF Once, Sent
      <3> QED BY <1>8, <3>3, <3>4
    <2> QED BY <1>1, <2>1, <2>2, <2>3, <2>4, <2>5 DEF Once
  <1>11. Once(Puts', attached', upload')
    BY <1>10 DEF e
  <1> QED BY <1>2, <1>3, <1>4, <1>7, <1>11, NodeStep

(* The node of an upload is removed. *)
LEMMA AttachRemoved ==
    ASSUME Attach, NEW u \in Upload, nodeRemoved(u)
    PROVE  Attach'
  <1> DEFINE c == Puts
             e == Puts'
  <1>0. PICK S : c \in PutRec(S)
    BY DEF Attach
  <1>1. /\ pendingfa \subseteq Attr /\ cmds \in Seq(S) /\ c.pending = pendingfa /\ c.cmds = cmds
        /\ c.status = status /\ e.pending = pendingfa' /\ e.cmds = cmds' /\ e.status = status'
    BY <1>0, PutsParts
  <1>2. /\ upload[u] = "node"
        /\ UNCHANGED <<newfa, curfa, status, http, btpfa, pendingfa, uhnh, attached, cmds>>
        /\ upload' = [upload EXCEPT ![u] = "removed"]
    BY DEF nodeRemoved, node, putVars
  <1>3. NodeType' /\ \A w \in Upload : upload'[w] = IF w = u THEN "removed" ELSE upload[w]
    BY <1>2 DEF Attach, NodeType
  <1>4. Known'
    BY <1>2, <1>3 DEF Attach, Known
  <1>5. Once(c, attached, upload)
    BY DEF Attach
  <1> HIDE DEF c, e
  <1>6. Once(e, attached', upload')
    <2>1. Pending(e, attached', upload') /\ Attached(e, attached') /\ Held(e, attached')
      BY <1>1, <1>2, <1>3, <1>5, AttrUpload DEF Once, Pending, Attached, Held
    <2>2. IsFiniteSet(e.pending)
      BY <1>1, <1>2, <1>5 DEF Once
    <2>3. Somewhere(e, attached', upload')
      BY <1>1, <1>2, <1>3, <1>5, AttrUpload DEF Once, Somewhere
    <2>4. Sent(e.cmds, upload')
      BY <1>1, <1>2, <1>3, <1>5, AttrUpload DEF Once, Sent
    <2> QED BY <2>1, <2>2, <2>3, <2>4 DEF Once
  <1>7. Once(Puts', attached', upload')
    BY <1>6 DEF e
  <1>8. pendingfa' \subseteq Attr /\ cmds' \in Seq(S)
    BY <1>1, <1>2
  <1> QED BY <1>2, <1>3, <1>4, <1>7, <1>8, NodeStep

(* What holds of the nodes of commands still does when one has been answered. *)
LEMMA SentTail ==
    ASSUME NEW s, NEW t, NEW up, Sent(s, up), DOMAIN t \subseteq Int,
           \A i \in DOMAIN t : i + 1 \in DOMAIN s /\ i + 1 # 1 /\ t[i] = s[i + 1]
    PROVE  Sent(t, up)
  <1> SUFFICES ASSUME NEW i \in DOMAIN t
               PROVE
         /\ t[i].op = "put" => /\ t[i].u \in Upload /\ up[t[i].u] = "adding"
                               /\ \A a \in t[i].fa : a[1] = t[i].u
                               /\ \A j \in DOMAIN t : t[j].op = "put" /\ t[j].u = t[i].u => i = j
         /\ t[i].op = "pfa" => t[i].a \in Attr /\ up[t[i].a[1]] \in {"node", "removed"}
    BY DEF Sent
  <1>1. ASSUME t[i].op = "put", NEW j \in DOMAIN t, t[j].op = "put", t[j].u = t[i].u PROVE i = j
    <2>1. i + 1 = j + 1
      BY <1>1 DEF Sent
    <2> QED BY <2>1, Cancel
  <1>2. i + 1 \in DOMAIN s /\ t[i] = s[i + 1]
    OBVIOUS
  <1>3. /\ s[i + 1].op = "put" => /\ s[i + 1].u \in Upload /\ up[s[i + 1].u] = "adding"
                                  /\ \A a \in s[i + 1].fa : a[1] = s[i + 1].u
        /\ s[i + 1].op = "pfa" => s[i + 1].a \in Attr /\ up[s[i + 1].a[1]] \in {"node", "removed"}
    BY <1>2 DEF Sent
  <1> QED BY <1>1, <1>2, <1>3, Zenon

(* The server answers the command that attaches an attribute. *)
LEMMA AttachResult ==
    ASSUME Attach, attachResult
    PROVE  Attach'
  <1> DEFINE c == Puts
             e == Puts'
             a == Head(cmds).a
  <1>0. PICK S : c \in PutRec(S)
    BY DEF Attach
  <1>1. /\ pendingfa \subseteq Attr /\ cmds \in Seq(S) /\ c.pending = pendingfa /\ c.cmds = cmds
        /\ c.status = status /\ e.pending = pendingfa' /\ e.cmds = cmds' /\ e.status = status'
    BY <1>0, PutsParts
  <1>2. /\ cmds # << >> /\ Head(cmds).op = "pfa" /\ cmds' = Tail(cmds)
        /\ UNCHANGED <<newfa, curfa, status, http, btpfa, pendingfa, uhnh, upload>>
        /\ attached' = IF upload[a[1]] = "node" THEN [attached EXCEPT ![a] = @ + 1] ELSE attached
    BY DEF attachResult, node, putVars
  <1>3. Once(c, attached, upload)
    BY DEF Attach
  <1>4. attached \in [Attr -> Nat]
    BY DEF Attach, NodeType
  <1> HIDE DEF c, e
  <1>5. /\ cmds' \in Seq(S) /\ Head(cmds) = cmds[1] /\ 1 \in DOMAIN cmds
        /\ DOMAIN cmds \subseteq Int /\ DOMAIN cmds' \subseteq Int
        /\ \A i \in DOMAIN cmds' : i + 1 \in DOMAIN cmds /\ i + 1 # 1 /\ cmds'[i] = cmds[i + 1]
        /\ \A i \in DOMAIN cmds : i # 1 => i - 1 \in DOMAIN cmds' /\ cmds'[i - 1] = cmds[i]
    BY <1>1, <1>2, TailIndex
  <1>6. a = cmds[1].a /\ cmds[1].op = "pfa"
    BY <1>2, <1>5
  <1> HIDE DEF a
  <1>7. a \in Attr /\ upload[a[1]] \in {"node", "removed"} /\ holds(cmds[1], a)
    BY <1>1, <1>3, <1>5, <1>6 DEF Once, Sent, holds
  <1>8. /\ status[a] = "done" /\ attached[a] = 0 /\ a \notin pendingfa
        /\ \A j \in DOMAIN cmds : holds(cmds[j], a) => 1 = j
    BY <1>1, <1>3, <1>5, <1>7 DEF Once, Held
  <1>9. /\ \A x \in Attr : x # a => attached'[x] = attached[x]
        /\ attached'[a] = IF upload[a[1]] = "node" THEN 1 ELSE 0
        /\ attached' \in [Attr -> Nat]
    BY <1>2, <1>4, <1>7, <1>8
  <1>10. \A x \in Attr : holds(cmds[1], x) => x = a
    BY <1>6 DEF holds
  <1>11. Once(e, attached', upload')
    <2>1. Pending(e, attached', upload') /\ Attached(e, attached')
      BY <1>1, <1>2, <1>3, <1>8, <1>9 DEF Once, Pending, Attached
    <2>2. IsFiniteSet(e.pending)
      BY <1>1, <1>2, <1>3 DEF Once
    <2>3. Held(e, attached')
      <3> SUFFICES ASSUME NEW i \in DOMAIN cmds', NEW x \in Attr, holds(cmds'[i], x)
                   PROVE  /\ status[x] = "done" /\ attached'[x] = 0 /\ x \notin pendingfa
                          /\ \A j \in DOMAIN cmds' : holds(cmds'[j], x) => i = j
        BY <1>1, <1>2 DEF Held
      <3>1. i + 1 \in DOMAIN cmds /\ i + 1 # 1 /\ holds(cmds[i + 1], x) /\ i \in Int
        BY <1>5
      <3>2. x # a
        BY <1>8, <3>1
      <3>3. /\ status[x] = "done" /\ attached[x] = 0 /\ x \notin pendingfa
            /\ \A j \in DOMAIN cmds : holds(cmds[j], x) => i + 1 = j
        BY <1>1, <1>3, <3>1 DEF Once, Held
      <3>4. ASSUME NEW j \in DOMAIN cmds', holds(cmds'[j], x) PROVE i = j
        <4>1. j + 1 \in DOMAIN cmds /\ holds(cmds[j + 1], x) /\ j \in Int
          BY <1>5, <3>4
        <4>2. i + 1 = j + 1
          BY <3>3, <4>1
        <4> QED BY <3>1, <4>1, <4>2, Cancel
      <3> QED BY <1>9, <3>2, <3>3, <3>4
    <2>4. Somewhere(e, attached', upload')
      <3> SUFFICES ASSUME NEW x \in Attr, status[x] = "done"
                   PROVE  \/ x \in pendingfa \/ attached'[x] = 1
                          \/ upload[x[1]] \in {"failed", "removed"}
                          \/ \E i \in DOMAIN cmds' : holds(cmds'[i], x)
        BY <1>1, <1>2 DEF Somewhere
      <3>1. CASE x = a
        BY <1>7, <1>9, <3>1
      <3>2. CASE x # a
        <4>1. \/ x \in pendingfa \/ attached[x] = 1 \/ upload[x[1]] \in {"failed", "removed"}
              \/ \E i \in DOMAIN cmds : holds(cmds[i], x)
          BY <1>1, <1>3 DEF Once, Somewhere
        <4> QED BY <1>5, <1>9, <1>10, <3>2, <4>1
      <3> QED BY <3>1, <3>2
    <2>5. Sent(e.cmds, upload')
      <3>1. Sent(cmds, upload)
        BY <1>1, <1>3 DEF Once
      <3>2. Sent(cmds', upload)
        BY <1>5, <3>1, SentTail
      <3> QED BY <1>1, <1>2, <3>2
    <2> QED BY <2>1, <2>2, <2>3, <2>4, <2>5 DEF Once
  <1>12. Once(Puts', attached', upload')
    BY <1>11 DEF e
  <1>13. pendingfa' \subseteq Attr /\ NodeType' /\ Known'
    BY <1>1, <1>2, <1>9 DEF Attach, NodeType, Known
  <1> QED BY <1>2, <1>5, <1>12, <1>13, NodeStep

(* A finite set listed in some order: every element, and each once. *)
LEMMA SetToSeqIs ==
    ASSUME NEW P, IsFiniteSet(P)
    PROVE  /\ Cardinality(P) \in Nat
           /\ SetToSeq(P) \in [1 .. Cardinality(P) -> P]
           /\ IsInjective(SetToSeq(P))
           /\ \A x \in P : \E i \in 1 .. Cardinality(P) : SetToSeq(P)[i] = x
  <1> DEFINE n == Cardinality(P)
             f == SetToSeq(P)
  <1>1. n \in Nat /\ ExistsBijection(1 .. n, P)
    BY FS_CardinalityType
  <1>2. \E g \in [1 .. n -> P] : IsInjective(g)
    BY <1>1 DEF ExistsBijection, Bijection, Injection
  <1>3. f \in [1 .. n -> P] /\ IsInjective(f)
    BY <1>2 DEF SetToSeq
  <1>4. IsFiniteSet(1 .. n) /\ Cardinality(1 .. n) = n
    BY <1>1, FS_Interval
  <1> HIDE DEF f
  <1>5. f \in Injection(1 .. n, P)
    BY <1>3 DEF Injection
  <1>6. f \in Surjection(1 .. n, P)
    BY <1>4, <1>5, FS_Injection
  <1>7. \A x \in P : \E i \in 1 .. n : f[i] = x
    BY <1>6 DEF Surjection
  <1> QED BY <1>1, <1>3, <1>7 DEF f

\* the command that attaches an attribute
Pfa(x) == [op |-> "pfa", a |-> x]

\* t is s without its first, followed by one command for each element of P
Index(s, t, P, T, L) ==
    /\ t \in Seq(T) /\ Head(s) = s[1] /\ 1 \in DOMAIN s
    /\ DOMAIN s \subseteq Int /\ DOMAIN t \subseteq Int
    /\ \A i \in DOMAIN t : \/ i <= L /\ i + 1 \in DOMAIN s /\ i + 1 # 1 /\ t[i] = s[i + 1]
                           \/ i > L /\ t[i].op = "pfa" /\ t[i].a \in P
    /\ \A i, j \in DOMAIN t : i > L /\ j > L /\ t[i].a = t[j].a => i = j
    /\ \A i \in DOMAIN s : i # 1 => i - 1 \in DOMAIN t /\ t[i - 1] = s[i]
    /\ \A x \in P : \E i \in DOMAIN t : t[i].op = "pfa" /\ t[i].a = x

(* What is in the queue when a node has been added: the rest, and the
   attachment of all that is stored by then. *)
LEMMA AddedIndex ==
    ASSUME NEW S, NEW s \in Seq(S), s # << >>, NEW P, IsFiniteSet(P),
           NEW r, r = [i \in 1 .. Cardinality(P) |-> Pfa(SetToSeq(P)[i])]
    PROVE  \E T : \E L \in Nat : Index(s, Tail(s) \o r, P, T, L)
  <1> DEFINE n == Cardinality(P)
             f == SetToSeq(P)
             L == Len(s) - 1
             T == S \union {Pfa(x) : x \in P}
             t == Tail(s) \o r
  <1>1. /\ n \in Nat /\ f \in [1 .. n -> P] /\ IsInjective(f)
        /\ \A x \in P : \E i \in 1 .. n : f[i] = x
    BY SetToSeqIs
  <1> HIDE DEF n, f
  <1>2. r = [i \in 1 .. n |-> Pfa(f[i])]
    BY DEF n, f
  <1>3. r \in [1 .. n -> T]
    BY <1>1, <1>2
  <1>30. \A i \in 1 .. n : r[i].op = "pfa" /\ r[i].a = f[i]
    <2>1. \A x : Pfa(x).op = "pfa" /\ Pfa(x).a = x
      BY DEF Pfa
    <2>2. \A i \in 1 .. n : r[i] = Pfa(f[i])
      BY <1>2
    <2> QED BY <2>1, <2>2, Zenon
  <1>5. Tail(s) \in Seq(T) /\ Len(Tail(s)) = L /\ L \in Nat
    OBVIOUS
  <1> HIDE DEF T
  <1>4. r \in Seq(T) /\ Len(r) = n
    <2>1. \A g \in [1 .. n -> T] : g \in Seq(T) /\ Len(g) = n
      BY <1>1
    <2> QED BY <1>3, <2>1
  <1>50. \A i \in 1 .. L : Tail(s)[i] = s[i + 1]
    OBVIOUS
  <1>51. DOMAIN s = 1 .. L + 1 /\ Head(s) = s[1]
    OBVIOUS
  <1> HIDE DEF L
  <1>6. /\ t \in Seq(T) /\ Len(t) = L + n /\ DOMAIN t = 1 .. L + n
        /\ \A i \in 1 .. L + n : t[i] = IF i <= L THEN Tail(s)[i] ELSE r[i - L]
    <2>1. /\ t \in Seq(T) /\ Len(t) = L + n
          /\ \A i \in 1 .. L + n : t[i] = IF i <= L THEN Tail(s)[i] ELSE r[i - L]
      <3> DEFINE p == Tail(s)
      <3>1. p \in Seq(T) /\ Len(p) = L /\ t = p \o r
        BY <1>5
      <3> HIDE DEF p, t
      <3>2. /\ p \o r \in Seq(T) /\ Len(p \o r) = Len(p) + Len(r)
            /\ \A i \in 1 .. Len(p) + Len(r) : (p \o r)[i] =
                     IF i <= Len(p) THEN p[i] ELSE r[i - Len(p)]
        BY <1>4, <3>1, ConcatProperties, Zenon
      <3>3. /\ t \in Seq(T) /\ Len(t) = L + n
            /\ \A i \in 1 .. L + n : t[i] = IF i <= L THEN p[i] ELSE r[i - L]
        BY <1>4, <3>1, <3>2, Zenon
      <3> QED BY <3>3 DEF p
    <2> HIDE DEF t
    <2>2. DOMAIN t = 1 .. L + n
      BY <1>1, <1>5, <2>1
    <2> QED BY <2>1, <2>2
  <1> HIDE DEF t
  <1>7. \A i \in 1 .. L + n : \/ i <= L /\ i + 1 \in DOMAIN s /\ i + 1 # 1 /\ t[i] = s[i + 1]
                              \/ i > L /\ i - L \in 1 .. n /\ t[i].op = "pfa" /\ t[i].a = f[i - L]
    <2> SUFFICES ASSUME NEW i \in 1 .. L + n
                 PROVE  \/ i <= L /\ i + 1 \in DOMAIN s /\ i + 1 # 1 /\ t[i] = s[i + 1]
                        \/ i > L /\ i - L \in 1 .. n /\ t[i].op = "pfa" /\ t[i].a = f[i - L]
      OBVIOUS
    <2>1. CASE i <= L
      BY <1>1, <1>5, <1>50, <1>51, <1>6, <2>1
    <2>2. CASE i > L
      <3>1. i - L \in 1 .. n /\ t[i] = r[i - L]
        BY <1>1, <1>5, <1>6, <2>2
      <3> QED BY <1>30, <2>2, <3>1
    <2> QED BY <1>1, <1>5, <2>1, <2>2
  <1>8. ASSUME NEW i \in 1 .. L + n, NEW j \in 1 .. L + n, i > L, j > L, t[i].a = t[j].a
        PROVE  i = j
    <2>1. /\ i - L \in 1 .. n /\ t[i].a = f[i - L]
          /\ j - L \in 1 .. n /\ t[j].a = f[j - L]
      BY <1>1, <1>5, <1>7, <1>8
    <2>2. i - L = j - L
      BY <1>1, <1>8, <2>1 DEF IsInjective
    <2> QED BY <1>1, <1>5, <2>2
  <1>9. ASSUME NEW i \in DOMAIN s, i # 1
        PROVE  i - 1 \in DOMAIN t /\ t[i - 1] = s[i]
    BY <1>1, <1>5, <1>51, <1>6, <1>7, <1>9
  <1>10. ASSUME NEW x \in P
         PROVE  \E i \in DOMAIN t : t[i].op = "pfa" /\ t[i].a = x
    <2>1. PICK k \in 1 .. n : f[k] = x
      BY <1>1
    <2>2. L + k \in 1 .. L + n /\ t[L + k] = r[k]
      <3>1. L + k \in 1 .. L + n /\ ~(L + k <= L) /\ (L + k) - L = k
        BY <1>1, <1>5
      <3>2. t[L + k] = r[(L + k) - L]
        BY <1>6, <3>1
      <3> QED BY <3>1, <3>2
    <2>3. t[L + k].op = "pfa" /\ t[L + k].a = x /\ L + k \in DOMAIN t
      BY <1>30, <1>6, <2>1, <2>2
    <2> QED BY <2>3
  <1>11. DOMAIN s \subseteq Int /\ DOMAIN t \subseteq Int /\ 1 \in DOMAIN s
    BY <1>1, <1>5, <1>51, <1>6
  <1>12. \A i \in DOMAIN t : \/ i <= L /\ i + 1 \in DOMAIN s /\ i + 1 # 1 /\ t[i] = s[i + 1]
                             \/ i > L /\ t[i].op = "pfa" /\ t[i].a \in P
    BY <1>1, <1>6, <1>7
  <1>13. \A i, j \in DOMAIN t : i > L /\ j > L /\ t[i].a = t[j].a => i = j
    BY <1>6, <1>8
  <1>14. \A i \in DOMAIN s : i # 1 => i - 1 \in DOMAIN t /\ t[i - 1] = s[i]
    BY <1>9
  <1>15. \A x \in P : \E i \in DOMAIN t : t[i].op = "pfa" /\ t[i].a = x
    BY <1>10
  <1>16. t \in Seq(T) /\ Head(s) = s[1]
    BY <1>6, <1>51
  <1>17. Index(s, t, P, T, L)
    <2>1. /\ t \in Seq(T) /\ Head(s) = s[1] /\ 1 \in DOMAIN s
          /\ DOMAIN s \subseteq Int /\ DOMAIN t \subseteq Int
      BY <1>11, <1>16
    <2>2. /\ \A i \in DOMAIN s : i # 1 => i - 1 \in DOMAIN t /\ t[i - 1] = s[i]
          /\ \A x \in P : \E i \in DOMAIN t : t[i].op = "pfa" /\ t[i].a = x
      BY <1>14, <1>15
    <2> QED BY ONLY <1>12, <1>13, <2>1, <2>2 DEF Index
  <1> QED BY <1>5, <1>17, Zenon DEF t

(* The server has added the node: what waits for it is attached by commands. *)
LEMMA AttachAdded ==
    ASSUME Attach, cmds # << >>, Head(cmds).op = "put", NEW u, u = Head(cmds).u,
           upload' = [upload EXCEPT ![u] = "node"], uhnh' = uhnh \union {u},
           attached' = [a \in Attr |-> IF a \in Head(cmds).fa THEN attached[a] + 1 ELSE attached[a]],
           cmds' = Tail(cmds) \o attachPending(u), pendingfa' = pendingfa \ pendingOf(u),
           UNCHANGED <<newfa, curfa, status, http, btpfa>>
    PROVE  Attach'
  <1> DEFINE c == Puts
             e == Puts'
             P == pendingOf(u)
             F == Head(cmds).fa
             r == attachPending(u)
  <1>0. PICK S : c \in PutRec(S)
    BY DEF Attach
  <1>1. /\ pendingfa \subseteq Attr /\ cmds \in Seq(S) /\ c.pending = pendingfa /\ c.cmds = cmds
        /\ c.status = status /\ e.pending = pendingfa' /\ e.cmds = cmds' /\ e.status = status
    BY <1>0, PutsParts
  <1>2. Once(c, attached, upload) /\ attached \in [Attr -> Nat]
        /\ upload \in [Upload -> {"running", "adding", "node", "failed", "removed"}]
    BY DEF Attach, NodeType
  <1> HIDE DEF c, e
  <1>3. P = {a \in pendingfa : a[1] = u}
    BY DEF pendingOf
  <1>4. r = [i \in 1 .. Cardinality(P) |-> Pfa(SetToSeq(P)[i])]
    BY DEF attachPending, Pfa
  <1>5. IsFiniteSet(P) /\ IsFiniteSet(pendingfa')
    BY <1>1, <1>2, <1>3, FS_Subset DEF Once
  <1> HIDE DEF P, r
  <1>6. PICK T : \E L \in Nat : Index(cmds, cmds', P, T, L)
    <2>1. cmds' = Tail(cmds) \o r
      BY DEF r
    <2>2. \E T : \E L \in Nat : Index(cmds, Tail(cmds) \o r, P, T, L)
      BY <1>1, <1>4, <1>5, AddedIndex, Zenon
    <2> QED BY <2>1, <2>2, Zenon
  <1>60. PICK L \in Nat : Index(cmds, cmds', P, T, L)
    BY <1>6, Zenon
  <1>7.
           /\ cmds' \in Seq(T) /\ Head(cmds) = cmds[1] /\ 1 \in DOMAIN cmds
           /\ DOMAIN cmds \subseteq Int /\ DOMAIN cmds' \subseteq Int
           /\ \A i \in DOMAIN cmds' :
                 \/ i <= L /\ i + 1 \in DOMAIN cmds /\ i + 1 # 1 /\ cmds'[i] = cmds[i + 1]
                 \/ i > L /\ cmds'[i].op = "pfa" /\ cmds'[i].a \in P
           /\ \A i, j \in DOMAIN cmds' : i > L /\ j > L /\ cmds'[i].a = cmds'[j].a => i = j
           /\ \A i \in DOMAIN cmds : i # 1 => i - 1 \in DOMAIN cmds' /\ cmds'[i - 1] = cmds[i]
           /\ \A x \in P : \E i \in DOMAIN cmds' : cmds'[i].op = "pfa" /\ cmds'[i].a = x
    BY <1>60 DEF Index
  <1>8. cmds[1].op = "put" /\ cmds[1].u = u /\ cmds[1].fa = F
    BY <1>7
  <1>9. /\ u \in Upload /\ upload[u] = "adding" /\ \A a \in F : a[1] = u
        /\ \A j \in DOMAIN cmds : cmds[j].op = "put" /\ cmds[j].u = u => 1 = j
    BY <1>1, <1>2, <1>7, <1>8 DEF Once, Sent
  <1>10. /\ \A w \in Upload : upload'[w] = IF w = u THEN "node" ELSE upload[w]
         /\ upload' \in [Upload -> {"running", "adding", "node", "failed", "removed"}]
    BY <1>2, <1>9
  <1>11. /\ \A x \in Attr : attached'[x] = IF x \in F THEN attached[x] + 1 ELSE attached[x]
         /\ attached' \in [Attr -> Nat]
    BY <1>2
  <1>12. \A x \in Attr : x \in F => /\ status[x] = "done" /\ attached[x] = 0 /\ x \notin pendingfa
                                    /\ \A j \in DOMAIN cmds : holds(cmds[j], x) => 1 = j
    BY <1>1, <1>2, <1>7, <1>8 DEF Once, Held, holds
  <1> HIDE DEF F
  <1>13. NodeType' /\ Known'
    BY <1>10, <1>11 DEF Attach, NodeType, Known
  <1>14. \A x \in Attr : (status[x] = "done" /\ attached[x] = 0 /\ x \notin F) => attached'[x] = 0
    BY <1>11
  <1>15. Pending(e, attached', upload')
    <2> SUFFICES ASSUME NEW x \in pendingfa'
                 PROVE  status[x] = "done" /\ attached'[x] = 0 /\ upload'[x[1]] # "node"
      BY <1>1 DEF Pending
    <2>1. x \in pendingfa /\ x \in Attr /\ x[1] # u /\ x[1] \in Upload
      BY <1>1, <1>3, AttrUpload DEF P
    <2>2. status[x] = "done" /\ attached[x] = 0 /\ upload[x[1]] # "node"
      BY <1>1, <1>2, <2>1 DEF Once, Pending
    <2> QED BY <1>9, <1>10, <1>14, <2>1, <2>2
  <1>16. Attached(e, attached')
    <2> SUFFICES ASSUME NEW x \in Attr, attached'[x] # 0
                 PROVE  attached'[x] = 1 /\ status[x] = "done"
      BY <1>1 DEF Attached
    <2>1. CASE x \in F
      BY <1>11, <1>12, <2>1
    <2>2. CASE x \notin F
      BY <1>1, <1>2, <1>11, <2>2 DEF Once, Attached
    <2> QED BY <2>1, <2>2
  <1>17. Held(e, attached')
    <2> SUFFICES ASSUME NEW i \in DOMAIN cmds', NEW x \in Attr, holds(cmds'[i], x)
                 PROVE  /\ status[x] = "done" /\ attached'[x] = 0 /\ x \notin pendingfa'
                        /\ \A j \in DOMAIN cmds' : holds(cmds'[j], x) => i = j
      BY <1>1 DEF Held
    <2>0. i \in Int /\ \A j \in DOMAIN cmds' : j \in Int
      BY <1>7
    <2>1. \A j \in DOMAIN cmds' : holds(cmds'[j], x) =>
              \/ j <= L /\ j + 1 \in DOMAIN cmds /\ j + 1 # 1 /\ holds(cmds[j + 1], x)
              \/ j > L /\ cmds'[j].a = x /\ x \in P
      BY <1>7 DEF holds
    <2>2. \A j \in DOMAIN cmds : holds(cmds[j], x) =>
              /\ status[x] = "done" /\ attached[x] = 0 /\ x \notin pendingfa
              /\ \A k \in DOMAIN cmds : holds(cmds[k], x) => j = k
      BY <1>1, <1>2 DEF Once, Held
    <2>3. CASE i <= L /\ i + 1 \in DOMAIN cmds /\ i + 1 # 1 /\ holds(cmds[i + 1], x)
      <3>1. /\ status[x] = "done" /\ attached[x] = 0 /\ x \notin pendingfa
            /\ \A k \in DOMAIN cmds : holds(cmds[k], x) => i + 1 = k
        BY <2>2, <2>3
      <3>2. x \notin F /\ x \notin P
        BY <1>3, <1>12, <2>3, <3>1
      <3>3. ASSUME NEW j \in DOMAIN cmds', holds(cmds'[j], x) PROVE i = j
        <4>1. j + 1 \in DOMAIN cmds /\ holds(cmds[j + 1], x)
          BY <2>1, <3>2, <3>3
        <4>2. i + 1 = j + 1
          BY <3>1, <4>1
        <4> QED BY <2>0, <4>2, Cancel
      <3> QED BY <1>14, <3>1, <3>2, <3>3
    <2>4. CASE i > L /\ cmds'[i].a = x /\ x \in P
      <3>1. x \in pendingfa /\ status[x] = "done" /\ attached[x] = 0
        BY <1>1, <1>2, <1>3, <2>4 DEF Once, Pending
      <3>2. \A j \in DOMAIN cmds : ~holds(cmds[j], x)
        BY <2>2, <3>1
      <3>3. x \notin F /\ x \notin pendingfa'
        BY <1>12, <2>4, <3>1 DEF P
      <3>4. ASSUME NEW j \in DOMAIN cmds', holds(cmds'[j], x) PROVE i = j
        <4>1. j > L /\ cmds'[j].a = x
          BY <2>1, <3>2, <3>4
        <4> QED BY <1>7, <2>4, <4>1
      <3> QED BY <1>14, <3>1, <3>3, <3>4
    <2> QED BY <2>1, <2>3, <2>4
  <1>18. Somewhere(e, attached', upload')
    <2> SUFFICES ASSUME NEW x \in Attr, status[x] = "done"
                 PROVE  \/ x \in pendingfa' \/ attached'[x] = 1
                        \/ upload'[x[1]] \in {"failed", "removed"}
                        \/ \E i \in DOMAIN cmds' : holds(cmds'[i], x)
      BY <1>1 DEF Somewhere
    <2>1. \/ x \in pendingfa \/ attached[x] = 1 \/ upload[x[1]] \in {"failed", "removed"}
          \/ \E i \in DOMAIN cmds : holds(cmds[i], x)
      BY <1>1, <1>2 DEF Once, Somewhere
    <2>2. CASE x \in P
      BY <1>7, <2>2 DEF holds
    <2>3. CASE x \in pendingfa /\ x \notin P
      BY <2>3 DEF P
    <2>4. CASE attached[x] = 1
      <3>1. x \notin F
        BY <1>12, <2>4
      <3> QED BY <1>11, <2>4, <3>1
    <2>5. CASE upload[x[1]] \in {"failed", "removed"}
      BY <1>9, <1>10, <2>5, AttrUpload
    <2>6. CASE \E i \in DOMAIN cmds : holds(cmds[i], x)
      <3> PICK i \in DOMAIN cmds : holds(cmds[i], x)
        BY <2>6
      <3>1. CASE i = 1
        <4>1. x \in F
          BY <1>8, <3>1 DEF holds
        <4> QED BY <1>11, <1>12, <4>1
      <3>2. CASE i # 1
        <4>1. i - 1 \in DOMAIN cmds' /\ cmds'[i - 1] = cmds[i]
          BY <1>7, <3>2, Zenon
        <4> QED BY <4>1, Zenon
      <3> QED BY <3>1, <3>2
    <2> QED BY <2>1, <2>2, <2>3, <2>4, <2>5, <2>6
  <1>19. Sent(cmds', upload')
    <2>1. \A i \in DOMAIN cmds : cmds[i].op = "put" /\ i # 1 =>
              /\ cmds[i].u # u /\ cmds[i].u \in Upload /\ upload'[cmds[i].u] = "adding"
              /\ \A a \in cmds[i].fa : a[1] = cmds[i].u
              /\ \A j \in DOMAIN cmds : cmds[j].op = "put" /\ cmds[j].u = cmds[i].u => i = j
      BY <1>1, <1>2, <1>9, <1>10 DEF Once, Sent
    <2>2. \A i \in DOMAIN cmds : cmds[i].op = "pfa" =>
              cmds[i].a \in Attr /\ upload'[cmds[i].a[1]] \in {"node", "removed"}
      BY <1>1, <1>2, <1>9, <1>10, AttrUpload DEF Once, Sent
    <2>3. \A x \in P : x \in Attr /\ upload'[x[1]] = "node"
      BY <1>1, <1>3, <1>9, <1>10
    <2> SUFFICES ASSUME NEW i \in DOMAIN cmds'
                 PROVE
         /\ cmds'[i].op = "put" =>
                 /\ cmds'[i].u \in Upload /\ upload'[cmds'[i].u] = "adding"
                 /\ \A a \in cmds'[i].fa : a[1] = cmds'[i].u
                 /\ \A j \in DOMAIN cmds' : cmds'[j].op = "put" /\ cmds'[j].u = cmds'[i].u => i = j
         /\ cmds'[i].op = "pfa" =>
                 cmds'[i].a \in Attr /\ upload'[cmds'[i].a[1]] \in {"node", "removed"}
      BY DEF Sent
    <2>4. CASE i > L /\ cmds'[i].op = "pfa" /\ cmds'[i].a \in P
      BY <2>3, <2>4
    <2>5. CASE i <= L /\ i + 1 \in DOMAIN cmds /\ i + 1 # 1 /\ cmds'[i] = cmds[i + 1]
      <3>1. ASSUME cmds'[i].op = "put", NEW j \in DOMAIN cmds', cmds'[j].op = "put",
                   cmds'[j].u = cmds'[i].u
            PROVE  i = j
        <4>1. j + 1 \in DOMAIN cmds /\ cmds'[j] = cmds[j + 1]
          BY <1>7, <3>1
        <4>2. i + 1 = j + 1
          BY <2>1, <2>5, <3>1, <4>1
        <4> QED BY <1>7, <4>2, Cancel
      <3>2. cmds'[i].op = "put" => /\ cmds'[i].u \in Upload /\ upload'[cmds'[i].u] = "adding"
                                   /\ \A a \in cmds'[i].fa : a[1] = cmds'[i].u
        BY <2>1, <2>5
      <3>3. cmds'[i].op = "pfa" =>
                 cmds'[i].a \in Attr /\ upload'[cmds'[i].a[1]] \in {"node", "removed"}
        BY <2>2, <2>5
      <3> QED BY <3>1, <3>2, <3>3
    <2> QED BY <1>7, <2>4, <2>5
  <1>20. Once(Puts', attached', upload')
    BY <1>1, <1>5, <1>15, <1>16, <1>17, <1>18, <1>19 DEF Once, e
  <1>21. pendingfa' \subseteq Attr /\ cmds' \in Seq(T)
    BY <1>1, <1>7
  <1> QED BY <1>13, <1>20, <1>21, NodeStep

(* The server has not added the node: what waits for it stays behind. *)
LEMMA AttachFailed ==
    ASSUME Attach, cmds # << >>, Head(cmds).op = "put", NEW u, u = Head(cmds).u,
           upload' = [upload EXCEPT ![u] = "failed"], cmds' = Tail(cmds),
           UNCHANGED <<newfa, curfa, status, http, btpfa, pendingfa, uhnh, attached>>
    PROVE  Attach'
  <1> DEFINE c == Puts
             e == Puts'
  <1>0. PICK S : c \in PutRec(S)
    BY DEF Attach
  <1>1. /\ pendingfa \subseteq Attr /\ cmds \in Seq(S) /\ c.pending = pendingfa /\ c.cmds = cmds
        /\ c.status = status /\ e.pending = pendingfa /\ e.cmds = cmds' /\ e.status = status
    BY <1>0, PutsParts
  <1>2. Once(c, attached, upload)
        /\ upload \in [Upload -> {"running", "adding", "node", "failed", "removed"}]
    BY DEF Attach, NodeType
  <1> HIDE DEF c, e
  <1>3. /\ cmds' \in Seq(S) /\ Head(cmds) = cmds[1] /\ 1 \in DOMAIN cmds
        /\ DOMAIN cmds \subseteq Int /\ DOMAIN cmds' \subseteq Int
        /\ \A i \in DOMAIN cmds' : i + 1 \in DOMAIN cmds /\ i + 1 # 1 /\ cmds'[i] = cmds[i + 1]
        /\ \A i \in DOMAIN cmds : i # 1 => i - 1 \in DOMAIN cmds' /\ cmds'[i - 1] = cmds[i]
    BY <1>1, TailIndex
  <1>4. /\ u \in Upload /\ upload[u] = "adding" /\ \A a \in cmds[1].fa : a[1] = u
        /\ cmds[1].op = "put" /\ cmds[1].u = u
        /\ \A j \in DOMAIN cmds : cmds[j].op = "put" /\ cmds[j].u = u => 1 = j
    BY <1>1, <1>2, <1>3 DEF Once, Sent
  <1>5. /\ \A w \in Upload : upload'[w] = IF w = u THEN "failed" ELSE upload[w]
        /\ upload' \in [Upload -> {"running", "adding", "node", "failed", "removed"}]
    BY <1>2, <1>4
  <1>6. NodeType' /\ Known'
    BY <1>5 DEF Attach, NodeType, Known
  <1>7. Pending(e, attached', upload') /\ Attached(e, attached')
    BY <1>1, <1>2, <1>5, AttrUpload DEF Once, Pending, Attached
  <1>8. Held(e, attached')
    <2> SUFFICES ASSUME NEW i \in DOMAIN cmds', NEW x \in Attr, holds(cmds'[i], x)
                 PROVE  /\ status[x] = "done" /\ attached[x] = 0 /\ x \notin pendingfa
                        /\ \A j \in DOMAIN cmds' : holds(cmds'[j], x) => i = j
      BY <1>1 DEF Held
    <2>1. i + 1 \in DOMAIN cmds /\ holds(cmds[i + 1], x) /\ i \in Int
      BY <1>3
    <2>2. /\ status[x] = "done" /\ attached[x] = 0 /\ x \notin pendingfa
          /\ \A k \in DOMAIN cmds : holds(cmds[k], x) => i + 1 = k
      BY <1>1, <1>2, <2>1 DEF Once, Held
    <2>3. ASSUME NEW j \in DOMAIN cmds', holds(cmds'[j], x) PROVE i = j
      <3>1. j + 1 \in DOMAIN cmds /\ holds(cmds[j + 1], x) /\ j \in Int
        BY <1>3, <2>3
      <3>2. i + 1 = j + 1
        BY <2>2, <3>1
      <3> QED BY <2>1, <3>1, <3>2, Cancel
    <2> QED BY <2>2, <2>3
  <1>9. Somewhere(e, attached', upload')
    <2> SUFFICES ASSUME NEW x \in Attr, status[x] = "done"
                 PROVE  \/ x \in pendingfa \/ attached[x] = 1
                        \/ upload'[x[1]] \in {"failed", "removed"}
                        \/ \E i \in DOMAIN cmds' : holds(cmds'[i], x)
      BY <1>1 DEF Somewhere
    <2>1. \/ x \in pendingfa \/ attached[x] = 1 \/ upload[x[1]] \in {"failed", "removed"}
          \/ \E i \in DOMAIN cmds : holds(cmds[i], x)
      BY <1>1, <1>2 DEF Once, Somewhere
    <2>2. CASE upload[x[1]] \in {"failed", "removed"}
      BY <1>5, <2>2, AttrUpload
    <2>3. CASE \E i \in DOMAIN cmds : holds(cmds[i], x)
      <3> PICK i \in DOMAIN cmds : holds(cmds[i], x)
        BY <2>3
      <3>1. CASE i = 1
        <4>1. x[1] = u
          BY <1>4, <3>1 DEF holds
        <4> QED BY <1>4, <1>5, <4>1
      <3>2. CASE i # 1
        BY <1>3, <3>2
      <3> QED BY <3>1, <3>2
    <2> QED BY <2>1, <2>2, <2>3
  <1>10. Sent(cmds', upload')
    <2>1. Sent(cmds', upload)
      <3>1. Sent(cmds, upload)
        BY <1>1, <1>2 DEF Once
      <3>2. /\ DOMAIN cmds' \subseteq Int
            /\ \A i \in DOMAIN cmds' : i + 1 \in DOMAIN cmds /\ i + 1 # 1 /\ cmds'[i] = cmds[i + 1]
        BY <1>3
      <3> QED BY <3>1, <3>2, SentTail, Zenon
    <2>2. \A i \in DOMAIN cmds' : cmds'[i].op = "put" => cmds'[i].u # u
      BY <1>3, <1>4
    <2> QED BY <1>4, <1>5, <2>1, <2>2, AttrUpload DEF Sent
  <1>11. Once(Puts', attached', upload')
    BY <1>1, <1>2, <1>7, <1>8, <1>9, <1>10 DEF Once, e
  <1>12. pendingfa' \subseteq Attr
    BY <1>1
  <1> QED BY <1>3, <1>6, <1>11, <1>12, NodeStep

-----------------------------------------------------------------------------
\* the command that fetches attributes
Getfa(k) == [op |-> "getfa", k |-> k]

(* Retrieval adds and answers its own commands, and touches nothing else. *)
LEMMA FetchCmds ==
    ASSUME Retrieve
    PROVE  /\ UNCHANGED <<newfa, curfa, status, http, btpfa, pendingfa>>
           /\ UNCHANGED <<attached, upload, uhnh, wrong>>
           /\ \/ cmds' = cmds
              \/ \E k : cmds' = Append(cmds, Getfa(k))
              \/ cmds # << >> /\ Head(cmds).op = "getfa" /\ cmds' = Tail(cmds)
  <1>1. CASE \E f \in Fah : \/ \E d \in BOOLEAN : getfa(f, d)
                            \/ getfaCancel(f) \/ attrNodeRemoved(f)
    BY <1>1 DEF getfa, getfaCancel, attrNodeRemoved, putVars, nodeVars
  <1>2. CASE \E k \in DOMAIN fafcs : \E quit : execFetch(k, quit)
    <2> PICK k, quit : execFetch(k, quit)
      BY <1>2
    <2>1. cmds' = cmds \/ cmds' = Append(cmds, Getfa(k))
      BY Zenon DEF execFetch, Getfa
    <2> QED BY <2>1 DEF execFetch, putVars, nodeVars
  <1>3. CASE \E k \in DOMAIN fafcs : btElapse(k) \/ fetchData(k) \/ fetchDone(k)
    BY <1>3 DEF btElapse, fetchData, fetchDone, putVars, nodeVars
  <1>4. CASE getfaResult
    BY <1>4 DEF getfaResult, putVars, nodeVars
  <1> QED BY <1>1, <1>2, <1>3, <1>4 DEF Retrieve

(* Steps that retrieve attributes do not disturb those that are stored. *)
LEMMA AttachQuiet ==
    ASSUME Attach, UNCHANGED <<newfa, curfa, status, pendingfa, attached, upload, uhnh>>,
           UNCHANGED http, btpfa' \in {"ready", "waiting"},
           \/ cmds' = cmds
           \/ \E q : Silent(q) /\ cmds' = Append(cmds, q)
           \/ cmds # << >> /\ Silent(Head(cmds)) /\ cmds' = Tail(cmds)
    PROVE  Attach'
  <1>1. PICK S : Puts \in PutRec(S)
    BY DEF Attach
  <1>2. cmds \in Seq(S) /\ http' \in [Attr -> Nat]
    BY <1>1, PutsParts
  <1>3. \E T : cmds' \in Seq(T) /\ \E m \in {0, 1} : Shift(cmds, cmds', m)
    <2>1. CASE cmds' = cmds
      BY <1>2, <2>1, ShiftSame
    <2>2. CASE \E q : Silent(q) /\ cmds' = Append(cmds, q)
      <3> PICK q : Silent(q) /\ cmds' = Append(cmds, q)
        BY <2>2
      <3>1. cmds' \in Seq(S \union {q}) /\ Shift(cmds, cmds', 0)
        BY <1>2, AppendIndex, ShiftAppend
      <3> QED BY <3>1
    <2>3. CASE cmds # << >> /\ Silent(Head(cmds)) /\ cmds' = Tail(cmds)
      <3>1. cmds' \in Seq(S) /\ Shift(cmds, cmds', 1)
        BY <1>2, <2>3, TailIndex, ShiftTail
      <3> QED BY <3>1
    <2> QED BY <2>1, <2>2, <2>3
  <1> QED BY <1>2, <1>3, StatusStep

(* Attributes are sent, and their requests end. *)
LEMMA AttachPosting ==
    ASSUME Attach, putfaResult \/ \E a \in Attr : putfaPosted(a)
    PROVE  Attach'
  <1>1. PICK S : Puts \in PutRec(S)
    BY DEF Attach
  <1>2. cmds \in Seq(S) /\ http \in [Attr -> Nat] /\ btpfa \in {"ready", "waiting"}
        /\ newfa \in Seq(Attr)
    BY <1>1, PutsParts
  <1>3. \A x \in Range(newfa) : x \in Attr
    BY <1>2 DEF Range
  <1>4. CASE putfaResult
    <2> DEFINE a == Head(cmds).a
    <2>1. /\ cmds # << >> /\ Silent(Head(cmds)) /\ cmds' = Tail(cmds)
          /\ UNCHANGED <<newfa, curfa, btpfa, pendingfa, attached, upload, uhnh>>
          /\ \/ UNCHANGED <<status, http>>
             \/ /\ a \in Range(newfa) /\ status' = [status EXCEPT ![a] = "INFLIGHT"]
                /\ http' = [http EXCEPT ![a] = @ + 1]
             \/ /\ a \in Range(newfa) /\ status' = [status EXCEPT ![a] = "FAILURE"]
                /\ UNCHANGED http
      BY <1>4 DEF putfaResult, Silent, nodeVars
    <2> HIDE DEF a
    <2>2. http' \in [Attr -> Nat]
      BY <1>2, <1>3, <2>1
    <2>3. \/ status' = status
          \/ \E x \in Range(newfa), s \in Stat \ {"new", "done"} : status' = [status EXCEPT ![x] = s]
      BY <2>1 DEF Stat
    <2>4. cmds' \in Seq(S) /\ Shift(cmds, cmds', 1)
      BY <1>2, <2>1, TailIndex, ShiftTail
    <2>5. btpfa' \in {"ready", "waiting"}
      BY <1>2, <2>1
    <2> QED BY <2>1, <2>2, <2>3, <2>4, <2>5, StatusStep
  <1>5. CASE \E a \in Attr : putfaPosted(a)
    <2> PICK a \in Attr : putfaPosted(a)
      BY <1>5
    <2>1. /\ http[a] > 0 /\ http' = [http EXCEPT ![a] = @ - 1]
          /\ UNCHANGED <<newfa, curfa, btpfa, pendingfa, attached, upload, uhnh, cmds>>
      BY DEF putfaPosted, nodeVars
    <2>2. http' \in [Attr -> Nat]
      BY <1>2, <2>1
    <2>3. \/ status' = status
          \/ \E x \in Range(newfa), s \in Stat \ {"new", "done"} : status' = [status EXCEPT ![x] = s]
      BY DEF putfaPosted, Stat
    <2>4. cmds' \in Seq(S) /\ Shift(cmds, cmds', 0)
      BY <1>2, <2>1, ShiftSame
    <2>5. btpfa' \in {"ready", "waiting"}
      BY <1>2, <2>1
    <2> QED BY <2>1, <2>2, <2>3, <2>4, <2>5, StatusStep
  <1> QED BY <1>4, <1>5

(* Every step preserves the invariant. *)
LEMMA AttachStep ==
    ASSUME Attach, [Next]_vars
    PROVE  Attach'
  <1>0. PICK S : Puts \in PutRec(S)
    BY DEF Attach
  <1>00. btpfa \in {"ready", "waiting"}
    BY <1>0, PutsParts
  <1>1. CASE \E a \in Attr : putfa(a)
    BY <1>1, AttachPutfa
  <1>2. CASE putfaResult \/ \E a \in Attr : putfaPosted(a)
    BY <1>2, AttachPosting
  <1>3. CASE execPut
    BY <1>3, AttachExec
  <1>4. CASE btpfaElapse
    BY <1>4, AttachQuiet DEF btpfaElapse, nodeVars
  <1>5. CASE \E u \in Upload : putnodes(u) \/ nodeRemoved(u)
    BY <1>5, AttachPutnodes, AttachRemoved
  <1>6. CASE putnodesResult
    BY <1>6, AttachAdded, AttachFailed DEF putnodesResult
  <1>7. CASE attachResult
    BY <1>7, AttachResult
  <1>8. CASE Retrieve
    <2>1. \A k : Silent(Getfa(k))
      BY DEF Silent, Getfa
    <2>2. Head(cmds).op = "getfa" => Silent(Head(cmds))
      BY DEF Silent
    <2>3. btpfa' \in {"ready", "waiting"}
      BY <1>00, <1>8, FetchCmds
    <2> QED BY <1>8, <2>1, <2>2, <2>3, FetchCmds, AttachQuiet
  <1>9. CASE UNCHANGED vars
    <2>1. btpfa' \in {"ready", "waiting"}
      BY <1>00, <1>9 DEF vars, putVars
    <2> QED BY <1>9, <2>1, AttachQuiet DEF vars, putVars, nodeVars
  <1> QED BY <1>1, <1>2, <1>3, <1>4, <1>5, <1>6, <1>7, <1>8, <1>9 DEF Next, Store

(* The invariant holds at first. *)
LEMMA AttachInit == Init => Attach
  <1> SUFFICES ASSUME Init PROVE Attach
    OBVIOUS
  <1>1. /\ newfa = << >> /\ curfa = None /\ status = [a \in Attr |-> "new"]
        /\ http = [a \in Attr |-> 0] /\ btpfa = "ready" /\ pendingfa = {} /\ cmds = << >>
        /\ attached = [a \in Attr |-> 0]
        /\ upload = [u \in Upload |-> IF u \in Existing THEN "node" ELSE "running"]
    BY DEF Init
  <1>2. newfa \in Seq(Attr) /\ cmds \in Seq({}) /\ status \in [Attr -> Stat] /\ http \in [Attr -> Nat]
    BY <1>1 DEF Stat
  <1>3. Puts \in PutRec({})
    BY <1>1, <1>2, PutsParts
  <1>4. NodeType /\ Known
    BY <1>1 DEF NodeType, Known
  <1>5. DOMAIN newfa = {} /\ DOMAIN cmds = {}
    BY <1>1
  <1>6. QueueOK(Puts)
    BY <1>1, <1>5, PutsParts DEF QueueOK, IsInjective
  <1>7. Once(Puts, attached, upload)
    BY <1>1, <1>5, PutsParts, FS_EmptySet DEF Once, Pending, Held, Attached, Somewhere, Sent
  <1> QED BY <1>3, <1>4, <1>6, <1>7 DEF Attach

(* In every behaviour an attribute is attached to its node at most once, and,
   when no command is outstanding, to every node that is there if it has been
   stored: whether exec() finds the node when the attribute has been sent, or
   leaves it in pendingfa for the command that adds the node or for its result,
   the attribute is in exactly one of these places. *)
THEOREM Attachment == Spec => []AttachedOnce
  <1>1. Attach => AttachedOnce
    <2> SUFFICES ASSUME Attach PROVE AttachedOnce
      OBVIOUS
    <2>1. \A a \in Attr : attached[a] \in Nat /\ (attached[a] # 0 => attached[a] = 1)
      BY DEF Attach, NodeType, Once, Attached
    <2>2. ASSUME cmds = << >>, NEW a \in Attr, status[a] = "done", upload[a[1]] = "node"
          PROVE  attached[a] = 1
      <3>1. DOMAIN cmds = {}
        BY <2>2
      <3> QED BY <2>2, <3>1, PutsParts DEF Attach, Once, Pending, Somewhere
    <2> QED BY <2>1, <2>2 DEF AttachedOnce, node
  <1> QED BY <1>1, AttachInit, AttachStep, PTL DEF Spec

-----------------------------------------------------------------------------
\* the commands of one kind in t are those in s, m places further on
From(s, t, m, op) ==
    /\ DOMAIN s \subseteq Int /\ DOMAIN t \subseteq Int
    /\ \A i \in DOMAIN t : t[i].op = op => i + m \in DOMAIN s /\ t[i] = s[i + m]

(* Leaving the commands alone. *)
LEMMA FromSame ==
    ASSUME NEW S, NEW s \in Seq(S), NEW op
    PROVE  From(s, s, 0, op)
  <1>1. DOMAIN s \subseteq Int
    OBVIOUS
  <1> QED BY <1>1 DEF From

(* Adding a command of another kind. *)
LEMMA FromAppend ==
    ASSUME NEW S, NEW s \in Seq(S), NEW op, NEW x, x.op # op
    PROVE  From(s, Append(s, x), 0, op)
  <1> DEFINE t == Append(s, x)
  <1>1. /\ DOMAIN s \subseteq Int /\ DOMAIN t \subseteq Int
        /\ \A i \in DOMAIN t : (i \in DOMAIN s /\ t[i] = s[i]) \/ t[i] = x
    BY AppendIndex
  <1> HIDE DEF t
  <1>2. From(s, t, 0, op)
    BY <1>1 DEF From
  <1> QED BY <1>2 DEF t

(* Taking a command off the front. *)
LEMMA FromTail ==
    ASSUME NEW S, NEW s \in Seq(S), s # << >>, NEW op
    PROVE  From(s, Tail(s), 1, op)
  BY TailIndex DEF From

(* Replacing a command by those that attach what waited for its node. *)
LEMMA FromAdded ==
    ASSUME Attach, NEW S, cmds \in Seq(S), cmds # << >>, NEW u, NEW op, op # "pfa"
    PROVE  /\ From(cmds, Tail(cmds) \o attachPending(u), 1, op)
           /\ \E T : Tail(cmds) \o attachPending(u) \in Seq(T)
  <1> DEFINE P == pendingOf(u)
             r == attachPending(u)
             t == Tail(cmds) \o r
  <1>1. IsFiniteSet(P)
    BY PutsParts, FS_Subset DEF Attach, Once, pendingOf
  <1>2. r = [i \in 1 .. Cardinality(P) |-> Pfa(SetToSeq(P)[i])]
    BY DEF attachPending, Pfa
  <1> HIDE DEF P, r
  <1>3. \E T : \E L \in Nat : Index(cmds, t, P, T, L)
    BY <1>1, <1>2, AddedIndex, Zenon
  <1> HIDE DEF t
  <1>4. From(cmds, t, 1, op) /\ \E T : t \in Seq(T)
    BY <1>3 DEF Index, From
  <1> QED BY <1>4 DEF t, r

-----------------------------------------------------------------------------
(* Channels *)

Chan(V) == [status : {"READY", "INFLIGHT", "SUCCESS", "FAILURE"}, bt : {"ready", "waiting"},
            answer : V, got : V, completed : V]

ChannelType == /\ \E S : cmds \in Seq(S)
               /\ \E V : fafcs \in [DOMAIN fafcs -> Chan(V)]

(* Commands that fetch move up, and their channels are left alone. *)
LEMMA ChannelMoves ==
    ASSUME ChannelThere, NEW m \in {0, 1}, From(cmds, cmds', m, "getfa"),
           \A i \in DOMAIN cmds' : cmds'[i].op = "getfa" =>
              /\ cmds'[i].k \in DOMAIN fafcs => /\ cmds'[i].k \in DOMAIN fafcs'
                                                /\ fafcs'[cmds'[i].k].status = fafcs[cmds'[i].k].status
    PROVE  ChannelThere'
  <1> SUFFICES ASSUME NEW i \in DOMAIN cmds', cmds'[i].op = "getfa"
               PROVE  /\ cmds'[i].k \in DOMAIN fafcs' /\ fafcs'[cmds'[i].k].status = "INFLIGHT"
                      /\ \A j \in DOMAIN cmds' :
                            cmds'[j].op = "getfa" /\ cmds'[j].k = cmds'[i].k => i = j
    BY DEF ChannelThere
  <1>1. i + m \in DOMAIN cmds /\ cmds'[i] = cmds[i + m] /\ i \in Int
    BY DEF From
  <1>2. cmds'[i].k \in DOMAIN fafcs /\ fafcs[cmds'[i].k].status = "INFLIGHT"
    BY <1>1 DEF ChannelThere
  <1>3. ASSUME NEW j \in DOMAIN cmds', cmds'[j].op = "getfa", cmds'[j].k = cmds'[i].k PROVE i = j
    <2>1. j + m \in DOMAIN cmds /\ cmds'[j] = cmds[j + m] /\ j \in Int
      BY <1>3 DEF From
    <2>2. i + m = j + m
      BY <1>1, <1>3, <2>1 DEF ChannelThere
    <2> QED BY <1>1, <2>1, <2>2, Cancel
  <1> QED BY <1>2, <1>3

\* what parse() has read of an answer
Parsed(c, X, v) == [c EXCEPT !.fafs = X, !.x.completed = v]

(* Parsing leaves the state of the channel alone. *)
LEMMA ParseChannel ==
    ASSUME NEW V, NEW F, NEW c \in [fafs : F, x : Chan(V)], NEW k, NEW final, NEW quit
    PROVE  \E W : /\ parse(c, k, final, quit).x \in Chan(W)
                  /\ parse(c, k, final, quit).x.status = c.x.status
                  /\ parse(c, k, final, quit).x.bt = c.x.bt
  <1> DEFINE y == c.x
             p == parse(c, k, final, quit)
  <1>1. PICK X, v : p = Parsed(c, X, v) \/ p = faf_failed(Parsed(c, X, v), k, quit)
    BY Zenon DEF parse, Parsed
  <1> DEFINE d == Parsed(c, X, v)
             W == V \union {v}
             z == [y EXCEPT !.completed = v]
  <1>2. y \in Chan(V)
    OBVIOUS
  <1>3. d.x = z
    BY DEF Parsed
  <1>4. d \in [fafs : {X}, x : {z}]
    BY Zenon DEF Parsed
  <1>5. y \in Chan(W) /\ v \in W
    BY <1>2 DEF Chan
  <1> HIDE DEF W, d, y, p
  <1>6. z \in Chan(W) /\ z.status = y.status /\ z.bt = y.bt
    BY <1>5 DEF Chan
  <1> HIDE DEF z
  <1>7. faf_failed(d, k, quit).x = z
    BY <1>3, <1>4 DEF faf_failed
  <1>8. p.x = z
    BY <1>1, <1>3, <1>7 DEF d
  <1> QED BY <1>6, <1>8 DEF p, y

\* what exec() has made of the records and a channel before it looks whether
\* there is more to be requested
Handled(k, quit) ==
    LET c == [fafs |-> fafs, x |-> fafcs[k]]
        s == fafcs[k].status
    IN  CASE s = "READY" -> c
          [] s = "INFLIGHT" -> parse(c, k, FALSE, quit)
          [] s = "SUCCESS" -> [parse(c, k, TRUE, quit) EXCEPT !.x.bt = "ready"]
          [] s = "FAILURE" -> [faf_failed(c, k, quit) EXCEPT !.x.bt = "waiting"]

(* Parsing leaves a record of the retrievals and the channel. *)
LEMMA ParsedRecord ==
    ASSUME NEW V, NEW F, NEW c \in [fafs : F, x : Chan(V)], NEW k, NEW final, NEW quit
    PROVE  \E G, W : parse(c, k, final, quit) \in [fafs : G, x : Chan(W)]
  <1> DEFINE p == parse(c, k, final, quit)
  <1>1. PICK X, v : p = Parsed(c, X, v) \/ p = faf_failed(Parsed(c, X, v), k, quit)
    BY Zenon DEF parse, Parsed
  <1>2. PICK W : p.x \in Chan(W)
    BY ParseChannel
  <1> DEFINE d == Parsed(c, X, v)
             z == [c.x EXCEPT !.completed = v]
  <1>3. d \in [fafs : {X}, x : {z}]
    BY Zenon DEF Parsed
  <1> HIDE DEF d, z, p
  <1>4. \E Y : faf_failed(d, k, quit) \in [fafs : {Y}, x : {z}]
    BY <1>3, Zenon DEF faf_failed
  <1>5. \E Y : p \in [fafs : {Y}, x : {z}]
    BY <1>1, <1>3, <1>4 DEF d
  <1>6. PICK Y : p \in [fafs : {Y}, x : {z}]
    BY <1>5
  <1>7. p \in [fafs : {Y}, x : Chan(W)]
    BY <1>2, <1>6
  <1> QED BY <1>7 DEF p

(* exec() has handled a channel without changing its state. *)
LEMMA HandledChannel ==
    ASSUME NEW V, fafcs \in [DOMAIN fafcs -> Chan(V)], NEW k \in DOMAIN fafcs, NEW quit
    PROVE  \E W : Handled(k, quit).x \in Chan(W) /\ Handled(k, quit).x.status = fafcs[k].status
  <1> DEFINE c == [fafs |-> fafs, x |-> fafcs[k]]
             s == fafcs[k].status
  <1>1. c \in [fafs : {fafs}, x : Chan(V)] /\ c.x = fafcs[k] /\ c.x \in Chan(V)
    OBVIOUS
  <1>2. s \in {"READY", "INFLIGHT", "SUCCESS", "FAILURE"}
    BY DEF Chan
  <1>3. /\ s = "READY" => Handled(k, quit) = c
        /\ s = "INFLIGHT" => Handled(k, quit) = parse(c, k, FALSE, quit)
        /\ s = "SUCCESS" => Handled(k, quit) = [parse(c, k, TRUE, quit) EXCEPT !.x.bt = "ready"]
        /\ s = "FAILURE" => Handled(k, quit) = [faf_failed(c, k, quit) EXCEPT !.x.bt = "waiting"]
    BY DEF Handled
  <1> HIDE DEF c, s
  <1>4. CASE s = "READY"
    BY <1>1, <1>3, <1>4 DEF s
  <1>5. CASE s = "INFLIGHT"
    <2> DEFINE p == parse(c, k, FALSE, quit)
    <2>1. \E W : p.x \in Chan(W) /\ p.x.status = c.x.status /\ p.x.bt = c.x.bt
      <3>1. ASSUME NEW b PROVE \E W : /\ parse(c, k, b, quit).x \in Chan(W)
                                      /\ parse(c, k, b, quit).x.status = c.x.status
                                      /\ parse(c, k, b, quit).x.bt = c.x.bt
        <4> DEFINE F == {fafs}
        <4>1. c \in [fafs : F, x : Chan(V)]
          BY <1>1
        <4> HIDE DEF F
        <4> QED BY <4>1, ParseChannel
      <3> QED BY <3>1
    <2> HIDE DEF p
    <2>2. Handled(k, quit) = p
      BY <1>3, <1>5 DEF p
    <2> QED BY <1>1, <2>1, <2>2
  <1>6. ASSUME NEW p, NEW G, NEW W, p \in [fafs : G, x : Chan(W)], NEW b \in {"ready", "waiting"}
        PROVE  /\ [p EXCEPT !.x.bt = b].x \in Chan(W)
               /\ [p EXCEPT !.x.bt = b].x.status = p.x.status
    <2>1. [p EXCEPT !.x.bt = b].x = [p.x EXCEPT !.bt = b] /\ p.x \in Chan(W)
      BY <1>6
    <2>2. [p.x EXCEPT !.bt = b] \in Chan(W) /\ [p.x EXCEPT !.bt = b].status = p.x.status
      BY <2>1 DEF Chan
    <2> QED BY <2>1, <2>2
  <1>7. CASE s = "SUCCESS"
    <2> DEFINE p == parse(c, k, TRUE, quit)
    <2>1. PICK G, W : p \in [fafs : G, x : Chan(W)]
      BY <1>1, ParsedRecord
    <2>20. \E Z : p.x \in Chan(Z) /\ p.x.status = c.x.status /\ p.x.bt = c.x.bt
      <3>1. ASSUME NEW b PROVE \E Z : /\ parse(c, k, b, quit).x \in Chan(Z)
                                      /\ parse(c, k, b, quit).x.status = c.x.status
                                      /\ parse(c, k, b, quit).x.bt = c.x.bt
        <4> DEFINE F == {fafs}
        <4>1. c \in [fafs : F, x : Chan(V)]
          BY <1>1
        <4> HIDE DEF F
        <4> QED BY <4>1, ParseChannel
      <3> QED BY <3>1
    <2>2. p.x.status = c.x.status
      BY <2>20
    <2> HIDE DEF p
    <2>3. /\ [p EXCEPT !.x.bt = "ready"].x \in Chan(W)
          /\ [p EXCEPT !.x.bt = "ready"].x.status = p.x.status
      BY <1>6, <2>1
    <2>4. Handled(k, quit) = [p EXCEPT !.x.bt = "ready"]
      BY <1>3, <1>7 DEF p
    <2>5. Handled(k, quit).x \in Chan(W) /\ Handled(k, quit).x.status = p.x.status
      BY <2>3, <2>4
    <2> QED BY <1>1, <2>2, <2>5
  <1>8. CASE s = "FAILURE"
    <2> DEFINE p == faf_failed(c, k, quit)
    <2>1. p.x = c.x
      BY <1>1 DEF faf_failed
    <2>2. \E Y : p \in [fafs : {Y}, x : Chan(V)]
      BY <1>1, Zenon DEF faf_failed
    <2> HIDE DEF p
    <2>3. PICK Y : p \in [fafs : {Y}, x : Chan(V)]
      BY <2>2
    <2>4. /\ [p EXCEPT !.x.bt = "waiting"].x \in Chan(V)
          /\ [p EXCEPT !.x.bt = "waiting"].x.status = p.x.status
      BY <1>6, <2>3
    <2>5. Handled(k, quit) = [p EXCEPT !.x.bt = "waiting"]
      BY <1>3, <1>8 DEF p
    <2>6. Handled(k, quit).x \in Chan(V) /\ Handled(k, quit).x.status = p.x.status
      BY <2>4, <2>5
    <2> QED BY <1>1, <2>1, <2>6
  <1> QED BY <1>2, <1>4, <1>5, <1>7, <1>8

(* One channel is replaced by another of its type. *)
LEMMA ChannelSet ==
    ASSUME NEW V, NEW f, f \in [DOMAIN f -> Chan(V)], NEW k \in DOMAIN f, NEW W, NEW y \in Chan(W)
    PROVE  /\ \E Z : [f EXCEPT ![k] = y] \in [DOMAIN [f EXCEPT ![k] = y] -> Chan(Z)]
           /\ DOMAIN [f EXCEPT ![k] = y] = DOMAIN f
           /\ \A j \in DOMAIN f : [f EXCEPT ![k] = y][j] = IF j = k THEN y ELSE f[j]
  <1>1. Chan(V) \subseteq Chan(V \union W) /\ Chan(W) \subseteq Chan(V \union W)
    BY DEF Chan
  <1>2. f \in [DOMAIN f -> Chan(V \union W)] /\ y \in Chan(V \union W)
    BY <1>1
  <1>3. [f EXCEPT ![k] = y] \in [DOMAIN f -> Chan(V \union W)]
    BY <1>2
  <1> QED BY <1>3

(* exec() requests what a channel lacks, deletes it, or leaves it. *)
LEMMA ChannelExec ==
    ASSUME ChannelType, ChannelThere, NEW k \in DOMAIN fafcs, NEW quit, execFetch(k, quit)
    PROVE  ChannelType' /\ ChannelThere'
  <1> DEFINE y == Handled(k, quit).x
             more == wanted(Handled(k, quit).fafs, k) # {}
             free == idle(y) /\ y.bt = "ready"
  <1>1. /\ fafcs' = IF free /\ ~more THEN Without(fafcs, {k})
                    ELSE [fafcs EXCEPT ![k] = IF free THEN [y EXCEPT !.status = "INFLIGHT"] ELSE y]
        /\ cmds' = IF free /\ more THEN Append(cmds, Getfa(k)) ELSE cmds
    BY DEF execFetch, Handled, Getfa
  <1>2. PICK V : fafcs \in [DOMAIN fafcs -> Chan(V)]
    BY DEF ChannelType
  <1>3. PICK W : y \in Chan(W) /\ y.status = fafcs[k].status
    BY <1>2, HandledChannel
  <1>4. PICK S : cmds \in Seq(S)
    BY DEF ChannelType
  <1> HIDE DEF y, more
  <1>5. CASE ~free
    <2>1. fafcs' = [fafcs EXCEPT ![k] = y] /\ cmds' = cmds
      BY <1>1, <1>5
    <2>2. /\ \E Z : fafcs' \in [DOMAIN fafcs' -> Chan(Z)]
          /\ DOMAIN fafcs' = DOMAIN fafcs
          /\ \A j \in DOMAIN fafcs : fafcs'[j] = IF j = k THEN y ELSE fafcs[j]
      BY <1>2, <1>3, <2>1, ChannelSet
    <2>3. From(cmds, cmds', 0, "getfa")
      BY <1>4, <2>1, FromSame
    <2>4. ChannelThere'
      BY <1>3, <2>2, <2>3, ChannelMoves
    <2> QED BY <1>4, <2>1, <2>2, <2>4 DEF ChannelType
  <1>6. CASE free
    <2>1. fafcs[k].status # "INFLIGHT"
      BY <1>3, <1>6 DEF idle
    <2>2. \A i \in DOMAIN cmds : cmds[i].op = "getfa" => cmds[i].k # k
      BY <2>1 DEF ChannelThere
    <2>3. CASE ~more
      <3>1. fafcs' = Without(fafcs, {k}) /\ cmds' = cmds
        BY <1>1, <1>6, <2>3
      <3>2. /\ DOMAIN fafcs' = DOMAIN fafcs \ {k} /\ fafcs' \in [DOMAIN fafcs' -> Chan(V)]
            /\ \A j \in DOMAIN fafcs : j # k => fafcs'[j] = fafcs[j]
        BY <1>2, <3>1 DEF Without
      <3>3. From(cmds, cmds', 0, "getfa")
        BY <1>4, <3>1, FromSame
      <3>4. ChannelThere'
        BY <2>2, <3>1, <3>2, <3>3, ChannelMoves
      <3> QED BY <1>4, <3>1, <3>2, <3>4 DEF ChannelType
    <2>4. CASE more
      <3> DEFINE z == [y EXCEPT !.status = "INFLIGHT"]
                 q == Getfa(k)
      <3>1. fafcs' = [fafcs EXCEPT ![k] = z] /\ cmds' = Append(cmds, q)
        BY <1>1, <1>6, <2>4
      <3>2. z \in Chan(W) /\ z.status = "INFLIGHT"
        BY <1>3 DEF Chan
      <3>3. q.op = "getfa" /\ q.k = k
        BY DEF Getfa
      <3> HIDE DEF z, q
      <3>4. /\ \E Z : fafcs' \in [DOMAIN fafcs' -> Chan(Z)]
            /\ DOMAIN fafcs' = DOMAIN fafcs
            /\ \A j \in DOMAIN fafcs : fafcs'[j] = IF j = k THEN z ELSE fafcs[j]
        <4>1. /\ \E Z : [fafcs EXCEPT ![k] = z] \in [DOMAIN [fafcs EXCEPT ![k] = z] -> Chan(Z)]
              /\ DOMAIN [fafcs EXCEPT ![k] = z] = DOMAIN fafcs
              /\ \A j \in DOMAIN fafcs : [fafcs EXCEPT ![k] = z][j] = IF j = k THEN z ELSE fafcs[j]
          BY <1>2, <3>2, ChannelSet
        <4> QED BY <3>1, <4>1
      <3>5. /\ cmds' \in Seq(S \union {q})
            /\ \A i \in DOMAIN cmds' : \/ i \in DOMAIN cmds /\ cmds'[i] = cmds[i]
                                       \/ i = Len(cmds) + 1 /\ cmds'[i] = q
        BY <1>4, <3>1, AppendIndex
      <3>6. ChannelThere'
        BY <2>2, <3>2, <3>3, <3>4, <3>5 DEF ChannelThere
      <3> QED BY <3>4, <3>5, <3>6 DEF ChannelType
    <2> QED BY <2>3, <2>4
  <1> QED BY <1>5, <1>6

(* Storing adds no command that retrieves. *)
LEMMA FinishCmds ==
    ASSUME NEW S, NEW c \in PutRec(S), QueueOK(c)
    PROVE  From(c.cmds, finish(c).cmds, 0, "getfa")
  <1>0. c.cmds \in Seq(S)
    BY DEF PutRec
  <1>1. CASE finish(c) = c
    BY <1>0, <1>1, FromSame
  <1>2. CASE c.cur # None /\ c.status[c.cur] = "SUCCESS"
    <2> DEFINE q == [op |-> "pfa", a |-> c.cur]
    <2>1. c.cur \in Attr /\ c.newfa # << >>
      BY <1>2 DEF PutRec, QueueOK
    <2>2. stored(c, c.cur).cmds = Append(c.cmds, q) \/ stored(c, c.cur).cmds = c.cmds
      <3> DEFINE a == c.cur
      <3>1. PICK e, T :
               /\ e = stored(c, a) /\ e \in PutRec(T)
               /\ e.newfa = Erased(c.newfa, a)
               /\ e.cur = None /\ e.bt = "ready"
               /\ e.status = [c.status EXCEPT ![a] = "done"]
               /\ e.http = [c.http EXCEPT ![a] = IF @ = 0 THEN 0 ELSE @ - 1]
               /\ \/ /\ nodeOf(a[1]) /\ e.pending = c.pending
                     /\ e.cmds = Append(c.cmds, q)
                  \/ /\ ~nodeOf(a[1]) /\ e.pending = c.pending \union {a}
                     /\ e.cmds = c.cmds
        BY <2>1, StoredFields
      <3> QED BY <3>1
    <2>3. q.op # "getfa"
      OBVIOUS
    <2> HIDE DEF q
    <2>4. finish(c) = stored(c, c.cur)
      BY <1>2 DEF finish
    <2> QED BY <1>0, <2>2, <2>3, <2>4, FromSame, FromAppend
  <1>3. CASE c.cur # None /\ c.status[c.cur] \in {"BADSIZE", "FAILURE"}
    <2> DEFINE b == IF c.status[c.cur] = "BADSIZE" THEN "ready" ELSE "waiting"
    <2>1. finish(c) = Ended(c, b) /\ b \in {"ready", "waiting"}
      BY <1>3 DEF finish, Ended
    <2> HIDE DEF b
    <2>2. finish(c).cmds = c.cmds
      BY <2>1, EndFields
    <2> QED BY <1>0, <2>2, FromSame
  <1>4. c.cur # None => c.status[c.cur] \in Stat \ {"new", "done"}
    <2>1. c.cur # None => c.cur = c.newfa[1] /\ 1 \in DOMAIN c.newfa /\ c.newfa[1] \in Attr
      BY DEF QueueOK, PutRec
    <2> QED BY <2>1 DEF QueueOK, PutRec
  <1>5. CASE c.cur = None \/ c.status[c.cur] \in {"READY", "INFLIGHT"}
    <2>1. finish(c) = c
      BY <1>5 DEF finish
    <2> QED BY <1>1, <2>1
  <1> QED BY <1>2, <1>3, <1>4, <1>5 DEF Stat

(* Requesting the next attribute adds no command that retrieves. *)
LEMMA StartCmds ==
    ASSUME NEW S, NEW c \in PutRec(S)
    PROVE  From(c.cmds, start(c).cmds, 0, "getfa")
  <1>0. c.cmds \in Seq(S)
    BY DEF PutRec
  <1>1. CASE ~(c.newfa # << >> /\ c.cur = None /\ c.bt = "ready")
    <2>1. start(c) = c
      BY <1>1 DEF start
    <2> QED BY <1>0, <2>1, FromSame
  <1>2. CASE c.newfa # << >> /\ c.cur = None /\ c.bt = "ready"
    <2>1. PICK q : q.op = "ufa" /\ start(c).cmds = Append(c.cmds, q)
      <3>1. \A h : [op |-> "ufa", a |-> h].op = "ufa"
        OBVIOUS
      <3>2. PICK e, T, h :
               /\ e = start(c) /\ e \in PutRec(T) /\ h = c.newfa[1] /\ h \in Attr
               /\ e.newfa = c.newfa /\ e.cur = h /\ e.bt = c.bt
               /\ e.status = [c.status EXCEPT ![h] = "INFLIGHT"]
               /\ e.http = c.http /\ e.pending = c.pending
               /\ e.cmds = Append(c.cmds, [op |-> "ufa", a |-> h])
        BY <1>2, StartFields
      <3> QED BY <3>1, <3>2
    <2> QED BY <1>0, <2>1, FromAppend
  <1> QED BY <1>1, <1>2

(* No step that stores touches channels or adds commands that retrieve. *)
LEMMA StoreCmds ==
    ASSUME Attach, Attach', Store
    PROVE  /\ fafcs' = fafcs /\ \E T : cmds' \in Seq(T)
           /\ \E m \in {0, 1} : From(cmds, cmds', m, "getfa")
  <1>0. PICK S : Puts \in PutRec(S)
    BY DEF Attach
  <1>00. cmds \in Seq(S)
    BY <1>0, PutsParts
  <1>01. \E T : cmds' \in Seq(T)
    <2>1. \E T : Puts' \in PutRec(T)
      BY DEF Attach, PutRec
    <2> QED BY <2>1, PutsParts
  <1>1. CASE \E a \in Attr : putfa(a)
    <2> PICK a \in Attr : putfa(a)
      BY <1>1
    <2> DEFINE d == Queued(Puts, a)
    <2>1. d \in PutRec(S) /\ d.cmds = cmds /\ d.newfa = Append(newfa, a)
      <3> DEFINE c == Puts
      <3>1. /\ d \in PutRec(S)
            /\ d.newfa = Append(c.newfa, a) /\ d.cur = c.cur /\ d.bt = c.bt
            /\ d.status = [c.status EXCEPT ![a] = "READY"]
            /\ d.http = c.http /\ d.pending = c.pending /\ d.cmds = c.cmds
        BY <1>0, QueueFields
      <3>2. Puts.cmds = cmds /\ Puts.newfa = newfa
        BY PutsParts
      <3> QED BY <3>1, <3>2, Zenon
    <2>2. d.newfa # << >>
      <3>1. newfa \in Seq(Attr)
        BY <1>0, PutsParts
      <3>2. Append(newfa, a) # << >>
        BY <3>1, AppendFirst
      <3> QED BY <2>1, <3>2, Zenon
    <2>3. Become(d) \/ Become(Requested(d))
      BY DEF putfa, Queued, Requested, Ufa
    <2> HIDE DEF d
    <2>4. Requested(d).cmds = Append(cmds, Ufa(d.newfa[1]))
      BY <2>1, <2>2, RequestFields
    <2>5. cmds' = cmds \/ cmds' = Append(cmds, Ufa(d.newfa[1]))
      BY <2>1, <2>3, <2>4 DEF Become
    <2>6. \A h : Ufa(h).op # "getfa"
      BY DEF Ufa
    <2>7. From(cmds, cmds', 0, "getfa")
      BY <1>00, <2>5, <2>6, FromSame, FromAppend
    <2> QED BY <1>01, <2>7 DEF putfa, fetchVars
  <1>2. CASE execPut
    <2> DEFINE d == finish(Puts)
               e == start(d)
    <2>1. PICK T : d \in PutRec(T)
      BY <1>0, FinishKeeps DEF Attach
    <2>2. From(cmds, d.cmds, 0, "getfa")
      BY <1>0, FinishCmds, PutsParts DEF Attach
    <2>3. From(d.cmds, e.cmds, 0, "getfa")
      BY <2>1, StartCmds
    <2>4. cmds' = e.cmds /\ fafcs' = fafcs
      BY <1>2 DEF execPut, Become, fetchVars
    <2> HIDE DEF d, e
    <2>5. From(cmds, e.cmds, 0, "getfa")
      <3>1. DOMAIN cmds \subseteq Int /\ DOMAIN e.cmds \subseteq Int
        BY <2>2, <2>3 DEF From
      <3>2. \A i \in DOMAIN e.cmds : i + 0 = i
        BY <3>1
      <3>3. \A i \in DOMAIN e.cmds : e.cmds[i].op = "getfa" => i \in DOMAIN cmds /\ e.cmds[i] = cmds[i]
        <4>1. \A i \in DOMAIN e.cmds : e.cmds[i].op = "getfa" => i \in DOMAIN d.cmds /\ e.cmds[i] = d.cmds[i]
          BY <2>3, <3>2 DEF From
        <4>2. \A i \in DOMAIN d.cmds : d.cmds[i].op = "getfa" => i \in DOMAIN cmds /\ d.cmds[i] = cmds[i]
          BY <2>2 DEF From
        <4> QED BY <4>1, <4>2
      <3> QED BY <3>1, <3>2, <3>3 DEF From
    <2> QED BY <1>01, <2>4, <2>5
  <1>3. CASE putfaResult \/ attachResult
    <2>1. cmds # << >> /\ cmds' = Tail(cmds) /\ fafcs' = fafcs
      BY <1>3 DEF putfaResult, attachResult, fetchVars
    <2> QED BY <1>00, <1>01, <2>1, FromTail
  <1>4. CASE btpfaElapse \/ (\E a \in Attr : putfaPosted(a)) \/ (\E u \in Upload : nodeRemoved(u))
    <2>1. cmds' = cmds /\ fafcs' = fafcs
      BY <1>4 DEF btpfaElapse, putfaPosted, nodeRemoved, fetchVars
    <2> QED BY <1>00, <1>01, <2>1, FromSame
  <1>5. CASE \E u \in Upload : putnodes(u)
    <2>1. PICK q : q.op # "getfa" /\ cmds' = Append(cmds, q)
      <3>1. \A u, P : [op |-> "put", u |-> u, fa |-> P].op # "getfa"
        OBVIOUS
      <3>2. \E u, P : cmds' = Append(cmds, [op |-> "put", u |-> u, fa |-> P])
        BY <1>5, Zenon DEF putnodes
      <3> QED BY <3>1, <3>2
    <2>2. fafcs' = fafcs
      BY <1>5 DEF putnodes, fetchVars
    <2> QED BY <1>00, <1>01, <2>1, <2>2, FromAppend
  <1>6. CASE putnodesResult
    <2>1. /\ cmds # << >> /\ fafcs' = fafcs
          /\ \/ \E u : cmds' = Tail(cmds) \o attachPending(u)
             \/ cmds' = Tail(cmds)
      BY <1>6 DEF putnodesResult, fetchVars
    <2> QED BY <1>00, <1>01, <2>1, FromAdded, FromTail
  <1> QED BY <1>1, <1>2, <1>3, <1>4, <1>5, <1>6 DEF Store

(* The server answers a command that fetches. *)
LEMMA ChannelResult ==
    ASSUME ChannelType, ChannelThere, getfaResult
    PROVE  ChannelType' /\ ChannelThere'
  <1> DEFINE k == Head(cmds).k
  <1>1. PICK S : cmds \in Seq(S)
    BY DEF ChannelType
  <1>2. PICK V : fafcs \in [DOMAIN fafcs -> Chan(V)]
    BY DEF ChannelType
  <1>3. cmds # << >> /\ Head(cmds).op = "getfa" /\ cmds' = Tail(cmds)
    BY DEF getfaResult
  <1>4. /\ cmds' \in Seq(S) /\ Head(cmds) = cmds[1] /\ 1 \in DOMAIN cmds
        /\ \A i \in DOMAIN cmds' : i + 1 \in DOMAIN cmds /\ i + 1 # 1 /\ cmds'[i] = cmds[i + 1]
    BY <1>1, <1>3, TailIndex
  <1>5. From(cmds, cmds', 1, "getfa")
    BY <1>1, <1>3, FromTail
  <1>6. k \in DOMAIN fafcs /\ \A i \in DOMAIN cmds' : cmds'[i].op = "getfa" => cmds'[i].k # k
    BY <1>3, <1>4 DEF ChannelThere
  <1>7. \E y, W : y \in Chan(W) /\ fafcs' = [fafcs EXCEPT ![k] = y]
    <2>1. \/ \E A : fafcs' = [fafcs EXCEPT ![k] = [@ EXCEPT !.answer = A, !.got = 0, !.completed = 0]]
          \/ fafcs' = [fafcs EXCEPT ![k].status = "FAILURE"]
      BY <1>6 DEF getfaResult
    <2> DEFINE x == fafcs[k]
    <2>2. x \in Chan(V)
      BY <1>2, <1>6
    <2>3. CASE \E A : fafcs' = [fafcs EXCEPT ![k] = [@ EXCEPT !.answer = A, !.got = 0, !.completed = 0]]
      <3> PICK A : fafcs' = [fafcs EXCEPT ![k] = [@ EXCEPT !.answer = A, !.got = 0, !.completed = 0]]
        BY <2>3
      <3> DEFINE y == [x EXCEPT !.answer = A, !.got = 0, !.completed = 0]
                 W == V \union {A, 0}
      <3>1. fafcs' = [fafcs EXCEPT ![k] = y]
        OBVIOUS
      <3>2. x \in Chan(W) /\ A \in W /\ 0 \in W
        BY <2>2 DEF Chan
      <3> HIDE DEF W, x
      <3>3. y \in Chan(W)
        BY <3>2, Zenon DEF Chan
      <3> HIDE DEF y
      <3> QED BY <3>1, <3>3, Zenon
    <2>4. CASE fafcs' = [fafcs EXCEPT ![k].status = "FAILURE"]
      <3> DEFINE y == [x EXCEPT !.status = "FAILURE"]
      <3>1. fafcs' = [fafcs EXCEPT ![k] = y]
        BY <2>4
      <3> HIDE DEF x
      <3>2. y \in Chan(V)
        BY <2>2, Zenon DEF Chan
      <3> HIDE DEF y
      <3> QED BY <3>1, <3>2, Zenon
    <2> QED BY <2>1, <2>3, <2>4
  <1>8. PICK y, W : y \in Chan(W) /\ fafcs' = [fafcs EXCEPT ![k] = y]
    BY <1>7
  <1> HIDE DEF k
  <1>9. /\ \E Z : fafcs' \in [DOMAIN fafcs' -> Chan(Z)]
        /\ DOMAIN fafcs' = DOMAIN fafcs
        /\ \A j \in DOMAIN fafcs : fafcs'[j] = IF j = k THEN y ELSE fafcs[j]
    BY <1>2, <1>6, <1>8, ChannelSet
  <1>10. ChannelThere'
    BY <1>5, <1>6, <1>9, ChannelMoves
  <1> QED BY <1>4, <1>9, <1>10 DEF ChannelType

(* Every step that retrieves keeps a channel for its commands. *)
LEMMA ChannelFetch ==
    ASSUME ChannelType, ChannelThere, Retrieve
    PROVE  ChannelType' /\ ChannelThere'
  <1>1. PICK S : cmds \in Seq(S)
    BY DEF ChannelType
  <1>2. PICK V : fafcs \in [DOMAIN fafcs -> Chan(V)]
    BY DEF ChannelType
  <1>3. CASE \E f \in Fah : \E d \in BOOLEAN : getfa(f, d)
    <2> PICK f \in Fah, d \in BOOLEAN : getfa(f, d)
      BY <1>3
    <2>1. cmds' = cmds /\ (fafcs' = fafcs \/ (f[1] \notin DOMAIN fafcs /\ fafcs' = Insert(fafcs, f[1], Channel)))
      BY DEF getfa
    <2>2. CASE fafcs' = fafcs
      BY <2>1, <2>2 DEF ChannelType, ChannelThere
    <2>3. CASE f[1] \notin DOMAIN fafcs /\ fafcs' = Insert(fafcs, f[1], Channel)
      <3> DEFINE W == V \union {<< >>, 0}
      <3>1. Channel \in Chan(W) /\ Chan(V) \subseteq Chan(W)
        BY DEF Channel, Chan
      <3> HIDE DEF W
      <3>2. /\ DOMAIN fafcs' = DOMAIN fafcs \union {f[1]} /\ fafcs' \in [DOMAIN fafcs' -> Chan(W)]
            /\ \A j \in DOMAIN fafcs : fafcs'[j] = fafcs[j]
        BY <1>2, <2>3, <3>1 DEF Insert
      <3>3. From(cmds, cmds', 0, "getfa")
        BY <1>1, <2>1, FromSame
      <3>4. ChannelThere'
        BY <3>2, <3>3, ChannelMoves
      <3> QED BY <1>1, <2>1, <3>2, <3>4 DEF ChannelType
    <2> QED BY <2>1, <2>2, <2>3
  <1>4. CASE \E f \in Fah : getfaCancel(f) \/ attrNodeRemoved(f)
    BY <1>4 DEF getfaCancel, attrNodeRemoved, fetchVars, ChannelType, ChannelThere
  <1>5. CASE \E k \in DOMAIN fafcs : \E quit : execFetch(k, quit)
    BY <1>5, ChannelExec
  <1>6. CASE \E k \in DOMAIN fafcs : btElapse(k) \/ fetchData(k) \/ fetchDone(k)
    <2> PICK k \in DOMAIN fafcs : btElapse(k) \/ fetchData(k) \/ fetchDone(k)
      BY <1>6
    <2> DEFINE x == fafcs[k]
    <2>0. x \in Chan(V)
      BY <1>2
    <2>1. cmds' = cmds
      BY DEF btElapse, fetchData, fetchDone
    <2>2. \/ fafcs' = [fafcs EXCEPT ![k] = [x EXCEPT !.bt = "ready"]]
          \/ fafcs' = [fafcs EXCEPT ![k] = [x EXCEPT !.got = x.got + 1]]
          \/ /\ posted(k)
             /\ \/ fafcs' = [fafcs EXCEPT ![k] = [x EXCEPT !.status = "SUCCESS"]]
                \/ fafcs' = [fafcs EXCEPT ![k] = [x EXCEPT !.status = "FAILURE"]]
      <3>1. CASE btElapse(k)
        BY <3>1 DEF btElapse
      <3>2. CASE fetchData(k)
        BY <3>2 DEF fetchData
      <3>3. CASE fetchDone(k)
        BY <3>3 DEF fetchDone
      <3> QED BY <3>1, <3>2, <3>3
    <2> DEFINE W == V \union {x.got + 1}
    <2>3. x \in Chan(W) /\ x.got + 1 \in W
      BY <2>0 DEF Chan
    <2> HIDE DEF W, x
    <2>4. \E y : /\ y \in Chan(W) /\ fafcs' = [fafcs EXCEPT ![k] = y]
                 /\ y.status = x.status \/ posted(k)
      <3>1. CASE fafcs' = [fafcs EXCEPT ![k] = [x EXCEPT !.bt = "ready"]]
        <4> DEFINE y == [x EXCEPT !.bt = "ready"]
        <4>1. y \in Chan(W) /\ y.status = x.status
          BY <2>3 DEF Chan
        <4> HIDE DEF y
        <4> QED BY <3>1, <4>1, Zenon DEF y
      <3>2. CASE fafcs' = [fafcs EXCEPT ![k] = [x EXCEPT !.got = x.got + 1]]
        <4> DEFINE y == [x EXCEPT !.got = x.got + 1]
        <4>1. y \in Chan(W) /\ y.status = x.status
          BY <2>3 DEF Chan
        <4> HIDE DEF y
        <4> QED BY <3>2, <4>1, Zenon DEF y
      <3>3. ASSUME NEW st \in {"SUCCESS", "FAILURE"}, posted(k),
                   fafcs' = [fafcs EXCEPT ![k] = [x EXCEPT !.status = st]]
            PROVE  \E y : /\ y \in Chan(W) /\ fafcs' = [fafcs EXCEPT ![k] = y]
                          /\ y.status = x.status \/ posted(k)
        <4> DEFINE y == [x EXCEPT !.status = st]
        <4>1. y \in Chan(W)
          BY <2>3 DEF Chan
        <4> HIDE DEF y
        <4> QED BY <3>3, <4>1, Zenon DEF y
      <3> QED BY <2>2, <3>1, <3>2, <3>3, Zenon
    <2>5. PICK y : /\ y \in Chan(W) /\ fafcs' = [fafcs EXCEPT ![k] = y]
                   /\ y.status = x.status \/ posted(k)
      BY <2>4
    <2>6. /\ \E Z : fafcs' \in [DOMAIN fafcs' -> Chan(Z)]
          /\ DOMAIN fafcs' = DOMAIN fafcs
          /\ \A j \in DOMAIN fafcs : fafcs'[j] = IF j = k THEN y ELSE fafcs[j]
      BY <1>2, <2>5, ChannelSet
    <2>7. From(cmds, cmds', 0, "getfa")
      BY <1>1, <2>1, FromSame
    <2>8. \A i \in DOMAIN cmds' : cmds'[i].op = "getfa" /\ cmds'[i].k = k => y.status = x.status
      BY <2>1, <2>5 DEF posted
    <2>9. ChannelThere'
      BY <2>6, <2>7, <2>8, ChannelMoves DEF x
    <2> QED BY <1>1, <2>1, <2>6, <2>9 DEF ChannelType
  <1>7. CASE getfaResult
    BY <1>7, ChannelResult
  <1> QED BY <1>3, <1>4, <1>5, <1>6, <1>7 DEF Retrieve

(* Every step keeps a channel for the commands that fetch. *)
LEMMA ChannelStep ==
    ASSUME Attach, Attach', ChannelType, ChannelThere, [Next]_vars
    PROVE  ChannelType' /\ ChannelThere'
  <1>1. CASE Store
    <2>1. fafcs' = fafcs /\ \E T : cmds' \in Seq(T)
      BY <1>1, StoreCmds
    <2>2. PICK m \in {0, 1} : From(cmds, cmds', m, "getfa")
      BY <1>1, StoreCmds
    <2>3. ChannelThere'
      BY <2>1, <2>2, ChannelMoves
    <2> QED BY <2>1, <2>3 DEF ChannelType
  <1>2. CASE Retrieve
    BY <1>2, ChannelFetch
  <1>3. CASE UNCHANGED vars
    BY <1>3 DEF vars, fetchVars, ChannelType, ChannelThere
  <1> QED BY <1>1, <1>2, <1>3 DEF Next

(* In every behaviour a command that fetches attributes finds its channel in
   flight when it is answered, and is the only one for it: exec() deletes a
   channel only when it has nothing to retrieve, and requests again only when
   the previous command or request has ended. *)
THEOREM Channels == Spec => []ChannelThere
  <1>1. Init => ChannelType /\ ChannelThere
    <2> SUFFICES ASSUME Init PROVE ChannelType /\ ChannelThere
      OBVIOUS
    <2>1. cmds = << >> /\ fafcs = << >>
      BY DEF Init
    <2>2. cmds \in Seq({}) /\ DOMAIN cmds = {} /\ DOMAIN fafcs = {} /\ fafcs \in [{} -> Chan({})]
      BY <2>1
    <2> QED BY <2>2 DEF ChannelType, ChannelThere
  <1>2. Attach /\ Attach' /\ ChannelType /\ ChannelThere /\ [Next]_vars
            => ChannelType' /\ ChannelThere'
    BY ChannelStep
  <1> QED BY <1>1, <1>2, AttachInit, AttachStep, PTL DEF Spec

-----------------------------------------------------------------------------
\* Only the attribute in progress has a command or a request outstanding, and
\* then it has not failed; the others have not been requested, or wait.
Asked(c) ==
    \A i \in DOMAIN c.cmds :
        c.cmds[i].op = "ufa" => /\ c.cur # None /\ c.cmds[i].a = c.cur
                                /\ c.status[c.cur] \in {"READY", "INFLIGHT"}
                                /\ c.http[c.cur] = 0
AskedOnce(c) ==
    \A i, j \in DOMAIN c.cmds : c.cmds[i].op = "ufa" /\ c.cmds[j].op = "ufa" => i = j
Posted(c) ==
    \A a \in Attr : c.http[a] # 0 => a = c.cur /\ c.http[a] = 1 /\ c.status[a] = "INFLIGHT"

OneRequest(c) == Asked(c) /\ AskedOnce(c) /\ Posted(c)

Rest(c) == \A i \in DOMAIN c.newfa :
    c.newfa[i] # c.cur => c.status[c.newfa[i]] \in {"READY", "FAILURE"}

\* in the middle of exec(), the first of the queue may be about to be requested
Between(c) == \A i \in DOMAIN c.newfa :
    c.newfa[i] # c.cur => \/ c.status[c.newfa[i]] \in {"READY", "FAILURE"}
                          \/ i = 1 /\ c.cur = None /\ c.bt = "ready"

OneByOne == ~wrong /\ OneRequest(Puts) /\ Rest(Puts)

\* no attribute has been requested
NoUfa(s) == \A i \in DOMAIN s : s[i].op # "ufa"

(* Nothing is outstanding for an attribute that has ended, or if there is
   none in progress. *)
LEMMA Nothing ==
    ASSUME NEW S, NEW c \in PutRec(S), OneRequest(c),
           c.cur = None \/ c.status[c.cur] \notin {"READY", "INFLIGHT"}
    PROVE  NoUfa(c.cmds) /\ \A a \in Attr : c.http[a] = 0
  <1>1. NoUfa(c.cmds)
    BY DEF OneRequest, Asked, NoUfa
  <1>2. \A a \in Attr : c.http[a] = 0
    BY NoneIsNone DEF OneRequest, Posted
  <1> QED BY <1>1, <1>2

(* exec() ends the attribute in progress, which leaves nothing outstanding. *)
LEMMA FinishSequential ==
    ASSUME NEW S, NEW c \in PutRec(S), QueueOK(c), OneRequest(c), Rest(c)
    PROVE  OneRequest(finish(c)) /\ Between(finish(c))
  <1>1. CASE finish(c) = c
    BY <1>1 DEF Rest, Between
  <1>2. CASE c.cur # None /\ c.status[c.cur] = "SUCCESS"
    <2> DEFINE a == c.cur
               q == [op |-> "pfa", a |-> a]
    <2>1. /\ a \in Attr /\ c.newfa # << >> /\ a = c.newfa[1] /\ c.newfa \in Seq(Attr)
          /\ c.status \in [Attr -> Stat] /\ c.http \in [Attr -> Nat] /\ c.cmds \in Seq(S)
      BY <1>2 DEF PutRec, QueueOK
    <2>2. PICK e, T :
             /\ e = stored(c, a) /\ e \in PutRec(T)
             /\ e.newfa = Erased(c.newfa, a)
             /\ e.cur = None /\ e.bt = "ready"
             /\ e.status = [c.status EXCEPT ![a] = "done"]
             /\ e.http = [c.http EXCEPT ![a] = IF @ = 0 THEN 0 ELSE @ - 1]
             /\ \/ /\ nodeOf(a[1]) /\ e.pending = c.pending
                   /\ e.cmds = Append(c.cmds, q)
                \/ /\ ~nodeOf(a[1]) /\ e.pending = c.pending \union {a}
                   /\ e.cmds = c.cmds
      BY <2>1, StoredFields
    <2>3. finish(c) = e
      BY <1>2, <2>2 DEF finish
    <2>4. NoUfa(c.cmds) /\ \A x \in Attr : c.http[x] = 0
      BY <1>2, Nothing
    <2>5. \A x \in Attr : e.http[x] = 0 /\ (x # a => e.status[x] = c.status[x])
      BY <2>1, <2>2, <2>4
    <2>6. q.op # "ufa"
      OBVIOUS
    <2>61. e.cmds = Append(c.cmds, q) \/ e.cmds = c.cmds
      BY <2>2
    <2>62. /\ DOMAIN e.newfa \subseteq Int
           /\ \A j \in DOMAIN e.newfa :
                 j + 1 \in DOMAIN c.newfa /\ j + 1 # 1 /\ e.newfa[j] = c.newfa[j + 1]
      <3>1. e.newfa = Erased(c.newfa, c.newfa[1]) /\ IsInjective(c.newfa)
        BY <2>1, <2>2 DEF QueueOK
      <3> QED BY <2>1, <3>1, ErasedFirst
    <2>63. e.cur = None
      BY <2>2
    <2> HIDE DEF q, a
    <2>7. NoUfa(e.cmds)
      BY <2>1, <2>4, <2>6, <2>61, AppendIndex DEF NoUfa
    <2>8. OneRequest(e)
      BY <2>5, <2>7 DEF OneRequest, Asked, AskedOnce, Posted, NoUfa
    <2>9. Between(e)
      <3>1. \A j \in DOMAIN e.newfa : e.newfa[j] \in Attr /\ e.newfa[j] # a
        <4>1. \A j \in DOMAIN c.newfa : c.newfa[j] \in Attr
          BY <2>1
        <4>2. 1 \in DOMAIN c.newfa
          BY <2>1
        <4> QED BY <2>1, <2>62, <4>1, <4>2 DEF QueueOK, IsInjective
      <3>2. \A j \in DOMAIN e.newfa : e.status[e.newfa[j]] \in {"READY", "FAILURE"}
        BY <2>5, <2>62, <3>1 DEF Rest, a
      <3> QED BY <3>2 DEF Between
    <2> QED BY <2>3, <2>8, <2>9
  <1>3. CASE c.cur # None /\ c.status[c.cur] \in {"BADSIZE", "FAILURE"}
    <2> DEFINE b == IF c.status[c.cur] = "BADSIZE" THEN "ready" ELSE "waiting"
               e == Ended(c, b)
    <2>1. finish(c) = e /\ b \in {"ready", "waiting"} /\ (b = "ready" \/ c.status[c.cur] = "FAILURE")
      BY <1>3 DEF finish, Ended
    <2> HIDE DEF b
    <2>2. /\ e.newfa = c.newfa /\ e.cur = None /\ e.bt = b /\ e.status = c.status
          /\ e.http = c.http /\ e.pending = c.pending /\ e.cmds = c.cmds
      BY <2>1, EndFields
    <2>3. NoUfa(c.cmds) /\ \A x \in Attr : c.http[x] = 0
      BY <1>3, Nothing
    <2> HIDE DEF e
    <2>4. OneRequest(e)
      BY <2>2, <2>3 DEF OneRequest, Asked, AskedOnce, Posted, NoUfa
    <2>5. Between(e)
      <3>1. c.cur = c.newfa[1] /\ IsInjective(c.newfa) /\ 1 \in DOMAIN c.newfa
        BY <1>3 DEF QueueOK, PutRec
      <3>2. \A i \in DOMAIN c.newfa : c.newfa[i] = c.cur => i = 1
        BY <3>1 DEF IsInjective
      <3> QED BY <2>1, <2>2, <3>1, <3>2 DEF Rest, Between
    <2> QED BY <2>1, <2>4, <2>5
  <1>4. c.cur # None => c.status[c.cur] \in Stat \ {"new", "done"}
    <2>1. c.cur # None => c.cur = c.newfa[1] /\ 1 \in DOMAIN c.newfa /\ c.newfa[1] \in Attr
      BY DEF QueueOK, PutRec
    <2> QED BY <2>1 DEF QueueOK, PutRec
  <1>5. CASE c.cur = None \/ c.status[c.cur] \in {"READY", "INFLIGHT"}
    <2>1. finish(c) = c
      BY <1>5 DEF finish
    <2> QED BY <1>1, <2>1
  <1> QED BY <1>2, <1>3, <1>4, <1>5 DEF Stat

(* exec() requests an attribute when nothing is outstanding. *)
LEMMA StartSequential ==
    ASSUME NEW S, NEW c \in PutRec(S), QueueOK(c), OneRequest(c), Between(c)
    PROVE  OneRequest(start(c)) /\ Rest(start(c))
  <1>0. c.newfa \in Seq(Attr) /\ c.bt \in {"ready", "waiting"} /\ c.cmds \in Seq(S)
        /\ c.status \in [Attr -> Stat]
    BY DEF PutRec
  <1>1. CASE ~(c.newfa # << >> /\ c.cur = None /\ c.bt = "ready")
    <2>1. start(c) = c
      BY <1>1 DEF start
    <2>2. c.newfa = << >> => DOMAIN c.newfa = {}
      OBVIOUS
    <2> QED BY <1>1, <2>1, <2>2 DEF Rest, Between
  <1>2. CASE c.newfa # << >> /\ c.cur = None /\ c.bt = "ready"
    <2>1. PICK e, T, h :
              /\ e = start(c) /\ e \in PutRec(T) /\ h = c.newfa[1] /\ h \in Attr
              /\ e.newfa = c.newfa /\ e.cur = h /\ e.bt = c.bt
              /\ e.status = [c.status EXCEPT ![h] = "INFLIGHT"]
              /\ e.http = c.http /\ e.pending = c.pending
              /\ e.cmds = Append(c.cmds, [op |-> "ufa", a |-> h])
      BY <1>2, StartFields
    <2>2. NoUfa(c.cmds) /\ \A x \in Attr : c.http[x] = 0
      BY <1>2, Nothing
    <2> DEFINE q == [op |-> "ufa", a |-> h]
    <2>3. q.a = h /\ e.cmds = Append(c.cmds, q)
      BY <2>1
    <2>4. \A x \in Attr : e.status[x] = IF x = h THEN "INFLIGHT" ELSE c.status[x]
      BY <1>0, <2>1
    <2> HIDE DEF q
    <2>5. \A i \in DOMAIN e.cmds : \/ i \in DOMAIN c.cmds /\ e.cmds[i] = c.cmds[i]
                                   \/ i = Len(c.cmds) + 1 /\ e.cmds[i] = q
      BY <1>0, <2>3, AppendIndex
    <2>6. OneRequest(e)
      <3>1. Asked(e)
        BY <2>1, <2>2, <2>3, <2>4, <2>5, NoneIsNone DEF Asked, NoUfa
      <3>2. AskedOnce(e)
        BY <2>2, <2>5 DEF AskedOnce, NoUfa
      <3>3. Posted(e)
        BY <2>1, <2>2 DEF Posted
      <3> QED BY <3>1, <3>2, <3>3 DEF OneRequest
    <2>7. Rest(e)
      <3>1. \A i \in DOMAIN c.newfa : c.newfa[i] \in Attr
        BY <1>0
      <3>2. \A i \in DOMAIN c.newfa : c.newfa[i] # h => i # 1 /\ c.newfa[i] # None
        BY <2>1, <3>1, NoneIsNone
      <3> QED BY <1>2, <2>1, <2>4, <3>1, <3>2 DEF Rest, Between
    <2> QED BY <2>1, <2>6, <2>7
  <1> QED BY <1>1, <1>2

(* The invariant after a step, from the record after it. *)
LEMMA OneByOneNext ==
    ASSUME ~wrong', OneRequest(Puts'), Rest(Puts')
    PROVE  OneByOne'
  BY DEF OneByOne, OneRequest, Asked, AskedOnce, Posted, Rest

(* The queue is not touched, and no attribute is requested. *)
LEMMA SequentialQuiet ==
    ASSUME OneByOne, UNCHANGED <<newfa, curfa, status, http, wrong>>,
           NEW m \in {0, 1}, From(cmds, cmds', m, "ufa")
    PROVE  OneByOne'
  <1> DEFINE c == Puts
             e == Puts'
  <1>1. /\ e.newfa = c.newfa /\ e.cur = c.cur /\ e.status = c.status /\ e.http = c.http
        /\ c.cmds = cmds /\ e.cmds = cmds'
    BY PutsParts
  <1>2. OneRequest(c) /\ Rest(c) /\ ~wrong'
    BY DEF OneByOne
  <1> HIDE DEF c, e
  <1>3. Asked(e)
    BY <1>1, <1>2 DEF OneRequest, Asked, From
  <1>4. AskedOnce(e)
    <2> SUFFICES ASSUME NEW i \in DOMAIN cmds', NEW j \in DOMAIN cmds',
                        cmds'[i].op = "ufa", cmds'[j].op = "ufa"
                 PROVE  i = j
      BY <1>1 DEF AskedOnce
    <2>1. /\ i + m \in DOMAIN cmds /\ cmds[i + m].op = "ufa" /\ i \in Int
          /\ j + m \in DOMAIN cmds /\ cmds[j + m].op = "ufa" /\ j \in Int
      BY DEF From
    <2>2. i + m = j + m
      BY <1>1, <1>2, <2>1 DEF OneRequest, AskedOnce
    <2> QED BY <2>1, <2>2, Cancel
  <1>5. Posted(e) /\ Rest(e)
    BY <1>1, <1>2 DEF OneRequest, Posted, Rest
  <1> QED BY <1>2, <1>3, <1>4, <1>5, OneByOneNext DEF OneRequest, e

(* exec() keeps to one attribute. *)
LEMMA SequentialExec ==
    ASSUME Attach, OneByOne, execPut
    PROVE  OneByOne'
  <1>1. PICK S : Puts \in PutRec(S)
    BY DEF Attach
  <1> DEFINE d == finish(Puts)
             e == start(d)
  <1>2. PICK T : d \in PutRec(T) /\ QueueOK(d) /\ Once(d, attached, upload)
    BY <1>1, FinishKeeps DEF Attach
  <1>3. PICK U : e \in PutRec(U) /\ QueueOK(e) /\ Once(e, attached, upload)
    BY <1>2, StartKeeps
  <1>4. Become(e) /\ wrong' = wrong
    BY DEF execPut
  <1>5. OneRequest(d) /\ Between(d)
    BY <1>1, FinishSequential DEF Attach, OneByOne
  <1>6. OneRequest(e) /\ Rest(e)
    BY <1>2, <1>5, StartSequential
  <1> HIDE DEF e
  <1>7. Puts' = e
    BY <1>3, <1>4, Becomes
  <1>8. ~wrong'
    BY <1>4 DEF OneByOne
  <1> QED BY <1>6, <1>7, <1>8, OneByOneNext

(* If it has not been hurried, putfa() has requested the first of the queue
   only if none had failed. *)
LEMMA SequentialPutfa ==
    ASSUME ~hurried', Attach, OneByOne, NEW a \in Attr, putfa(a)
    PROVE  OneByOne'
  <1>1. PICK S : Puts \in PutRec(S)
    BY DEF Attach
  <1> DEFINE c == Puts
             d == Queued(c, a)
             e == IF curfa # None THEN d ELSE Requested(d)
  <1>2. /\ d \in PutRec(S)
        /\ d.newfa = Append(c.newfa, a) /\ d.cur = c.cur /\ d.bt = c.bt
        /\ d.status = [c.status EXCEPT ![a] = "READY"]
        /\ d.http = c.http /\ d.pending = c.pending /\ d.cmds = c.cmds
    BY <1>1, QueueFields
  <1>3. /\ status[a] = "new" /\ Become(e) /\ wrong' = wrong
    BY DEF putfa, Queued, Requested, Ufa
  <1>31. curfa = None => \A x \in Range(newfa) : status[x] # "FAILURE"
    BY Zenon DEF putfa
  <1>4. /\ c.status[a] = "new" /\ QueueOK(c) /\ OneRequest(c) /\ Rest(c) /\ curfa = c.cur
        /\ c.newfa \in Seq(Attr) /\ c.status \in [Attr -> Stat] /\ c.cmds \in Seq(S)
        /\ c.newfa = newfa /\ c.status = status /\ ~wrong
    BY <1>1, <1>3, PutsParts DEF Attach, OneByOne, PutRec
  <1> HIDE DEF c, d
  <1>5. /\ Append(c.newfa, a) # << >> /\ \A i \in DOMAIN c.newfa : c.newfa[i] \in Attr
    BY <1>4, AppendFirst
  <1>6. \A x \in Attr : d.status[x] = IF x = a THEN "READY" ELSE c.status[x]
    BY <1>2, <1>4
  <1>7. \A i \in DOMAIN d.newfa : \/ i \in DOMAIN c.newfa /\ d.newfa[i] = c.newfa[i]
                                  \/ i = Len(c.newfa) + 1 /\ d.newfa[i] = a
    BY <1>2, <1>4, AppendIndex
  <1>8. \A i \in DOMAIN c.newfa : c.newfa[i] # a
    BY <1>4 DEF QueueOK
  <1>9. Rest(d)
    BY <1>2, <1>4, <1>5, <1>6, <1>7, <1>8 DEF Rest
  <1>10. OneRequest(d)
    <2>1. c.cur # None => c.cur \in Attr /\ c.cur # a
      <3>1. c.cur # None => c.cur = c.newfa[1] /\ 1 \in DOMAIN c.newfa
        BY <1>4 DEF QueueOK
      <3> QED BY <1>5, <1>8, <3>1
    <2>2. Asked(d)
      BY <1>2, <1>4, <1>6, <2>1 DEF OneRequest, Asked
    <2>3. AskedOnce(d)
      BY <1>2, <1>4 DEF OneRequest, AskedOnce
    <2>4. Posted(d)
      BY <1>2, <1>4, <1>6 DEF OneRequest, Posted
    <2> QED BY <2>2, <2>3, <2>4 DEF OneRequest
  <1>11. CASE curfa # None
    <2>1. Puts' = d
      BY <1>2, <1>3, <1>11, Becomes
    <2> QED BY <1>3, <1>4, <1>9, <1>10, <2>1, OneByOneNext
  <1>12. CASE curfa = None
    <2> DEFINE f == Requested(d)
               h == d.newfa[1]
               q == Ufa(h)
    <2>1. d.newfa # << >>
      BY <1>2, <1>5
    <2>2. /\ h \in Attr /\ f.newfa = d.newfa /\ f.cur = h /\ f.bt = d.bt
          /\ f.status = d.status /\ f.http = d.http /\ f.pending = d.pending
          /\ f.cmds = Append(d.cmds, q)
      BY <1>2, <2>1, RequestFields
    <2>3. PICK T : f \in PutRec(T)
      BY <1>2, <2>1, RequestFields
    <2>4. q.op = "ufa" /\ q.a = h
      BY DEF Ufa
    <2>5. Puts' = f
      BY <1>3, <1>12, <2>3, Becomes
    <2>6. 1 \in DOMAIN d.newfa
      BY <1>2, <2>1 DEF PutRec
    <2>7. d.status[h] = "READY"
      <3>1. \A i \in DOMAIN c.newfa : c.status[c.newfa[i]] = "READY"
        <4>1. \A i \in DOMAIN c.newfa : c.newfa[i] # None /\ c.status[c.newfa[i]] # "FAILURE"
          BY <1>31, <1>4, <1>5, <1>12, NoneIsNone DEF Range
        <4> QED BY <1>4, <1>12, <4>1 DEF Rest
      <3> QED BY <1>5, <1>6, <1>7, <2>6, <3>1
    <2> HIDE DEF f, q, h
    <2>8. NoUfa(d.cmds) /\ \A x \in Attr : d.http[x] = 0
      BY <1>2, <1>4, <1>10, <1>12, Nothing
    <2>9. \A i \in DOMAIN f.cmds : \/ i \in DOMAIN d.cmds /\ f.cmds[i] = d.cmds[i]
                                   \/ i = Len(d.cmds) + 1 /\ f.cmds[i] = q
      BY <1>2, <1>4, <2>2, AppendIndex
    <2>10. OneRequest(f)
      <3>1. Asked(f)
        BY <2>2, <2>4, <2>7, <2>8, <2>9, NoneIsNone DEF Asked, NoUfa
      <3>2. AskedOnce(f)
        BY <2>8, <2>9 DEF AskedOnce, NoUfa
      <3>3. Posted(f)
        BY <2>2, <2>8 DEF Posted
      <3> QED BY <3>1, <3>2, <3>3 DEF OneRequest
    <2>11. Rest(f)
      <3>1. \A i \in DOMAIN d.newfa : d.newfa[i] # None
        BY <1>5, <1>7, NoneIsNone
      <3> QED BY <1>2, <1>4, <1>9, <1>12, <2>2, <3>1 DEF Rest
    <2> QED BY <1>3, <1>4, <2>5, <2>10, <2>11, OneByOneNext
  <1> QED BY <1>11, <1>12

(* The command or the request of the attribute in progress is answered. *)
LEMMA SequentialAnswer ==
    ASSUME Attach, OneByOne, putfaResult \/ \E a \in Attr : putfaPosted(a)
    PROVE  OneByOne'
  <1> DEFINE c == Puts
             e == Puts'
  <1>1. PICK S : c \in PutRec(S)
    BY DEF Attach
  <1>2. /\ cmds \in Seq(S) /\ http \in [Attr -> Nat] /\ status \in [Attr -> Stat]
        /\ newfa \in Seq(Attr)
        /\ c.newfa = newfa /\ c.cur = curfa /\ c.status = status /\ c.http = http /\ c.cmds = cmds
        /\ e.newfa = newfa' /\ e.cur = curfa' /\ e.status = status' /\ e.http = http' /\ e.cmds = cmds'
    BY <1>1, PutsParts
  <1>3. QueueOK(c) /\ OneRequest(c) /\ Rest(c) /\ ~wrong
    BY DEF Attach, OneByOne
  <1>4. UNCHANGED <<newfa, curfa>>
    BY DEF putfaResult, putfaPosted
  <1>5. curfa # None => curfa \in Range(newfa) /\ curfa \in Attr
    <2>1. curfa # None => newfa # << >> /\ curfa = newfa[1]
      BY <1>2, <1>3 DEF QueueOK
    <2>2. newfa # << >> => 1 \in DOMAIN newfa /\ newfa[1] \in Attr
      BY <1>2
    <2> QED BY <2>1, <2>2 DEF Range
  <1> HIDE DEF c, e
  <1>6. CASE putfaResult
    <2> DEFINE a == Head(cmds).a
    <2>1. cmds # << >> /\ Head(cmds).op = "ufa" /\ cmds' = Tail(cmds)
      BY <1>6 DEF putfaResult
    <2>2. /\ Head(cmds) = cmds[1] /\ 1 \in DOMAIN cmds
          /\ \A i \in DOMAIN cmds' : i + 1 \in DOMAIN cmds /\ i + 1 # 1 /\ cmds'[i] = cmds[i + 1]
      BY <1>2, <2>1, TailIndex
    <2>3. curfa # None /\ a = curfa /\ http[a] = 0
      BY <1>2, <1>3, <2>1, <2>2 DEF OneRequest, Asked
    <2>4. /\ wrong' = wrong
          /\ \/ status' = [status EXCEPT ![a] = "INFLIGHT"] /\ http' = [http EXCEPT ![a] = @ + 1]
             \/ status' = [status EXCEPT ![a] = "FAILURE"] /\ http' = http
             \/ status' = status /\ http' = http
      BY <1>5, <1>6, <2>3 DEF putfaResult
    <2>5. NoUfa(cmds')
      BY <1>2, <1>3, <2>1, <2>2 DEF OneRequest, AskedOnce, NoUfa
    <2>6. \A x \in Attr : http[x] # 0 => x = curfa
      BY <1>2, <1>3 DEF OneRequest, Posted
    <2> HIDE DEF a
    <2>7. Posted(e)
      <3> SUFFICES ASSUME NEW x \in Attr, http'[x] # 0
                   PROVE  x = curfa /\ http'[x] = 1 /\ status'[x] = "INFLIGHT"
        BY <1>2, <1>4 DEF Posted
      <3>1. CASE status' = [status EXCEPT ![a] = "INFLIGHT"] /\ http' = [http EXCEPT ![a] = @ + 1]
        BY <1>2, <1>5, <2>3, <2>6, <3>1
      <3>2. CASE status' = [status EXCEPT ![a] = "FAILURE"] /\ http' = http
        BY <2>3, <2>6, <3>2
      <3>3. CASE status' = status /\ http' = http
        BY <2>3, <2>6, <3>3
      <3> QED BY <2>4, <3>1, <3>2, <3>3
    <2>8. \A x \in Attr : x # a => status'[x] = status[x]
      BY <1>2, <2>4
    <2>9. OneRequest(e)
      BY <1>2, <2>5, <2>7 DEF OneRequest, Asked, AskedOnce, NoUfa
    <2>10. Rest(e)
      BY <1>2, <1>3, <1>4, <2>3, <2>8 DEF Rest
    <2> QED BY <1>3, <2>4, <2>9, <2>10, OneByOneNext DEF e
  <1>7. CASE \E a \in Attr : putfaPosted(a)
    <2> PICK a \in Attr : putfaPosted(a)
      BY <1>7
    <2>1. http[a] > 0 /\ http' = [http EXCEPT ![a] = @ - 1] /\ cmds' = cmds
      BY DEF putfaPosted
    <2>2. a = curfa /\ http[a] = 1 /\ a # None
      BY <1>2, <1>3, <2>1, NoneIsNone DEF OneRequest, Posted
    <2>3. wrong' = wrong /\ \E s \in {"SUCCESS", "BADSIZE", "FAILURE"} : status' = [status EXCEPT ![a] = s]
      BY <1>5, <2>2 DEF putfaPosted
    <2>4. NoUfa(cmds')
      BY <1>2, <1>3, <2>1, <2>2 DEF OneRequest, Asked, NoUfa
    <2>5. \A x \in Attr : http'[x] = 0
      <3>1. \A x \in Attr : http[x] # 0 => x = a
        BY <1>2, <1>3, <2>2 DEF OneRequest, Posted
      <3> QED BY <1>2, <2>1, <2>2, <3>1
    <2>6. \A x \in Attr : x # a => status'[x] = status[x]
      BY <1>2, <2>3
    <2>7. OneRequest(e)
      BY <1>2, <2>4, <2>5 DEF OneRequest, Asked, AskedOnce, Posted, NoUfa
    <2>8. Rest(e)
      BY <1>2, <1>3, <1>4, <2>2, <2>6 DEF Rest
    <2> QED BY <1>3, <2>3, <2>7, <2>8, OneByOneNext DEF e
  <1> QED BY <1>6, <1>7

(* Every step that leaves the behaviour unhurried preserves the invariant. *)
LEMMA SequentialStep ==
    ASSUME ~hurried', Attach, OneByOne, [Next]_vars
    PROVE  OneByOne'
  <1>0. PICK S : cmds \in Seq(S)
    BY PutsParts DEF Attach
  <1>1. CASE \E a \in Attr : putfa(a)
    BY <1>1, SequentialPutfa
  <1>2. CASE putfaResult \/ \E a \in Attr : putfaPosted(a)
    BY <1>2, SequentialAnswer
  <1>3. CASE execPut
    BY <1>3, SequentialExec
  <1>4. CASE btpfaElapse \/ (\E u \in Upload : nodeRemoved(u)) \/ UNCHANGED vars
    <2>1. UNCHANGED <<newfa, curfa, status, http, wrong, cmds>>
      BY <1>4 DEF btpfaElapse, nodeRemoved, vars, putVars
    <2> QED BY <1>0, <2>1, FromSame, SequentialQuiet
  <1>5. CASE \E u \in Upload : putnodes(u)
    <2>1. PICK q : q.op # "ufa" /\ cmds' = Append(cmds, q)
      <3>1. \A u, P : [op |-> "put", u |-> u, fa |-> P].op # "ufa"
        OBVIOUS
      <3>2. \E u, P : cmds' = Append(cmds, [op |-> "put", u |-> u, fa |-> P])
        BY <1>5, Zenon DEF putnodes
      <3> QED BY <3>1, <3>2
    <2>2. UNCHANGED <<newfa, curfa, status, http, wrong>>
      BY <1>5 DEF putnodes
    <2>3. From(cmds, cmds', 0, "ufa")
      BY <1>0, <2>1, FromAppend
    <2> QED BY <2>2, <2>3, SequentialQuiet
  <1>6. CASE putnodesResult
    <2>1. /\ cmds # << >>
          /\ \/ \E u : cmds' = Tail(cmds) \o attachPending(u)
             \/ cmds' = Tail(cmds)
      BY <1>6 DEF putnodesResult
    <2>2. UNCHANGED <<newfa, curfa, status, http, wrong>>
      BY <1>6 DEF putnodesResult
    <2>3. From(cmds, cmds', 1, "ufa")
      BY <1>0, <2>1, FromAdded, FromTail
    <2> QED BY <2>2, <2>3, SequentialQuiet
  <1>7. CASE attachResult
    <2>1. UNCHANGED <<newfa, curfa, status, http, wrong>> /\ cmds # << >> /\ cmds' = Tail(cmds)
      BY <1>7 DEF attachResult, putVars
    <2>2. From(cmds, cmds', 1, "ufa")
      BY <1>0, <2>1, FromTail
    <2> QED BY <2>1, <2>2, SequentialQuiet
  <1>8. CASE Retrieve
    <2>1. /\ UNCHANGED <<newfa, curfa, status, http, wrong>>
          /\ \/ cmds' = cmds
             \/ \E k : cmds' = Append(cmds, Getfa(k))
             \/ cmds # << >> /\ cmds' = Tail(cmds)
      BY <1>8, FetchCmds
    <2>2. \A k : Getfa(k).op # "ufa"
      BY DEF Getfa
    <2>3. \E m \in {0, 1} : From(cmds, cmds', m, "ufa")
      BY <1>0, <2>1, <2>2, FromSame, FromAppend, FromTail
    <2> QED BY <2>1, <2>3, SequentialQuiet
  <1> QED BY <1>1, <1>2, <1>3, <1>4, <1>5, <1>6, <1>7, <1>8 DEF Next, Store

(* One attribute in progress means at most one request. *)
LEMMA SequentialHolds ==
    ASSUME Attach, OneByOne
    PROVE  Sequential
  <1>1. PICK S : Puts \in PutRec(S)
    BY DEF Attach
  <1>2. http \in [Attr -> Nat] /\ Puts.http = http /\ Puts.cur = curfa /\ Puts.cmds = cmds
    BY <1>1, PutsParts
  <1>3. OneRequest(Puts)
    BY DEF OneByOne
  <1> SUFFICES ASSUME NEW a \in Attr PROVE requests(a) <= IF a = curfa THEN 1 ELSE 0
    BY DEF Sequential, OneByOne
  <1> DEFINE I == {i \in DOMAIN cmds : cmds[i].op = "ufa" /\ cmds[i].a = a}
  <1>4. requests(a) = http[a] + Cardinality(I)
    BY DEF requests
  <1>5. http[a] \in Nat /\ (http[a] # 0 => a = curfa /\ http[a] = 1)
    BY <1>2, <1>3 DEF OneRequest, Posted
  <1>6. CASE I = {}
    <2>1. Cardinality(I) = 0
      BY <1>6, FS_EmptySet
    <2> HIDE DEF I
    <2> QED BY <1>4, <1>5, <2>1
  <1>7. CASE I # {}
    <2>1. PICK i : i \in I
      BY <1>7
    <2>2. I = {i} /\ a = curfa /\ http[a] = 0
      BY <1>2, <1>3, <2>1 DEF OneRequest, Asked, AskedOnce
    <2> HIDE DEF I
    <2>3. Cardinality(I) = 1
      BY <2>2, FS_Singleton
    <2> QED BY <1>4, <2>2, <2>3
  <1> QED BY <1>6, <1>7

(* What has been hurried stays so. *)
LEMMA HurriedStays ==
    ASSUME hurried, [Next]_vars
    PROVE  hurried'
  <1>1. CASE \E a \in Attr : putfa(a)
    BY <1>1, Zenon DEF putfa
  <1>2. CASE (\E a \in Attr : putfaPosted(a)) \/ execPut \/ btpfaElapse \/ putfaResult
    BY <1>2, Zenon DEF putfaPosted, execPut, btpfaElapse, putfaResult
  <1>3. CASE \/ \E u \in Upload : putnodes(u) \/ nodeRemoved(u)
             \/ putnodesResult \/ attachResult
    BY <1>3, Zenon DEF putnodes, nodeRemoved, putnodesResult, attachResult
  <1>4. CASE Retrieve
    <2>1. \A k, quit : execFetch(k, quit) => hurried' = hurried
      BY DEF execFetch
    <2>2. \A f, d : getfa(f, d) => hurried' = hurried
      BY Zenon DEF getfa
    <2>3. \A f : getfaCancel(f) \/ attrNodeRemoved(f) => hurried' = hurried
      BY Zenon DEF getfaCancel, attrNodeRemoved
    <2>4. \A k : btElapse(k) \/ fetchData(k) \/ fetchDone(k) => hurried' = hurried
      BY Zenon DEF btElapse, fetchData, fetchDone
    <2>5. getfaResult => hurried' = hurried
      BY Zenon DEF getfaResult
    <2>6. hurried' = hurried
      BY <1>4, <2>1, <2>2, <2>3, <2>4, <2>5, Zenon DEF Retrieve
    <2> QED BY <2>6, Zenon
  <1>5. CASE UNCHANGED vars
    BY <1>5, Zenon DEF vars
  <1> QED BY <1>1, <1>2, <1>3, <1>4, <1>5, Zenon DEF Next, Store

(* In every behaviour, until an attribute has been added while a failed one
   waits for its retry, only the attribute in progress has a command or a
   request outstanding, at most one, and no answer finds its attribute deleted.
   The exception is what putfa() does: it requests the first of the queue
   whenever curfa is newfa.end(), without asking whether that one has failed and
   waits; exec() then takes the old failure for the new request's and requests
   the attribute again. *)
THEOREM OneAtATime == Spec => []SequentialUnlessHurried
  <1>1. Init => OneByOne
    <2> SUFFICES ASSUME Init PROVE OneByOne
      OBVIOUS
    <2>1. newfa = << >> /\ cmds = << >> /\ http = [a \in Attr |-> 0] /\ ~wrong
      BY DEF Init
    <2>2. DOMAIN newfa = {} /\ DOMAIN cmds = {}
      BY <2>1
    <2> QED BY <2>1, <2>2, PutsParts DEF OneByOne, OneRequest, Asked, AskedOnce, Posted, Rest
  <1>2. Attach /\ (hurried \/ OneByOne) /\ [Next]_vars => hurried' \/ OneByOne'
    <2>1. hurried /\ [Next]_vars => hurried'
      BY HurriedStays
    <2>2. ~hurried' /\ Attach /\ OneByOne /\ [Next]_vars => OneByOne'
      BY SequentialStep
    <2> QED BY <2>1, <2>2, Zenon
  <1>3. Attach /\ (hurried \/ OneByOne) => SequentialUnlessHurried
    BY SequentialHolds, Zenon DEF SequentialUnlessHurried
  <1> QED BY <1>1, <1>2, <1>3, AttachInit, AttachStep, PTL DEF Spec
=============================================================================

-------------------------- MODULE StateCacheProofs --------------------------
(***************************************************************************)
(* Module StateCache for any number of nodes, updates, own commands and    *)
(* stops.  First the server-client poll: the response that is applied      *)
(* continues where the tree is.  Then what it brings: the tree, and the    *)
(* state cache, hold every node that only other clients have worked on as  *)
(* the server had it at the sequence number of the tree, or of the cache.  *)
(***************************************************************************)
EXTENDS StateCache, Induction, FiniteSetTheorems, TLAPS

\* what the poll needs to know of the records: that they have their fields
Request(S) == [sn : S, status : {"REQ_INFLIGHT", "REQ_SUCCESS", "REQ_FAILURE"},
               in : {"none", "updates", "ETOOMANY", "ESID"}, upto : S,
               waits : BOOLEAN]

PollType == /\ \E S : pendingsc \subseteq Request(S)
            /\ \E S : cmds \in Seq(S)
            /\ scnotifyurl \in BOOLEAN

\* only one tree is being fetched, and nothing is known until it is there
Fetching ==
    /\ fetchingnodes => scsn = NoSn
    /\ \A i \in DOMAIN cmds : cmds[i].op = "f" => fetchingnodes
    /\ \A i, j \in DOMAIN cmds : cmds[i].op = "f" /\ cmds[j].op = "f" => i = j

Continues == \A q \in pendingsc : q.sn = scsn /\ session = "in"

\* A request continues from the current number, and there is one only in a
\* session; without a tree there is no number.
Poll ==
    /\ Continues
    /\ \A q \in pendingsc : q.sn # NoSn
    /\ ~loaded => scsn = NoSn
    /\ Fetching

(* Nothing that the poll depends on has changed. *)
LEMMA PollQuiet ==
    ASSUME PollType, Poll,
           UNCHANGED <<session, scsn, pendingsc, scnotifyurl, fetchingnodes, cmds>>,
           loaded => loaded'
    PROVE  PollType' /\ Poll'
  <1>1. PollType'
    BY DEF PollType
  <1>2. Poll'
    BY DEF Poll, Continues, Fetching
  <1> QED BY <1>1, <1>2

(* The first command has been answered; if it has fetched the tree, there
   is a number from now on. *)
LEMMA PollTail ==
    ASSUME PollType, Poll, cmds # << >>, cmds' = Tail(cmds),
           UNCHANGED <<session, pendingsc, scnotifyurl>>,
           \/ /\ Head(cmds).op # "f"
              /\ UNCHANGED <<scsn, fetchingnodes>> /\ (loaded => loaded')
           \/ /\ Head(cmds).op = "f" /\ fetchingnodes' = FALSE
              /\ UNCHANGED <<scsn, loaded>> \/ loaded'
    PROVE  PollType' /\ Poll'
  <1>0. PICK S : cmds \in Seq(S)
    BY DEF PollType
  <1>1. cmds' \in Seq(S) /\ Len(cmds') = Len(cmds) - 1 /\ Head(cmds) = cmds[1] /\ Len(cmds) \in Nat \ {0}
        /\ \A i \in 1 .. Len(cmds') : cmds'[i] = cmds[i + 1]
    BY <1>0
  <1>2. DOMAIN cmds = 1 .. Len(cmds) /\ DOMAIN cmds' = 1 .. Len(cmds')
    BY <1>0, <1>1
  <1>3. \A i \in DOMAIN cmds' : i + 1 \in DOMAIN cmds /\ i + 1 # 1 /\ cmds'[i] = cmds[i + 1]
    BY <1>1, <1>2
  <1>4. PollType'
    BY <1>1 DEF PollType
  <1>5. Fetching'
    BY <1>1, <1>2, <1>3 DEF Poll, Fetching
  <1>6. Poll'
    BY <1>1, <1>2, <1>5 DEF Poll, Continues, Fetching
  <1> QED BY <1>4, <1>6

(* A command that does not fetch the tree is added. *)
LEMMA PollAdd ==
    ASSUME PollType, Poll, NEW c, c.op # "f", cmds' = Append(cmds, c),
           UNCHANGED <<session, scsn, pendingsc, scnotifyurl, fetchingnodes, loaded>>
    PROVE  PollType' /\ Poll'
  <1>0. PICK S : cmds \in Seq(S)
    BY DEF PollType
  <1>1. cmds \in Seq(S \union {c}) /\ cmds' \in Seq(S \union {c})
    BY <1>0
  <1>2. /\ DOMAIN cmds = 1 .. Len(cmds) /\ DOMAIN cmds' = 1 .. Len(cmds) + 1
        /\ \A i \in DOMAIN cmds' : \/ i \in DOMAIN cmds /\ cmds'[i] = cmds[i]
                                   \/ cmds'[i] = c
    BY <1>1
  <1>3. PollType'
    BY <1>1 DEF PollType
  <1>4. Poll'
    BY <1>2 DEF Poll, Continues, Fetching
  <1> QED BY <1>3, <1>4

(* purgenodesusersabortsc() followed by the request of the tree *)
LEMMA PollReload ==
    ASSUME PollType, Poll, reload, ~fetchingnodes, UNCHANGED session
    PROVE  PollType' /\ Poll'
  <1> DEFINE c == Command("f", None, None, NoSn)
  <1>0. PICK S : cmds \in Seq(S)
    BY DEF PollType
  <1>00. c.op = "f"
    BY DEF Command
  <1>01. cmds' = Append(cmds, c)
    BY DEF reload, reopen
  <1> HIDE DEF c
  <1>1. cmds \in Seq(S \union {c}) /\ cmds' \in Seq(S \union {c})
    BY <1>0, <1>01
  <1>2. /\ DOMAIN cmds = 1 .. Len(cmds) /\ DOMAIN cmds' = 1 .. Len(cmds) + 1
        /\ \A i \in DOMAIN cmds' : \/ i \in DOMAIN cmds /\ cmds'[i] = cmds[i]
                                   \/ i = Len(cmds) + 1
    BY <1>1, <1>01
  <1>3. /\ pendingsc' = {} /\ scsn' = NoSn /\ fetchingnodes' = TRUE /\ loaded' = FALSE
        /\ scnotifyurl' = FALSE
    BY DEF reload, reopen, purge, dropsc
  <1>4. \A i \in DOMAIN cmds : cmds[i].op # "f"
    BY DEF Poll, Fetching
  <1>5. PollType'
    <2>1. pendingsc' \subseteq Request({})
      BY <1>3
    <2> QED BY <1>1, <1>3, <2>1 DEF PollType
  <1>6. Fetching'
    BY <1>2, <1>3, <1>4 DEF Fetching
  <1>7. Poll'
    BY <1>3, <1>6 DEF Poll, Continues
  <1> QED BY <1>5, <1>7

(* The request is gone. *)
LEMMA PollEnds ==
    ASSUME PollType, Poll, pendingsc' = {}, scnotifyurl' \in BOOLEAN,
           UNCHANGED <<fetchingnodes, cmds, loaded>>, scsn' = scsn \/ scsn' = NoSn \/ pendingsc # {}
    PROVE  PollType' /\ Poll'
  <1>1. PollType'
    <2>1. pendingsc' \subseteq Request({})
      OBVIOUS
    <2> QED BY <2>1 DEF PollType
  <1>2. pendingsc # {} => scsn # NoSn /\ loaded /\ ~fetchingnodes
    BY DEF Poll, Continues, Fetching
  <1>3. Poll'
    BY <1>2 DEF Poll, Continues, Fetching
  <1> QED BY <1>1, <1>3

(* The server executes a command: what it asks for stays the same, or it is
   refused. *)
LEMMA PollExecutes ==
    ASSUME PollType, Poll, serverExecutes
    PROVE  PollType' /\ Poll'
  <1>0. PICK S : cmds \in Seq(S)
    BY DEF PollType
  <1> DEFINE i == CHOOSE i \in Waiting : \A j \in Waiting : i <= j
             q == cmds[i]
  <1>1. PICK c : /\ cmds' = [cmds EXCEPT ![i] = c]
                 /\ c.op = q.op \/ c.op = "error"
    <2>1. \A op, h, p, at : Command(op, h, p, at).op = op
      BY DEF Command
    <2>2. \/ \E h, n : cmds' = [cmds EXCEPT ![i] = Command(q.op, h, q.p, n)]
          \/ cmds' = [cmds EXCEPT ![i] = Command("error", q.h, q.p, q.at)]
      BY DEF serverExecutes
    <2> HIDE DEF i, q
    <2>3. CASE \E h, n : cmds' = [cmds EXCEPT ![i] = Command(q.op, h, q.p, n)]
      <3> PICK h, n : cmds' = [cmds EXCEPT ![i] = Command(q.op, h, q.p, n)]
        BY <2>3
      <3> DEFINE d == Command(q.op, h, q.p, n)
      <3>1. d.op = q.op /\ cmds' = [cmds EXCEPT ![i] = d]
        BY <2>1
      <3> HIDE DEF d
      <3> QED BY <3>1, Zenon
    <2>4. CASE cmds' = [cmds EXCEPT ![i] = Command("error", q.h, q.p, q.at)]
      <3> DEFINE d == Command("error", q.h, q.p, q.at)
      <3>1. d.op = "error" /\ cmds' = [cmds EXCEPT ![i] = d]
        BY <2>1, <2>4
      <3> HIDE DEF d
      <3> QED BY <3>1, Zenon
    <2> QED BY <2>2, <2>3, <2>4
  <1> HIDE DEF q, i
  <1>2. /\ DOMAIN cmds' = DOMAIN cmds /\ cmds' \in Seq(S \union {c})
        /\ \A j \in DOMAIN cmds' : cmds'[j] = IF j = i THEN c ELSE cmds[j]
    <2> DEFINE T == S \union {c}
    <2>1. cmds \in [1 .. Len(cmds) -> T] /\ Len(cmds) \in Nat
      BY <1>0
    <2>2. cmds' \in [1 .. Len(cmds) -> T]
      BY <1>1, <2>1
    <2> HIDE DEF T
    <2>3. cmds' \in Seq(T)
      BY <2>1, <2>2
    <2>4. DOMAIN cmds' = 1 .. Len(cmds) /\ DOMAIN cmds = 1 .. Len(cmds)
      BY <2>1, <2>2
    <2>5. \A j \in 1 .. Len(cmds) : cmds'[j] = IF j = i THEN c ELSE cmds[j]
      BY <1>1, <2>1
    <2> QED BY <2>3, <2>4, <2>5 DEF T
  <1>3. \A j \in DOMAIN cmds' : cmds'[j].op = "f" => cmds[j].op = "f"
    BY <1>1, <1>2 DEF q
  <1>4. UNCHANGED <<session, scsn, pendingsc, scnotifyurl, fetchingnodes, loaded>>
    BY DEF serverExecutes, clientVars, sessionVars, scVars
  <1>5. PollType'
    BY <1>2, <1>4 DEF PollType
  <1>6. Poll'
    BY <1>2, <1>3, <1>4 DEF Poll, Continues, Fetching
  <1> QED BY <1>5, <1>6

(* The server's answer belongs to the request it answers. *)
LEMMA PollAnswers ==
    ASSUME PollType, Poll, serverAnswers
    PROVE  PollType' /\ Poll'
  <1>0. PICK S : pendingsc \subseteq Request(S)
    BY DEF PollType
  <1>01. PICK q \in pendingsc, st \in {"REQ_SUCCESS", "REQ_FAILURE"},
              body \in {"none", "updates", "ETOOMANY", "ESID"} :
                \E n : pendingsc' = {[q EXCEPT !.status = st, !.in = body, !.upto = n]}
    BY Zenon DEF serverAnswers
  <1>1. PICK n : pendingsc' = {[q EXCEPT !.status = st, !.in = body, !.upto = n]}
    BY <1>01
  <1>2. q \in Request(S \union {n})
    BY <1>0 DEF Request
  <1> DEFINE a == [q EXCEPT !.status = st, !.in = body, !.upto = n]
  <1>3. a \in Request(S \union {n})
    BY <1>2, Zenon DEF Request
  <1>4. a.sn = q.sn
    BY <1>2 DEF Request
  <1> HIDE DEF a
  <1>5. pendingsc' = {a}
    BY <1>1 DEF a
  <1>6. UNCHANGED <<session, scsn, scnotifyurl, fetchingnodes, loaded, cmds>>
    BY DEF serverAnswers, sessionVars
  <1>7. PollType'
    BY <1>3, <1>5, <1>6 DEF PollType
  <1>8. Poll'
    BY <1>4, <1>5, <1>6 DEF Poll, Continues, Fetching
  <1> QED BY <1>7, <1>8

(* exec() posts the next request. *)
LEMMA PollPost ==
    ASSUME PollType, Poll, scPost
    PROVE  PollType' /\ Poll'
  <1> DEFINE a == [sn |-> scsn, status |-> "REQ_INFLIGHT", in |-> "none",
                   upto |-> scsn, waits |-> scnotifyurl]
  <1>1. a \in Request({scsn}) /\ a.sn = scsn
    BY DEF Request, PollType
  <1>2. /\ pendingsc' = {a} /\ scsn # NoSn /\ session = "in"
        /\ UNCHANGED <<session, scsn, scnotifyurl, fetchingnodes, loaded, cmds>>
    BY DEF scPost, sessionVars
  <1> HIDE DEF a
  <1>3. PollType'
    BY <1>1, <1>2 DEF PollType
  <1>4. Poll'
    BY <1>1, <1>2 DEF Poll, Continues, Fetching
  <1> QED BY <1>3, <1>4

-----------------------------------------------------------------------------
(* Steps that do not mix a cached tree with one on its way *)

\* fetchnodes() resumes from the cache, and no tree has been requested
resume == ~fetchingnodes /\ fetchnodesCached

\* the answer to ETOOMANY, with no tree on its way
tooMany == /\ received("ETOOMANY") /\ reload
           /\ UNCHANGED <<session, sessionid, cachedscsn, serverVars>>

\* fetchnodes() while the tree is on its way, with the cache open: at most it
\* is emptied
reopened == /\ session = "in" /\ sctable /\ sctable'
            /\ db' = db \/ (db'.sn = NoSn /\ db'.rows = NoRows)
            /\ UNCHANGED <<clientVars, cmds, nextid, adrift, serverVars>>

SteadyEngine ==
    \/ login
    \/ \E continued \in BOOLEAN : loginResult(continued)
    \/ resume \/ fetchnodes \/ reopened
    \/ fetchnodesResult \/ putnodesResult \/ otherResult
    \/ scPost \/ scNotified \/ scResponse \/ tooMany \/ scFailure \/ elapse
    \/ syncsAreUp \/ execNotifypurge

Steady == SteadyEngine \/ App \/ Server

(* As long as nothing has been mixed, every step is one of these: a poll that
   is answered finds no tree requested. *)
LEMMA SteadyStep ==
    ASSUME Poll, [Next]_vars, ~mixed'
    PROVE  [Steady]_vars
  <1>1. CASE fetchnodesCached
    <2>1. ~fetchingnodes
      BY <1>1, Zenon DEF fetchnodesCached
    <2> QED BY <1>1, <2>1, Zenon DEF resume, Steady, SteadyEngine
  <1>2. CASE fetchnodesBusy
    <2>1. sctable
      BY <1>2, Zenon DEF fetchnodesBusy
    <2>2. sctable' /\ nextid' = nextid /\ (db' = db \/ db' = Db(NoSn, NoRows))
      BY <1>2, <2>1 DEF fetchnodesBusy, reopen
    <2>3. db' = db \/ (db'.sn = NoSn /\ db'.rows = NoRows)
      BY <2>2 DEF Db
    <2>4. session = "in" /\ UNCHANGED <<clientVars, cmds, adrift, serverVars>>
      BY <1>2, Zenon DEF fetchnodesBusy
    <2>5. reopened
      BY <2>1, <2>2, <2>3, <2>4 DEF reopened
    <2> QED BY <2>5, Zenon DEF Steady, SteadyEngine
  <1>3. CASE scTooMany
    <2>1. ~fetchingnodes
      BY <1>3 DEF scTooMany, received, Poll, Continues, Fetching
    <2>2. tooMany
      BY <1>3, <2>1, Zenon DEF scTooMany, tooMany
    <2> QED BY <2>2, Zenon DEF Steady, SteadyEngine
  <1> QED BY <1>1, <1>2, <1>3, Zenon DEF Next, Engine, Steady, SteadyEngine

(* What has been mixed stays so. *)
LEMMA MixedStays ==
    ASSUME [Next]_vars, mixed
    PROVE  mixed'
  <1>1. CASE fetchnodesCached \/ fetchnodesBusy
    BY <1>1, Zenon DEF fetchnodesCached, fetchnodesBusy
  <1>2. CASE fetchnodes \/ fetchnodesAgain \/ scTooMany
    <2>1. mixed' = mixed
      BY <1>2, Zenon DEF fetchnodes, fetchnodesAgain, scTooMany, reload
    <2> QED BY <2>1
  <1>3. CASE \/ login \/ (\E continued \in BOOLEAN : loginResult(continued))
             \/ fetchnodesResult \/ putnodesResult \/ otherResult \/ scPost \/ scNotified
             \/ scResponse \/ scFailure \/ elapse \/ syncsAreUp \/ execNotifypurge
    <2>1. mixed' = mixed
      BY <1>3, Zenon DEF login, loginResult, fetchnodesResult, putnodesResult, otherResult,
         scPost, scNotified, scResponse, scFailure, elapse, syncsAreUp, execNotifypurge
    <2> QED BY <2>1
  <1>4. CASE \/ (\E crash \in BOOLEAN : stop(crash))
             \/ (\E p \in Handle \union {Root} : putnodesNew(p))
             \/ (\E h \in Handle : unlink(h))
             \/ (\E h \in Handle, p \in Handle \union {Root} : rename(h, p))
             \/ Server \/ UNCHANGED vars
    <2>1. mixed' = mixed
      BY <1>4, Zenon DEF stop, putnodesNew, unlink, rename, Server, otherClient,
         serverExecutes, serverAnswers, fetchnodesError, vars
    <2> QED BY <2>1
  <1> QED BY <1>1, <1>2, <1>3, <1>4, Zenon DEF Next, Engine, App

(* Every step of the client keeps request, number and tree together. *)
LEMMA EngineStep ==
    ASSUME PollType, Poll, SteadyEngine
    PROVE  PollType' /\ Poll'
  <1>1. CASE login
    <2>1. pendingsc = {}
      BY <1>1 DEF login, Poll, Continues
    <2> QED BY <1>1, <2>1 DEF login, scVars, PollType, Poll, Continues, Fetching
  <1>2. CASE \E continued \in BOOLEAN : loginResult(continued)
    <2>1. pendingsc = {}
      BY <1>2 DEF loginResult, Poll, Continues
    <2> QED BY <1>2, <2>1 DEF loginResult, scVars, PollType, Poll, Continues, Fetching
  <1>3. CASE resume
    <2>1. pendingsc = {} /\ ~fetchingnodes
      BY <1>3 DEF resume, fetchnodesCached, Poll, Continues
    <2> QED BY <1>3, <2>1 DEF resume, fetchnodesCached, scVars, PollType, Poll, Continues, Fetching
  <1>4. CASE fetchnodes
    BY <1>4, PollReload DEF fetchnodes
  <1>5. CASE fetchnodesResult
    BY <1>5, PollTail DEF fetchnodesResult, scVars
  <1>6. CASE putnodesResult
    BY <1>6, PollTail DEF putnodesResult, scVars
  <1>7. CASE otherResult
    BY <1>7, PollTail DEF otherResult, clientVars, sessionVars, scVars
  <1>8. CASE scPost
    BY <1>8, PollPost
  <1>9. CASE scNotified
    BY <1>9, PollEnds DEF scNotified, sessionVars
  <1>10. CASE scResponse
    <2>1. /\ pendingsc # {} /\ pendingsc' = {} /\ scnotifyurl' \in BOOLEAN
          /\ UNCHANGED <<fetchingnodes, cmds, loaded>>
      BY <1>10 DEF scResponse, sessionVars
    <2> QED BY <2>1, PollEnds
  <1>11. CASE tooMany
    <2>1. ~fetchingnodes
      BY <1>11 DEF tooMany, received, Poll, Continues, Fetching
    <2> QED BY <1>11, <2>1, PollReload DEF tooMany
  <1>12. CASE scFailure
    <2>1. /\ pendingsc' = {} /\ scnotifyurl' = scnotifyurl
          /\ UNCHANGED <<fetchingnodes, cmds, loaded>> /\ scsn' \in {scsn, NoSn}
      BY <1>12 DEF scFailure, sessionVars
    <2> QED BY <2>1, PollEnds DEF PollType
  <1>13. CASE elapse \/ syncsAreUp \/ execNotifypurge
    BY <1>13, PollQuiet DEF elapse, syncsAreUp, execNotifypurge, sessionVars, scVars
  <1>14. CASE reopened
    BY <1>14, PollQuiet DEF reopened, clientVars, sessionVars, scVars
  <1> QED BY <1>1, <1>2, <1>3, <1>4, <1>5, <1>6, <1>7, <1>8, <1>9, <1>10, <1>11,
             <1>12, <1>13, <1>14 DEF SteadyEngine

(* So does everything that the application and the server do. *)
LEMMA PollStep ==
    ASSUME PollType, Poll, [Steady]_vars
    PROVE  PollType' /\ Poll'
  <1>0. \A op, h, p, at : Command(op, h, p, at).op = op
    BY DEF Command
  <1>1. CASE SteadyEngine
    BY <1>1, EngineStep
  <1>2. CASE fetchnodesAgain
    BY <1>2, PollReload DEF fetchnodesAgain
  <1>3. CASE \E crash \in BOOLEAN : stop(crash)
    <2>1. /\ pendingsc' = {} /\ scsn' = NoSn /\ cmds' = << >> /\ fetchingnodes' = FALSE
          /\ scnotifyurl' = FALSE
      BY <1>3 DEF stop, purge, dropsc
    <2>2. PollType'
      <3>1. pendingsc' \subseteq Request({}) /\ cmds' \in Seq({})
        BY <2>1
      <3> QED BY <2>1, <3>1 DEF PollType
    <2> QED BY <2>1, <2>2 DEF Poll, Continues, Fetching
  <1>4. CASE \E p \in Handle \union {Root} : putnodesNew(p)
    <2>1. \E p : cmds' = Append(cmds, Command("t", None, p, NoSn))
      BY <1>4, Zenon DEF putnodesNew, command
    <2>2. UNCHANGED <<session, scsn, pendingsc, scnotifyurl, fetchingnodes, loaded>>
      BY <1>4 DEF putnodesNew, clientVars, sessionVars, scVars
    <2> QED BY <1>0, <2>1, <2>2, PollAdd
  <1>5. CASE \E h \in Handle : unlink(h)
    <2>1. \E h : cmds' = Append(cmds, Command("d", h, None, NoSn))
      BY <1>5, Zenon DEF unlink, command
    <2>2. UNCHANGED <<session, scsn, pendingsc, scnotifyurl, fetchingnodes, loaded>>
      BY <1>5 DEF unlink, sessionVars, scVars
    <2> QED BY <1>0, <2>1, <2>2, PollAdd
  <1>6. CASE \E h \in Handle, p \in Handle \union {Root} : rename(h, p)
    <2>1. \E h, p : cmds' = Append(cmds, Command("m", h, p, NoSn))
      BY <1>6, Zenon DEF rename, command
    <2>2. UNCHANGED <<session, scsn, pendingsc, scnotifyurl, fetchingnodes, loaded>>
      BY <1>6 DEF rename, sessionVars, scVars
    <2> QED BY <1>0, <2>1, <2>2, PollAdd
  <1>7. CASE otherClient
    BY <1>7, PollQuiet DEF otherClient, clientVars, sessionVars, scVars
  <1>8. CASE serverExecutes
    BY <1>8, PollExecutes
  <1>9. CASE serverAnswers
    BY <1>9, PollAnswers
  <1>10. CASE fetchnodesError
    BY <1>10, PollTail DEF fetchnodesError, sessionVars, scVars
  <1>11. CASE UNCHANGED vars
    BY <1>11, PollQuiet DEF vars, clientVars, sessionVars, scVars
  <1> QED BY <1>1, <1>2, <1>3, <1>4, <1>5, <1>6, <1>7, <1>8, <1>9, <1>10, <1>11
          DEF Steady, App, Server

(* PollContinues: whatever reloads, logouts, crashes, resumed sessions and
   own commands come between a server-client request and its response,
   procsc() applies only updates that follow the one the tree is at, although
   it does not look at the number.  The one thing that is excepted is what
   fetchnodes() does not look at either, a tree that is already on its way
   (mixed): without it no number is known while the tree is being fetched
   (Fetching), and the number which CommandFetchNodes::procresult() sets finds
   no request outstanding. *)
THEOREM PollFollows == Spec => []PollContinues
  <1> DEFINE I == mixed \/ (PollType /\ Poll)
  <1>1. Init => I
    <2> SUFFICES ASSUME Init PROVE PollType /\ Poll
      OBVIOUS
    <2>1. pendingsc \subseteq Request({}) /\ cmds \in Seq({})
      BY DEF Init
    <2>2. PollType
      BY <2>1 DEF Init, PollType
    <2> QED BY <2>2 DEF Init, Poll, Continues, Fetching
  <1>2. I /\ [Next]_vars => I'
    <2> SUFFICES ASSUME I, [Next]_vars, ~mixed'
                 PROVE  PollType' /\ Poll'
      BY Zenon
    <2>1. PollType /\ Poll
      BY MixedStays, Zenon
    <2> QED BY <2>1, SteadyStep, PollStep
  <1>3. I => PollContinues
    BY DEF Poll, Continues, PollContinues
  <1> QED BY <1>1, <1>2, <1>3, PTL DEF Spec

-----------------------------------------------------------------------------
(* Subtrees *)

Closed(t, S) == \A x \in DOMAIN t : t[x].parent \in S => x \in S

(* A subtree is the least closed set with its root. *)
LEMMA SubtreeIs ==
    ASSUME NEW t, NEW h
    PROVE  /\ Subtree(t, h) \subseteq DOMAIN t
           /\ h \in DOMAIN t => h \in Subtree(t, h)
           /\ h \notin DOMAIN t => Subtree(t, h) = {}
           /\ \A S \in SUBSET DOMAIN t : h \in S /\ Closed(t, S) => Subtree(t, h) \subseteq S
           /\ h \in DOMAIN t => \A x \in DOMAIN t \ Subtree(t, h) :
                 \E S \in SUBSET DOMAIN t : h \in S /\ Closed(t, S) /\ x \notin S
  BY DEF Subtree, Closed

\* the nodes of F in the server's tree t can be read, and so can all above them
Apart(F, t) ==
    \A x \in F \intersect DOMAIN t :
        t[x].parent \in (F \intersect DOMAIN t) \union {Root} /\ t[x].clear

\* the nodes of F in the server's tree t are in the client's tree c
Agree(F, c, t) ==
    \A h \in F \intersect DOMAIN t :
        h \in DOMAIN c /\ ~c[h].removed /\ c[h].clear /\ Same(c[h], t[h])

(* What is below h for the client, and in F, is below it for the server. *)
LEMMA SubtreeAgrees ==
    ASSUME NEW F, NEW c, NEW t, NEW h \in DOMAIN t, Root \notin DOMAIN c,
           Apart(F, t), Agree(F, c, t)
    PROVE  \A x \in F \intersect DOMAIN t : x \in Subtree(c, h) => x \in Subtree(t, h)
  <1> SUFFICES ASSUME NEW x \in F \intersect DOMAIN t, x \in Subtree(c, h), x \notin Subtree(t, h)
               PROVE  FALSE
    OBVIOUS
  <1>1. PICK S \in SUBSET DOMAIN t : h \in S /\ Closed(t, S) /\ x \notin S
    BY SubtreeIs
  <1> DEFINE R == DOMAIN c \ {y \in F \intersect DOMAIN t : y \notin S}
  <1>2. h \in DOMAIN c
    BY SubtreeIs
  <1>3. h \in R /\ x \notin R /\ R \in SUBSET DOMAIN c
    BY <1>1, <1>2
  <1>4. Closed(c, R)
    <2> SUFFICES ASSUME NEW y \in DOMAIN c, c[y].parent \in R, y \notin R
                 PROVE  FALSE
      BY DEF Closed
    <2>1. y \in F \intersect DOMAIN t /\ y \notin S
      OBVIOUS
    <2>2. c[y].parent = t[y].parent
      BY <2>1 DEF Agree, Same
    <2>3. t[y].parent # Root
      BY <2>2
    <2>4. t[y].parent \in F \intersect DOMAIN t
      BY <2>1, <2>3 DEF Apart
    <2>5. t[y].parent \notin S
      BY <1>1, <2>1 DEF Closed
    <2> QED BY <2>2, <2>4, <2>5
  <1> HIDE DEF R
  <1> QED BY <1>3, <1>4, SubtreeIs

(* A move takes what is below the node along. *)
LEMMA SubtreeMoves ==
    ASSUME NEW t, NEW h \in DOMAIN t, NEW u, DOMAIN u = DOMAIN t,
           \A x \in DOMAIN t : x # h => u[x].parent = t[x].parent
    PROVE  Subtree(t, h) \subseteq Subtree(u, h)
  <1> SUFFICES ASSUME NEW x \in Subtree(t, h), x \notin Subtree(u, h)
               PROVE  FALSE
    OBVIOUS
  <1>1. x \in DOMAIN u
    BY SubtreeIs
  <1>2. PICK S \in SUBSET DOMAIN u : h \in S /\ Closed(u, S) /\ x \notin S
    BY <1>1, SubtreeIs
  <1>3. Closed(t, S)
    BY <1>2 DEF Closed
  <1> QED BY <1>2, <1>3, SubtreeIs

-----------------------------------------------------------------------------
(* The client's tree and its notifications *)

Fields == {"parent", "v", "clear", "removed", "dbid"}

Nodes(c, q) ==
    /\ DOMAIN c \subseteq Handle
    /\ \A h \in DOMAIN c : DOMAIN c[h] = Fields /\ c[h].dbid \in Nat
    /\ q \subseteq DOMAIN c

\* c.nodes follows the server's tree t; of F it knows only nodes of K
Follows(F, c, t, K) ==
    /\ Nodes(c.nodes, c.notify)
    /\ Agree(F, c.nodes, t)
    /\ F \intersect DOMAIN c.nodes \subseteq K

\* In the records r, a node of F has no other record than its own, and that
\* is as it should be unless the node is still to be written.
Held(F, c, t, r) ==
    \A h \in F \intersect DOMAIN t :
        /\ \A i \in DOMAIN r : r[i].h = h => c.nodes[h].dbid = i
        /\ h \notin c.notify =>
              LET i == c.nodes[h].dbid
              IN  i \in DOMAIN r /\ r[i].h = h /\ Same(r[i], c.nodes[h])

\* of F, the records r know only nodes of K
Known(F, r, K) == \A i \in DOMAIN r : r[i].h \in F => r[i].h \in K

\* records that nodes have, they keep
Keeps(c, e) ==
    /\ DOMAIN c.nodes \subseteq DOMAIN e.nodes
    /\ \A h \in DOMAIN e.nodes :
          e.nodes[h].dbid = IF h \in DOMAIN c.nodes THEN c.nodes[h].dbid ELSE 0

ServerFields == {"parent", "v", "clear"}

\* readnodes() of the server's nodes s, node by node
Reads(c, s, b, e) ==
    /\ DOMAIN e.nodes = DOMAIN c.nodes \union DOMAIN s
    /\ e.notify = IF b THEN c.notify \union DOMAIN s ELSE c.notify
    /\ \A h \in DOMAIN c.nodes :
          h \notin DOMAIN s \/ ~c.nodes[h].removed => e.nodes[h] = c.nodes[h]
    /\ \A h \in DOMAIN s \ DOMAIN c.nodes :
          /\ DOMAIN e.nodes[h] = Fields /\ e.nodes[h].dbid = 0
          /\ ~e.nodes[h].removed
          /\ e.nodes[h].v = s[h].v /\ e.nodes[h].clear = s[h].clear
          /\ s[h].parent \in DOMAIN e.nodes \union {Root} => e.nodes[h].parent = s[h].parent
    /\ \A h \in DOMAIN s \intersect DOMAIN c.nodes : c.nodes[h].removed =>
          /\ DOMAIN e.nodes[h] = Fields /\ ~e.nodes[h].removed
          /\ e.nodes[h].dbid = c.nodes[h].dbid
          /\ e.nodes[h].v = c.nodes[h].v /\ e.nodes[h].clear = c.nodes[h].clear
          /\ s[h].parent \in DOMAIN e.nodes \union {Root} => e.nodes[h].parent = s[h].parent

(* Unknown nodes are added, those marked for removal come back, all others
   stay as they are. *)
LEMMA ReadIs ==
    ASSUME NEW c, NEW s, NEW b \in BOOLEAN, Nodes(c.nodes, c.notify)
    PROVE  Reads(c, s, b, readnodes(c, s, b))
  <1> DEFINE all == DOMAIN c.nodes \union DOMAIN s
             link(h, else) == LET p == s[h].parent
                              IN  IF p = Root \/ p \in all THEN p ELSE else
             new(h) == Node(link(h, None), s[h].v, s[h].clear, 0)
             back(h) == revived(c.nodes[h], link(h, c.nodes[h].parent))
             e == readnodes(c, s, b)
             f == [h \in all |->
                      CASE h \notin DOMAIN s -> c.nodes[h]
                        [] h \notin DOMAIN c.nodes -> new(h)
                        [] h \in DOMAIN s \intersect DOMAIN c.nodes ->
                              IF c.nodes[h].removed THEN back(h) ELSE c.nodes[h]]
  <1>1. e.nodes = f /\ e.notify = IF b THEN c.notify \union DOMAIN s ELSE c.notify
    BY Zenon DEF readnodes, View
  <1>2. \A h : /\ DOMAIN new(h) = Fields /\ new(h).dbid = 0 /\ ~new(h).removed
               /\ new(h).v = s[h].v /\ new(h).clear = s[h].clear
               /\ new(h).parent = link(h, None)
    BY DEF Node, Fields
  <1>3. \A h \in DOMAIN c.nodes :
               /\ DOMAIN back(h) = Fields /\ back(h).dbid = c.nodes[h].dbid /\ ~back(h).removed
               /\ back(h).v = c.nodes[h].v /\ back(h).clear = c.nodes[h].clear
               /\ back(h).parent = link(h, c.nodes[h].parent)
    BY DEF revived, Nodes, Fields
  <1>4. \A h, p : s[h].parent \in all \union {Root} => link(h, p) = s[h].parent
    OBVIOUS
  <1> HIDE DEF new, back, link
  <1>5. DOMAIN f = all
    OBVIOUS
  <1>6. \A h \in DOMAIN c.nodes : h \notin DOMAIN s => f[h] = c.nodes[h]
    OBVIOUS
  <1>7. \A h \in DOMAIN c.nodes : h \in DOMAIN s /\ ~c.nodes[h].removed => f[h] = c.nodes[h]
    OBVIOUS
  <1>8. \A h \in DOMAIN s \ DOMAIN c.nodes : f[h] = new(h)
    OBVIOUS
  <1>9. \A h \in DOMAIN s \intersect DOMAIN c.nodes : c.nodes[h].removed => f[h] = back(h)
    OBVIOUS
  <1>10. all = DOMAIN c.nodes \union DOMAIN s
    OBVIOUS
  <1> HIDE DEF f, e, all
  <1>11. DOMAIN e.nodes = all
    BY <1>1, <1>5
  <1>12. \A h \in DOMAIN c.nodes :
            h \notin DOMAIN s \/ ~c.nodes[h].removed => e.nodes[h] = c.nodes[h]
    BY <1>1, <1>6, <1>7
  <1>13. \A h \in DOMAIN s \ DOMAIN c.nodes : e.nodes[h] = new(h)
    BY <1>1, <1>8
  <1>14. \A h \in DOMAIN s \intersect DOMAIN c.nodes : c.nodes[h].removed => e.nodes[h] = back(h)
    BY <1>1, <1>9
  <1>15. Reads(c, s, b, e)
    BY <1>1, <1>10, <1>11, <1>12, <1>13, <1>14, <1>2, <1>3, <1>4 DEF Reads
  <1> QED BY <1>15 DEF e

\* deltree() of h, node by node
Deletes(c, h, e) ==
    /\ DOMAIN e.nodes = DOMAIN c.nodes
    /\ e.notify = c.notify \union Subtree(c.nodes, h)
    /\ \A x \in DOMAIN c.nodes \ Subtree(c.nodes, h) : e.nodes[x] = c.nodes[x]
    /\ \A x \in Subtree(c.nodes, h) :
          /\ DOMAIN e.nodes[x] = Fields /\ e.nodes[x].removed
          /\ e.nodes[x].dbid = c.nodes[x].dbid /\ e.nodes[x].clear = c.nodes[x].clear
          /\ e.nodes[x].v = c.nodes[x].v /\ e.nodes[x].parent = c.nodes[x].parent

(* A subtree is marked for removal, and nothing else changes. *)
LEMMA DeltreeIs ==
    ASSUME NEW c, NEW h, Nodes(c.nodes, c.notify)
    PROVE  Deletes(c, h, deltree(c, h))
  <1> DEFINE gone == Subtree(c.nodes, h)
             mark(x) == [c.nodes[x] EXCEPT !.removed = TRUE]
             f == [x \in DOMAIN c.nodes |-> IF x \in gone THEN mark(x) ELSE c.nodes[x]]
             e == deltree(c, h)
  <1>1. e.nodes = f /\ e.notify = c.notify \union gone
    BY Zenon DEF deltree, View
  <1>2. \A x \in DOMAIN c.nodes :
          /\ DOMAIN mark(x) = Fields /\ mark(x).removed
          /\ mark(x).dbid = c.nodes[x].dbid /\ mark(x).clear = c.nodes[x].clear
          /\ mark(x).v = c.nodes[x].v /\ mark(x).parent = c.nodes[x].parent
    BY DEF Nodes, Fields
  <1>3. gone \subseteq DOMAIN c.nodes /\ gone = Subtree(c.nodes, h)
    BY SubtreeIs
  <1> HIDE DEF mark, e, gone
  <1>4. /\ DOMAIN e.nodes = DOMAIN c.nodes
        /\ \A x \in DOMAIN c.nodes \ gone : e.nodes[x] = c.nodes[x]
        /\ \A x \in gone : e.nodes[x] = mark(x)
    BY <1>1, <1>3
  <1> HIDE DEF f
  <1>5. Deletes(c, h, e)
    BY <1>1, <1>2, <1>3, <1>4 DEF Deletes
  <1> QED BY <1>5 DEF e

\* what an update that turns the server's tree t into u makes of the client's
Step(F, c, t, K, e, u, L, r) ==
    /\ Follows(F, e, u, L)
    /\ Keeps(c, e)
    /\ Held(F, c, t, r) /\ Known(F, r, K) => Held(F, e, u, r)

(* Nothing in F is concerned. *)
LEMMA SkipStep ==
    ASSUME NEW F, NEW c, NEW t, NEW K, NEW u, NEW L, NEW r,
           Follows(F, c, t, K), K \subseteq L,
           \A x \in F \intersect DOMAIN u : x \in DOMAIN t /\ Same(u[x], t[x])
    PROVE  Step(F, c, t, K, c, u, L, r)
  <1>1. Follows(F, c, u, L)
    BY DEF Follows, Agree, Same
  <1>2. Keeps(c, c)
    BY DEF Keeps
  <1>3. Held(F, c, t, r) => Held(F, c, u, r)
    BY DEF Held
  <1> QED BY <1>1, <1>2, <1>3 DEF Step

(* A deletion: what stays on the server stays with the client. *)
LEMMA DelStep ==
    ASSUME NEW F, NEW c, NEW t, NEW K, NEW u, NEW L, NEW r, NEW h \in DOMAIN t,
           Root \notin DOMAIN c.nodes, Apart(F, t),
           Follows(F, c, t, K), K \subseteq L,
           u = Without(t, Subtree(t, h))
    PROVE  Step(F, c, t, K, deltree(c, h), u, L, r)
  <1> DEFINE e == deltree(c, h)
  <1>1. Deletes(c, h, e)
    BY DeltreeIs DEF Follows
  <1>2. DOMAIN u = DOMAIN t \ Subtree(t, h) /\ \A x \in DOMAIN u : u[x] = t[x]
    BY DEF Without
  <1> HIDE DEF e
  <1>3. \A x \in F \intersect DOMAIN u :
           /\ x \in DOMAIN t /\ x \in DOMAIN c.nodes /\ x \notin Subtree(c.nodes, h)
           /\ u[x] = t[x] /\ e.nodes[x] = c.nodes[x]
    <2> TAKE x \in F \intersect DOMAIN u
    <2>1. x \in F \intersect DOMAIN t /\ x \notin Subtree(t, h) /\ u[x] = t[x]
      BY <1>2
    <2>2. x \in DOMAIN c.nodes
      BY <2>1 DEF Follows, Agree
    <2>3. x \notin Subtree(c.nodes, h)
      BY <2>1, SubtreeAgrees DEF Follows
    <2> QED BY <1>1, <2>1, <2>2, <2>3 DEF Deletes
  <1>4. \A x \in DOMAIN c.nodes : DOMAIN e.nodes[x] = Fields /\ e.nodes[x].dbid = c.nodes[x].dbid
    BY <1>1, SubtreeIs DEF Deletes, Follows, Nodes
  <1>5. Nodes(e.nodes, e.notify) /\ Keeps(c, e)
    BY <1>1, <1>4, SubtreeIs DEF Deletes, Follows, Nodes, Keeps
  <1>6. Follows(F, e, u, L)
    BY <1>1, <1>3, <1>5 DEF Follows, Agree, Deletes
  <1>7. Held(F, c, t, r) => Held(F, e, u, r)
    BY <1>1, <1>3 DEF Held, Deletes
  <1> QED BY <1>5, <1>6, <1>7 DEF Step, e

(* A new node is new to the client, and finds its parent. *)
LEMMA NewStep ==
    ASSUME NEW F, NEW c, NEW t, NEW K, NEW u, NEW L, NEW r, NEW h, NEW s,
           h \notin DOMAIN t, h \in F => h \notin K, DOMAIN s = {h}, h \in Handle,
           u = Over(s, t), Apart(F, u),
           Follows(F, c, t, K), K \subseteq L, DOMAIN u \subseteq L
    PROVE  Step(F, c, t, K, readnodes(c, s, TRUE), u, L, r)
  <1> DEFINE e == readnodes(c, s, TRUE)
  <1>1. Reads(c, s, TRUE, e)
    BY ReadIs DEF Follows
  <1>2. DOMAIN u = DOMAIN t \union {h} /\ u[h] = s[h] /\ \A x \in DOMAIN t : u[x] = t[x]
    BY DEF Over
  <1> HIDE DEF e
  <1>3. DOMAIN e.nodes = DOMAIN c.nodes \union {h} /\ e.notify = c.notify \union {h}
    BY <1>1 DEF Reads
  <1>4. \A x \in DOMAIN c.nodes : x # h => e.nodes[x] = c.nodes[x]
    BY <1>1 DEF Reads
  <1>5. \A x \in DOMAIN e.nodes : DOMAIN e.nodes[x] = Fields /\
           e.nodes[x].dbid = IF x \in DOMAIN c.nodes THEN c.nodes[x].dbid ELSE 0
    BY <1>1, <1>3 DEF Reads, Follows, Nodes
  <1>6. Nodes(e.nodes, e.notify) /\ Keeps(c, e)
    BY <1>3, <1>5 DEF Follows, Nodes, Keeps
  <1>7. \A x \in F \intersect DOMAIN t : x # h /\ e.nodes[x] = c.nodes[x] /\ x \in DOMAIN c.nodes
    BY <1>4 DEF Follows, Agree
  <1>8. h \in F => /\ h \notin DOMAIN c.nodes
                   /\ ~e.nodes[h].removed /\ e.nodes[h].clear /\ Same(e.nodes[h], u[h])
    <2> HAVE h \in F
    <2>1. h \notin DOMAIN c.nodes
      BY DEF Follows
    <2>2. u[h].parent \in DOMAIN u \intersect F \/ u[h].parent = Root
      BY <1>2 DEF Apart
    <2>3. u[h].parent \in DOMAIN e.nodes \union {Root}
      BY <1>2, <1>3, <1>7, <2>2
    <2>4. u[h].clear
      BY <1>2 DEF Apart
    <2>5. /\ ~e.nodes[h].removed /\ e.nodes[h].v = s[h].v /\ e.nodes[h].clear = s[h].clear
          /\ s[h].parent \in DOMAIN e.nodes \union {Root} => e.nodes[h].parent = s[h].parent
      BY <1>1, <2>1 DEF Reads
    <2> QED BY <1>2, <2>1, <2>3, <2>4, <2>5 DEF Same
  <1>9. Follows(F, e, u, L)
    <2>1. Agree(F, e.nodes, u)
      BY <1>2, <1>3, <1>7, <1>8 DEF Agree, Follows
    <2>2. F \intersect DOMAIN e.nodes \subseteq L
      BY <1>2, <1>3 DEF Follows
    <2> QED BY <1>6, <2>1, <2>2 DEF Follows
  <1>10. Held(F, c, t, r) /\ Known(F, r, K) => Held(F, e, u, r)
    <2> SUFFICES ASSUME Held(F, c, t, r), Known(F, r, K), NEW x \in F \intersect DOMAIN u
                 PROVE  /\ \A i \in DOMAIN r : r[i].h = x => e.nodes[x].dbid = i
                        /\ x \notin e.notify =>
                              LET i == e.nodes[x].dbid
                              IN  i \in DOMAIN r /\ r[i].h = x /\ Same(r[i], e.nodes[x])
      BY DEF Held
    <2>1. CASE x = h
      <3>1. \A i \in DOMAIN r : r[i].h # x
        BY <2>1 DEF Known
      <3> QED BY <1>3, <2>1, <3>1
    <2>2. CASE x \in DOMAIN t
      BY <1>3, <1>7, <2>2 DEF Held
    <2> QED BY <1>2, <2>1, <2>2
  <1> QED BY <1>6, <1>9, <1>10 DEF Step, e

(* A move is a deletion followed by new nodes: what it takes along comes
   back, in its place, and nothing else is touched. *)
LEMMA MoveStep ==
    ASSUME NEW F, NEW c, NEW t, NEW K, NEW u, NEW L, NEW r, NEW h \in DOMAIN t, NEW s,
           Root \notin DOMAIN c.nodes, Apart(F, t), Apart(F, u), DOMAIN t \subseteq Handle,
           Follows(F, c, t, K), K \subseteq L, DOMAIN u \subseteq L,
           DOMAIN u = DOMAIN t, \A x \in DOMAIN t : x # h => u[x] = t[x], u[h].v = t[h].v,
           DOMAIN s = Subtree(u, h), \A x \in DOMAIN s : s[x] = u[x]
    PROVE  Step(F, c, t, K, readnodes(deltree(c, h), s, TRUE), u, L, r)
  <1> DEFINE d == deltree(c, h)
             e == readnodes(d, s, TRUE)
  <1>1. Deletes(c, h, d)
    BY DeltreeIs DEF Follows
  <1> HIDE DEF d
  <1>2. \A x \in DOMAIN c.nodes : DOMAIN d.nodes[x] = Fields /\ d.nodes[x].dbid = c.nodes[x].dbid
    BY <1>1, SubtreeIs DEF Deletes, Follows, Nodes
  <1>3. Nodes(d.nodes, d.notify)
    BY <1>1, <1>2, SubtreeIs DEF Deletes, Follows, Nodes
  <1>4. Reads(d, s, TRUE, e)
    BY <1>3, ReadIs
  <1> HIDE DEF e
  <1>5. /\ DOMAIN u = DOMAIN t
        /\ \A x \in DOMAIN t : x # h => u[x] = t[x]
        /\ u[h].v = t[h].v
    OBVIOUS
  <1>6. DOMAIN s \subseteq DOMAIN u /\ \A x \in DOMAIN s : s[x] = u[x]
    BY SubtreeIs
  <1>60. Subtree(t, h) \subseteq DOMAIN s
    <2>1. \A x \in DOMAIN t : x # h => u[x].parent = t[x].parent
      BY <1>5
    <2> QED BY <1>5, <2>1, SubtreeMoves
  <1>7. DOMAIN e.nodes = DOMAIN c.nodes \union DOMAIN s /\ d.notify \subseteq e.notify
        /\ DOMAIN d.nodes = DOMAIN c.nodes /\ c.notify \subseteq d.notify
    BY <1>1, <1>4 DEF Reads, Deletes
  <1>8. \A x \in DOMAIN e.nodes : DOMAIN e.nodes[x] = Fields /\
           e.nodes[x].dbid = IF x \in DOMAIN c.nodes THEN c.nodes[x].dbid ELSE 0
    BY <1>2, <1>4, <1>7 DEF Reads, Nodes
  <1>80. e.notify \subseteq DOMAIN e.nodes
    BY <1>3, <1>4, <1>7 DEF Reads, Nodes
  <1>9. Nodes(e.nodes, e.notify) /\ Keeps(c, e)
    BY <1>5, <1>6, <1>7, <1>8, <1>80 DEF Follows, Nodes, Keeps
  <1>10. ASSUME NEW x \in F \intersect DOMAIN t
         PROVE  /\ x \in DOMAIN c.nodes /\ x \in DOMAIN e.nodes /\ ~e.nodes[x].removed
                /\ e.nodes[x].clear /\ Same(e.nodes[x], u[x])
                /\ e.nodes[x].dbid = c.nodes[x].dbid
                /\ x \notin e.notify => e.nodes[x] = c.nodes[x] /\ x \notin c.notify
    <2>1. x \in DOMAIN c.nodes /\ ~c.nodes[x].removed /\ c.nodes[x].clear /\ Same(c.nodes[x], t[x])
      BY DEF Follows, Agree
    <2>2. CASE x \in Subtree(c.nodes, h)
      <3>1. x \in Subtree(t, h)
        BY <2>2, SubtreeAgrees DEF Follows
      <3>2. x \in DOMAIN s
        BY <1>60, <3>1
      <3>3. d.nodes[x].removed /\ d.nodes[x].v = c.nodes[x].v /\ d.nodes[x].clear = c.nodes[x].clear
        BY <1>1, <2>2 DEF Deletes
      <3>4. u[x].parent \in F \intersect DOMAIN t \/ u[x].parent = Root
        BY <1>5 DEF Apart
      <3>5. s[x].parent \in DOMAIN e.nodes \union {Root}
        BY <1>6, <1>7, <3>2, <3>4 DEF Follows, Agree
      <3>6. x \in DOMAIN s \intersect DOMAIN d.nodes
        BY <1>7, <2>1, <3>2
      <3>7. /\ ~e.nodes[x].removed /\ e.nodes[x].dbid = d.nodes[x].dbid
            /\ e.nodes[x].v = d.nodes[x].v /\ e.nodes[x].clear = d.nodes[x].clear
            /\ e.nodes[x].parent = s[x].parent
        BY <1>4, <3>3, <3>5, <3>6 DEF Reads
      <3>8. u[x].v = t[x].v /\ s[x] = u[x]
        BY <1>5, <1>6, <3>2
      <3>9. x \in e.notify
        BY <1>1, <1>7, <2>2 DEF Deletes
      <3> QED BY <1>2, <1>7, <2>1, <3>3, <3>7, <3>8, <3>9 DEF Same
    <2>3. CASE x \notin Subtree(c.nodes, h)
      <3>1. d.nodes[x] = c.nodes[x]
        BY <1>1, <2>1, <2>3 DEF Deletes
      <3>2. x # h
        BY <2>1, <2>3, SubtreeIs
      <3>3. e.nodes[x] = c.nodes[x]
        BY <1>4, <1>7, <2>1, <3>1 DEF Reads
      <3>4. u[x] = t[x]
        BY <1>5, <3>2
      <3> QED BY <1>7, <2>1, <3>3, <3>4
    <2> QED BY <2>2, <2>3
  <1>11. Follows(F, e, u, L)
    <2>1. Agree(F, e.nodes, u)
      BY <1>5, <1>10 DEF Agree
    <2>2. F \intersect DOMAIN e.nodes \subseteq L
      BY <1>5, <1>6, <1>7 DEF Follows
    <2> QED BY <1>9, <2>1, <2>2 DEF Follows
  <1>12. Held(F, c, t, r) => Held(F, e, u, r)
    BY <1>5, <1>10 DEF Held
  <1> QED BY <1>9, <1>11, <1>12 DEF Step, e, d

\* the parts of sc_updatenode() and sc_keys() that matter: h changes
Changes(c, h, e) ==
    /\ DOMAIN e.nodes = DOMAIN c.nodes
    /\ c.notify \subseteq e.notify /\ e.notify \subseteq c.notify \union {h}
    /\ \A x \in DOMAIN c.nodes : x # h => e.nodes[x] = c.nodes[x]
    /\ h \in DOMAIN c.nodes =>
          /\ DOMAIN e.nodes[h] = Fields /\ e.nodes[h].dbid = c.nodes[h].dbid
          /\ e.nodes[h].parent = c.nodes[h].parent
          /\ e.nodes[h].removed = c.nodes[h].removed

(* One node is changed in place. *)
LEMMA ChangeStep ==
    ASSUME NEW F, NEW c, NEW t, NEW K, NEW u, NEW L, NEW r, NEW h, NEW e,
           Follows(F, c, t, K), K \subseteq L, Changes(c, h, e), DOMAIN u = DOMAIN t,
           h \in DOMAIN c.nodes \/ e.notify = c.notify,
           \A x \in DOMAIN t : x # h => u[x] = t[x],
           h \in F \intersect DOMAIN t =>
               e.nodes[h].clear /\ Same(e.nodes[h], u[h]) /\ h \in e.notify
    PROVE  Step(F, c, t, K, e, u, L, r)
  <1>1. \A x \in DOMAIN e.nodes : DOMAIN e.nodes[x] = Fields /\ e.nodes[x].dbid = c.nodes[x].dbid
    BY DEF Changes, Follows, Nodes
  <1>2. Nodes(e.nodes, e.notify) /\ Keeps(c, e)
    BY <1>1 DEF Changes, Follows, Nodes, Keeps
  <1>3. \A x \in F \intersect DOMAIN t :
           x \in DOMAIN c.nodes /\ ~e.nodes[x].removed /\ e.nodes[x].clear /\ Same(e.nodes[x], u[x])
    BY DEF Changes, Follows, Agree
  <1>4. Follows(F, e, u, L)
    BY <1>2, <1>3 DEF Follows, Agree, Changes
  <1>5. Held(F, c, t, r) => Held(F, e, u, r)
    <2> SUFFICES ASSUME Held(F, c, t, r), NEW x \in F \intersect DOMAIN t
                 PROVE  /\ \A i \in DOMAIN r : r[i].h = x => e.nodes[x].dbid = i
                        /\ x \notin e.notify =>
                              LET i == e.nodes[x].dbid
                              IN  i \in DOMAIN r /\ r[i].h = x /\ Same(r[i], e.nodes[x])
      BY DEF Held
    <2>1. x \in DOMAIN e.nodes /\ e.nodes[x].dbid = c.nodes[x].dbid
      BY <1>1, <1>3 DEF Changes
    <2>2. x \notin e.notify => e.nodes[x] = c.nodes[x] /\ x \notin c.notify
      BY <1>3 DEF Changes
    <2> QED BY <2>1, <2>2 DEF Held
  <1> QED BY <1>2, <1>4, <1>5 DEF Step

-----------------------------------------------------------------------------
(* Loops *)

\* what the loops of procsc() and updatesc() do with one element of their list
Do(k, d, x) == IF k = "put" THEN putnode(d, x) ELSE scAction(d, x)

Pass(f, k, c, s, m, N) == [n \in 0 .. N |-> IF n = 0 THEN c ELSE Do(k, f[n - 1], s[m + n])]

Loop(k, c, s, m, N) == CHOOSE f : f = Pass(f, k, c, s, m, N)

(* A loop has a state after each of its elements. *)
LEMMA LoopExists ==
    ASSUME NEW k, NEW c, NEW s, NEW m \in Nat, NEW N \in Nat
    PROVE  /\ Loop(k, c, s, m, N)[0] = c
           /\ \A n \in Nat : n + 1 <= N =>
                 Loop(k, c, s, m, N)[n + 1] = Do(k, Loop(k, c, s, m, N)[n], s[m + n + 1])
  <1> DEFINE S == {M \in Nat : \E f :
                      f = [n \in 0 .. M |-> IF n = 0 THEN c ELSE Do(k, f[n - 1], s[m + n])]}
  <1>1. 0 \in S
    <2> DEFINE g == [n \in 0 .. 0 |-> c]
    <2>1. g = [n \in 0 .. 0 |-> IF n = 0 THEN c ELSE Do(k, g[n - 1], s[m + n])]
      OBVIOUS
    <2> QED BY <2>1
  <1>2. ASSUME NEW M \in Nat, M \in S PROVE M + 1 \in S
    <2>1. PICK f : f = [n \in 0 .. M |-> IF n = 0 THEN c ELSE Do(k, f[n - 1], s[m + n])]
      BY <1>2
    <2> DEFINE x == s[m + (M + 1)]
               g == [n \in 0 .. M + 1 |-> IF n <= M THEN f[n] ELSE Do(k, f[M], x)]
    <2>2. ASSUME NEW n \in 0 .. M + 1
          PROVE  g[n] = IF n = 0 THEN c ELSE Do(k, g[n - 1], s[m + n])
      <3>1. CASE n = 0
        BY <2>1, <3>1
      <3>2. CASE n # 0 /\ n <= M
        <4>1. n - 1 \in 0 .. M + 1 /\ n - 1 <= M /\ n \in 0 .. M
          BY <3>2
        <4>2. g[n - 1] = f[n - 1] /\ g[n] = f[n]
          BY <4>1, <3>2
        <4>3. f[n] = Do(k, f[n - 1], s[m + n])
          BY <2>1, <3>2, <4>1
        <4> QED BY <3>2, <4>2, <4>3
      <3>3. CASE n = M + 1
        <4>1. n # 0 /\ n - 1 = M
          BY <3>3
        <4>2. g[M] = f[M] /\ g[n] = Do(k, f[M], x)
          BY <3>3
        <4> HIDE DEF g
        <4> QED BY <3>3, <4>1, <4>2
      <3> QED BY <3>1, <3>2, <3>3
    <2>3. g = [n \in 0 .. M + 1 |-> IF n = 0 THEN c ELSE Do(k, g[n - 1], s[m + n])]
      <3>1. g = [n \in 0 .. M + 1 |-> g[n]]
        OBVIOUS
      <3> HIDE DEF g
      <3> QED BY <2>2, <3>1, Zenon
    <2> HIDE DEF g
    <2>4. \E h : h = [n \in 0 .. M + 1 |-> IF n = 0 THEN c ELSE Do(k, h[n - 1], s[m + n])]
      BY <2>3, Zenon
    <2>5. M + 1 \in Nat
      OBVIOUS
    <2> QED BY <2>4, <2>5, Zenon
  <1> HIDE DEF S
  <1>3. N \in S
    BY <1>1, <1>2, SetInduction
  <1>4. \E f : f = Pass(f, k, c, s, m, N)
    BY <1>3, Zenon DEF S, Pass
  <1> DEFINE f == Loop(k, c, s, m, N)
  <1>5. f = Pass(f, k, c, s, m, N)
    BY <1>4, Zenon DEF Loop
  <1> HIDE DEF f
  <1>6. f[0] = c
    BY <1>5 DEF Pass
  <1>7. ASSUME NEW n \in Nat, n + 1 <= N PROVE f[n + 1] = Do(k, f[n], s[m + n + 1])
    <2>1. n + 1 \in 0 .. N /\ n + 1 # 0 /\ (n + 1) - 1 = n /\ m + (n + 1) = m + n + 1
      BY <1>7
    <2>2. \A i \in 0 .. N : f[i] = IF i = 0 THEN c ELSE Do(k, f[i - 1], s[m + i])
      BY <1>5 DEF Pass
    <2> QED BY <2>1, <2>2
  <1> QED BY <1>6, <1>7 DEF f

(* The two loops. *)
LEMMA Loops ==
    /\ \A c, from, to : procsc(c, from, to) = Loop("sc", c, log, from, to - from)[to - from]
    /\ \A x, list : Len(list) \in Nat =>
                       putall(x, list) = Loop("put", x, list, 0, Len(list))[Len(list)]
  <1>1. ASSUME NEW c, NEW from, NEW to
        PROVE  procsc(c, from, to) = Loop("sc", c, log, from, to - from)[to - from]
    <2>1. \A f : Pass(f, "sc", c, log, from, to - from)
               = [n \in 0 .. to - from |-> IF n = 0 THEN c ELSE scAction(f[n - 1], log[from + n])]
      <3>1. \A d, x : Do("sc", d, x) = scAction(d, x)
        BY DEF Do
      <3> QED BY <3>1, Zenon DEF Pass
    <2> QED BY <2>1, Zenon DEF Loop, procsc
  <1>2. ASSUME NEW x, NEW list, Len(list) \in Nat
        PROVE  putall(x, list) = Loop("put", x, list, 0, Len(list))[Len(list)]
    <2>1. \A f : Pass(f, "put", x, list, 0, Len(list))
               = [n \in 0 .. Len(list) |-> IF n = 0 THEN x ELSE putnode(f[n - 1], list[n])]
      <3>1. \A d, y : Do("put", d, y) = putnode(d, y)
        BY DEF Do
      <3>2. \A n \in 0 .. Len(list) : 0 + n = n
        BY <1>2
      <3> QED BY <3>1, <3>2, Zenon DEF Pass
    <2> QED BY <2>1, Zenon DEF Loop, putall
  <1> QED BY <1>1, <1>2

-----------------------------------------------------------------------------
(* The server's history *)

\* the update a has turned tree t into u
Change(a, t, u) ==
    /\ a.a \in {"t", "d", "m", "u", "k"}
    /\ a.a = "t" => /\ a.h \in Handle \ DOMAIN t /\ DOMAIN a.recs = {a.h}
                    /\ u = Over(a.recs, t)
    /\ a.a = "d" => u = Without(t, Subtree(t, a.h))
    /\ a.a # "t" => a.h \in DOMAIN t
    /\ a.a \in {"m", "u", "k"} => /\ DOMAIN u = DOMAIN t
                                  /\ \A x \in DOMAIN t : x # a.h => u[x] = t[x]
    /\ a.a = "m" => /\ u[a.h].v = t[a.h].v
                    /\ DOMAIN a.recs = Subtree(u, a.h)
                    /\ \A x \in DOMAIN a.recs : a.recs[x] = u[x]
    /\ a.a = "u" => u[a.h].v = a.v /\ u[a.h].parent = t[a.h].parent
    /\ a.a = "k" => ~t[a.h].clear /\ Same(u[a.h], t[a.h])

Tree(t) ==
    /\ DOMAIN t \subseteq Handle
    /\ \A h \in DOMAIN t : /\ DOMAIN t[h] = ServerFields
                           /\ t[h].parent \in DOMAIN t \union {Root}

History ==
    /\ \E S : tree \in Seq(S)
    /\ \E S : log \in Seq(S)
    /\ Len(tree) = now + 1
    /\ \A i \in 1 .. now + 1 : Tree(tree[i])
    /\ \A i \in 1 .. now :
         /\ Change(log[i], tree[i], tree[i + 1])
         /\ log[i].a = "t" => \A j \in 1 .. i : log[i].h \notin DOMAIN tree[j]
         /\ log[i].by # Others => log[i].h \in mine

\* the nodes the server has had up to update n
Ever(n) == {h \in Handle : \E j \in 1 .. n + 1 : h \in DOMAIN tree[j]}

\* one of the sets that Foreign is made of
Pure(S) ==
    /\ S \subseteq Handle
    /\ S \intersect touched = {}
    /\ \A i \in DOMAIN tree : \A h \in S \intersect DOMAIN tree[i] :
          tree[i][h].parent \in S \union {Root}

LEMMA NoHandle == Root \notin Handle /\ None \notin Handle /\ Root # None
  BY CacheAssumption DEF Root, None

(* Foreign is the largest of them. *)
LEMMA ForeignIs == Pure(Foreign) /\ \A S : Pure(S) => S \subseteq Foreign
  <1>1. \A S : Pure(S) => S \subseteq Foreign
    BY DEF Pure, Foreign
  <1>2. \A h \in Foreign : \E S : Pure(S) /\ h \in S
    BY DEF Pure, Foreign
  <1> HIDE DEF Foreign
  <1>3. Pure(Foreign)
    <2>1. Foreign \subseteq Handle /\ Foreign \intersect touched = {}
      BY <1>2 DEF Pure
    <2>2. ASSUME NEW i \in DOMAIN tree, NEW h \in Foreign \intersect DOMAIN tree[i]
          PROVE  tree[i][h].parent \in Foreign \union {Root}
      <3> PICK S : Pure(S) /\ h \in S
        BY <1>2
      <3> QED BY <1>1 DEF Pure
    <2> QED BY <2>1, <2>2 DEF Pure
  <1> QED BY <1>1, <1>3

LEMMA HistoryIs ==
    ASSUME History
    PROVE  /\ now \in Nat /\ DOMAIN tree = 1 .. now + 1 /\ DOMAIN log = 1 .. now
           /\ latest = tree[now + 1]
  BY DEF History, now, latest

(* A set that own commands have not touched is well-formed in every tree. *)
LEMMA PureApart ==
    ASSUME History, NEW F, Pure(F), NEW n \in 0 .. now
    PROVE  Apart(F, tree[n + 1]) /\ Tree(tree[n + 1]) /\ DOMAIN tree[n + 1] \subseteq Ever(n)
  <1>1. n + 1 \in DOMAIN tree /\ n + 1 \in 1 .. now + 1 /\ n + 1 \in 1 .. n + 1
    BY HistoryIs
  <1>2. Tree(tree[n + 1])
    BY <1>1 DEF History
  <1>3. \A x \in F \intersect DOMAIN tree[n + 1] : tree[n + 1][x].clear
    BY <1>1 DEF Pure, touched
  <1>4. Apart(F, tree[n + 1])
    BY <1>1, <1>2, <1>3 DEF Pure, Apart, Tree
  <1>5. DOMAIN tree[n + 1] \subseteq Ever(n)
    BY <1>1, <1>2 DEF Tree, Ever
  <1> QED BY <1>2, <1>4, <1>5

(* An update of a node outside F leaves F alone. *)
LEMMA ChangeApart ==
    ASSUME NEW F, NEW a, NEW t, NEW u, Change(a, t, u), a.h \notin F
    PROVE  \A x \in F \intersect DOMAIN u : x \in DOMAIN t /\ Same(u[x], t[x])
  <1>1. CASE a.a = "t"
    BY <1>1 DEF Change, Over, Same
  <1>2. CASE a.a = "d"
    BY <1>2 DEF Change, Without, Same
  <1>3. CASE a.a \in {"m", "u", "k"}
    BY <1>3 DEF Change, Same
  <1> QED BY <1>1, <1>2, <1>3 DEF Change

(* sc_updatenode() and sc_keys() *)
LEMMA PlaceIs ==
    ASSUME NEW c, NEW a, Nodes(c.nodes, c.notify)
    PROVE  /\ Changes(c, a.h, sc_updatenode(c, a)) /\ Changes(c, a.h, sc_keys(c, a))
           /\ a.h \in DOMAIN c.nodes =>
                 /\ sc_updatenode(c, a).nodes[a.h].v = a.v
                 /\ sc_updatenode(c, a).nodes[a.h].clear = c.nodes[a.h].clear
                 /\ a.h \in sc_updatenode(c, a).notify
           /\ a.h \notin DOMAIN c.nodes => sc_updatenode(c, a) = c
           /\ sc_keys(c, a).notify = c.notify
  <1>1. CASE a.h \notin DOMAIN c.nodes
    BY <1>1 DEF sc_updatenode, sc_keys, Changes
  <1>2. CASE a.h \in DOMAIN c.nodes
    <2>1. DOMAIN c.nodes[a.h] = Fields
      BY <1>2 DEF Nodes
    <2> DEFINE d == sc_updatenode(c, a)
               e == sc_keys(c, a)
    <2>2. /\ d.nodes = [c.nodes EXCEPT ![a.h].v = a.v] /\ d.notify = c.notify \union {a.h}
          /\ e.nodes = [c.nodes EXCEPT ![a.h].clear = TRUE] /\ e.notify = c.notify
      BY <1>2 DEF sc_updatenode, sc_keys, View
    <2> HIDE DEF d, e
    <2>3. /\ Changes(c, a.h, d) /\ d.nodes[a.h].v = a.v
          /\ d.nodes[a.h].clear = c.nodes[a.h].clear /\ a.h \in d.notify
      BY <1>2, <2>1, <2>2 DEF Changes, Fields
    <2>4. Changes(c, a.h, e)
      BY <1>2, <2>1, <2>2 DEF Changes, Fields
    <2> QED BY <1>2, <2>2, <2>3, <2>4 DEF d, e
  <1> QED BY <1>1, <1>2

(* One action of a response does to the client's tree what the update it
   reports has done to the server's. *)
LEMMA ActionStep ==
    ASSUME NEW F, NEW c, NEW t, NEW K, NEW u, NEW L, NEW r, NEW a,
           Change(a, t, u), Tree(t), Apart(F, t), Apart(F, u),
           Follows(F, c, t, K), K \subseteq L, DOMAIN u \subseteq L,
           a.a = "t" => a.h \notin K, a.by = sessionid => a.h \notin F
    PROVE  Step(F, c, t, K, scAction(c, a), u, L, r)
  <1>0. Nodes(c.nodes, c.notify) /\ Root \notin DOMAIN c.nodes
    BY NoHandle DEF Follows, Nodes
  <1>1. CASE a.by = sessionid
    <2>1. scAction(c, a) = c
      BY <1>1 DEF scAction
    <2>2. \A x \in F \intersect DOMAIN u : x \in DOMAIN t /\ Same(u[x], t[x])
      BY <1>1, ChangeApart
    <2> QED BY <2>1, <2>2, SkipStep
  <1>2. CASE a.by # sessionid /\ a.a = "t"
    <2>1. scAction(c, a) = readnodes(c, a.recs, TRUE)
      BY <1>2 DEF scAction, sc_newnodes
    <2>2. /\ a.h \in Handle /\ a.h \notin DOMAIN t /\ DOMAIN a.recs = {a.h}
          /\ u = Over(a.recs, t) /\ a.h \notin K
      BY <1>2 DEF Change
    <2> QED BY <2>1, <2>2, NewStep
  <1>3. CASE a.by # sessionid /\ a.a = "d"
    <2>1. scAction(c, a) = deltree(c, a.h)
      BY <1>3 DEF scAction, sc_deltree
    <2>2. a.h \in DOMAIN t /\ u = Without(t, Subtree(t, a.h))
      BY <1>3 DEF Change
    <2> QED BY <1>0, <2>1, <2>2, DelStep
  <1>4. CASE a.by # sessionid /\ a.a = "m"
    <2>1. scAction(c, a) = readnodes(deltree(c, a.h), a.recs, TRUE)
      BY <1>4 DEF scAction, sc_deltree, sc_newnodes
    <2>2. /\ a.h \in DOMAIN t /\ DOMAIN u = DOMAIN t /\ \A x \in DOMAIN t : x # a.h => u[x] = t[x]
          /\ u[a.h].v = t[a.h].v /\ DOMAIN a.recs = Subtree(u, a.h)
          /\ \A x \in DOMAIN a.recs : a.recs[x] = u[x]
      BY <1>4 DEF Change
    <2>3. DOMAIN t \subseteq Handle
      BY DEF Tree
    <2> DEFINE h == a.h
               s == a.recs
    <2>4. /\ h \in DOMAIN t /\ DOMAIN u = DOMAIN t /\ u[h].v = t[h].v /\ DOMAIN s = Subtree(u, h)
          /\ \A x \in DOMAIN t : x # h => u[x] = t[x]
          /\ \A x \in DOMAIN s : s[x] = u[x]
      BY <2>2, Zenon
    <2> HIDE DEF h, s
    <2>5. Step(F, c, t, K, readnodes(deltree(c, h), s, TRUE), u, L, r)
      BY <1>0, <2>3, <2>4, MoveStep, Zenon
    <2> QED BY <2>1, <2>5 DEF h, s
  <1>5. CASE a.by # sessionid /\ a.a = "u"
    <2> DEFINE e == sc_updatenode(c, a)
    <2>1. scAction(c, a) = e
      BY <1>5 DEF scAction
    <2>2. /\ a.h \in DOMAIN t /\ DOMAIN u = DOMAIN t /\ \A x \in DOMAIN t : x # a.h => u[x] = t[x]
          /\ u[a.h].v = a.v /\ u[a.h].parent = t[a.h].parent
      BY <1>5 DEF Change
    <2>3. /\ Changes(c, a.h, e)
          /\ a.h \in DOMAIN c.nodes => /\ e.nodes[a.h].v = a.v
                                       /\ e.nodes[a.h].clear = c.nodes[a.h].clear
                                       /\ a.h \in e.notify
          /\ a.h \notin DOMAIN c.nodes => e = c
      BY <1>0, PlaceIs
    <2> HIDE DEF e
    <2>4. a.h \in F \intersect DOMAIN t =>
               e.nodes[a.h].clear /\ Same(e.nodes[a.h], u[a.h]) /\ a.h \in e.notify
      BY <2>2, <2>3 DEF Follows, Agree, Same, Changes
    <2>5. a.h \in DOMAIN c.nodes \/ e.notify = c.notify
      BY <2>3
    <2> QED BY <2>1, <2>2, <2>3, <2>4, <2>5, ChangeStep
  <1>6. CASE a.by # sessionid /\ a.a = "k"
    <2> DEFINE e == sc_keys(c, a)
    <2>1. scAction(c, a) = e
      BY <1>6 DEF scAction
    <2>2. /\ a.h \in DOMAIN t /\ DOMAIN u = DOMAIN t /\ \A x \in DOMAIN t : x # a.h => u[x] = t[x]
          /\ ~t[a.h].clear
      BY <1>6 DEF Change
    <2>3. Changes(c, a.h, e) /\ e.notify = c.notify
      BY <1>0, PlaceIs
    <2> HIDE DEF e
    <2>4. a.h \notin F
      BY <2>2 DEF Apart
    <2> QED BY <2>1, <2>2, <2>3, <2>4, ChangeStep
  <1> QED BY <1>1, <1>2, <1>3, <1>4, <1>5, <1>6 DEF Change

(* Updates in sequence. *)
LEMMA StepStep ==
    ASSUME NEW F, NEW c, NEW t, NEW K, NEW d, NEW s, NEW J, NEW e, NEW u, NEW L, NEW r,
           Step(F, c, t, K, d, s, J, r), Step(F, d, s, J, e, u, L, r), K \subseteq J
    PROVE  Step(F, c, t, K, e, u, L, r)
  <1>1. Keeps(c, e)
    BY DEF Step, Keeps
  <1>2. Known(F, r, K) => Known(F, r, J)
    BY DEF Known
  <1> QED BY <1>1, <1>2 DEF Step

LEMMA EverGrows ==
    ASSUME NEW m \in Nat, NEW n \in Nat, m <= n
    PROVE  Ever(m) \subseteq Ever(n)
  BY DEF Ever

(* procsc(): the response to a request that starts from the number of the
   tree takes the tree to the number it ends with. *)
LEMMA ResponseStep ==
    ASSUME History, NEW F, Pure(F), sessionid # Others, NEW c, NEW r,
           NEW from \in 0 .. now, NEW to \in from .. now,
           Follows(F, c, tree[from + 1], Ever(from))
    PROVE  Step(F, c, tree[from + 1], Ever(from), procsc(c, from, to), tree[to + 1], Ever(to), r)
  <1>0. now \in Nat /\ from \in Nat /\ to \in Nat /\ to - from \in Nat
    BY HistoryIs
  <1> DEFINE N == to - from
             f == Loop("sc", c, log, from, N)
             Good(k) == Step(F, c, tree[from + 1], Ever(from), f[k], tree[from + k + 1], Ever(from + k), r)
             S == {k \in Nat : k <= N => Good(k)}
  <1>1. f[0] = c /\ \A k \in Nat : k + 1 <= N => f[k + 1] = Do("sc", f[k], log[from + k + 1])
    BY <1>0, LoopExists
  <1>2. procsc(c, from, to) = f[N]
    BY Loops
  <1> HIDE DEF f
  <1>3. 0 \in S
    <2>1. Step(F, c, tree[from + 1], Ever(from), c, tree[from + 1], Ever(from), r)
      BY SkipStep DEF Same
    <2>2. from + 0 = from /\ from + 0 + 1 = from + 1
      BY <1>0
    <2> QED BY <1>1, <2>1, <2>2
  <1>4. ASSUME NEW k \in Nat, k \in S PROVE k + 1 \in S
    <2> SUFFICES ASSUME k + 1 <= N PROVE Good(k + 1)
      OBVIOUS
    <2> DEFINE n == from + k
    <2>1. /\ n \in 0 .. now /\ n + 1 \in 0 .. now /\ n + 1 \in 1 .. now /\ n \in Nat
          /\ from + k + 1 = n + 1 /\ from + (k + 1) = n + 1 /\ from + (k + 1) + 1 = n + 1 + 1
      BY <1>0
    <2>2. Good(k)
      BY <1>0, <1>4
    <2>3. Step(F, c, tree[from + 1], Ever(from), f[k], tree[n + 1], Ever(n), r)
      BY <2>1, <2>2
    <2> DEFINE a == log[n + 1]
    <2>4. f[k + 1] = scAction(f[k], a)
      BY <1>1, <2>1 DEF Do
    <2>5. /\ Apart(F, tree[n + 1]) /\ Tree(tree[n + 1]) /\ Apart(F, tree[n + 1 + 1])
          /\ DOMAIN tree[n + 1 + 1] \subseteq Ever(n + 1)
      BY <2>1, PureApart
    <2>6. /\ Change(a, tree[n + 1], tree[n + 1 + 1])
          /\ a.a = "t" => \A j \in 1 .. n + 1 : a.h \notin DOMAIN tree[j]
          /\ a.by # Others => a.h \in mine
      BY <2>1 DEF History
    <2> HIDE DEF a, n
    <2>7. a.a = "t" => a.h \notin Ever(n)
      BY <2>6 DEF Ever
    <2>8. a.by = sessionid => a.h \notin F
      BY <2>6 DEF Pure, touched
    <2>9. Ever(n) \subseteq Ever(n + 1) /\ Ever(from) \subseteq Ever(n)
      BY <1>0, <2>1, EverGrows DEF n
    <2>10. Follows(F, f[k], tree[n + 1], Ever(n))
      BY <2>3 DEF Step
    <2>11. Step(F, f[k], tree[n + 1], Ever(n), f[k + 1], tree[n + 1 + 1], Ever(n + 1), r)
      BY <2>4, <2>5, <2>6, <2>7, <2>8, <2>9, <2>10, ActionStep
    <2>12. Step(F, c, tree[from + 1], Ever(from), f[k + 1], tree[n + 1 + 1], Ever(n + 1), r)
      BY <2>3, <2>9, <2>11, StepStep
    <2> QED BY <2>1, <2>12
  <1> HIDE DEF S
  <1>5. N \in S
    BY <1>0, <1>3, <1>4, SetInduction
  <1>6. Good(N) /\ from + N = to /\ from + N + 1 = to + 1
    BY <1>0, <1>5 DEF S
  <1> QED BY <1>2, <1>6

-----------------------------------------------------------------------------
(* Writing to the cache *)

Shape == {"rows", "nodes", "id"}

\* what one write of node h makes of x, the rows, nodes and last number so far
Puts(x, h, y) ==
    LET n == x.nodes[h]
        k == y.nodes[h].dbid
    IN  /\ DOMAIN y = Shape /\ y.id \in Nat
        /\ DOMAIN y.nodes = DOMAIN x.nodes
        /\ \A g \in DOMAIN x.nodes : g # h => y.nodes[g] = x.nodes[g]
        /\ DOMAIN y.nodes[h] = Fields /\ k \in Nat
        /\ y.nodes[h].parent = n.parent /\ y.nodes[h].v = n.v
        /\ y.nodes[h].clear = n.clear /\ y.nodes[h].removed = n.removed
        /\ \/ /\ n.removed /\ n.dbid # 0 /\ k = n.dbid /\ y.id = x.id
              /\ DOMAIN y.rows = DOMAIN x.rows \ {k}
              /\ \A i \in DOMAIN y.rows : y.rows[i] = x.rows[i]
           \/ /\ ~n.clear /\ y = x
           \/ /\ IF n.dbid = 0 THEN k = x.id + 1 /\ y.id = k ELSE k = n.dbid /\ y.id = x.id
              /\ DOMAIN y.rows = DOMAIN x.rows \union {k}
              /\ y.rows[k] = record(h, n)
              /\ \A i \in DOMAIN x.rows : i # k => y.rows[i] = x.rows[i]

(* One write of updatesc() or initsc() *)
LEMMA PutIs ==
    ASSUME NEW x, NEW h \in DOMAIN x.nodes, DOMAIN x = Shape, x.id \in Nat,
           DOMAIN x.nodes[h] = Fields, x.nodes[h].dbid \in Nat
    PROVE  Puts(x, h, putnode(x, h))
  <1> DEFINE n == x.nodes[h]
             y == putnode(x, h)
             k == IF n.dbid = 0 THEN x.id + 1 ELSE n.dbid
  <1>1. CASE n.removed /\ n.dbid # 0
    <2>1. y = [x EXCEPT !.rows = Without(@, {n.dbid})]
      BY <1>1 DEF putnode
    <2> HIDE DEF y
    <2>2. /\ DOMAIN y = Shape /\ y.id = x.id /\ y.nodes = x.nodes
          /\ y.rows = Without(x.rows, {n.dbid})
      BY <2>1 DEF Shape
    <2>3. DOMAIN y.rows = DOMAIN x.rows \ {n.dbid} /\ \A i \in DOMAIN y.rows : y.rows[i] = x.rows[i]
      BY <2>2 DEF Without
    <2>4. Puts(x, h, y)
      BY <1>1, <2>2, <2>3 DEF Puts
    <2> QED BY <2>4 DEF y
  <1>2. CASE ~(n.removed /\ n.dbid # 0) /\ ~n.clear
    <2>1. y = x
      BY <1>2 DEF putnode
    <2> HIDE DEF y
    <2>2. Puts(x, h, y)
      BY <1>2, <2>1 DEF Puts
    <2> QED BY <2>2 DEF y
  <1>3. CASE ~(n.removed /\ n.dbid # 0) /\ n.clear
    <2>1. y = [rows |-> Over(One(k, record(h, n)), x.rows),
               nodes |-> [x.nodes EXCEPT ![h].dbid = k],
               id |-> IF n.dbid = 0 THEN k ELSE x.id]
      BY <1>3 DEF putnode, nextrecord
    <2>0. k \in Nat
      OBVIOUS
    <2>00. (n.dbid = 0 => k = x.id + 1) /\ (n.dbid # 0 => k = n.dbid)
      OBVIOUS
    <2> HIDE DEF y, k
    <2>2. /\ DOMAIN y = Shape /\ y.id = (IF n.dbid = 0 THEN k ELSE x.id)
          /\ y.nodes = [x.nodes EXCEPT ![h].dbid = k]
          /\ y.rows = Over(One(k, record(h, n)), x.rows)
      BY <2>1 DEF Shape
    <2>3. /\ DOMAIN y.nodes = DOMAIN x.nodes
          /\ \A g \in DOMAIN x.nodes : g # h => y.nodes[g] = x.nodes[g]
          /\ DOMAIN y.nodes[h] = Fields /\ y.nodes[h].dbid = k
          /\ y.nodes[h].parent = n.parent /\ y.nodes[h].v = n.v
          /\ y.nodes[h].clear = n.clear /\ y.nodes[h].removed = n.removed
      BY <2>2 DEF Fields
    <2> DEFINE R == record(h, n)
    <2>40. y.rows = Over(One(k, R), x.rows)
      BY <2>2
    <2> HIDE DEF R
    <2>4. /\ DOMAIN y.rows = DOMAIN x.rows \union {k} /\ y.rows[k] = R
          /\ \A i \in DOMAIN x.rows : i # k => y.rows[i] = x.rows[i]
      BY <2>40 DEF Over, One
    <2>5. IF n.dbid = 0 THEN k = x.id + 1 /\ y.id = k ELSE k = n.dbid /\ y.id = x.id
      BY <2>00, <2>2
    <2>6. y.id \in Nat
      BY <2>0, <2>2
    <2> HIDE DEF n
    <2>7. Puts(x, h, y)
      BY <2>0, <2>2, <2>3, <2>4, <2>5, <2>6 DEF Puts, R, n
    <2> QED BY <2>7 DEF y
  <1> QED BY <1>1, <1>2, <1>3

\* Record numbers: every node has its own, up to the last number m, and of the
\* records r that of no other node.
Ids(c, r, m) ==
    /\ m \in Nat
    /\ \A h \in DOMAIN c : c[h].dbid <= m
    /\ \A g, h \in DOMAIN c : c[g].dbid = c[h].dbid /\ c[g].dbid # 0 => g = h
    /\ \A h \in DOMAIN c : c[h].dbid \in DOMAIN r => r[c[h].dbid].h = h

\* the node is the same, but for its record number
Renumbered(n, k) ==
    /\ DOMAIN k = Fields /\ k.dbid \in Nat
    /\ k.parent = n.parent /\ k.v = n.v /\ k.clear = n.clear /\ k.removed = n.removed
    /\ n.dbid # 0 => k.dbid = n.dbid

\* x is what writing the nodes of W has made of x0
Written(o, x, W) ==
    /\ DOMAIN x = Shape
    /\ DOMAIN x.nodes = DOMAIN o.nodes
    /\ \A h \in DOMAIN o.nodes : Renumbered(o.nodes[h], x.nodes[h])
    /\ \A h \in DOMAIN o.nodes \ W : x.nodes[h] = o.nodes[h]
    /\ Ids(x.nodes, x.rows, x.id) /\ DOMAIN x.rows \subseteq 1 .. x.id
    /\ \A h \in W : o.nodes[h].clear /\ ~o.nodes[h].removed =>
          x.nodes[h].dbid \in DOMAIN x.rows /\ x.rows[x.nodes[h].dbid] = record(h, o.nodes[h])
    /\ \A i \in DOMAIN x.rows : \/ i \in DOMAIN o.rows /\ x.rows[i] = o.rows[i]
                                \/ \E h \in W : i = x.nodes[h].dbid /\ x.rows[i] = record(h, o.nodes[h])
    /\ \A i \in DOMAIN o.rows : \/ i \in DOMAIN x.rows /\ x.rows[i] = o.rows[i]
                                \/ \E h \in W : o.nodes[h].dbid = i

(* One node more. *)
LEMMA PutStep ==
    ASSUME NEW o, NEW x, NEW W, NEW h \in DOMAIN o.nodes \ W, W \subseteq DOMAIN o.nodes,
           Written(o, x, W), Nodes(o.nodes, {})
    PROVE  Written(o, putnode(x, h), W \union {h})
  <1> DEFINE y == putnode(x, h)
             V == W \union {h}
             n == o.nodes[h]
             k == y.nodes[h].dbid
  <1>0. /\ DOMAIN x = Shape /\ x.id \in Nat /\ h \in DOMAIN x.nodes /\ x.nodes[h] = n
        /\ DOMAIN n = Fields /\ n.dbid \in Nat
    BY DEF Written, Ids, Nodes
  <1>1. Puts(x, h, y)
    BY <1>0, PutIs
  <1> HIDE DEF y, n
  <1>2. /\ DOMAIN y = Shape /\ y.id \in Nat
        /\ DOMAIN y.nodes = DOMAIN o.nodes
        /\ \A g \in DOMAIN o.nodes : g # h => y.nodes[g] = x.nodes[g]
        /\ DOMAIN y.nodes[h] = Fields /\ k \in Nat
        /\ y.nodes[h].parent = n.parent /\ y.nodes[h].v = n.v
        /\ y.nodes[h].clear = n.clear /\ y.nodes[h].removed = n.removed
    BY <1>0, <1>1 DEF Puts, Written
  <1>3. \/ /\ n.removed /\ n.dbid # 0 /\ k = n.dbid /\ y.id = x.id
           /\ DOMAIN y.rows = DOMAIN x.rows \ {k}
           /\ \A i \in DOMAIN y.rows : y.rows[i] = x.rows[i]
        \/ /\ ~n.clear /\ y = x
        \/ /\ IF n.dbid = 0 THEN k = x.id + 1 /\ y.id = k ELSE k = n.dbid /\ y.id = x.id
           /\ DOMAIN y.rows = DOMAIN x.rows \union {k}
           /\ y.rows[k] = record(h, n)
           /\ \A i \in DOMAIN x.rows : i # k => y.rows[i] = x.rows[i]
    BY <1>0, <1>1 DEF Puts
  <1>4. n.dbid # 0 => k = n.dbid
    BY <1>0, <1>3
  <1>5. \A g \in DOMAIN o.nodes : Renumbered(o.nodes[g], y.nodes[g])
    <2>1. Renumbered(n, y.nodes[h])
      BY <1>2, <1>4 DEF Renumbered
    <2> QED BY <1>2, <2>1 DEF Written, n
  <1>6. \A g \in DOMAIN o.nodes \ V : y.nodes[g] = o.nodes[g]
    BY <1>2 DEF Written
  <1>7. \A g \in DOMAIN o.nodes : x.nodes[g].dbid \in Nat /\ x.nodes[g].dbid <= x.id
    BY DEF Written, Ids, Renumbered
  <1>8. \A g \in DOMAIN o.nodes : g # h => x.nodes[g].dbid # k \/ x.nodes[g].dbid = 0
    <2> SUFFICES ASSUME NEW g \in DOMAIN o.nodes, g # h, x.nodes[g].dbid = k, k # 0
                 PROVE  FALSE
      OBVIOUS
    <2>1. CASE k = n.dbid
      BY <1>0, <2>1 DEF Written, Ids
    <2>2. CASE k = x.id + 1
      BY <1>0, <1>7, <2>2
    <2>3. y = x => k = n.dbid
      BY <1>0
    <2> QED BY <1>3, <2>1, <2>2, <2>3
  <1>9. x.id <= y.id /\ k <= y.id
    <2>1. n.dbid <= x.id
      BY <1>0, <1>7
    <2>2. y = x => k = n.dbid
      BY <1>0
    <2> QED BY <1>0, <1>2, <1>3, <2>1, <2>2
  <1>10. 0 \notin DOMAIN x.rows
    BY DEF Written
  <1>11. DOMAIN y.rows \subseteq 1 .. y.id
    <2>1. CASE DOMAIN y.rows \subseteq DOMAIN x.rows
      BY <1>0, <1>2, <1>9, <2>1 DEF Written
    <2>2. CASE DOMAIN y.rows = DOMAIN x.rows \union {k} /\ k # 0
      BY <1>0, <1>2, <1>9, <2>2 DEF Written
    <2> QED BY <1>0, <1>3, <2>1, <2>2
  <1>12. \A i \in DOMAIN x.rows : i # k => i \in DOMAIN y.rows /\ y.rows[i] = x.rows[i]
    BY <1>3
  <1>13. \A i \in DOMAIN y.rows : i # k => i \in DOMAIN x.rows /\ y.rows[i] = x.rows[i]
    BY <1>3
  <1>14. k \in DOMAIN y.rows => \/ y.rows[k] = record(h, n)
                                \/ k \in DOMAIN x.rows /\ y = x
    BY <1>3
  <1>15. record(h, n).h = h
    BY DEF record
  <1>16. Ids(y.nodes, y.rows, y.id)
    <2>1. \A g \in DOMAIN y.nodes : y.nodes[g].dbid <= y.id
      <3> TAKE g \in DOMAIN y.nodes
      <3>1. CASE g = h
        BY <1>9, <3>1
      <3>2. CASE g # h
        <4>1. y.nodes[g].dbid = x.nodes[g].dbid /\ x.nodes[g].dbid <= x.id /\ x.nodes[g].dbid \in Nat
          BY <1>2, <1>7, <3>2
        <4> QED BY <1>0, <1>2, <1>9, <4>1
      <3> QED BY <3>1, <3>2
    <2>2. \A f, g \in DOMAIN y.nodes : y.nodes[g].dbid = y.nodes[f].dbid /\ y.nodes[g].dbid # 0 => g = f
      <3> TAKE f, g \in DOMAIN y.nodes
      <3> HAVE y.nodes[g].dbid = y.nodes[f].dbid /\ y.nodes[g].dbid # 0
      <3>1. CASE f # h /\ g # h
        BY <1>2, <3>1 DEF Written, Ids
      <3>2. CASE f = h \/ g = h
        BY <1>2, <1>8, <3>2
      <3> QED BY <3>1, <3>2
    <2>3. \A g \in DOMAIN y.nodes : y.nodes[g].dbid \in DOMAIN y.rows => y.rows[y.nodes[g].dbid].h = g
      <3> TAKE g \in DOMAIN y.nodes
      <3> HAVE y.nodes[g].dbid \in DOMAIN y.rows
      <3>1. CASE g # h
        <4> DEFINE i == y.nodes[g].dbid
        <4>1. i = x.nodes[g].dbid /\ i # 0
          BY <1>2, <1>11, <3>1
        <4>2. i # k
          BY <1>2, <1>8, <3>1, <4>1
        <4>3. i \in DOMAIN x.rows /\ y.rows[i] = x.rows[i]
          BY <1>13, <4>2
        <4>4. x.rows[i].h = g
          BY <1>2, <4>1, <4>3 DEF Written, Ids
        <4> QED BY <4>3, <4>4
      <3>2. CASE g = h
        <4>1. CASE y.rows[k] = record(h, n)
          BY <1>15, <3>2, <4>1
        <4>2. CASE k \in DOMAIN x.rows /\ y = x
          BY <1>0, <3>2, <4>2 DEF Written, Ids
        <4> QED BY <1>14, <3>2, <4>1, <4>2
      <3> QED BY <3>1, <3>2
    <2> QED BY <1>2, <2>1, <2>2, <2>3 DEF Ids
  <1>17. \A g \in V : o.nodes[g].clear /\ ~o.nodes[g].removed =>
            y.nodes[g].dbid \in DOMAIN y.rows /\ y.rows[y.nodes[g].dbid] = record(g, o.nodes[g])
    <2> TAKE g \in V
    <2> HAVE o.nodes[g].clear /\ ~o.nodes[g].removed
    <2>1. CASE g = h
      BY <1>3, <2>1 DEF n
    <2>2. CASE g \in W
      <3> DEFINE i == x.nodes[g].dbid
      <3>1. i \in DOMAIN x.rows /\ x.rows[i] = record(g, o.nodes[g])
        BY <2>2 DEF Written
      <3>2. g # h /\ g \in DOMAIN o.nodes
        BY <2>2
      <3>3. i # 0 /\ i # k
        BY <1>8, <1>10, <3>1, <3>2
      <3> QED BY <1>2, <1>12, <3>1, <3>2, <3>3
    <2> QED BY <2>1, <2>2
  <1>18. \A i \in DOMAIN y.rows : \/ i \in DOMAIN o.rows /\ y.rows[i] = o.rows[i]
                                  \/ \E g \in V : i = y.nodes[g].dbid /\ y.rows[i] = record(g, o.nodes[g])
    <2> TAKE i \in DOMAIN y.rows
    <2>1. CASE i = k /\ y.rows[k] = record(h, n)
      BY <2>1 DEF n
    <2>2. CASE i \in DOMAIN x.rows /\ y.rows[i] = x.rows[i]
      <3>1. CASE i \in DOMAIN o.rows /\ x.rows[i] = o.rows[i]
        BY <2>2, <3>1
      <3>2. CASE \E g \in W : i = x.nodes[g].dbid /\ x.rows[i] = record(g, o.nodes[g])
        <4> PICK g \in W : i = x.nodes[g].dbid /\ x.rows[i] = record(g, o.nodes[g])
          BY <3>2
        <4>1. g # h /\ y.nodes[g] = x.nodes[g]
          BY <1>2
        <4> QED BY <2>2, <4>1
      <3> QED BY <2>2, <3>1, <3>2 DEF Written
    <2> QED BY <1>13, <1>14, <2>1, <2>2
  <1>19. \A i \in DOMAIN o.rows : \/ i \in DOMAIN y.rows /\ y.rows[i] = o.rows[i]
                                  \/ \E g \in V : o.nodes[g].dbid = i
    <2> TAKE i \in DOMAIN o.rows
    <2>1. CASE \E g \in W : o.nodes[g].dbid = i
      BY <2>1
    <2>2. CASE i \in DOMAIN x.rows /\ x.rows[i] = o.rows[i]
      <3>1. CASE i = k
        <4>1. CASE n.dbid # 0
          BY <1>4, <3>1, <4>1 DEF n
        <4>2. CASE n.dbid = 0
          <5>1. k # x.id + 1
            BY <1>0, <2>2, <3>1 DEF Written
          <5>2. y = x
            BY <1>3, <4>2, <5>1
          <5> QED BY <2>2, <5>2
        <4> QED BY <4>1, <4>2
      <3>2. CASE i # k
        BY <1>12, <2>2, <3>2
      <3> QED BY <3>1, <3>2
    <2> QED BY <2>1, <2>2 DEF Written
  <1>20. Written(o, y, V)
    BY <1>2, <1>5, <1>6, <1>11, <1>16, <1>17, <1>18, <1>19 DEF Written
  <1> QED BY <1>20 DEF y

(* All nodes of a set, in any order. *)
LEMMA PutAll ==
    ASSUME NEW o, NEW W, DOMAIN o = Shape, Nodes(o.nodes, W),
           Ids(o.nodes, o.rows, o.id), DOMAIN o.rows \subseteq 1 .. o.id,
           NEW list \in SetToSeqs(W)
    PROVE  Written(o, putall(o, list), W)
  <1>1. IsFiniteSet(W)
    BY CacheAssumption, FS_Subset DEF Nodes
  <1> DEFINE N == Cardinality(W)
  <1>2. N \in Nat
    BY <1>1, FS_CardinalityType
  <1>3. list \in [1 .. N -> W] /\ \A i, j \in 1 .. N : i # j => list[i] # list[j]
    BY DEF SetToSeqs
  <1>4. \A h \in W : \E i \in 1 .. N : list[i] = h
    <2>1. IsFiniteSet(1 .. N) /\ Cardinality(1 .. N) = N
      BY <1>2, FS_Interval
    <2> HIDE DEF N
    <2>2. list \in Injection(1 .. N, W)
      BY <1>3 DEF Injection, IsInjective
    <2>3. list \in Surjection(1 .. N, W)
      BY <1>1, <2>1, <2>2, FS_Injection DEF N
    <2> QED BY <2>3 DEF Surjection
  <1>5. list \in Seq(W) /\ Len(list) = N
    <2> HIDE DEF N
    <2> QED BY <1>2, <1>3
  <1> HIDE DEF N
  <1> DEFINE f == Loop("put", o, list, 0, N)
             done(n) == {list[i] : i \in 1 .. n}
             S == {n \in Nat : n <= N => Written(o, f[n], done(n))}
  <1>6. f[0] = o /\ \A n \in Nat : n + 1 <= N => f[n + 1] = putnode(f[n], list[n + 1])
    <2>1. f[0] = o /\ \A n \in Nat : n + 1 <= N => f[n + 1] = Do("put", f[n], list[0 + n + 1])
      BY <1>2, LoopExists
    <2>2. \A n \in Nat : 0 + n + 1 = n + 1
      OBVIOUS
    <2> QED BY <2>1, <2>2 DEF Do
  <1>7. putall(o, list) = f[N]
    BY <1>2, <1>5, Loops
  <1> HIDE DEF f
  <1>8. 0 \in S
    <2>1. \A h \in DOMAIN o.nodes : Renumbered(o.nodes[h], o.nodes[h])
      BY DEF Renumbered, Nodes
    <2>2. Written(o, o, {})
      BY <2>1 DEF Written
    <2>3. done(0) = {}
      OBVIOUS
    <2> QED BY <1>6, <2>2, <2>3
  <1>9. ASSUME NEW n \in Nat, n \in S PROVE n + 1 \in S
    <2> SUFFICES ASSUME n + 1 <= N PROVE Written(o, f[n + 1], done(n + 1))
      OBVIOUS
    <2> DEFINE h == list[n + 1]
    <2>1. Written(o, f[n], done(n)) /\ f[n + 1] = putnode(f[n], h)
      BY <1>2, <1>6, <1>9
    <2>2. n + 1 \in 1 .. N /\ \A i \in 1 .. n : i \in 1 .. N /\ i # n + 1
      BY <1>2
    <2>3. h \in W /\ h \notin done(n) /\ done(n) \subseteq W
      BY <1>3, <2>2
    <2>4. done(n + 1) = done(n) \union {h}
      <3>1. \A i : i \in 1 .. n + 1 <=> i \in 1 .. n \/ i = n + 1
        OBVIOUS
      <3> QED BY <3>1
    <2>5. Nodes(o.nodes, {}) /\ h \in DOMAIN o.nodes /\ done(n) \subseteq DOMAIN o.nodes
      BY <2>3 DEF Nodes
    <2> HIDE DEF h, done
    <2> QED BY <2>1, <2>3, <2>4, <2>5, PutStep
  <1> HIDE DEF S
  <1>10. N \in S
    BY <1>2, <1>8, <1>9, SetInduction
  <1>11. Written(o, f[N], done(N))
    BY <1>2, <1>10 DEF S
  <1>12. done(N) = W
    BY <1>3, <1>4
  <1> HIDE DEF done
  <1> QED BY <1>7, <1>11, <1>12

(* The result of putnodes() *)
LEMMA PutNodes ==
    ASSUME NEW c, NEW W, NEW r, NEW m, Nodes(c, W), Ids(c, r, m), DOMAIN r \subseteq 1 .. m,
           NEW x \in putnodes(c, W, r, m)
    PROVE  Written([rows |-> r, nodes |-> c, id |-> m], x, W)
  <1> DEFINE o == [rows |-> r, nodes |-> c, id |-> m]
  <1>1. DOMAIN o = Shape /\ o.rows = r /\ o.nodes = c /\ o.id = m
    BY DEF Shape
  <1>2. \E list \in SetToSeqs(W) : x = putall(o, list)
    BY DEF putnodes
  <1> HIDE DEF o
  <1>3. Written(o, x, W)
    BY <1>1, <1>2, PutAll
  <1> QED BY <1>3 DEF o

\* the records r are the nodes of F in the server's tree t
Exact(F, r, t) ==
    \A h \in F \intersect DOMAIN t :
        \E i \in DOMAIN r : /\ Same(r[i], t[h])
                            /\ \A j \in DOMAIN r : r[j].h = h <=> j = i

Rows(r) ==
    /\ \E m \in Nat : DOMAIN r \subseteq 1 .. m
    /\ \A i \in DOMAIN r : r[i].h \in Handle

LEMMA RecordIs ==
    ASSUME NEW h, NEW n
    PROVE  record(h, n).h = h /\ Same(record(h, n), n)
  BY DEF record, Same

\* after writing, h has a record of its own, which is what the server has
OwnRecord(x, h, s) ==
    LET i == x.nodes[h].dbid
    IN  /\ i \in DOMAIN x.rows /\ x.rows[i].h = h
        /\ Same(x.rows[i], x.nodes[h]) /\ Same(x.nodes[h], s)
        /\ \A j \in DOMAIN x.rows : x.rows[j].h = h => j = i

(* When all nodes of F that have changed are written, their records are as
   they should be. *)
LEMMA WriteExact ==
    ASSUME NEW F, NEW t, NEW o, NEW x, NEW W, W \subseteq DOMAIN o.nodes, 0 \notin DOMAIN o.rows,
           Written(o, x, W), Agree(F, o.nodes, t), Held(F, View(o.nodes, W), t, o.rows)
    PROVE  Exact(F, x.rows, t) /\ \A h \in F \intersect DOMAIN t : OwnRecord(x, h, t[h])
  <1>0. View(o.nodes, W).nodes = o.nodes /\ View(o.nodes, W).notify = W
    BY DEF View
  <1>1. ASSUME NEW h \in F \intersect DOMAIN t
        PROVE  OwnRecord(x, h, t[h])
    <2> DEFINE i == x.nodes[h].dbid
               n == o.nodes[h]
    <2>1. h \in DOMAIN o.nodes /\ ~n.removed /\ n.clear /\ Same(n, t[h])
      BY DEF Agree
    <2>2. Renumbered(n, x.nodes[h])
      BY <2>1 DEF Written
    <2>3. Same(x.nodes[h], t[h])
      BY <2>1, <2>2 DEF Renumbered, Same
    <2>4. \A j \in DOMAIN o.rows : o.rows[j].h = h => n.dbid = j /\ j # 0
      BY <1>0 DEF Held
    <2>5. \A j \in DOMAIN x.rows : x.rows[j].h = h => j = i
      <3> SUFFICES ASSUME NEW j \in DOMAIN x.rows, x.rows[j].h = h PROVE j = i
        OBVIOUS
      <3>1. CASE j \in DOMAIN o.rows /\ x.rows[j] = o.rows[j]
        BY <2>2, <2>4, <3>1 DEF Renumbered
      <3>2. CASE \E g \in W : j = x.nodes[g].dbid /\ x.rows[j] = record(g, o.nodes[g])
        BY <3>2, RecordIs
      <3> QED BY <3>1, <3>2 DEF Written
    <2>6. i \in DOMAIN x.rows /\ x.rows[i].h = h /\ Same(x.rows[i], x.nodes[h])
      <3>1. CASE h \in W
        <4>1. i \in DOMAIN x.rows /\ x.rows[i] = record(h, n)
          BY <2>1, <3>1 DEF Written
        <4>2. x.rows[i].h = h /\ Same(x.rows[i], n)
          BY <4>1, RecordIs
        <4> QED BY <2>2, <4>1, <4>2 DEF Renumbered, Same
      <3>2. CASE h \notin W
        <4>1. i \in DOMAIN o.rows /\ o.rows[i].h = h /\ Same(o.rows[i], n) /\ x.nodes[h] = n
          BY <1>0, <2>1, <3>2 DEF Held, Written
        <4>2. i # 0
          BY <4>1
        <4>3. ~ \E g \in W : o.nodes[g].dbid = i
          <5> SUFFICES ASSUME NEW g \in W, o.nodes[g].dbid = i PROVE FALSE
            OBVIOUS
          <5>1. g \in DOMAIN x.nodes /\ h \in DOMAIN x.nodes /\ x.nodes[g].dbid = i
            BY <2>1, <4>2 DEF Written, Renumbered
          <5>2. g = h
            BY <4>2, <5>1 DEF Written, Ids
          <5> QED BY <3>2, <5>2
        <4>4. i \in DOMAIN x.rows /\ x.rows[i] = o.rows[i]
          BY <4>1, <4>3 DEF Written
        <4> QED BY <4>1, <4>4
      <3> QED BY <3>1, <3>2
    <2> QED BY <2>3, <2>5, <2>6 DEF OwnRecord
  <1>2. Exact(F, x.rows, t)
    <2> SUFFICES ASSUME NEW h \in F \intersect DOMAIN t
                 PROVE  \E i \in DOMAIN x.rows : /\ Same(x.rows[i], t[h])
                                                 /\ \A j \in DOMAIN x.rows : x.rows[j].h = h <=> j = i
      BY DEF Exact
    <2> DEFINE i == x.nodes[h].dbid
    <2>1. /\ i \in DOMAIN x.rows /\ x.rows[i].h = h
          /\ Same(x.rows[i], x.nodes[h]) /\ Same(x.nodes[h], t[h])
          /\ \A j \in DOMAIN x.rows : x.rows[j].h = h => j = i
      BY <1>1 DEF OwnRecord
    <2> HIDE DEF i
    <2>2. Same(x.rows[i], t[h])
      BY <2>1 DEF Same
    <2> QED BY <2>1, <2>2
  <1> QED BY <1>1, <1>2

(* What is written was known. *)
LEMMA WriteKnown ==
    ASSUME NEW F, NEW K, NEW o, NEW x, NEW W, W \subseteq DOMAIN o.nodes,
           Written(o, x, W), F \intersect W \subseteq K, Known(F, o.rows, K)
    PROVE  Known(F, x.rows, K)
  <1> SUFFICES ASSUME NEW i \in DOMAIN x.rows, x.rows[i].h \in F PROVE x.rows[i].h \in K
    BY DEF Known
  <1>1. CASE i \in DOMAIN o.rows /\ x.rows[i] = o.rows[i]
    BY <1>1 DEF Known
  <1>2. CASE \E g \in W : x.rows[i] = record(g, o.nodes[g])
    BY <1>2, RecordIs
  <1> QED BY <1>1, <1>2 DEF Written

(* Writing other nodes does not touch the records of F. *)
LEMMA WriteApart ==
    ASSUME NEW F, NEW o, NEW x, NEW W, W \subseteq DOMAIN o.nodes,
           Written(o, x, W), F \intersect W = {}, Ids(o.nodes, o.rows, o.id)
    PROVE  \A t : Exact(F, o.rows, t) => Exact(F, x.rows, t)
  <1>1. \A i \in DOMAIN x.rows : x.rows[i].h \in F => i \in DOMAIN o.rows /\ x.rows[i] = o.rows[i]
    BY RecordIs DEF Written
  <1>2. \A i \in DOMAIN o.rows : o.rows[i].h \in F => i \in DOMAIN x.rows /\ x.rows[i] = o.rows[i]
    <2> SUFFICES ASSUME NEW i \in DOMAIN o.rows, o.rows[i].h \in F, NEW g \in W, o.nodes[g].dbid = i
                 PROVE  FALSE
      BY DEF Written
    <2>1. o.rows[i].h = g
      BY DEF Ids
    <2> QED BY <2>1
  <1> SUFFICES ASSUME NEW t, Exact(F, o.rows, t), NEW h \in F \intersect DOMAIN t
               PROVE  \E i \in DOMAIN x.rows : /\ Same(x.rows[i], t[h])
                                               /\ \A j \in DOMAIN x.rows : x.rows[j].h = h <=> j = i
    BY DEF Exact
  <1>3. PICK i \in DOMAIN o.rows : /\ Same(o.rows[i], t[h])
                                   /\ \A j \in DOMAIN o.rows : o.rows[j].h = h <=> j = i
    BY DEF Exact
  <1>4. o.rows[i].h = h
    BY <1>3
  <1>5. i \in DOMAIN x.rows /\ x.rows[i] = o.rows[i]
    BY <1>2, <1>4
  <1>6. \A j \in DOMAIN x.rows : x.rows[j].h = h <=> j = i
    BY <1>1, <1>3, <1>4, <1>5
  <1> QED BY <1>3, <1>5, <1>6

LEMMA WriteRows ==
    ASSUME NEW o, NEW x, NEW W, Nodes(o.nodes, W), Written(o, x, W), Rows(o.rows)
    PROVE  Rows(x.rows) /\ Nodes(x.nodes, {})
  <1>1. \A i \in DOMAIN x.rows : x.rows[i].h \in Handle
    BY RecordIs DEF Written, Rows, Nodes
  <1>2. x.id \in Nat /\ DOMAIN x.rows \subseteq 1 .. x.id
    BY DEF Written, Ids
  <1>3. Nodes(x.nodes, {})
    BY DEF Nodes, Written, Renumbered
  <1> QED BY <1>1, <1>2, <1>3 DEF Rows

\* the nodes of c without those of W that are marked for removal
Dropped(c, W) ==
    LET gone == {h \in W : c[h].removed}
        rest == Without(c, gone)
    IN  [h \in DOMAIN rest |-> IF rest[h].parent \in gone
                               THEN [rest[h] EXCEPT !.parent = None]
                               ELSE rest[h]]

(* notifypurge() drops removed nodes, and cuts what is below them off. *)
LEMMA DropIs ==
    ASSUME NEW c, NEW W, Nodes(c, W)
    PROVE  LET e == Dropped(c, W)
           IN  /\ Nodes(e, {}) /\ DOMAIN e \subseteq DOMAIN c
               /\ \A h \in DOMAIN e : e[h].dbid = c[h].dbid
               /\ \A h \in DOMAIN c : (h \in W => ~c[h].removed) =>
                     h \in DOMAIN e /\ ((c[h].parent \in W => ~c[c[h].parent].removed) => e[h] = c[h])
  <1> DEFINE gone == {h \in W : c[h].removed}
             rest == Without(c, gone)
             e == Dropped(c, W)
  <1>1. DOMAIN rest = DOMAIN c \ gone /\ \A h \in DOMAIN rest : rest[h] = c[h]
    BY DEF Without
  <1> HIDE DEF rest
  <1>2. e = [h \in DOMAIN rest |-> IF rest[h].parent \in gone
                                   THEN [rest[h] EXCEPT !.parent = None]
                                   ELSE rest[h]]
    BY DEF Dropped, rest
  <1> HIDE DEF e
  <1>3. DOMAIN e = DOMAIN c \ gone
    BY <1>1, <1>2
  <1>4. \A h \in DOMAIN e : /\ c[h].parent \in gone => e[h] = [c[h] EXCEPT !.parent = None]
                            /\ c[h].parent \notin gone => e[h] = c[h]
    BY <1>1, <1>2, <1>3
  <1>5. \A h \in DOMAIN e : DOMAIN e[h] = Fields /\ e[h].dbid = c[h].dbid
    <2> TAKE h \in DOMAIN e
    <2>1. DOMAIN c[h] = Fields
      BY <1>3 DEF Nodes
    <2> QED BY <1>4, <2>1 DEF Fields
  <1>6. Nodes(e, {})
    BY <1>3, <1>5 DEF Nodes
  <1>7. \A h \in DOMAIN c : (h \in W => ~c[h].removed) =>
           h \in DOMAIN e /\ ((c[h].parent \in W => ~c[c[h].parent].removed) => e[h] = c[h])
    BY <1>3, <1>4
  <1> QED BY <1>3, <1>5, <1>6, <1>7 DEF e

(* Nothing that F needs is dropped. *)
LEMMA DropKeeps ==
    ASSUME NEW F, NEW t, NEW c, NEW W, Nodes(c, W), Apart(F, t), Agree(F, c, t),
           NEW e, e = Dropped(c, W)
    PROVE  Agree(F, e, t) /\ \A h \in F \intersect DOMAIN t : e[h] = c[h]
  <1>1. \A h \in DOMAIN c : (h \in W => ~c[h].removed) =>
           h \in DOMAIN e /\ ((c[h].parent \in W => ~c[c[h].parent].removed) => e[h] = c[h])
    BY DropIs
  <1>2. ASSUME NEW h \in F \intersect DOMAIN t PROVE h \in DOMAIN e /\ e[h] = c[h]
    <2>1. h \in DOMAIN c /\ ~c[h].removed /\ c[h].parent = t[h].parent
      BY DEF Agree, Same
    <2>2. t[h].parent \in F \intersect DOMAIN t \/ t[h].parent = Root
      BY DEF Apart
    <2>3. c[h].parent \in W => ~c[c[h].parent].removed
      BY <2>1, <2>2, NoHandle DEF Agree, Nodes
    <2> QED BY <1>1, <2>1, <2>3
  <1>3. Agree(F, e, t)
    BY <1>2 DEF Agree
  <1> QED BY <1>2, <1>3

LEMMA DropIds ==
    ASSUME NEW c, NEW W, NEW r, NEW m, Nodes(c, W), Ids(c, r, m)
    PROVE  Ids(Dropped(c, W), r, m)
  <1> DEFINE e == Dropped(c, W)
  <1>1. DOMAIN e \subseteq DOMAIN c /\ \A h \in DOMAIN e : e[h].dbid = c[h].dbid
    BY DropIs
  <1> HIDE DEF e
  <1>2. Ids(e, r, m)
    BY <1>1 DEF Ids
  <1> QED BY <1>2 DEF e

(* DbTable::next() has seen all numbers in use. *)
LEMMA LastIs ==
    ASSUME NEW r, Rows(r)
    PROVE  lastid(r) \in Nat /\ DOMAIN r \subseteq 1 .. lastid(r)
  <1>1. CASE DOMAIN r = {}
    BY <1>1 DEF lastid
  <1>2. CASE DOMAIN r # {}
    <2> DEFINE T == {m \in Nat : DOMAIN r \subseteq 1 .. m}
    <2>1. T # {} /\ T \subseteq Nat
      BY DEF Rows
    <2>2. PICK m \in T : \A k \in T : m <= k
      BY <2>1, LeastNat
    <2>3. m \in Nat /\ DOMAIN r \subseteq 1 .. m
      OBVIOUS
    <2>4. m \in DOMAIN r
      <3> SUFFICES ASSUME m \notin DOMAIN r PROVE FALSE
        OBVIOUS
      <3>1. m - 1 \in Nat /\ DOMAIN r \subseteq 1 .. m - 1
        BY <1>2, <2>3
      <3>2. m - 1 \in T
        BY <3>1
      <3> QED BY <2>2, <2>3, <3>2
    <2>5. \E i \in DOMAIN r : \A j \in DOMAIN r : j <= i
      BY <2>3, <2>4
    <2> DEFINE l == CHOOSE i \in DOMAIN r : \A j \in DOMAIN r : j <= i
    <2>6. l \in DOMAIN r /\ \A j \in DOMAIN r : j <= l
      BY <2>5
    <2>7. lastid(r) = l
      BY <1>2 DEF lastid
    <2> HIDE DEF l, T
    <2> QED BY <2>3, <2>6, <2>7
  <1> QED BY <1>1, <1>2

(* fetchsc(): what is exact in the cache is exact in the tree that is read
   from it, and the nodes know their records. *)
LEMMA FetchIs ==
    ASSUME NEW r, Rows(r)
    PROVE  /\ Nodes(fetchsc(r), {}) /\ Ids(fetchsc(r), r, lastid(r))
           /\ DOMAIN fetchsc(r) = {r[i].h : i \in DOMAIN r}
           /\ \A F, t : Exact(F, r, t) /\ Apart(F, t) =>
                 Agree(F, fetchsc(r), t) /\ Held(F, View(fetchsc(r), {}), t, r)
  <1> DEFINE hs == {r[i].h : i \in DOMAIN r}
             at(h) == CHOOSE i \in DOMAIN r : r[i].h = h
             n(h) == unserialize(r[at(h)], hs, at(h))
             c == fetchsc(r)
  <1>1. c = [h \in hs |-> n(h)]
    BY Zenon DEF fetchsc
  <1>2. \A h \in hs : at(h) \in DOMAIN r /\ r[at(h)].h = h
    BY Zenon
  <1>3. \A h : /\ DOMAIN n(h) = Fields /\ n(h).dbid = at(h) /\ ~n(h).removed /\ n(h).clear
               /\ n(h).v = r[at(h)].v
               /\ r[at(h)].parent \in hs \union {Root} => n(h).parent = r[at(h)].parent
    BY DEF unserialize, Node, Fields
  <1>4. hs \subseteq Handle /\ \A i \in DOMAIN r : r[i].h \in hs
    BY DEF Rows
  <1>40. hs = {r[i].h : i \in DOMAIN r}
    OBVIOUS
  <1> HIDE DEF hs, at, n, c
  <1>5. DOMAIN c = hs /\ \A h \in hs : c[h] = n(h)
    BY <1>1
  <1>6. DOMAIN r \subseteq Nat /\ 0 \notin DOMAIN r
    BY DEF Rows
  <1>7. Nodes(c, {})
    BY <1>2, <1>3, <1>4, <1>5, <1>6 DEF Nodes
  <1>8. Ids(c, r, lastid(r))
    <2>1. lastid(r) \in Nat /\ DOMAIN r \subseteq 1 .. lastid(r)
      BY LastIs
    <2>2. \A h \in DOMAIN c : c[h].dbid \in DOMAIN r /\ r[c[h].dbid].h = h
      BY <1>2, <1>3, <1>5
    <2>3. \A h \in DOMAIN c : c[h].dbid <= lastid(r)
      BY <2>1, <2>2
    <2>4. \A g, h \in DOMAIN c : c[g].dbid = c[h].dbid => g = h
      BY <2>2
    <2> QED BY <2>1, <2>2, <2>3, <2>4 DEF Ids
  <1>9. ASSUME NEW F, NEW t, Exact(F, r, t), Apart(F, t)
        PROVE  Agree(F, c, t) /\ Held(F, View(c, {}), t, r)
    <2>1. ASSUME NEW h \in F \intersect DOMAIN t
          PROVE  h \in hs /\ Same(r[at(h)], t[h]) /\ \A j \in DOMAIN r : r[j].h = h <=> j = at(h)
      <3>1. PICK i \in DOMAIN r : Same(r[i], t[h]) /\ \A j \in DOMAIN r : r[j].h = h <=> j = i
        BY <1>9 DEF Exact
      <3>2. r[i].h = h
        BY <3>1
      <3>3. h \in hs
        BY <1>4, <3>2
      <3>4. at(h) = i
        BY <1>2, <3>1, <3>3
      <3> QED BY <3>1, <3>3, <3>4
    <2>2. ASSUME NEW h \in F \intersect DOMAIN t
          PROVE  /\ h \in DOMAIN c /\ ~c[h].removed /\ c[h].clear /\ Same(c[h], t[h])
                 /\ c[h].dbid = at(h) /\ Same(r[at(h)], c[h])
      <3>1. t[h].parent \in F \intersect DOMAIN t \/ t[h].parent = Root
        BY <1>9 DEF Apart
      <3>2. t[h].parent \in hs \union {Root}
        BY <2>1, <3>1
      <3>3. r[at(h)].parent = t[h].parent /\ r[at(h)].v = t[h].v /\ h \in hs
        BY <2>1 DEF Same
      <3>4. /\ n(h).dbid = at(h) /\ ~n(h).removed /\ n(h).clear
            /\ n(h).v = t[h].v /\ n(h).parent = t[h].parent
        BY <1>3, <3>2, <3>3
      <3>5. h \in DOMAIN c /\ c[h] = n(h)
        BY <1>5, <3>3
      <3> QED BY <3>3, <3>4, <3>5 DEF Same
    <2>3. Agree(F, c, t)
      BY <2>2 DEF Agree
    <2>4. View(c, {}).nodes = c
      BY DEF View
    <2>5. Held(F, View(c, {}), t, r)
      BY <1>2, <2>1, <2>2, <2>4 DEF Held
    <2> QED BY <2>3, <2>5
  <1> QED BY <1>40, <1>5, <1>7, <1>8, <1>9 DEF c

-----------------------------------------------------------------------------
(* The steps of the server *)

(* What is below a node of the subtree is in the subtree. *)
LEMMA SubtreeClosed ==
    ASSUME NEW t, NEW h
    PROVE  Closed(t, Subtree(t, h))
  BY DEF Closed, Subtree

\* the trees so far stay, and so does what own commands have worked on
Extends ==
    /\ now <= now'
    /\ \A i \in 1 .. now + 1 : tree'[i] = tree[i]
    /\ mine \subseteq mine'

(* One more update. *)
LEMMA UpdateStep ==
    ASSUME History, NEW op, NEW b, NEW h, NEW v, NEW s, NEW t, update(op, b, h, v, s, t),
           Tree(t), Change([a |-> op, by |-> b, h |-> h, v |-> v, recs |-> s], latest, t),
           op = "t" => \A i \in DOMAIN tree : h \notin DOMAIN tree[i],
           mine \subseteq mine', b # Others => h \in mine'
    PROVE  History' /\ Extends /\ now' = now + 1
  <1> DEFINE a == [a |-> op, by |-> b, h |-> h, v |-> v, recs |-> s]
             n == now
  <1>0. a.a = op /\ a.by = b /\ a.h = h
    OBVIOUS
  <1>1. Change(a, tree[n + 1], t) /\ log' = Append(log, a) /\ tree' = Append(tree, t)
    BY DEF update, latest
  <1> HIDE DEF a
  <1>2. PICK S, T : tree \in Seq(S) /\ log \in Seq(T)
    BY DEF History
  <1>3. /\ tree \in Seq(S \union {t}) /\ log \in Seq(T \union {a})
        /\ Len(tree) = n + 1 /\ Len(log) = n /\ n \in Nat
    BY <1>2 DEF History, now
  <1>4. /\ tree' \in Seq(S \union {t}) /\ log' \in Seq(T \union {a})
        /\ Len(tree') = n + 2 /\ Len(log') = n + 1
    BY <1>1, <1>3
  <1>5. /\ \A i \in 1 .. n + 1 : tree'[i] = tree[i]
        /\ tree'[n + 2] = t
        /\ \A i \in 1 .. n : log'[i] = log[i]
        /\ log'[n + 1] = a
    BY <1>1, <1>3
  <1>6. now' = n + 1
    BY <1>4 DEF now
  <1> HIDE DEF n
  <1>7. \A i \in 1 .. n + 2 : Tree(tree'[i])
    <2>1. \A i \in 1 .. n + 2 : i \in 1 .. n + 1 \/ i = n + 2
      BY <1>3
    <2> QED BY <1>5, <2>1 DEF History, n
  <1>8. ASSUME NEW i \in 1 .. n + 1
        PROVE  /\ Change(log'[i], tree'[i], tree'[i + 1])
               /\ log'[i].a = "t" => \A j \in 1 .. i : log'[i].h \notin DOMAIN tree'[j]
               /\ log'[i].by # Others => log'[i].h \in mine'
    <2>0. \A j \in 1 .. i : j \in 1 .. n + 1 /\ tree'[j] = tree[j]
      BY <1>3, <1>5
    <2>1. CASE i = n + 1
      <3>1. tree'[i] = tree[n + 1] /\ tree'[i + 1] = t /\ log'[i] = a
        BY <1>3, <1>5, <2>1
      <3>2. DOMAIN tree = 1 .. n + 1
        BY <1>3
      <3> QED BY <1>0, <1>1, <2>0, <3>1, <3>2
    <2>2. CASE i \in 1 .. n
      <3>1. i + 1 \in 1 .. n + 1 /\ tree'[i] = tree[i] /\ tree'[i + 1] = tree[i + 1] /\ log'[i] = log[i]
        BY <1>3, <1>5, <2>2
      <3>2. /\ Change(log[i], tree[i], tree[i + 1])
            /\ log[i].a = "t" => \A j \in 1 .. i : log[i].h \notin DOMAIN tree[j]
            /\ log[i].by # Others => log[i].h \in mine
        BY <2>2 DEF History, n
      <3> QED BY <2>0, <3>1, <3>2
    <2> QED BY <1>3, <2>1, <2>2
  <1>9. n + 1 + 1 = n + 2
    BY <1>3
  <1>10. History'
    BY <1>4, <1>6, <1>7, <1>8, <1>9 DEF History
  <1>11. Extends
    BY <1>3, <1>5, <1>6 DEF Extends, n
  <1> QED BY <1>6, <1>10, <1>11 DEF n

LEMMA LatestIs ==
    ASSUME History
    PROVE  Tree(latest) /\ now \in Nat /\ DOMAIN tree = 1 .. now + 1
  <1>1. now \in Nat /\ DOMAIN tree = 1 .. now + 1 /\ latest = tree[now + 1]
    BY HistoryIs
  <1>2. now + 1 \in 1 .. now + 1
    BY <1>1
  <1> QED BY <1>1, <1>2 DEF History

(* New nodes, deletions and moves, by others or on behalf of this client *)
LEMMA AddStep ==
    ASSUME History, NEW b, NEW h \in Handle, NEW p, NEW k \in BOOLEAN, addNode(b, h, p, k),
           mine \subseteq mine', b # Others => h \in mine'
    PROVE  History' /\ Extends /\ now' = now + 1
  <1> DEFINE s == One(h, SNode(p, now + 1, k))
             t == Over(s, latest)
             a == [a |-> "t", by |-> b, h |-> h, v |-> now + 1, recs |-> s]
             x == SNode(p, now + 1, k)
  <1>1. /\ \A i \in DOMAIN tree : h \notin DOMAIN tree[i]
        /\ p = Root \/ p \in DOMAIN latest
        /\ update("t", b, h, now + 1, s, t)
    BY DEF addNode, there
  <1>2. Tree(latest) /\ now \in Nat /\ DOMAIN tree = 1 .. now + 1
    BY LatestIs
  <1>3. h \notin DOMAIN latest
    BY <1>1, <1>2 DEF latest
  <1>4. DOMAIN x = ServerFields /\ x.parent = p
    BY DEF SNode, ServerFields
  <1> HIDE DEF x
  <1>5. DOMAIN s = {h} /\ s[h] = x
    BY DEF One, x
  <1> HIDE DEF s
  <1>6. /\ DOMAIN t = DOMAIN latest \union {h} /\ t[h] = x
        /\ \A y \in DOMAIN latest : y # h => t[y] = latest[y]
    BY <1>5 DEF Over
  <1>7. Tree(t)
    BY <1>1, <1>2, <1>4, <1>6 DEF Tree
  <1>8. Change(a, latest, t)
    <2>1. a.a = "t" /\ a.h = h /\ a.recs = s
      OBVIOUS
    <2> HIDE DEF a
    <2> QED BY <1>3, <1>5, <2>1 DEF Change
  <1> HIDE DEF t
  <1> QED BY <1>1, <1>7, <1>8, UpdateStep

LEMMA DelNodeStep ==
    ASSUME History, NEW b, NEW h, delNode(b, h), mine \subseteq mine', b # Others => h \in mine'
    PROVE  History' /\ Extends /\ now' = now + 1
  <1> DEFINE t == Without(latest, Subtree(latest, h))
             a == [a |-> "d", by |-> b, h |-> h, v |-> 0, recs |-> Empty]
  <1>1. h \in DOMAIN latest /\ update("d", b, h, 0, Empty, t)
    BY DEF delNode
  <1>2. Tree(latest)
    BY LatestIs
  <1>3. DOMAIN t = DOMAIN latest \ Subtree(latest, h) /\ \A y \in DOMAIN t : t[y] = latest[y]
    BY DEF Without
  <1>4. Closed(latest, Subtree(latest, h))
    BY SubtreeClosed
  <1>5. Change(a, latest, t)
    <2>1. a.a = "d" /\ a.h = h
      OBVIOUS
    <2> HIDE DEF a
    <2> QED BY <1>1, <2>1 DEF Change
  <1> HIDE DEF t
  <1>6. Tree(t)
    BY <1>2, <1>3, <1>4 DEF Tree, Closed
  <1> QED BY <1>1, <1>5, <1>6, UpdateStep

LEMMA MoveNodeStep ==
    ASSUME History, NEW b, NEW h, NEW p, moveNode(b, h, p), mine \subseteq mine',
           b # Others => h \in mine'
    PROVE  History' /\ Extends /\ now' = now + 1
  <1> DEFINE t == [latest EXCEPT ![h].parent = p]
             s == [x \in Subtree(t, h) |-> t[x]]
             a == [a |-> "m", by |-> b, h |-> h, v |-> 0, recs |-> s]
  <1>1. h \in DOMAIN latest /\ (p = Root \/ p \in DOMAIN latest) /\ update("m", b, h, 0, s, t)
    BY DEF moveNode, there
  <1>2. Tree(latest)
    BY LatestIs
  <1>3. /\ DOMAIN t = DOMAIN latest /\ \A y \in DOMAIN latest : y # h => t[y] = latest[y]
        /\ DOMAIN t[h] = ServerFields /\ t[h].parent = p /\ t[h].v = latest[h].v
    BY <1>1, <1>2 DEF Tree, ServerFields
  <1> HIDE DEF t
  <1>4. DOMAIN s = Subtree(t, h) /\ \A x \in DOMAIN s : s[x] = t[x]
    OBVIOUS
  <1> HIDE DEF s
  <1>5. Change(a, latest, t)
    <2>1. a.a = "m" /\ a.h = h /\ a.recs = s
      OBVIOUS
    <2> HIDE DEF a
    <2> QED BY <1>1, <1>3, <1>4, <2>1 DEF Change
  <1>6. Tree(t)
    BY <1>1, <1>2, <1>3 DEF Tree
  <1> QED BY <1>1, <1>5, <1>6, UpdateStep

(* Whatever another client does. *)
LEMMA OtherStep ==
    ASSUME History, otherClient
    PROVE  History' /\ Extends
  <1>0. mine \subseteq mine' /\ Tree(latest)
    BY LatestIs DEF otherClient
  <1>1. PICK h \in Handle :
         \/ \E p \in Handle \union {Root}, k \in {TRUE, "late" \notin uses} :
                addNode(Others, h, p, k)
         \/ delNode(Others, h)
         \/ \E p \in Handle \union {Root} : moveNode(Others, h, p)
         \/ /\ h \in DOMAIN latest
            /\ update("u", Others, h, now + 1, Empty, [latest EXCEPT ![h].v = now + 1])
         \/ /\ h \in DOMAIN latest /\ ~latest[h].clear
            /\ update("k", Others, h, 0, Empty, [latest EXCEPT ![h].clear = TRUE])
    BY Zenon DEF otherClient
  <1>2. CASE \E p \in Handle \union {Root}, k \in {TRUE, "late" \notin uses} : addNode(Others, h, p, k)
    BY <1>0, <1>2, AddStep
  <1>3. CASE delNode(Others, h)
    BY <1>0, <1>3, DelNodeStep
  <1>4. CASE \E p \in Handle \union {Root} : moveNode(Others, h, p)
    BY <1>0, <1>4, MoveNodeStep
  <1>5. CASE /\ h \in DOMAIN latest
             /\ update("u", Others, h, now + 1, Empty, [latest EXCEPT ![h].v = now + 1])
    <2> DEFINE t == [latest EXCEPT ![h].v = now + 1]
               a == [a |-> "u", by |-> Others, h |-> h, v |-> now + 1, recs |-> Empty]
    <2>1. /\ DOMAIN t = DOMAIN latest /\ \A y \in DOMAIN latest : y # h => t[y] = latest[y]
          /\ DOMAIN t[h] = ServerFields /\ t[h].parent = latest[h].parent /\ t[h].v = now + 1
      BY <1>0, <1>5 DEF Tree, ServerFields
    <2>2. update("u", Others, h, now + 1, Empty, t)
      BY <1>5
    <2> HIDE DEF t
    <2>3. Tree(t)
      BY <1>0, <1>5, <2>1 DEF Tree
    <2>4. Change(a, latest, t)
      <3>1. a.a = "u" /\ a.h = h /\ a.v = now + 1
        OBVIOUS
      <3> HIDE DEF a
      <3> QED BY <1>5, <2>1, <3>1 DEF Change
    <2> QED BY <1>0, <2>2, <2>3, <2>4, UpdateStep
  <1>6. CASE /\ h \in DOMAIN latest /\ ~latest[h].clear
             /\ update("k", Others, h, 0, Empty, [latest EXCEPT ![h].clear = TRUE])
    <2> DEFINE t == [latest EXCEPT ![h].clear = TRUE]
               a == [a |-> "k", by |-> Others, h |-> h, v |-> 0, recs |-> Empty]
    <2>1. /\ DOMAIN t = DOMAIN latest /\ \A y \in DOMAIN latest : y # h => t[y] = latest[y]
          /\ DOMAIN t[h] = ServerFields /\ t[h].parent = latest[h].parent /\ t[h].v = latest[h].v
      BY <1>0, <1>6 DEF Tree, ServerFields
    <2>2. update("k", Others, h, 0, Empty, t)
      BY <1>6
    <2> HIDE DEF t
    <2>3. Tree(t)
      BY <1>0, <1>6, <2>1 DEF Tree
    <2>4. Change(a, latest, t)
      <3>1. a.a = "k" /\ a.h = h
        OBVIOUS
      <3> HIDE DEF a
      <3> QED BY <1>6, <2>1, <3>1 DEF Change, Same
    <2> QED BY <1>0, <2>2, <2>3, <2>4, UpdateStep
  <1> QED BY <1>1, <1>2, <1>3, <1>4, <1>5, <1>6

\* Own commands: what they work on is known to be own, and what has been
\* fetched is a tree the server has had.
Cmds ==
    /\ mine \subseteq Handle
    /\ \A i \in DOMAIN cmds :
         /\ cmds[i].op \in {"f", "t", "d", "m", "error"}
         /\ cmds[i].op \in {"d", "m"} => cmds[i].h \in mine
         /\ cmds[i].op = "t" /\ cmds[i].at # NoSn => cmds[i].h \in mine
         /\ cmds[i].op = "f" /\ cmds[i].at # NoSn => cmds[i].at \in 0 .. now

(* The server executes an own command. *)
LEMMA ExecuteStep ==
    ASSUME PollType, History, Cmds, sessionid # Others, serverExecutes
    PROVE  History' /\ Extends /\ Cmds' /\ (\A i \in DOMAIN cmds' : i \in DOMAIN cmds)
           /\ (\A i \in DOMAIN cmds' : cmds[i].op = "f" => cmds'[i].op = "f")
           /\ (cmds = << >> => cmds' = << >>)
  <1>0. PICK S : cmds \in Seq(S)
    BY DEF PollType
  <1> DEFINE i == CHOOSE i \in Waiting : \A j \in Waiting : i <= j
             q == cmds[i]
             done(h, n) == cmds' = [cmds EXCEPT ![i] = Command(q.op, h, q.p, n)]
             refused == cmds' = [cmds EXCEPT ![i] = Command("error", q.h, q.p, q.at)]
  <1>1. i \in DOMAIN cmds
    <2>1. \A j \in Waiting : j \in Nat /\ j \in DOMAIN cmds
      BY <1>0 DEF Waiting
    <2>2. Waiting # {} /\ Waiting \subseteq Nat
      BY <2>1 DEF serverExecutes
    <2>3. \E k \in Waiting : \A j \in Waiting : k <= j
      BY <2>2, LeastNat
    <2>4. i \in Waiting
      BY <2>3
    <2> QED BY <2>1, <2>4
  <1>2. \/ /\ q.op = "f" /\ done(None, now) /\ UNCHANGED serverVars
        \/ /\ q.op = "t" /\ \E h \in Handle : /\ addNode(sessionid, h, q.p, TRUE)
                                              /\ done(h, now + 1)
                                              /\ mine' = mine \union {h}
        \/ /\ q.op = "d" /\ delNode(sessionid, q.h) /\ done(q.h, now + 1) /\ mine' = mine
        \/ /\ q.op = "m" /\ moveNode(sessionid, q.h, q.p) /\ done(q.h, now + 1) /\ mine' = mine
        \/ /\ q.op \in {"t", "d", "m"} /\ refused /\ UNCHANGED serverVars
    BY DEF serverExecutes
  <1> HIDE DEF i
  <1>3. now \in Nat
    BY HistoryIs
  <1>4. History' /\ Extends /\ now \in 0 .. now' /\ (UNCHANGED serverVars \/ now + 1 = now')
    <2>1. CASE UNCHANGED serverVars
      BY <1>3, <2>1 DEF serverVars, History, Extends, now
    <2>2. CASE q.op = "t" /\ \E h \in Handle : addNode(sessionid, h, q.p, TRUE) /\ mine' = mine \union {h}
      <3> PICK h \in Handle : addNode(sessionid, h, q.p, TRUE) /\ mine' = mine \union {h}
        BY <2>2
      <3>1. mine \subseteq mine' /\ h \in mine'
        OBVIOUS
      <3>2. \A k \in BOOLEAN : \A p :
                addNode(sessionid, h, p, k) => History' /\ Extends /\ now' = now + 1
        BY <3>1, AddStep, Zenon
      <3>3. History' /\ Extends /\ now' = now + 1
        BY <3>2, Zenon
      <3> QED BY <1>3, <3>3
    <2>3. CASE q.op = "d" /\ delNode(sessionid, q.h) /\ mine' = mine
      <3>1. q.h \in mine
        BY <1>1, <2>3 DEF Cmds
      <3> QED BY <1>3, <2>3, <3>1, DelNodeStep
    <2>4. CASE q.op = "m" /\ moveNode(sessionid, q.h, q.p) /\ mine' = mine
      <3>1. q.h \in mine
        BY <1>1, <2>4 DEF Cmds
      <3> QED BY <1>3, <2>4, <3>1, MoveNodeStep
    <2> QED BY <1>2, <2>1, <2>2, <2>3, <2>4
  <1>5. mine' \subseteq Handle /\ mine \subseteq mine'
    BY <1>2 DEF serverVars, Cmds
  <1>6. PICK d : /\ cmds' = [cmds EXCEPT ![i] = d]
                 /\ d.op = q.op \/ (d.op = "error" /\ q.op # "f")
                 /\ d.op \in {"d", "m"} => d.h \in mine'
                 /\ d.op = "t" => d.h \in mine'
                 /\ d.op = "f" => d.at \in 0 .. now'
    <2>0. \A op, h, p, at : LET c == Command(op, h, p, at)
                            IN  c.op = op /\ c.h = h /\ c.at = at
      BY DEF Command
    <2>1. CASE q.op = "f" /\ done(None, now)
      <3> DEFINE d == Command(q.op, None, q.p, now)
      <3>1. d.op = q.op /\ d.at = now
        BY <2>0
      <3>2. cmds' = [cmds EXCEPT ![i] = d]
        BY <2>1
      <3> HIDE DEF d
      <3> QED BY <1>4, <2>1, <3>1, <3>2
    <2>2. CASE q.op = "t" /\ \E h \in Handle : done(h, now + 1) /\ mine' = mine \union {h}
      <3> PICK h \in Handle : done(h, now + 1) /\ mine' = mine \union {h}
        BY <2>2
      <3> DEFINE d == Command(q.op, h, q.p, now + 1)
      <3>1. d.op = q.op /\ d.h = h
        BY <2>0
      <3>2. cmds' = [cmds EXCEPT ![i] = d]
        OBVIOUS
      <3> HIDE DEF d
      <3> QED BY <2>2, <3>1, <3>2
    <2>3. CASE q.op \in {"d", "m"} /\ done(q.h, now + 1)
      <3> DEFINE d == Command(q.op, q.h, q.p, now + 1)
      <3>1. d.op = q.op /\ d.h = q.h
        BY <2>0
      <3>2. cmds' = [cmds EXCEPT ![i] = d]
        BY <2>3
      <3>3. q.h \in mine
        BY <1>1, <2>3 DEF Cmds
      <3> HIDE DEF d
      <3> QED BY <1>5, <2>3, <3>1, <3>2, <3>3
    <2>4. CASE q.op \in {"t", "d", "m"} /\ refused
      <3> DEFINE d == Command("error", q.h, q.p, q.at)
      <3>1. d.op = "error"
        BY <2>0
      <3>2. cmds' = [cmds EXCEPT ![i] = d]
        BY <2>4
      <3> HIDE DEF d
      <3> QED BY <2>4, <3>1, <3>2
    <2> QED BY <1>2, <2>1, <2>2, <2>3, <2>4
  <1>7. DOMAIN cmds' = DOMAIN cmds /\ \A j \in DOMAIN cmds' : cmds'[j] = IF j = i THEN d ELSE cmds[j]
    BY <1>0, <1>6
  <1>8. q.op \in {"f", "t", "d", "m", "error"}
    BY <1>1 DEF Cmds
  <1>9. Cmds'
    <2> SUFFICES ASSUME NEW j \in DOMAIN cmds'
                 PROVE  /\ cmds'[j].op \in {"f", "t", "d", "m", "error"}
                        /\ cmds'[j].op \in {"d", "m"} => cmds'[j].h \in mine'
                        /\ cmds'[j].op = "t" /\ cmds'[j].at # NoSn => cmds'[j].h \in mine'
                        /\ cmds'[j].op = "f" /\ cmds'[j].at # NoSn => cmds'[j].at \in 0 .. now'
      BY <1>5 DEF Cmds
    <2>1. CASE j = i
      BY <1>6, <1>7, <1>8, <2>1
    <2>2. CASE j # i
      <3>1. cmds'[j] = cmds[j] /\ j \in DOMAIN cmds
        BY <1>7, <2>2
      <3>2. now' \in Nat
        BY <1>3, <1>4 DEF serverVars, now
      <3>3. 0 .. now \subseteq 0 .. now'
        BY <1>3, <1>4, <3>2
      <3> QED BY <1>5, <3>1, <3>3 DEF Cmds
    <2> QED BY <2>1, <2>2
  <1>10. cmds = << >> => cmds' = << >>
    BY <1>1
  <1>11. \A j \in DOMAIN cmds' : cmds[j].op = "f" => cmds'[j].op = "f"
    BY <1>6, <1>7 DEF q
  <1> QED BY <1>4, <1>7, <1>9, <1>10, <1>11

-----------------------------------------------------------------------------
(* The client's state *)

Numbers ==
    /\ scsn \in {NoSn} \union 0 .. now
    /\ cachedscsn \in {NoSn, BadSn} \union 0 .. now
    /\ db.sn \in {NoSn, BadSn} \union 0 .. now
    /\ \A q \in pendingsc : q.upto \in q.sn .. now

\* No tree, nothing to write and nothing known without a session; a cache that
\* has been given up, or is not open, is empty; what goes into the table as
\* number is one the server knows.
Sess ==
    /\ sessionid \in Nat \ {0}
    /\ session # "in" => ~loaded /\ ~fetchingnodes /\ cmds = << >>
    /\ ~loaded => nodes = Empty /\ nodenotify = {} /\ scsn = NoSn
    /\ session # "down" /\ ~sctable => db.sn = NoSn
    /\ session = "login" => cachedscsn = db.sn
    /\ session = "in" => cachedscsn # BadSn
    /\ db.sn = NoSn => db.rows = NoRows
    /\ db.sn # NoSn /\ (loaded \/ cmds # << >>) => cachedscsn # NoSn

\* Record numbers are in order, except that the cache may not have been read
\* yet, in which case nothing can be written to it.
Store ==
    /\ Nodes(nodes, nodenotify)
    /\ Rows(db.rows)
    /\ sctable => Ids(nodes, db.rows, nextid)
    /\ \/ DOMAIN db.rows \subseteq 1 .. nextid
       \/ ~loaded /\ \A i \in DOMAIN cmds : cmds[i].op = "f"

\* commit
Committed(n, x) ==
    /\ db'.sn \in tscsn(n) /\ db'.rows = x.rows
    /\ cachedscsn' = IF n = NoSn THEN cachedscsn ELSE n
    /\ nextid' = x.id /\ sctable' = sctable

\* abort and truncate
Aborted ==
    /\ db'.sn = NoSn /\ db'.rows = NoRows
    /\ cachedscsn' = cachedscsn /\ nextid' = 0 /\ sctable' = FALSE

LEMMA FinalIs ==
    ASSUME NEW n, NEW x, finalizesc(n, x)
    PROVE  Committed(n, x) \/ Aborted
  BY DEF finalizesc, Committed, Aborted, Db, aborted

\* the records, nodes and last number before writing
Before(c) == [rows |-> db.rows, nodes |-> c.nodes, id |-> nextid]

LEMMA BeforeIs ==
    ASSUME NEW c
    PROVE  /\ DOMAIN Before(c) = Shape /\ Before(c).rows = db.rows
           /\ Before(c).nodes = c.nodes /\ Before(c).id = nextid
  BY DEF Before, Shape

(* notifypurge() either writes what has changed, or has nothing to write or
   nowhere to write it. *)
LEMMA PurgeIs ==
    ASSUME NEW c, NEW n, Nodes(c.nodes, c.notify), sctable => Ids(c.nodes, db.rows, nextid),
           DOMAIN db.rows \subseteq 1 .. nextid, notifypurge(c, n)
    PROVE  /\ nodenotify' = {}
           /\ adrift => adrift'
           /\ \/ /\ nodes' = Dropped(c.nodes, c.notify)
                 /\ UNCHANGED <<cachedscsn, sctable, nextid, db>>
                 /\ \/ c.notify = {} /\ n \in {NoSn, cachedscsn}
                    \/ ~sctable \/ db.sn = NoSn
              \/ /\ sctable /\ db.sn # NoSn
                 /\ n = NoSn /\ ~fetchingnodes => adrift'
                 /\ \E x : /\ Written(Before(c), x, c.notify)
                           /\ nodes' = Dropped(x.nodes, c.notify)
                           /\ Committed(n, x) \/ Aborted
  <1> DEFINE cached == (c.notify # {} \/ n \notin {NoSn, cachedscsn}) /\ sctable /\ db.sn # NoSn
             o == [rows |-> db.rows, nodes |-> c.nodes, id |-> nextid]
             written == IF cached THEN putnodes(c.nodes, c.notify, db.rows, nextid) ELSE {o}
  <1>0. nodenotify' = {}
    BY DEF notifypurge
  <1>1. PICK x \in written :
           /\ nodes' = Dropped(x.nodes, c.notify)
           /\ IF cached THEN finalizesc(n, x) ELSE UNCHANGED <<cachedscsn, dbVars>>
    BY Zenon DEF notifypurge, Dropped
  <1>2. adrift' = (adrift \/ (cached /\ n = NoSn /\ ~fetchingnodes))
    BY DEF notifypurge
  <1>20. adrift => adrift'
    BY <1>2, Zenon
  <1>3. CASE cached
    <2>1. x \in putnodes(c.nodes, c.notify, db.rows, nextid) /\ finalizesc(n, x)
      BY <1>1, <1>3
    <2>2. Written(o, x, c.notify)
      BY <1>3, <2>1, PutNodes
    <2>3. Committed(n, x) \/ Aborted
      BY <2>1, FinalIs
    <2>4. n = NoSn /\ ~fetchingnodes => adrift'
      BY <1>2, <1>3, Zenon
    <2> HIDE DEF o
    <2> QED BY <1>0, <1>1, <1>20, <1>3, <2>2, <2>3, <2>4 DEF o, Before
  <1>4. CASE ~cached
    <2>1. x = o /\ UNCHANGED <<cachedscsn, dbVars>>
      BY <1>1, <1>4
    <2>2. o.nodes = c.nodes
      OBVIOUS
    <2>3. nodes' = Dropped(c.nodes, c.notify)
      BY <1>1, <2>1, <2>2
    <2>4. \/ c.notify = {} /\ n \in {NoSn, cachedscsn}
          \/ ~sctable \/ db.sn = NoSn
      BY <1>4
    <2> QED BY <1>0, <1>20, <2>1, <2>3, <2>4 DEF dbVars
  <1> QED BY <1>3, <1>4

-----------------------------------------------------------------------------
(* Every step: the server's history, own commands and numbers *)

(* The server's history only grows. *)
LEMMA HistoryStep ==
    ASSUME PollType, History, Cmds, Sess, [Steady]_vars
    PROVE  History' /\ Extends
  <1>0. now \in Nat
    BY HistoryIs
  <1>1. CASE tree' = tree /\ log' = log /\ mine \subseteq mine'
    <2>1. now' = now
      BY <1>1 DEF now
    <2> QED BY <1>0, <1>1, <2>1 DEF History, Extends, now
  <1>2. CASE otherClient
    BY <1>2, OtherStep
  <1>3. CASE serverExecutes
    <2>1. sessionid # Others
      BY DEF Sess, Others
    <2> QED BY <1>3, <2>1, ExecuteStep
  <1>4. CASE UNCHANGED serverVars
    BY <1>1, <1>4 DEF serverVars
  <1>5. CASE \E h \in Handle : unlink(h)
    BY <1>1, <1>5 DEF unlink
  <1>6. CASE \E h \in Handle, p \in Handle \union {Root} : rename(h, p)
    BY <1>1, <1>6 DEF rename
  <1>7. CASE SteadyEngine
    <2>1. UNCHANGED serverVars
      BY <1>7, Zenon DEF SteadyEngine, login, loginResult, resume, fetchnodesCached, fetchnodes, reopened, fetchnodesResult,
         putnodesResult, otherResult, scPost, scNotified, scResponse, tooMany, scFailure,
         elapse, syncsAreUp, execNotifypurge
    <2> QED BY <1>4, <2>1
  <1>8. CASE \/ fetchnodesAgain \/ (\E crash \in BOOLEAN : stop(crash))
             \/ (\E p \in Handle \union {Root} : putnodesNew(p))
             \/ serverAnswers \/ fetchnodesError \/ UNCHANGED vars
    <2>1. UNCHANGED serverVars
      BY <1>8, Zenon DEF fetchnodesAgain, stop, putnodesNew, serverAnswers, fetchnodesError, vars
    <2> QED BY <1>4, <2>1
  <1> QED BY <1>2, <1>3, <1>5, <1>6, <1>7, <1>8, Zenon DEF Steady, App, Server

(* What the server has had up to a number does not change. *)
LEMMA EverSame ==
    ASSUME History, History', Extends, NEW n \in 0 .. now
    PROVE  /\ n \in 0 .. now' /\ tree'[n + 1] = tree[n + 1] /\ Ever(n)' = Ever(n)
  <1>1. now \in Nat /\ now' \in Nat /\ now <= now'
    <2>1. now' \in Nat
      BY DEF History, now
    <2> QED BY <2>1, HistoryIs DEF Extends
  <1>2. \A j \in 1 .. n + 1 : tree'[j] = tree[j]
    BY <1>1 DEF Extends
  <1>3. Ever(n)' = Ever(n)
    BY <1>2 DEF Ever
  <1> QED BY <1>1, <1>2, <1>3

(* Commands that were outstanding, or are new. *)
LEMMA CmdsStep ==
    ASSUME Cmds, History, History', Extends, mine' \subseteq Handle,
           \A i \in DOMAIN cmds' :
              \/ \E j \in DOMAIN cmds : cmds'[i] = cmds[j]
              \/ /\ cmds'[i].op \in {"f", "t", "d", "m"} /\ cmds'[i].at = NoSn
                 /\ cmds'[i].op \in {"d", "m"} => cmds'[i].h \in mine'
    PROVE  Cmds'
  <1>1. now \in Nat /\ now' \in Nat /\ now <= now'
    <2>1. now' \in Nat
      BY DEF History, now
    <2> QED BY <2>1, HistoryIs DEF Extends
  <1>2. 0 .. now \subseteq 0 .. now' /\ mine \subseteq mine'
    BY <1>1 DEF Extends
  <1>3. ASSUME NEW i \in DOMAIN cmds'
        PROVE  /\ cmds'[i].op \in {"f", "t", "d", "m", "error"}
               /\ cmds'[i].op \in {"d", "m"} => cmds'[i].h \in mine'
               /\ cmds'[i].op = "t" /\ cmds'[i].at # NoSn => cmds'[i].h \in mine'
               /\ cmds'[i].op = "f" /\ cmds'[i].at # NoSn => cmds'[i].at \in 0 .. now'
    <2>1. CASE \E j \in DOMAIN cmds : cmds'[i] = cmds[j]
      BY <1>2, <2>1 DEF Cmds
    <2>2. CASE ~ \E j \in DOMAIN cmds : cmds'[i] = cmds[j]
      BY <2>2
    <2> QED BY <2>1, <2>2
  <1> QED BY <1>3 DEF Cmds

(* The client's list of commands is shortened, cleared or has grown by one. *)
LEMMA Lists ==
    ASSUME PollType
    PROVE  /\ cmds # << >> => \A i \in DOMAIN Tail(cmds) : \E j \in DOMAIN cmds : Tail(cmds)[i] = cmds[j]
           /\ cmds # << >> => 1 \in DOMAIN cmds /\ Head(cmds) = cmds[1]
           /\ \A c : /\ Append(cmds, c) # << >>
                     /\ \A i \in DOMAIN Append(cmds, c) :
                          \/ \E j \in DOMAIN cmds : Append(cmds, c)[i] = cmds[j]
                          \/ Append(cmds, c)[i] = c
  <1>1. PICK S : cmds \in Seq(S)
    BY DEF PollType
  <1>2. ASSUME cmds # << >>
        PROVE  /\ \A i \in DOMAIN Tail(cmds) : \E j \in DOMAIN cmds : Tail(cmds)[i] = cmds[j]
               /\ 1 \in DOMAIN cmds /\ Head(cmds) = cmds[1]
    <2>1. ASSUME NEW i \in DOMAIN Tail(cmds)
          PROVE  i + 1 \in DOMAIN cmds /\ Tail(cmds)[i] = cmds[i + 1]
      BY <1>1, <1>2
    <2> QED BY <1>1, <1>2, <2>1
  <1>3. ASSUME NEW c
        PROVE  /\ Append(cmds, c) # << >>
               /\ \A i \in DOMAIN Append(cmds, c) :
                          \/ \E j \in DOMAIN cmds : Append(cmds, c)[i] = cmds[j]
                          \/ Append(cmds, c)[i] = c
    <2>0. cmds \in Seq(S \union {c})
      BY <1>1
    <2>1. Append(cmds, c) # << >>
      <3>1. Len(Append(cmds, c)) = Len(cmds) + 1 /\ Len(cmds) \in Nat
        BY <2>0
      <3>2. Len(<< >>) = 0
        OBVIOUS
      <3> QED BY <3>1, <3>2
    <2>2. ASSUME NEW i \in DOMAIN Append(cmds, c)
          PROVE  \/ i \in DOMAIN cmds /\ Append(cmds, c)[i] = cmds[i]
                 \/ Append(cmds, c)[i] = c
      BY <2>0
    <2> QED BY <2>1, <2>2
  <1> QED BY <1>2, <1>3

(* Numbers come from the server, or are other numbers of the client. *)
LEMMA NumbersStep ==
    ASSUME Poll, Numbers, History, History', Extends,
           scsn' \in {scsn, NoSn} \union 0 .. now',
           cachedscsn' \in {cachedscsn, NoSn, db.sn, scsn} \union 0 .. now',
           db'.sn \in {db.sn, NoSn, BadSn, scsn, cachedscsn} \union 0 .. now',
           \A q \in pendingsc' : q \in pendingsc \/ q.upto \in q.sn .. now'
    PROVE  Numbers'
  <1>1. now \in Nat /\ now' \in Nat /\ now <= now'
    <2>1. now' \in Nat
      BY DEF History, now
    <2> QED BY <2>1, HistoryIs DEF Extends
  <1>2. 0 .. now \subseteq 0 .. now'
    BY <1>1
  <1>3. \A q \in pendingsc' : q.upto \in q.sn .. now'
    <2>1. \A x \in Int : x .. now \subseteq x .. now'
      BY <1>1
    <2>2. \A q \in pendingsc : q.sn \in Int
      BY <1>1 DEF Poll, Continues, Numbers, NoSn
    <2> QED BY <2>1, <2>2 DEF Numbers
  <1> QED BY <1>2, <1>3 DEF Numbers

(* Own commands in every step. *)
LEMMA CommandsStep ==
    ASSUME PollType, History, Cmds, Sess, Store, [Steady]_vars
    PROVE  Cmds'
  <1>0. History' /\ Extends
    BY HistoryStep
  <1>1. \A op, h, p, at : LET c == Command(op, h, p, at) IN c.op = op /\ c.h = h /\ c.at = at
    BY DEF Command
  <1>2. mine \subseteq Handle /\ DOMAIN nodes \subseteq Handle
    BY DEF Cmds, Store, Nodes
  <1>3. CASE mine' = mine /\ (cmds' = cmds \/ (cmds # << >> /\ cmds' = Tail(cmds)))
    BY <1>0, <1>2, <1>3, Lists, CmdsStep
  <1>4. CASE mine' = mine /\ cmds' = << >>
    BY <1>0, <1>2, <1>4, CmdsStep
  <1>5. ASSUME NEW op \in {"f", "t", "d", "m"}, NEW h, NEW p,
               cmds' = Append(cmds, Command(op, h, p, NoSn)), mine' \subseteq Handle,
               op \in {"d", "m"} => h \in mine'
        PROVE  Cmds'
    <2> DEFINE c == Command(op, h, p, NoSn)
    <2>1. c.op = op /\ c.h = h /\ c.at = NoSn
      BY <1>1
    <2> HIDE DEF c
    <2>2. \A i \in DOMAIN cmds' : (\E j \in DOMAIN cmds : cmds'[i] = cmds[j]) \/ cmds'[i] = c
      BY <1>5, Lists DEF c
    <2>3. \A i \in DOMAIN cmds' :
              \/ \E j \in DOMAIN cmds : cmds'[i] = cmds[j]
              \/ /\ cmds'[i].op \in {"f", "t", "d", "m"} /\ cmds'[i].at = NoSn
                 /\ cmds'[i].op \in {"d", "m"} => cmds'[i].h \in mine'
      BY <1>5, <2>1, <2>2
    <2> QED BY <1>0, <1>5, <2>3, CmdsStep
  <1>6. CASE reload /\ UNCHANGED serverVars
    BY <1>2, <1>5, <1>6 DEF reload, reopen, serverVars
  <1>7. CASE \E p \in Handle \union {Root} : putnodesNew(p)
    <2>1. mine' = mine /\ \E p : cmds' = Append(cmds, Command("t", None, p, NoSn))
      BY <1>7, Zenon DEF putnodesNew, command, serverVars
    <2> QED BY <1>2, <1>5, <2>1
  <1>8. CASE \E h \in Handle : unlink(h)
    <2>1. PICK h : /\ cmds' = Append(cmds, Command("d", h, None, NoSn))
                   /\ mine' = mine \union Subtree(nodes, h) /\ h \in DOMAIN nodes
      BY <1>8, Zenon DEF unlink, command, live
    <2>2. mine' \subseteq Handle /\ h \in mine'
      BY <1>2, <2>1, SubtreeIs
    <2> QED BY <1>5, <2>1, <2>2
  <1>9. CASE \E h \in Handle, p \in Handle \union {Root} : rename(h, p)
    <2>1. PICK h, p : /\ cmds' = Append(cmds, Command("m", h, p, NoSn))
                      /\ mine' = mine \union {h} /\ h \in DOMAIN nodes
      BY <1>9, Zenon DEF rename, command, live
    <2>2. mine' \subseteq Handle /\ h \in mine'
      BY <1>2, <2>1
    <2> QED BY <1>5, <2>1, <2>2
  <1>10. CASE serverExecutes
    <2>1. sessionid # Others
      BY DEF Sess, Others
    <2> QED BY <1>10, <2>1, ExecuteStep
  <1>11. CASE fetchnodes \/ fetchnodesAgain \/ tooMany
    BY <1>6, <1>11 DEF fetchnodes, fetchnodesAgain, tooMany
  <1>12. CASE \E crash \in BOOLEAN : stop(crash)
    BY <1>4, <1>12 DEF stop, serverVars
  <1>13. CASE fetchnodesResult \/ putnodesResult \/ otherResult \/ fetchnodesError
    BY <1>3, <1>13 DEF fetchnodesResult, putnodesResult, otherResult, fetchnodesError, serverVars
  <1>14. CASE \/ login \/ (\E continued \in BOOLEAN : loginResult(continued)) \/ resume \/ reopened
              \/ scPost \/ scNotified \/ scResponse \/ scFailure \/ elapse \/ syncsAreUp
              \/ execNotifypurge \/ otherClient \/ serverAnswers \/ UNCHANGED vars
    <2>1. mine' = mine /\ cmds' = cmds
      BY <1>14 DEF login, loginResult, resume, fetchnodesCached, reopened, scPost, scNotified, scResponse, scFailure,
         elapse, syncsAreUp, execNotifypurge, otherClient, serverAnswers, vars, serverVars
    <2> QED BY <1>3, <2>1
  <1> QED BY <1>7, <1>8, <1>9, <1>10, <1>11, <1>12, <1>13, <1>14, Zenon
          DEF Steady, SteadyEngine, App, Server

\* the number that finalizesc() records
LEMMA FinalNumber ==
    ASSUME NEW n, NEW x, Committed(n, x) \/ Aborted
    PROVE  /\ cachedscsn' \in {cachedscsn, n} /\ db'.sn \in {n, cachedscsn, BadSn, NoSn}
  BY DEF Committed, Aborted, tscsn

(* The number after notifypurge() *)
LEMMA PurgeNumber ==
    ASSUME NEW c, NEW n, notifypurge(c, n)
    PROVE  /\ cachedscsn' \in {cachedscsn, n} /\ db'.sn \in {db.sn, n, cachedscsn, BadSn, NoSn}
  <1>1. (\E x : finalizesc(n, x)) \/ UNCHANGED <<cachedscsn, dbVars>>
    BY Zenon DEF notifypurge
  <1>2. CASE UNCHANGED <<cachedscsn, dbVars>>
    BY <1>2 DEF dbVars
  <1> QED BY <1>1, <1>2, FinalIs, FinalNumber

(* The server's answer leads to a number it has. *)
LEMMA AnswerNumber ==
    ASSUME PollType, Poll, Numbers, History, serverAnswers
    PROVE  \A q \in pendingsc' : q.upto \in q.sn .. now
  <1>1. PICK S : pendingsc \subseteq Request(S)
    BY DEF PollType
  <1>2. PICK q, status, in, n :
           /\ q \in pendingsc
           /\ pendingsc' = {[q EXCEPT !.status = status, !.in = in, !.upto = n]}
           /\ n \in q.sn .. now \/ n = q.sn
    <2>1. PICK q \in pendingsc : \E status, in, n :
             /\ pendingsc' = {[q EXCEPT !.status = status, !.in = in, !.upto = n]}
             /\ n \in q.sn .. now \/ n = q.sn
      BY Zenon DEF serverAnswers
    <2> QED BY <2>1, Zenon
  <1>3. now \in Nat /\ q.sn = scsn /\ scsn \in 0 .. now
    BY <1>2, HistoryIs DEF Poll, Continues, Numbers
  <1> DEFINE e == [q EXCEPT !.status = status, !.in = in, !.upto = n]
  <1>4. e.sn = q.sn /\ e.upto = n
    <2>1. q \in Request(S)
      BY <1>1, <1>2
    <2> QED BY <2>1 DEF Request
  <1>5. n \in q.sn .. now
    BY <1>2, <1>3
  <1> HIDE DEF e
  <1>6. e.upto \in e.sn .. now
    BY <1>4, <1>5
  <1> QED BY <1>2, <1>6 DEF e

(* The numbers in every step. *)
LEMMA AllNumbers ==
    ASSUME PollType, Poll, History, Cmds, Numbers, Sess, [Steady]_vars
    PROVE  Numbers'
  <1>0. History' /\ Extends
    BY HistoryStep
  <1>1. now \in Nat /\ now' \in Nat /\ now <= now'
    <2>1. now' \in Nat
      BY <1>0 DEF History, now
    <2> QED BY <1>0, <2>1, HistoryIs DEF Extends
  <1>2. 0 .. now \subseteq 0 .. now'
    BY <1>1
  <1>3. CASE \/ login \/ (\E continued \in BOOLEAN : loginResult(continued))
    BY <1>0, <1>3, NumbersStep DEF login, loginResult, scVars, dbVars
  <1>4. CASE resume
    <2>1. cachedscsn \in 0 .. now'
      BY <1>2, <1>4 DEF resume, fetchnodesCached, Sess, Numbers
    <2>2. scsn' \in 0 .. now' /\ UNCHANGED <<cachedscsn, db, pendingsc>>
      BY <1>4, <2>1 DEF resume, fetchnodesCached, scVars
    <2> QED BY <1>0, <2>2, NumbersStep
  <1>5. CASE fetchnodes \/ fetchnodesAgain \/ tooMany
    <2>1. reload /\ UNCHANGED cachedscsn
      BY <1>5 DEF fetchnodes, fetchnodesAgain, tooMany
    <2>2. scsn' = NoSn /\ pendingsc' = {} /\ db'.sn \in {NoSn, db.sn}
      BY <2>1 DEF reload, reopen, purge, dropsc, Db
    <2> QED BY <1>0, <2>1, <2>2, NumbersStep
  <1>6. CASE \E crash \in BOOLEAN : stop(crash)
    <2>1. scsn' = NoSn /\ pendingsc' = {} /\ db' = db /\ cachedscsn' = NoSn
      BY <1>6 DEF stop, purge, dropsc
    <2> QED BY <1>0, <2>1, NumbersStep
  <1>7. CASE fetchnodesResult
    <2>1. Head(cmds).at \in 0 .. now'
      BY <1>2, <1>7, Lists DEF fetchnodesResult, Cmds
    <2> DEFINE n == Head(cmds).at
    <2>2. PICK t : initsc(t, n)
      BY <1>7 DEF fetchnodesResult
    <2>3. cachedscsn' \in {cachedscsn, n} /\ db'.sn \in {n, cachedscsn, BadSn, NoSn, db.sn}
      <3>1. CASE UNCHANGED <<cachedscsn, dbVars>>
        BY <3>1 DEF dbVars
      <3>2. (\E x : finalizesc(n, x)) \/ UNCHANGED <<cachedscsn, dbVars>>
        BY <2>2, Zenon DEF initsc
      <3> QED BY <3>1, <3>2, FinalIs, FinalNumber
    <2>4. scsn' = n /\ UNCHANGED pendingsc
      BY <1>7 DEF fetchnodesResult, scVars
    <2> QED BY <1>0, <2>1, <2>3, <2>4, NumbersStep
  <1>8. CASE putnodesResult \/ execNotifypurge
    <2>1. /\ \E c : notifypurge(c, scsn)
          /\ UNCHANGED <<scsn, pendingsc>>
      BY <1>8 DEF putnodesResult, execNotifypurge, scVars
    <2>2. cachedscsn' \in {cachedscsn, scsn} /\ db'.sn \in {db.sn, scsn, cachedscsn, BadSn, NoSn}
      BY <2>1, PurgeNumber
    <2> QED BY <1>0, <2>1, <2>2, NumbersStep
  <1>9. CASE scResponse
    <2>1. PICK q \in pendingsc : scsn' = q.upto /\ pendingsc' = {}
      BY <1>9 DEF scResponse
    <2>2. scsn' \in 0 .. now'
      BY <1>1, <2>1 DEF Numbers, Poll, Continues
    <2>3. UNCHANGED <<cachedscsn, db>>
      BY <1>9 DEF scResponse, dbVars
    <2> QED BY <1>0, <2>1, <2>2, <2>3, NumbersStep
  <1>10. CASE scPost
    <2>1. scsn \in scsn .. now'
      BY <1>1, <1>10 DEF scPost, Numbers
    <2>2. \A q \in pendingsc' : q.sn = scsn /\ q.upto = scsn
      BY <1>10 DEF scPost
    <2>3. UNCHANGED <<scsn, cachedscsn, db>>
      BY <1>10 DEF scPost, dbVars
    <2> QED BY <1>0, <2>1, <2>2, <2>3, NumbersStep
  <1>11. CASE serverAnswers
    <2>1. UNCHANGED <<scsn, cachedscsn, db, log>>
      BY <1>11 DEF serverAnswers, dbVars, serverVars
    <2>2. now' = now
      BY <2>1 DEF now
    <2> QED BY <1>0, <1>11, <2>1, <2>2, AnswerNumber, NumbersStep
  <1>12. CASE scNotified \/ scFailure
    <2>1. scsn' \in {scsn, NoSn} /\ pendingsc' = {} /\ UNCHANGED <<cachedscsn, db>>
      BY <1>12 DEF scNotified, scFailure, dbVars
    <2> QED BY <1>0, <2>1, NumbersStep
  <1>13. CASE \/ otherResult \/ elapse \/ syncsAreUp \/ fetchnodesError \/ otherClient \/ serverExecutes
              \/ (\E p \in Handle \union {Root} : putnodesNew(p))
              \/ (\E h \in Handle : unlink(h))
              \/ (\E h \in Handle, p \in Handle \union {Root} : rename(h, p)) \/ UNCHANGED vars
    <2>1. UNCHANGED <<scsn, cachedscsn, db, pendingsc>>
      BY <1>13 DEF otherResult, elapse, syncsAreUp, fetchnodesError, otherClient, serverExecutes,
         putnodesNew, unlink, rename, vars, dbVars, scVars, clientVars
    <2> QED BY <1>0, <2>1, NumbersStep
  <1>14. CASE reopened
    <2>1. UNCHANGED <<scsn, cachedscsn, pendingsc>> /\ db'.sn \in {NoSn, db.sn}
      BY <1>14 DEF reopened, clientVars, scVars
    <2> QED BY <1>0, <2>1, NumbersStep
  <1> QED BY <1>3, <1>4, <1>5, <1>6, <1>7, <1>8, <1>9, <1>10, <1>11, <1>12, <1>13, <1>14, Zenon
          DEF Steady, SteadyEngine, App, Server

-----------------------------------------------------------------------------
(* Every step: the session *)

\* session, number and cache stay as they are
Idle == UNCHANGED <<session, sessionid, scsn, cachedscsn, sctable, nextid, db>>

(* A step that leaves them alone and at most changes the nodes of a tree, or
   the commands of a session. *)
LEMMA SessIdle ==
    ASSUME Sess, Idle, UNCHANGED loaded,
           loaded \/ UNCHANGED <<nodes, nodenotify>>,
           fetchingnodes' => fetchingnodes,
           cmds' = << >> \/ cmds # << >> \/ (session = "in" /\ loaded)
    PROVE  Sess'
  BY DEF Sess, Idle

(* Steps of the session itself. *)
LEMMA SessLogin ==
    ASSUME Sess, Numbers, login \/ (\E continued \in BOOLEAN : loginResult(continued)) \/ resume
    PROVE  Sess'
  <1>1. CASE login
    BY <1>1 DEF login, Sess, treeVars
  <1>2. CASE \E continued \in BOOLEAN : loginResult(continued)
    BY <1>2 DEF loginResult, Sess, treeVars, dbVars, NoSn, BadSn
  <1>3. CASE resume
    BY <1>3 DEF resume, fetchnodesCached, Sess, treeVars, dbVars
  <1> QED BY <1>1, <1>2, <1>3

LEMMA SessReload ==
    ASSUME PollType, Sess, reload, session = "in", UNCHANGED <<session, sessionid, cachedscsn>>
    PROVE  Sess'
  <1>1. cmds' # << >>
    BY Lists DEF reload, reopen
  <1>2. /\ ~loaded' /\ nodes' = Empty /\ nodenotify' = {} /\ scsn' = NoSn /\ sctable'
        /\ cachedscsn = NoSn => db'.sn = NoSn /\ db'.rows = NoRows
        /\ cachedscsn # NoSn => db' = db
    BY DEF reload, reopen, purge, Db
  <1> QED BY <1>1, <1>2 DEF Sess

LEMMA SessStop ==
    ASSUME Sess, NEW crash \in BOOLEAN, stop(crash)
    PROVE  Sess'
  <1>1. sessionid' \in Nat \ {0}
    BY DEF Sess, stop
  <1>2. /\ ~loaded' /\ nodes' = Empty /\ nodenotify' = {} /\ scsn' = NoSn /\ db' = db
        /\ cmds' = << >> /\ ~fetchingnodes' /\ session' = "down"
    BY DEF stop, purge
  <1> QED BY <1>1, <1>2 DEF Sess

(* The cache is written or given up while there is a tree. *)
LEMMA SessWrite ==
    ASSUME Sess, NEW n, NEW x, n # BadSn, Committed(n, x) \/ Aborted, sctable,
           n # NoSn \/ cachedscsn # NoSn, loaded', session = "in", UNCHANGED <<session, sessionid>>
    PROVE  Sess'
  <1>1. CASE Committed(n, x)
    <2>1. sctable' /\ cachedscsn' # BadSn /\ cachedscsn' # NoSn
      BY <1>1 DEF Committed, Sess
    <2>2. db'.sn # NoSn
      BY <1>1 DEF Committed, tscsn, NoSn, BadSn
    <2> QED BY <2>1, <2>2 DEF Sess
  <1>2. CASE Aborted
    BY <1>2 DEF Aborted, Sess
  <1> QED BY <1>1, <1>2

(* The session in every step. *)
LEMMA AllSess ==
    ASSUME PollType, Poll, History, Cmds, Numbers, Sess, Store, [Steady]_vars
    PROVE  Sess'
  <1>1. CASE login \/ (\E continued \in BOOLEAN : loginResult(continued)) \/ resume
    BY <1>1, SessLogin
  <1>2. CASE fetchnodes \/ fetchnodesAgain \/ tooMany
    <2>1. reload /\ UNCHANGED <<session, sessionid, cachedscsn>>
      BY <1>2 DEF fetchnodes, fetchnodesAgain, tooMany
    <2>2. session = "in"
      BY <1>2 DEF fetchnodes, fetchnodesAgain, tooMany, received, Poll, Continues
    <2> QED BY <2>1, <2>2, SessReload
  <1>3. CASE \E crash \in BOOLEAN : stop(crash)
    BY <1>3, SessStop
  <1>4. CASE fetchnodesResult
    <2> DEFINE n == Head(cmds).at
    <2>1. n \in 0 .. now /\ now \in Nat
      BY <1>4, Lists, HistoryIs DEF fetchnodesResult, Cmds
    <2>2. n # NoSn /\ n # BadSn
      BY <2>1 DEF NoSn, BadSn
    <2>3. session = "in" /\ UNCHANGED <<session, sessionid>> /\ loaded'
      BY <1>4 DEF fetchnodesResult, Sess
    <2>4. PICK t : initsc(t, n)
      BY <1>4 DEF fetchnodesResult
    <2>5. CASE sctable
      <3>1. PICK x : finalizesc(n, x)
        BY <2>4, <2>5, Zenon DEF initsc
      <3> QED BY <2>2, <2>3, <2>5, <3>1, FinalIs, SessWrite
    <2>6. CASE ~sctable
      <3>1. UNCHANGED <<cachedscsn, sctable, db>>
        BY <2>4, <2>6 DEF initsc, dbVars
      <3> QED BY <2>3, <2>6, <3>1 DEF Sess
    <2> QED BY <2>5, <2>6
  <1>5. CASE putnodesResult \/ execNotifypurge
    <2>1. PICK c : notifypurge(c, scsn)
      BY <1>5 DEF putnodesResult, execNotifypurge
    <2>2. session = "in" /\ UNCHANGED <<session, sessionid, scsn>> /\ loaded' /\ (loaded \/ cmds # << >>)
      BY <1>5 DEF putnodesResult, execNotifypurge, Sess, sessionVars
    <2>3. scsn # BadSn
      BY HistoryIs DEF Numbers, NoSn, BadSn
    <2>4. (\E x : finalizesc(scsn, x) /\ sctable /\ db.sn # NoSn) \/ UNCHANGED <<cachedscsn, dbVars>>
      BY <2>1, Zenon DEF notifypurge
    <2>5. CASE UNCHANGED <<cachedscsn, dbVars>>
      BY <2>2, <2>5 DEF Sess, dbVars
    <2>6. CASE ~ UNCHANGED <<cachedscsn, dbVars>>
      <3>1. PICK x : finalizesc(scsn, x) /\ sctable /\ db.sn # NoSn
        BY <2>4, <2>6
      <3>2. cachedscsn # NoSn
        BY <2>2, <3>1 DEF Sess
      <3> QED BY <2>2, <2>3, <3>1, <3>2, FinalIs, SessWrite
    <2> QED BY <2>5, <2>6
  <1>6. CASE scResponse
    <2>1. loaded
      BY <1>6 DEF scResponse, Poll, Continues
    <2>2. UNCHANGED <<session, sessionid, loaded, cachedscsn, fetchingnodes, cmds, sctable, db>>
      BY <1>6 DEF scResponse, sessionVars, dbVars
    <2> QED BY <2>1, <2>2 DEF Sess
  <1>7. CASE scFailure
    <2>1. UNCHANGED <<session, sessionid, loaded, nodes, nodenotify, cachedscsn, fetchingnodes, cmds, sctable, db>>
      BY <1>7 DEF scFailure, sessionVars, dbVars, treeVars
    <2>2. scsn' \in {scsn, NoSn}
      BY <1>7 DEF scFailure
    <2> QED BY <2>1, <2>2 DEF Sess
  <1>8. CASE \/ scPost \/ scNotified \/ elapse \/ syncsAreUp \/ otherClient \/ serverAnswers \/ UNCHANGED vars
    <2>1. Idle /\ UNCHANGED <<loaded, nodes, nodenotify, fetchingnodes, cmds>>
      BY <1>8 DEF scPost, scNotified, elapse, syncsAreUp, otherClient, serverAnswers, vars,
         clientVars, sessionVars, treeVars, dbVars, Idle
    <2> QED BY <2>1, SessIdle
  <1>9. CASE otherResult \/ fetchnodesError \/ serverExecutes
    <2>1. Idle /\ UNCHANGED <<loaded, nodes, nodenotify>> /\ (fetchingnodes' => fetchingnodes)
      <3>1. CASE otherResult \/ serverExecutes
        <4>1. UNCHANGED <<clientVars, dbVars>>
          BY <3>1, Zenon DEF otherResult, serverExecutes
        <4> QED BY <4>1 DEF clientVars, sessionVars, treeVars, dbVars, Idle
      <3>2. CASE fetchnodesError
        <4>1. UNCHANGED <<sessionVars, treeVars, scsn, cachedscsn, dbVars>> /\ fetchingnodes' = FALSE
          BY <3>2 DEF fetchnodesError
        <4> QED BY <4>1 DEF sessionVars, treeVars, dbVars, Idle
      <3> QED BY <1>9, <3>1, <3>2
    <2>2. cmds # << >> \/ serverExecutes
      BY <1>9 DEF otherResult, fetchnodesError
    <2>3. serverExecutes => (cmds = << >> => cmds' = << >>)
      <3>1. sessionid # Others
        BY DEF Sess, Others
      <3> QED BY <3>1, ExecuteStep
    <2> QED BY <2>1, <2>2, <2>3, SessIdle
  <1>10. CASE \/ (\E p \in Handle \union {Root} : putnodesNew(p))
              \/ (\E h \in Handle : unlink(h))
              \/ (\E h \in Handle, p \in Handle \union {Root} : rename(h, p))
    <2>1. Idle /\ UNCHANGED <<loaded, fetchingnodes>> /\ session = "in" /\ loaded
      BY <1>10 DEF putnodesNew, unlink, rename, clientVars, sessionVars, dbVars, Idle, command
    <2> QED BY <2>1, SessIdle
  <1>11. CASE reopened
    <2>1. UNCHANGED <<session, sessionid, loaded, nodes, nodenotify, scsn, cachedscsn, fetchingnodes, cmds>>
      BY <1>11 DEF reopened, clientVars, sessionVars, treeVars
    <2>2. sctable' /\ (db' = db \/ (db'.sn = NoSn /\ db'.rows = NoRows))
      BY <1>11 DEF reopened
    <2>3. session = "in"
      BY <1>11 DEF reopened
    <2> QED BY <2>1, <2>2, <2>3 DEF Sess
  <1> QED BY <1>1, <1>2, <1>3, <1>4, <1>5, <1>6, <1>7, <1>8, <1>9, <1>10, <1>11, Zenon
          DEF Steady, SteadyEngine, App, Server

-----------------------------------------------------------------------------
(* Every step: the nodes and the cache *)

NoEntry == DOMAIN NoRows = {} /\ DOMAIN Empty = {}

LEMMA NoEntryIs == NoEntry
  BY DEF NoEntry, NoRows, Empty

(* A tree that is empty. *)
LEMMA EmptyStore ==
    ASSUME NEW r, NEW m \in Nat
    PROVE  Nodes(Empty, {}) /\ Ids(Empty, r, m) /\ Rows(NoRows)
  <1>1. Nodes(Empty, {}) /\ Ids(Empty, r, m)
    BY NoEntryIs DEF NoEntry, Nodes, Ids
  <1>2. DOMAIN NoRows \subseteq 1 .. 0 /\ 0 \in Nat
    BY NoEntryIs DEF NoEntry
  <1> QED BY <1>1, <1>2, NoEntryIs DEF Rows, NoEntry

\* the nodes of e have the records they had in c, or none
SameIds(c, e) ==
    \A h \in DOMAIN e : IF h \in DOMAIN c THEN e[h].dbid = c[h].dbid ELSE e[h].dbid = 0

LEMMA IdsKept ==
    ASSUME NEW c, NEW e, NEW r, NEW m, SameIds(c, e), Ids(c, r, m), 0 \notin DOMAIN r
    PROVE  Ids(e, r, m)
  <1>1. m \in Nat
    BY DEF Ids
  <1>2. \A h \in DOMAIN e : \/ h \in DOMAIN c /\ e[h].dbid = c[h].dbid
                            \/ e[h].dbid = 0
    BY DEF SameIds
  <1>3. \A h \in DOMAIN e : e[h].dbid <= m
    BY <1>1, <1>2 DEF Ids
  <1>4. \A g, h \in DOMAIN e : e[g].dbid = e[h].dbid /\ e[g].dbid # 0 => g = h
    BY <1>2 DEF Ids
  <1>5. \A h \in DOMAIN e : e[h].dbid \in DOMAIN r => r[e[h].dbid].h = h
    BY <1>2 DEF Ids
  <1> QED BY <1>1, <1>3, <1>4, <1>5 DEF Ids

LEMMA ReadStore ==
    ASSUME NEW c, NEW s, NEW b \in BOOLEAN, NEW e, Nodes(c.nodes, c.notify), Reads(c, s, b, e),
           DOMAIN s \subseteq Handle
    PROVE  Nodes(e.nodes, e.notify) /\ SameIds(c.nodes, e.nodes)
  <1>1. DOMAIN e.nodes = DOMAIN c.nodes \union DOMAIN s /\ e.notify \subseteq DOMAIN e.nodes
    BY DEF Reads, Nodes
  <1>2. ASSUME NEW h \in DOMAIN e.nodes
        PROVE  /\ DOMAIN e.nodes[h] = Fields /\ e.nodes[h].dbid \in Nat
               /\ IF h \in DOMAIN c.nodes THEN e.nodes[h].dbid = c.nodes[h].dbid ELSE e.nodes[h].dbid = 0
    <2>1. CASE h \notin DOMAIN c.nodes
      BY <1>1, <2>1 DEF Reads
    <2>2. CASE h \in DOMAIN c.nodes /\ (h \notin DOMAIN s \/ ~c.nodes[h].removed)
      BY <2>2 DEF Reads, Nodes
    <2>3. CASE h \in DOMAIN c.nodes /\ h \in DOMAIN s /\ c.nodes[h].removed
      BY <2>3 DEF Reads, Nodes
    <2> QED BY <2>1, <2>2, <2>3
  <1>3. DOMAIN e.nodes \subseteq Handle
    BY <1>1 DEF Nodes
  <1> QED BY <1>1, <1>2, <1>3 DEF Nodes, SameIds

LEMMA DeleteStore ==
    ASSUME NEW c, NEW h, NEW e, Nodes(c.nodes, c.notify), Deletes(c, h, e)
    PROVE  Nodes(e.nodes, e.notify) /\ SameIds(c.nodes, e.nodes)
  <1>1. DOMAIN e.nodes = DOMAIN c.nodes /\ e.notify \subseteq DOMAIN e.nodes
    BY SubtreeIs DEF Deletes, Nodes
  <1>2. ASSUME NEW x \in DOMAIN e.nodes
        PROVE  DOMAIN e.nodes[x] = Fields /\ e.nodes[x].dbid = c.nodes[x].dbid
    <2>1. CASE x \in Subtree(c.nodes, h)
      BY <2>1 DEF Deletes
    <2>2. CASE x \notin Subtree(c.nodes, h)
      BY <1>1, <2>2 DEF Deletes, Nodes
    <2> QED BY <2>1, <2>2
  <1> QED BY <1>1, <1>2 DEF Nodes, SameIds

LEMMA ViewIs ==
    ASSUME NEW t, NEW q
    PROVE  View(t, q).nodes = t /\ View(t, q).notify = q
  BY DEF View

\* what can be said of the store in which a tree is
Stored(c, q, r, m, open) ==
    /\ Nodes(c, q) /\ Rows(r) /\ (open => Ids(c, r, m)) /\ DOMAIN r \subseteq 1 .. m

(* notifypurge() *)
LEMMA PurgeStore ==
    ASSUME NEW c, NEW n, notifypurge(c, n), Stored(c.nodes, c.notify, db.rows, nextid, sctable)
    PROVE  Stored(nodes', nodenotify', db'.rows, nextid', sctable')
  <1>0. /\ nodenotify' = {}
        /\ \/ /\ nodes' = Dropped(c.nodes, c.notify)
              /\ UNCHANGED <<cachedscsn, sctable, nextid, db>>
           \/ /\ sctable
              /\ \E x : /\ Written(Before(c), x, c.notify)
                        /\ nodes' = Dropped(x.nodes, c.notify)
                        /\ Committed(n, x) \/ Aborted
    BY PurgeIs DEF Stored
  <1>1. CASE nodes' = Dropped(c.nodes, c.notify) /\ UNCHANGED <<cachedscsn, sctable, nextid, db>>
    <2>1. Nodes(Dropped(c.nodes, c.notify), {})
      BY DropIs DEF Stored
    <2>2. sctable => Ids(Dropped(c.nodes, c.notify), db.rows, nextid)
      BY DropIds DEF Stored
    <2> QED BY <1>0, <1>1, <2>1, <2>2 DEF Stored
  <1>2. ASSUME NEW x, Written(Before(c), x, c.notify), nodes' = Dropped(x.nodes, c.notify),
               Committed(n, x) \/ Aborted
        PROVE  Stored(nodes', nodenotify', db'.rows, nextid', sctable')
    <2>0. Before(c).rows = db.rows /\ Before(c).nodes = c.nodes
      BY BeforeIs
    <2>1. Rows(x.rows) /\ Nodes(x.nodes, {})
      BY <1>2, <2>0, WriteRows DEF Stored
    <2>2. Nodes(x.nodes, c.notify)
      BY <1>2, <2>0, <2>1 DEF Written, Nodes, Stored
    <2>3. Ids(x.nodes, x.rows, x.id) /\ DOMAIN x.rows \subseteq 1 .. x.id
      BY <1>2 DEF Written
    <2>4. Nodes(nodes', {}) /\ Ids(nodes', x.rows, x.id)
      BY <1>2, <2>2, <2>3, DropIs, DropIds
    <2>5. CASE Committed(n, x)
      BY <1>0, <2>1, <2>3, <2>4, <2>5 DEF Committed, Stored
    <2>6. CASE Aborted
      <3>1. Rows(NoRows) /\ DOMAIN NoRows \subseteq 1 .. 0
        BY EmptyStore, NoEntryIs DEF NoEntry
      <3> QED BY <1>0, <2>4, <2>6, <3>1 DEF Aborted, Stored
    <2> QED BY <1>2, <2>5, <2>6
  <1> QED BY <1>0, <1>1, <1>2

(* initsc(): the cache is rewritten. *)
LEMMA InitStore ==
    ASSUME NEW t, NEW n, initsc(t, n), Nodes(t, nodenotify), sctable => Ids(t, NoRows, nextid),
           ~sctable => db.rows = NoRows, UNCHANGED nodenotify
    PROVE  Stored(nodes', nodenotify', db'.rows, nextid', sctable')
  <1>0. Rows(NoRows) /\ \A m : DOMAIN NoRows \subseteq 1 .. m
    BY EmptyStore, NoEntryIs DEF NoEntry
  <1>1. CASE sctable
    <2>1. PICK x \in putnodes(t, DOMAIN t, NoRows, nextid) : nodes' = x.nodes /\ finalizesc(n, x)
      BY <1>1, Zenon DEF initsc
    <2> DEFINE o == [rows |-> NoRows, nodes |-> t, id |-> nextid]
    <2>2. Nodes(t, DOMAIN t)
      BY DEF Nodes
    <2>3. Written(o, x, DOMAIN t)
      BY <1>0, <1>1, <2>1, <2>2, PutNodes
    <2>4. o.nodes = t /\ o.rows = NoRows
      OBVIOUS
    <2> HIDE DEF o
    <2>5. Rows(x.rows) /\ Nodes(x.nodes, {})
      BY <1>0, <2>2, <2>3, <2>4, WriteRows
    <2>6. Nodes(x.nodes, nodenotify)
      BY <2>3, <2>4, <2>5 DEF Written, Nodes
    <2>7. Ids(x.nodes, x.rows, x.id) /\ DOMAIN x.rows \subseteq 1 .. x.id
      BY <2>3 DEF Written
    <2>8. CASE Committed(n, x)
      BY <2>1, <2>5, <2>6, <2>7, <2>8 DEF Committed, Stored
    <2>9. CASE Aborted
      BY <1>0, <2>1, <2>6, <2>9 DEF Aborted, Stored
    <2> QED BY <2>1, <2>8, <2>9, FinalIs
  <1>2. CASE ~sctable
    <2>1. nodes' = t /\ UNCHANGED <<sctable, nextid, db>>
      BY <1>2 DEF initsc, dbVars
    <2> QED BY <1>0, <1>2, <2>1 DEF Stored
  <1> QED BY <1>1, <1>2

(* Nodes and cache in every step. *)
LEMMA AllStore ==
    ASSUME PollType, Poll, History, Cmds, Numbers, Sess, Store, [Steady]_vars
    PROVE  Store'
  <1>0. /\ Nodes(nodes, nodenotify) /\ Rows(db.rows) /\ (sctable => Ids(nodes, db.rows, nextid))
        /\ loaded => DOMAIN db.rows \subseteq 1 .. nextid
        /\ \A i \in DOMAIN cmds : cmds[i].op # "f" => DOMAIN db.rows \subseteq 1 .. nextid
    BY DEF Store
  <1>1. ASSUME Stored(nodes', nodenotify', db'.rows, nextid', sctable')
        PROVE  Store'
    BY <1>1 DEF Stored, Store
  <1>2. ASSUME NEW e, SameIds(nodes, e), Nodes(e, nodenotify'), nodes' = e, loaded,
               UNCHANGED <<db, nextid, sctable>>
        PROVE  Store'
    <2>1. 0 \notin DOMAIN db.rows
      BY <1>0, <1>2
    <2>2. sctable => Ids(e, db.rows, nextid)
      BY <1>0, <1>2, <2>1, IdsKept
    <2> QED BY <1>0, <1>1, <1>2, <2>2 DEF Stored
  <1>3. ASSUME UNCHANGED <<nodes, nodenotify, sctable, nextid, db, loaded>>,
               \/ loaded
               \/ (\A i \in DOMAIN cmds : cmds[i].op = "f") => \A i \in DOMAIN cmds' : cmds'[i].op = "f"
        PROVE  Store'
    BY <1>3 DEF Store
  <1>4. CASE login
    <2>1. /\ ~loaded /\ ~loaded' /\ cmds = << >> /\ cmds' = << >> /\ nodes' = Empty /\ nodenotify' = {}
          /\ db' = db /\ nextid' = 0
      BY <1>4 DEF login, Sess, treeVars
    <2>2. Nodes(Empty, {}) /\ Ids(Empty, db.rows, 0)
      BY EmptyStore
    <2> QED BY <1>0, <2>1, <2>2 DEF Store
  <1>5. CASE resume
    <2>1. /\ nodes' = fetchsc(db.rows) /\ nextid' = lastid(db.rows) /\ UNCHANGED <<db, nodenotify, sctable>>
          /\ nodenotify = {}
      BY <1>5 DEF resume, fetchnodesCached, Sess
    <2>2. Nodes(fetchsc(db.rows), {}) /\ Ids(fetchsc(db.rows), db.rows, lastid(db.rows))
      BY <1>0, FetchIs
    <2>3. DOMAIN db.rows \subseteq 1 .. lastid(db.rows)
      BY <1>0, LastIs
    <2> QED BY <1>0, <1>1, <2>1, <2>2, <2>3 DEF Stored
  <1>6. CASE fetchnodes \/ fetchnodesAgain \/ tooMany
    <2>1. reload /\ session = "in"
      BY <1>6 DEF fetchnodes, fetchnodesAgain, tooMany, received, Poll, Continues
    <2>2. /\ nodes' = Empty /\ nodenotify' = {} /\ ~loaded'
          /\ nextid' = IF sctable THEN nextid ELSE 0
          /\ db'.rows = db.rows \/ db'.rows = NoRows
          /\ \E c : c.op = "f" /\ cmds' = Append(cmds, c)
      <3>1. Command("f", None, None, NoSn).op = "f"
        BY DEF Command
      <3> QED BY <2>1, <3>1 DEF reload, reopen, purge, Db
    <2>3. nextid' \in Nat
      BY <1>0, <2>2 DEF Ids
    <2>4. Nodes(Empty, {}) /\ Ids(Empty, db'.rows, nextid') /\ Rows(db'.rows)
      BY <1>0, <2>2, <2>3, EmptyStore
    <2>5. \/ DOMAIN db'.rows \subseteq 1 .. nextid'
          \/ \A i \in DOMAIN cmds' : cmds'[i].op = "f"
      <3>1. CASE db'.rows = NoRows
        BY <3>1, NoEntryIs DEF NoEntry
      <3>2. CASE ~sctable
        BY <2>1, <2>2, <3>2, NoEntryIs DEF NoEntry, Sess
      <3>3. CASE sctable /\ db'.rows = db.rows
        <4>1. CASE DOMAIN db.rows \subseteq 1 .. nextid
          BY <2>2, <3>3, <4>1
        <4>2. CASE \A i \in DOMAIN cmds : cmds[i].op = "f"
          BY <2>2, <4>2, Lists
        <4> QED BY <4>1, <4>2 DEF Store
      <3> QED BY <2>2, <3>1, <3>2, <3>3
    <2> QED BY <2>2, <2>4, <2>5 DEF Store
  <1>7. CASE \E crash \in BOOLEAN : stop(crash)
    <2>1. /\ nodes' = Empty /\ nodenotify' = {} /\ ~loaded' /\ cmds' = << >> /\ db' = db /\ nextid' = 0
      BY <1>7 DEF stop, purge
    <2>2. Nodes(Empty, {}) /\ Ids(Empty, db.rows, 0)
      BY EmptyStore
    <2> QED BY <1>0, <2>1, <2>2 DEF Store
  <1>8. CASE fetchnodesResult
    <2> DEFINE n == Head(cmds).at
               t == tree[n + 1]
               v == View(nodes, nodenotify)
               c == readnodes(v, t, FALSE)
    <2>1. initsc(c.nodes, n) /\ UNCHANGED nodenotify
      BY <1>8 DEF fetchnodesResult
    <2>2. n \in 0 .. now
      BY <1>8, Lists DEF fetchnodesResult, Cmds
    <2>3. DOMAIN t \subseteq Handle
      BY <2>2, HistoryIs DEF History, Tree
    <2>4. v.nodes = nodes /\ v.notify = nodenotify
      BY ViewIs
    <2> HIDE DEF v, t
    <2>5. Reads(v, t, FALSE, c)
      BY <1>0, <2>4, ReadIs
    <2> HIDE DEF c
    <2>6. Nodes(c.nodes, c.notify) /\ SameIds(nodes, c.nodes) /\ c.notify = nodenotify
      <3>1. c.notify = nodenotify
        BY <2>4, <2>5 DEF Reads
      <3> QED BY <1>0, <2>3, <2>4, <2>5, <3>1, ReadStore
    <2>7. sctable => Ids(c.nodes, NoRows, nextid)
      <3>1. sctable => Ids(nodes, NoRows, nextid)
        BY <1>0, NoEntryIs DEF Ids, NoEntry
      <3>2. 0 \notin DOMAIN NoRows
        BY NoEntryIs DEF NoEntry
      <3> QED BY <2>6, <3>1, <3>2, IdsKept
    <2>8. ~sctable => db.rows = NoRows
      BY <1>8 DEF Sess, fetchnodesResult
    <2> QED BY <1>1, <2>1, <2>6, <2>7, <2>8, InitStore
  <1>9. CASE putnodesResult
    <2> DEFINE q == Head(cmds)
               s == One(q.h, SNode(q.p, q.at, TRUE))
               v == View(nodes, nodenotify)
               c == readnodes(v, s, TRUE)
    <2>1. notifypurge(c, scsn)
      BY <1>9 DEF putnodesResult
    <2>2. DOMAIN db.rows \subseteq 1 .. nextid /\ q.h \in Handle
      BY <1>0, <1>9, Lists DEF putnodesResult, Cmds
    <2>3. DOMAIN s = {q.h}
      BY DEF One
    <2>4. v.nodes = nodes /\ v.notify = nodenotify
      BY ViewIs
    <2> HIDE DEF v, s
    <2>5. Reads(v, s, TRUE, c)
      BY <1>0, <2>4, ReadIs
    <2> HIDE DEF c
    <2>6. Nodes(c.nodes, c.notify) /\ SameIds(nodes, c.nodes)
      BY <1>0, <2>2, <2>3, <2>4, <2>5, ReadStore
    <2>7. 0 \notin DOMAIN db.rows
      BY <2>2
    <2>8. Stored(c.nodes, c.notify, db.rows, nextid, sctable)
      BY <1>0, <2>2, <2>6, <2>7, IdsKept DEF Stored
    <2> QED BY <1>1, <2>1, <2>8, PurgeStore
  <1>10. CASE execNotifypurge
    <2>1. notifypurge(View(nodes, nodenotify), scsn) /\ loaded
      BY <1>10 DEF execNotifypurge, Sess
    <2>2. Stored(View(nodes, nodenotify).nodes, View(nodes, nodenotify).notify, db.rows, nextid, sctable)
      BY <1>0, <2>1, ViewIs DEF Stored
    <2> QED BY <1>1, <2>1, <2>2, PurgeStore
  <1>11. CASE \E h \in Handle : unlink(h)
    <2>1. PICK h : /\ nodes' = deltree(View(nodes, nodenotify), h).nodes
                   /\ nodenotify' = deltree(View(nodes, nodenotify), h).notify
      BY <1>11 DEF unlink
    <2>2. UNCHANGED <<db, nextid, sctable>> /\ loaded
      BY <1>11 DEF unlink, command, dbVars
    <2>3. Deletes(View(nodes, nodenotify), h, deltree(View(nodes, nodenotify), h))
      BY <1>0, ViewIs, DeltreeIs
    <2>4. Nodes(nodes', nodenotify') /\ SameIds(nodes, nodes')
      BY <1>0, <2>1, <2>3, ViewIs, DeleteStore
    <2> QED BY <1>2, <2>2, <2>4
  <1>12. CASE \E h \in Handle, p \in Handle \union {Root} : rename(h, p)
    <2>1. PICK h \in DOMAIN nodes, p \in Handle \union {Root} :
              nodes' = setparent(nodes, h, p) /\ nodenotify' = nodenotify \union {h}
      BY <1>12, Zenon DEF rename, live
    <2>2. UNCHANGED <<db, nextid, sctable>> /\ loaded
      BY <1>12 DEF rename, command, dbVars
    <2>3. /\ DOMAIN nodes' = DOMAIN nodes
          /\ \A x \in DOMAIN nodes : DOMAIN nodes'[x] = Fields /\ nodes'[x].dbid = nodes[x].dbid
      BY <1>0, <2>1 DEF setparent, Nodes, Fields
    <2>4. Nodes(nodes', nodenotify') /\ SameIds(nodes, nodes')
      BY <1>0, <2>1, <2>3 DEF Nodes, SameIds
    <2> QED BY <1>2, <2>2, <2>4
  <1>13. CASE scResponse
    <2>1. PICK q \in pendingsc :
             /\ nodes' = procsc(View(nodes, nodenotify), q.sn, q.upto).nodes
             /\ nodenotify' = procsc(View(nodes, nodenotify), q.sn, q.upto).notify
      BY <1>13 DEF scResponse
    <2>2. UNCHANGED <<db, nextid, sctable>> /\ loaded /\ q.sn \in 0 .. now /\ q.upto \in q.sn .. now
      BY <1>13, HistoryIs DEF scResponse, dbVars, Numbers, Poll, Continues
    <2> DEFINE v == View(nodes, nodenotify)
               e == procsc(v, q.sn, q.upto)
    <2>3. Pure({}) /\ Follows({}, v, tree[q.sn + 1], Ever(q.sn)) /\ sessionid # Others
      BY <1>0, ViewIs DEF Pure, Follows, Agree, Sess, Others
    <2>4. Step({}, v, tree[q.sn + 1], Ever(q.sn), e, tree[q.upto + 1], Ever(q.upto), NoRows)
      <3> HIDE DEF v
      <3> QED BY <2>2, <2>3, ResponseStep
    <2>5. v.nodes = nodes
      BY ViewIs
    <2> HIDE DEF v, e
    <2>6. Nodes(e.nodes, e.notify) /\ Keeps(v, e)
      BY <2>4 DEF Step, Follows
    <2>7. SameIds(nodes, e.nodes)
      BY <2>5, <2>6 DEF Keeps, SameIds
    <2> QED BY <1>2, <2>1, <2>2, <2>6, <2>7 DEF e, v
  <1>14. CASE \/ (\E continued \in BOOLEAN : loginResult(continued)) \/ scPost \/ scNotified \/ scFailure
              \/ elapse \/ syncsAreUp \/ otherClient \/ serverAnswers \/ UNCHANGED vars
    <2>1. UNCHANGED <<nodes, nodenotify, sctable, nextid, db, loaded, cmds>>
      BY <1>14 DEF loginResult, scPost, scNotified, scFailure, elapse, syncsAreUp, otherClient,
         serverAnswers, vars, clientVars, sessionVars, treeVars, dbVars
    <2> QED BY <1>3, <2>1
  <1>15. CASE otherResult \/ fetchnodesError
    <2>1. UNCHANGED <<nodes, nodenotify, sctable, nextid, db, loaded>> /\ cmds # << >> /\ cmds' = Tail(cmds)
      BY <1>15 DEF otherResult, fetchnodesError, clientVars, sessionVars, treeVars, dbVars
    <2>2. (\A i \in DOMAIN cmds : cmds[i].op = "f") => \A i \in DOMAIN cmds' : cmds'[i].op = "f"
      BY <2>1, Lists
    <2> QED BY <1>3, <2>1, <2>2
  <1>16. CASE serverExecutes
    <2>1. UNCHANGED <<clientVars, dbVars>>
      BY <1>16, Zenon DEF serverExecutes
    <2>2. UNCHANGED <<nodes, nodenotify, sctable, nextid, db, loaded>>
      BY <2>1 DEF clientVars, sessionVars, treeVars, dbVars
    <2>3. sessionid # Others
      BY DEF Sess, Others
    <2>4. (\A i \in DOMAIN cmds : cmds[i].op = "f") => \A i \in DOMAIN cmds' : cmds'[i].op = "f"
      BY <1>16, <2>3, ExecuteStep
    <2> QED BY <1>3, <2>2, <2>4
  <1>17. CASE \E p \in Handle \union {Root} : putnodesNew(p)
    <2>1. UNCHANGED <<nodes, nodenotify, sctable, nextid, db, loaded>> /\ loaded
      BY <1>17 DEF putnodesNew, command, clientVars, sessionVars, treeVars, dbVars
    <2> QED BY <1>3, <2>1
  <1>18. CASE reopened
    <2>1. /\ UNCHANGED <<nodes, nodenotify, sctable, nextid, loaded, cmds>>
          /\ db' = db \/ db'.rows = NoRows
      BY <1>18 DEF reopened, clientVars, sessionVars, treeVars
    <2>2. CASE db' = db
      BY <1>3, <2>1, <2>2
    <2>3. CASE db'.rows = NoRows
      <3>1. DOMAIN db'.rows = {}
        BY <2>3, NoEntryIs DEF NoEntry
      <3>2. Rows(db'.rows)
        BY <2>3, EmptyStore
      <3>3. sctable => Ids(nodes, db'.rows, nextid)
        BY <1>0, <3>1 DEF Ids
      <3> QED BY <1>0, <1>1, <2>1, <3>1, <3>2, <3>3 DEF Stored
    <2> QED BY <2>1, <2>2, <2>3
  <1> QED BY <1>4, <1>5, <1>6, <1>7, <1>8, <1>9, <1>10, <1>11, <1>12, <1>13, <1>14, <1>15, <1>16,
             <1>17, <1>18, Zenon DEF Steady, SteadyEngine, App, Server

\* What holds of own commands, numbers, session and cache.
Core == PollType /\ Poll /\ History /\ Cmds /\ Numbers /\ Sess /\ Store

LEMMA CoreStep ==
    ASSUME Core, [Steady]_vars
    PROVE  Core' /\ Extends
  BY PollStep, HistoryStep, CommandsStep, AllNumbers, AllSess, AllStore DEF Core

-----------------------------------------------------------------------------
(* Nodes that only others work on *)

\* r is what the cache should hold of F after update n
Recorded(F, r, n) == Exact(F, r, tree[n + 1]) /\ Known(F, r, Ever(n))

\* While the tree is fetched, there is none of F.
Window(F) == fetchingnodes => F \intersect DOMAIN nodes = {}

\* The tree c follows the server's at scsn, and what is not in the cache yet is
\* to be written.
TracksIn(F, c) ==
    scsn >= 0 /\ ~adrift =>
        /\ Follows(F, c, tree[scsn + 1], Ever(scsn))
        /\ sctable /\ db.sn # NoSn =>
              Held(F, c, tree[scsn + 1], db.rows) /\ Known(F, db.rows, Ever(scsn))

Tracks(F) == TracksIn(F, View(nodes, nodenotify))

\* The cache is the server's tree at its number, and at the one the client
\* takes for it.
Cached(F) ==
    ~adrift =>
        /\ db.sn >= 0 => Recorded(F, db.rows, db.sn)
        /\ session = "in" /\ sctable /\ cachedscsn >= 0 /\ db.sn # NoSn =>
              Recorded(F, db.rows, cachedscsn)

Good(F) == Window(F) /\ Tracks(F) /\ Cached(F)

(* What is recorded stays so. *)
LEMMA RecordedStays ==
    ASSUME History, History', Extends, NEW F, NEW r, NEW n \in 0 .. now, Recorded(F, r, n)
    PROVE  Recorded(F, r, n)'
  BY EverSame DEF Recorded

(* The three parts after a step, for the values that the variables have then. *)
LEMMA TracksNext ==
    ASSUME NEW F, NEW n, NEW c, NEW r, NEW t, NEW K,
           scsn' = n, View(nodes', nodenotify') = c, db'.rows = r, tree'[n + 1] = t, Ever(n)' = K,
           n >= 0 /\ ~adrift' => Follows(F, c, t, K),
           n >= 0 /\ ~adrift' /\ sctable' /\ db'.sn # NoSn => Held(F, c, t, r) /\ Known(F, r, K)
    PROVE  Tracks(F)'
  <1>1. Ever(scsn)' = K
    BY DEF Ever
  <1> QED BY <1>1 DEF Tracks, TracksIn

LEMMA CachedNext ==
    ASSUME NEW F, NEW m, NEW n, NEW r, db'.sn = m, cachedscsn' = n, db'.rows = r,
           ~adrift' /\ m >= 0 => Recorded(F, r, m)',
           ~adrift' /\ session' = "in" /\ sctable' /\ n >= 0 /\ m # NoSn => Recorded(F, r, n)'
    PROVE  Cached(F)'
  <1>1. ASSUME Recorded(F, r, m)' PROVE Recorded(F, db.rows, db.sn)'
    BY <1>1 DEF Recorded, Ever
  <1>2. ASSUME Recorded(F, r, n)' PROVE Recorded(F, db.rows, cachedscsn)'
    BY <1>2 DEF Recorded, Ever
  <1> QED BY <1>1, <1>2 DEF Cached

(* ... and before it. *)
LEMMA TracksNow ==
    ASSUME NEW F, NEW c, TracksIn(F, c), scsn >= 0, ~adrift, NEW n, scsn = n
    PROVE  /\ Follows(F, c, tree[n + 1], Ever(n))
           /\ sctable /\ db.sn # NoSn => Held(F, c, tree[n + 1], db.rows) /\ Known(F, db.rows, Ever(n))
  BY DEF TracksIn

(* Steps that leave nodes and cache alone. *)
LEMMA GoodIdle ==
    ASSUME Core, Core', Extends, NEW F, Good(F),
           UNCHANGED <<nodes, nodenotify, sctable, db, adrift>>,
           scsn' \in {scsn, NoSn}, fetchingnodes' => fetchingnodes,
           UNCHANGED <<session, cachedscsn>> \/ session' # "in" \/ cachedscsn' \in {db.sn, NoSn}
    PROVE  Good(F)'
  <1>1. History /\ History' /\ now \in Nat /\ Numbers
    BY HistoryIs DEF Core
  <1>2. Window(F)'
    BY DEF Window, Good
  <1>3. Tracks(F)'
    <2>1. PICK n, c, r, t, K : scsn' = n /\ View(nodes, nodenotify) = c /\ db.rows = r
                               /\ tree'[n + 1] = t /\ Ever(n)' = K
      OBVIOUS
    <2>2. ASSUME n >= 0, ~adrift'
          PROVE  Follows(F, c, t, K) /\ (sctable /\ db.sn # NoSn => Held(F, c, t, r) /\ Known(F, r, K))
      <3>1. scsn = n /\ n \in 0 .. now
        BY <1>1, <2>1, <2>2 DEF NoSn, Numbers
      <3>2. tree[n + 1] = t /\ Ever(n) = K
        BY <1>1, <2>1, <3>1, EverSame
      <3>3. TracksIn(F, c)
        BY <2>1 DEF Good, Tracks
      <3> QED BY <2>1, <2>2, <3>1, <3>2, <3>3, TracksNow
    <2> QED BY <2>1, <2>2, TracksNext
  <1>4. Cached(F)'
    <2>1. PICK m, n, r : db.sn = m /\ cachedscsn' = n /\ db.rows = r
      OBVIOUS
    <2>2. ASSUME ~adrift', m >= 0
          PROVE  Recorded(F, r, m)'
      <3>1. m \in 0 .. now
        BY <1>1, <2>1, <2>2 DEF NoSn, BadSn, Numbers
      <3>2. Recorded(F, r, m)
        BY <2>1, <2>2 DEF Good, Cached
      <3> QED BY <1>1, <3>1, <3>2, RecordedStays
    <2>3. ASSUME ~adrift', session' = "in", sctable', n >= 0, m # NoSn
          PROVE  Recorded(F, r, n)'
      <3>1. CASE n = m
        BY <2>2, <2>3, <3>1
      <3>2. CASE n # m
        <4>1. cachedscsn = n /\ session = "in"
          BY <2>1, <2>3, <3>2 DEF NoSn
        <4>2. n \in 0 .. now
          BY <1>1, <2>3, <4>1 DEF NoSn, BadSn, Numbers
        <4>3. Recorded(F, r, n)
          BY <2>1, <2>3, <4>1 DEF Good, Cached
        <4> QED BY <1>1, <4>2, <4>3, RecordedStays
      <3> QED BY <3>1, <3>2
    <2> QED BY <2>1, <2>2, <2>3, CachedNext
  <1> QED BY <1>2, <1>3, <1>4 DEF Good

(* Steps that leave no tree, and of the cache everything or nothing. *)
LEMMA GoodFresh ==
    ASSUME Core, Core', Extends, NEW F, Good(F),
           nodes' = Empty, scsn' = NoSn, adrift' = adrift, db' = db \/ db'.sn = NoSn,
           session' # "in" \/ (session = "in" /\ cachedscsn' = cachedscsn)
    PROVE  Good(F)'
  <1>1. History /\ History' /\ now \in Nat /\ Numbers /\ Sess
    BY HistoryIs DEF Core
  <1>2. Window(F)'
    BY NoEntryIs DEF Window, NoEntry
  <1>3. Tracks(F)'
    BY DEF Tracks, TracksIn, NoSn
  <1>4. Cached(F)'
    <2>1. PICK m, n, r : db'.sn = m /\ cachedscsn' = n /\ db'.rows = r
      OBVIOUS
    <2>2. ASSUME ~adrift', m >= 0
          PROVE  Recorded(F, r, m)'
      <3>1. m \in 0 .. now /\ db' = db
        BY <1>1, <2>1, <2>2 DEF NoSn, BadSn, Numbers
      <3>2. Recorded(F, r, m)
        BY <2>1, <2>2, <3>1 DEF Good, Cached
      <3> QED BY <1>1, <3>1, <3>2, RecordedStays
    <2>3. ASSUME ~adrift', session' = "in", sctable', n >= 0, m # NoSn
          PROVE  Recorded(F, r, n)'
      <3>1. cachedscsn = n /\ session = "in" /\ db' = db
        BY <2>1, <2>3
      <3>2. sctable
        BY <1>1, <2>1, <2>3, <3>1 DEF Sess
      <3>3. n \in 0 .. now
        BY <1>1, <2>3, <3>1 DEF NoSn, BadSn, Numbers
      <3>4. Recorded(F, r, n)
        BY <2>1, <2>3, <3>1, <3>2 DEF Good, Cached
      <3> QED BY <1>1, <3>3, <3>4, RecordedStays
    <2> QED BY <2>1, <2>2, <2>3, CachedNext
  <1> QED BY <1>2, <1>3, <1>4 DEF Good

(* fetchnodes() while the tree is on its way: a cache that has been emptied
   holds nothing that could be wrong. *)
LEMMA GoodReopened ==
    ASSUME Core, Core', Extends, NEW F, Good(F), reopened
    PROVE  Good(F)'
  <1>1. UNCHANGED <<nodes, nodenotify, sctable, adrift, scsn, fetchingnodes, session, cachedscsn>>
    BY DEF reopened, clientVars, sessionVars, treeVars
  <1>2. CASE db' = db
    BY <1>1, <1>2, GoodIdle
  <1>3. CASE db'.sn = NoSn
    <2>1. History /\ History' /\ now \in Nat /\ Numbers
      BY HistoryIs DEF Core
    <2>2. Window(F)'
      BY <1>1 DEF Window, Good
    <2>3. Cached(F)'
      BY <1>3 DEF Cached, NoSn
    <2>4. PICK n, c, r, t, K : scsn' = n /\ View(nodes, nodenotify) = c /\ db'.rows = r
                               /\ tree'[n + 1] = t /\ Ever(n)' = K
      OBVIOUS
    <2>5. ASSUME n >= 0, ~adrift' PROVE Follows(F, c, t, K)
      <3>1. scsn = n /\ n \in 0 .. now
        BY <1>1, <2>1, <2>4, <2>5 DEF NoSn, Numbers
      <3>2. tree[n + 1] = t /\ Ever(n) = K
        BY <2>1, <2>4, <3>1, EverSame
      <3>3. TracksIn(F, c)
        BY <2>4 DEF Good, Tracks
      <3> QED BY <1>1, <2>5, <3>1, <3>2, <3>3, TracksNow
    <2>6. Tracks(F)'
      BY <1>1, <1>3, <2>4, <2>5, TracksNext
    <2> QED BY <2>2, <2>3, <2>6 DEF Good
  <1> QED BY <1>2, <1>3 DEF reopened

(* fetchnodes() from the cache: the tree is where the cache was. *)
LEMMA GoodCached ==
    ASSUME Core, Core', Extends, NEW F, Pure(F), Good(F), resume
    PROVE  Good(F)'
  <1>1. History /\ History' /\ now \in Nat /\ Numbers /\ Sess /\ Rows(db.rows)
    BY HistoryIs DEF Core, Store
  <1>2. PICK n, r : cachedscsn = n /\ db.rows = r
    OBVIOUS
  <1>3. /\ scsn' = n /\ cachedscsn' = n /\ nodes' = fetchsc(r) /\ nodenotify' = {} /\ db' = db
        /\ session = "in" /\ session' = "in" /\ sctable /\ ~fetchingnodes' /\ n # NoSn
    BY <1>1, <1>2 DEF resume, fetchnodesCached, Sess
  <1>4. n \in 0 .. now
    BY <1>1, <1>2, <1>3 DEF Numbers, Sess
  <1>5. adrift \/ db.sn = NoSn => adrift'
    BY Zenon DEF resume, fetchnodesCached
  <1>6. ~adrift' => Recorded(F, r, n) /\ Recorded(F, r, n)'
    <2>1. ASSUME ~adrift' PROVE Recorded(F, r, n)
      BY <1>2, <1>3, <1>4, <1>5, <2>1 DEF Good, Cached
    <2> QED BY <1>1, <1>4, <2>1, RecordedStays
  <1>7. Window(F)'
    BY <1>3 DEF Window
  <1>8. Tracks(F)'
    <2>1. PICK c, t, K : View(fetchsc(r), {}) = c /\ tree[n + 1] = t /\ Ever(n) = K
      OBVIOUS
    <2>2. tree'[n + 1] = t /\ Ever(n)' = K
      BY <1>1, <1>4, <2>1, EverSame
    <2>3. ASSUME ~adrift'
          PROVE  Follows(F, c, t, K) /\ Held(F, c, t, r) /\ Known(F, r, K)
      <3>1. Exact(F, r, t) /\ Known(F, r, K)
        BY <1>6, <2>1, <2>3 DEF Recorded
      <3>2. Apart(F, t)
        BY <1>1, <1>4, <2>1, PureApart
      <3>3. Rows(r)
        BY <1>1, <1>2
      <3>4. /\ Nodes(fetchsc(r), {}) /\ DOMAIN fetchsc(r) = {r[i].h : i \in DOMAIN r}
            /\ Agree(F, fetchsc(r), t) /\ Held(F, View(fetchsc(r), {}), t, r)
        BY <3>1, <3>2, <3>3, FetchIs
      <3>5. F \intersect DOMAIN fetchsc(r) \subseteq K
        BY <3>1, <3>4 DEF Known
      <3>6. c.nodes = fetchsc(r) /\ c.notify = {}
        BY <2>1, ViewIs
      <3> QED BY <2>1, <3>1, <3>4, <3>5, <3>6 DEF Follows
    <2> QED BY <1>2, <1>3, <2>1, <2>2, <2>3, TracksNext
  <1>9. Cached(F)'
    <2>1. PICK m : db.sn = m
      OBVIOUS
    <2>2. ASSUME ~adrift', m >= 0
          PROVE  Recorded(F, r, m)'
      <3>1. m \in 0 .. now
        BY <1>1, <2>1, <2>2 DEF NoSn, BadSn, Numbers
      <3>2. Recorded(F, r, m)
        BY <1>2, <1>5, <2>1, <2>2 DEF Good, Cached
      <3> QED BY <1>1, <3>1, <3>2, RecordedStays
    <2> QED BY <1>2, <1>3, <1>6, <2>1, <2>2, CachedNext
  <1> QED BY <1>7, <1>8, <1>9 DEF Good

(* The session: Good in the steps that begin, resume or end it, and in those
   that ask for the tree. *)
LEMMA GoodSession ==
    ASSUME Core, Core', Extends, NEW F, Pure(F), Good(F),
           \/ login \/ (\E continued \in BOOLEAN : loginResult(continued)) \/ resume
           \/ fetchnodes \/ fetchnodesAgain \/ tooMany \/ (\E crash \in BOOLEAN : stop(crash))
    PROVE  Good(F)'
  <1>0. Sess /\ Poll
    BY DEF Core
  <1>1. CASE login
    <2>1. /\ nodes' = Empty /\ scsn' = NoSn /\ db' = db /\ session' = "login" /\ adrift' = adrift
      BY <1>0, <1>1 DEF login, Sess, treeVars
    <2> QED BY <2>1, GoodFresh
  <1>2. CASE \E continued \in BOOLEAN : loginResult(continued)
    <2>1. UNCHANGED <<nodes, nodenotify, sctable, db, adrift, scsn, fetchingnodes>>
      BY <1>2 DEF loginResult, treeVars, dbVars
    <2>2. cachedscsn' \in {db.sn, NoSn}
      BY <1>0, <1>2 DEF loginResult, Sess
    <2> QED BY <2>1, <2>2, GoodIdle
  <1>3. CASE resume
    BY <1>3, GoodCached
  <1>4. CASE fetchnodes \/ fetchnodesAgain \/ tooMany
    <2>1. reload /\ session = "in" /\ UNCHANGED cachedscsn
      BY <1>0, <1>4 DEF fetchnodes, fetchnodesAgain, tooMany, received, Poll, Continues
    <2>2. nodes' = Empty /\ scsn' = NoSn /\ adrift' = adrift /\ (db' = db \/ db'.sn = NoSn)
      BY <2>1 DEF reload, reopen, purge, Db
    <2> QED BY <2>1, <2>2, GoodFresh
  <1>5. CASE \E crash \in BOOLEAN : stop(crash)
    <2>1. nodes' = Empty /\ scsn' = NoSn /\ db' = db /\ session' = "down" /\ adrift' = adrift
      BY <1>5 DEF stop, purge
    <2> QED BY <2>1, GoodFresh
  <1> QED BY <1>1, <1>2, <1>3, <1>4, <1>5

(* The tree after notifypurge(), if nothing is written. *)
LEMMA DropTracks ==
    ASSUME NEW F, NEW c, NEW t, NEW K, NEW r, Apart(F, t), Follows(F, c, t, K)
    PROVE  LET e == View(Dropped(c.nodes, c.notify), {})
           IN  Follows(F, e, t, K) /\ (c.notify = {} /\ Held(F, c, t, r) => Held(F, e, t, r))
  <1>1. PICK e, W : e = View(Dropped(c.nodes, W), {}) /\ W = c.notify
    OBVIOUS
  <1>2. e.nodes = Dropped(c.nodes, W) /\ e.notify = {}
    BY <1>1, ViewIs
  <1>3. /\ Nodes(e.nodes, {}) /\ DOMAIN e.nodes \subseteq DOMAIN c.nodes
    BY <1>1, <1>2, DropIs DEF Follows
  <1>4. Agree(F, e.nodes, t) /\ \A h \in F \intersect DOMAIN t : e.nodes[h] = c.nodes[h]
    <2>1. Nodes(c.nodes, W) /\ Agree(F, c.nodes, t)
      BY <1>1 DEF Follows
    <2> QED BY <1>2, <2>1, DropKeeps
  <1>5. Follows(F, e, t, K)
    BY <1>2, <1>3, <1>4 DEF Follows
  <1>6. ASSUME W = {}, Held(F, c, t, r) PROVE Held(F, e, t, r)
    BY <1>1, <1>2, <1>4, <1>6 DEF Held
  <1> QED BY <1>1, <1>5, <1>6

(* ... and if what has changed is written. *)
LEMMA WriteTracks ==
    ASSUME NEW F, NEW c, NEW t, NEW K, NEW o, NEW x, Apart(F, t), Follows(F, c, t, K),
           o.nodes = c.nodes, Written(o, x, c.notify)
    PROVE  LET e == View(Dropped(x.nodes, c.notify), {})
           IN  /\ Follows(F, e, t, K)
               /\ Held(F, c, t, o.rows) /\ Known(F, o.rows, K) /\ 0 \notin DOMAIN o.rows =>
                     Held(F, e, t, x.rows) /\ Known(F, x.rows, K) /\ Exact(F, x.rows, t)
  <1>1. PICK e, W : e = View(Dropped(x.nodes, W), {}) /\ W = c.notify
    OBVIOUS
  <1>2. e.nodes = Dropped(x.nodes, W) /\ e.notify = {}
    BY <1>1, ViewIs
  <1>3. /\ DOMAIN x.nodes = DOMAIN c.nodes /\ W \subseteq DOMAIN c.nodes
        /\ \A h \in DOMAIN c.nodes : Renumbered(c.nodes[h], x.nodes[h])
        /\ DOMAIN c.nodes \subseteq Handle
    BY <1>1 DEF Written, Follows, Nodes
  <1>4. Nodes(x.nodes, W)
    BY <1>3 DEF Nodes, Renumbered
  <1>5. Agree(F, c.nodes, t) /\ F \intersect DOMAIN c.nodes \subseteq K
    BY DEF Follows
  <1>6. Agree(F, x.nodes, t)
    BY <1>3, <1>5 DEF Agree, Renumbered, Same
  <1>7. Nodes(e.nodes, {}) /\ DOMAIN e.nodes \subseteq DOMAIN x.nodes
    BY <1>2, <1>4, DropIs
  <1>8. Agree(F, e.nodes, t) /\ \A h \in F \intersect DOMAIN t : e.nodes[h] = x.nodes[h]
    BY <1>2, <1>4, <1>6, DropKeeps
  <1>9. Follows(F, e, t, K)
    BY <1>2, <1>3, <1>5, <1>7, <1>8 DEF Follows
  <1>10. ASSUME Held(F, c, t, o.rows), Known(F, o.rows, K), 0 \notin DOMAIN o.rows
         PROVE  Held(F, e, t, x.rows) /\ Known(F, x.rows, K) /\ Exact(F, x.rows, t)
    <2>1. Known(F, x.rows, K)
      BY <1>1, <1>3, <1>5, <1>10, WriteKnown
    <2>2. Held(F, View(o.nodes, W), t, o.rows)
      BY <1>1, <1>10, ViewIs DEF Held
    <2>3. Exact(F, x.rows, t) /\ \A h \in F \intersect DOMAIN t : OwnRecord(x, h, t[h])
      <3>1. W \subseteq DOMAIN o.nodes /\ Written(o, x, W) /\ Agree(F, o.nodes, t)
        BY <1>1, <1>3, <1>5
      <3>2. 0 \notin DOMAIN o.rows
        BY <1>10
      <3> QED BY <2>2, <3>1, <3>2, WriteExact
    <2>4. Held(F, e, t, x.rows)
      BY <1>2, <1>8, <2>3 DEF Held, OwnRecord
    <2> QED BY <2>1, <2>3, <2>4
  <1> QED BY <1>1, <1>9, <1>10

(* notifypurge(), for a tree c that is as it should be. *)
LEMMA GoodPurge ==
    ASSUME Core, Core', Extends, NEW F, Pure(F), NEW c, notifypurge(c, scsn), Cached(F), TracksIn(F, c),
           fetchingnodes => F \intersect DOMAIN c.nodes = {},
           Stored(c.nodes, c.notify, db.rows, nextid, sctable),
           session = "in", UNCHANGED <<session, scsn, fetchingnodes>>
    PROVE  Good(F)'
  <1>1. History /\ History' /\ now \in Nat /\ Numbers /\ Sess /\ 0 \notin DOMAIN db.rows
    BY HistoryIs DEF Core, Stored
  <1>2. /\ nodenotify' = {} /\ (adrift => adrift')
        /\ \/ /\ nodes' = Dropped(c.nodes, c.notify)
              /\ UNCHANGED <<cachedscsn, sctable, nextid, db>>
              /\ \/ c.notify = {} /\ scsn \in {NoSn, cachedscsn}
                 \/ ~sctable \/ db.sn = NoSn
           \/ /\ sctable /\ db.sn # NoSn
              /\ scsn = NoSn /\ ~fetchingnodes => adrift'
              /\ \E x : /\ Written(Before(c), x, c.notify)
                        /\ nodes' = Dropped(x.nodes, c.notify)
                        /\ Committed(scsn, x) \/ Aborted
    BY PurgeIs DEF Stored
  <1>3. PICK n, t, K : n = scsn /\ t = tree[n + 1] /\ K = Ever(n)
    OBVIOUS
  <1>4. n >= 0 => n \in 0 .. now /\ tree'[n + 1] = t /\ Ever(n)' = K /\ Apart(F, t)
    <2>1. n >= 0 => n \in 0 .. now
      BY <1>1, <1>3 DEF Numbers, NoSn
    <2> QED BY <1>1, <1>3, <2>1, EverSame, PureApart
  <1>5. n >= 0 /\ ~adrift' => /\ Follows(F, c, t, K)
                              /\ sctable /\ db.sn # NoSn => Held(F, c, t, db.rows) /\ Known(F, db.rows, K)
    BY <1>2, <1>3, TracksNow
  <1>6. CASE nodes' = Dropped(c.nodes, c.notify) /\ UNCHANGED <<cachedscsn, sctable, nextid, db>>
             /\ (c.notify = {} \/ ~sctable \/ db.sn = NoSn)
    <2>1. Nodes(c.nodes, c.notify)
      BY DEF Stored
    <2>2. Window(F)'
      <3>1. DOMAIN Dropped(c.nodes, c.notify) \subseteq DOMAIN c.nodes
        BY <2>1, DropIs
      <3> QED BY <1>6, <3>1 DEF Window
    <2>3. Tracks(F)'
      <3>1. PICK e, r : e = View(Dropped(c.nodes, c.notify), {}) /\ r = db.rows
        OBVIOUS
      <3>2. ASSUME n >= 0, ~adrift'
            PROVE  /\ Follows(F, e, t, K)
                   /\ sctable /\ db.sn # NoSn => Held(F, e, t, r) /\ Known(F, r, K)
        <4>1. Follows(F, e, t, K) /\ (c.notify = {} /\ Held(F, c, t, r) => Held(F, e, t, r))
          BY <1>4, <1>5, <3>1, <3>2, DropTracks
        <4> QED BY <1>5, <1>6, <3>1, <3>2, <4>1
      <3>3. PICK s, L : s = tree'[n + 1] /\ L = Ever(n)'
        OBVIOUS
      <3>4. n >= 0 => s = t /\ L = K
        BY <1>4, <3>3
      <3> QED BY <1>2, <1>3, <1>6, <3>1, <3>2, <3>3, <3>4, TracksNext
    <2>4. Cached(F)'
      <3>1. PICK m, k, r : db.sn = m /\ cachedscsn = k /\ db.rows = r
        OBVIOUS
      <3>2. ASSUME ~adrift', m >= 0 PROVE Recorded(F, r, m)'
        <4>1. m \in 0 .. now
          BY <1>1, <3>1, <3>2 DEF NoSn, BadSn, Numbers
        <4>2. Recorded(F, r, m)
          BY <1>2, <3>1, <3>2 DEF Cached
        <4> QED BY <1>1, <4>1, <4>2, RecordedStays
      <3>3. ASSUME ~adrift', sctable', k >= 0, m # NoSn PROVE Recorded(F, r, k)'
        <4>1. k \in 0 .. now
          BY <1>1, <3>1, <3>3 DEF NoSn, BadSn, Numbers
        <4>2. Recorded(F, r, k)
          BY <1>2, <1>6, <3>1, <3>3 DEF Cached
        <4> QED BY <1>1, <4>1, <4>2, RecordedStays
      <3> QED BY <1>6, <3>1, <3>2, <3>3, CachedNext
    <2> QED BY <2>2, <2>3, <2>4 DEF Good
  <1>7. ASSUME NEW x, Written(Before(c), x, c.notify), nodes' = Dropped(x.nodes, c.notify),
               Committed(scsn, x) \/ Aborted, sctable, db.sn # NoSn, scsn = NoSn /\ ~fetchingnodes => adrift'
        PROVE  Good(F)'
    <2>0. Before(c).rows = db.rows /\ Before(c).nodes = c.nodes /\ Before(c).id = nextid
      BY BeforeIs
    <2> DEFINE o == Before(c)
    <2> HIDE DEF o
    <2>1. /\ o.rows = db.rows /\ o.nodes = c.nodes /\ Written(o, x, c.notify) /\ Ids(o.nodes, o.rows, o.id)
          /\ 0 \notin DOMAIN o.rows /\ Nodes(c.nodes, c.notify) /\ c.notify \subseteq DOMAIN o.nodes
      BY <1>1, <1>7, <2>0 DEF o, Stored, Nodes
    <2>2. Window(F)'
      <3>1. DOMAIN x.nodes = DOMAIN c.nodes /\ Nodes(x.nodes, c.notify)
        BY <2>1 DEF Written, Nodes, Renumbered
      <3>2. DOMAIN Dropped(x.nodes, c.notify) \subseteq DOMAIN x.nodes
        BY <3>1, DropIs
      <3> QED BY <1>7, <3>1, <3>2 DEF Window
    <2>3. PICK e : e = View(Dropped(x.nodes, c.notify), {})
      OBVIOUS
    <2>4. ASSUME n >= 0, ~adrift'
          PROVE  /\ Follows(F, e, t, K) /\ Held(F, e, t, x.rows) /\ Known(F, x.rows, K)
                 /\ Exact(F, x.rows, t)
      BY <1>4, <1>5, <1>7, <2>1, <2>3, <2>4, WriteTracks
    <2>5. Tracks(F)'
      <3>1. PICK s, L, r : s = tree'[n + 1] /\ L = Ever(n)' /\ r = db'.rows
        OBVIOUS
      <3>2. n >= 0 => s = t /\ L = K
        BY <1>4, <3>1
      <3>3. sctable' /\ db'.sn # NoSn => r = x.rows
        BY <1>7, <3>1 DEF Committed, Aborted
      <3> QED BY <1>2, <1>3, <1>7, <2>3, <2>4, <3>1, <3>2, <3>3, TracksNext
    <2>6. Cached(F)'
      <3>1. CASE Aborted
        BY <3>1 DEF Aborted, Cached, NoSn
      <3>2. CASE Committed(scsn, x) /\ n >= 0
        <4>1. db'.sn = n /\ cachedscsn' = n /\ db'.rows = x.rows
          BY <1>3, <3>2 DEF Committed, tscsn, NoSn
        <4>2. ~adrift' => Recorded(F, x.rows, n)'
          BY <1>4, <2>4, <3>2 DEF Recorded
        <4> QED BY <4>1, <4>2, CachedNext
      <3>3. CASE Committed(scsn, x) /\ ~(n >= 0)
        <4>1. scsn = NoSn
          BY <1>1, <1>3, <3>3 DEF Numbers
        <4>2. PICK k, m : k = cachedscsn /\ m = db'.sn
          OBVIOUS
        <4>3. cachedscsn' = k /\ db'.rows = x.rows /\ m \in {k, BadSn}
          BY <3>3, <4>1, <4>2 DEF Committed, tscsn
        <4>4. ASSUME ~adrift', k >= 0 PROVE Recorded(F, x.rows, k)'
          <5>1. fetchingnodes /\ ~adrift
            BY <1>2, <1>7, <4>1, <4>4
          <5>2. Recorded(F, db.rows, k) /\ k \in 0 .. now
            BY <1>1, <1>7, <4>2, <4>4, <5>1 DEF Cached, Numbers, NoSn, BadSn
          <5>3. F \intersect c.notify = {}
            BY <2>1, <5>1
          <5>4. \A u : Exact(F, o.rows, u) => Exact(F, x.rows, u)
            BY <2>1, <5>3, WriteApart
          <5>5. \A M : Known(F, o.rows, M) => Known(F, x.rows, M)
            BY <2>1, <5>3, WriteKnown
          <5>6. Recorded(F, x.rows, k)
            BY <2>1, <5>2, <5>4, <5>5 DEF Recorded
          <5> QED BY <1>1, <5>2, <5>6, RecordedStays
        <4>5. ~adrift' /\ m >= 0 => Recorded(F, x.rows, m)'
          BY <4>3, <4>4 DEF BadSn
        <4> QED BY <4>2, <4>3, <4>4, <4>5, CachedNext
      <3> QED BY <1>7, <3>1, <3>2, <3>3
    <2> QED BY <2>2, <2>5, <2>6 DEF Good
  <1> QED BY <1>2, <1>6, <1>7

(* Changes of nodes outside F do not concern F. *)
LEMMA OutsideTracks ==
    ASSUME NEW F, NEW c, NEW e, TracksIn(F, c), Nodes(e.nodes, e.notify),
           F \intersect DOMAIN e.nodes \subseteq DOMAIN c.nodes,
           \A h \in F \intersect DOMAIN c.nodes :
              /\ h \in DOMAIN e.nodes /\ e.nodes[h] = c.nodes[h]
              /\ h \in c.notify => h \in e.notify
    PROVE  TracksIn(F, e)
  <1> SUFFICES ASSUME NEW t, NEW K, Follows(F, c, t, K)
               PROVE  /\ Follows(F, e, t, K)
                      /\ \A r : Held(F, c, t, r) => Held(F, e, t, r)
    BY DEF TracksIn
  <1>1. Agree(F, e.nodes, t) /\ F \intersect DOMAIN e.nodes \subseteq K
    BY DEF Follows, Agree
  <1>2. \A h \in F \intersect DOMAIN t : h \in DOMAIN c.nodes
    BY DEF Follows, Agree
  <1>3. ASSUME NEW r, Held(F, c, t, r) PROVE Held(F, e, t, r)
    BY <1>2, <1>3 DEF Held
  <1> QED BY <1>1, <1>3 DEF Follows

(* CommandPutNodes::procresult(): the new node is an own one. *)
LEMMA GoodPutNodes ==
    ASSUME Core, Core', Extends, NEW F, Pure(F), Good(F), putnodesResult
    PROVE  Good(F)'
  <1> DEFINE q == Head(cmds)
             s == One(q.h, SNode(q.p, q.at, TRUE))
             v == View(nodes, nodenotify)
             c == readnodes(v, s, TRUE)
  <1>1. /\ notifypurge(c, scsn) /\ session = "in" /\ UNCHANGED <<session, scsn, fetchingnodes>>
    BY DEF putnodesResult, Core, Sess
  <1>2. /\ DOMAIN db.rows \subseteq 1 .. nextid /\ q.h \in mine /\ mine \subseteq Handle
    BY Lists DEF putnodesResult, Core, Cmds, Store
  <1>3. DOMAIN s = {q.h}
    BY DEF One
  <1>4. v.nodes = nodes /\ v.notify = nodenotify
    BY ViewIs
  <1>5. Nodes(nodes, nodenotify) /\ Rows(db.rows) /\ (sctable => Ids(nodes, db.rows, nextid))
    BY DEF Core, Store
  <1>6. TracksIn(F, v) /\ Window(F) /\ Cached(F)
    BY DEF Good, Tracks
  <1> HIDE DEF v, s
  <1>7. Reads(v, s, TRUE, c)
    BY <1>4, <1>5, ReadIs
  <1> HIDE DEF c
  <1>8. Nodes(c.nodes, c.notify) /\ SameIds(nodes, c.nodes)
    BY <1>2, <1>3, <1>4, <1>5, <1>7, ReadStore
  <1>9. 0 \notin DOMAIN db.rows
    BY <1>2
  <1>10. Stored(c.nodes, c.notify, db.rows, nextid, sctable)
    BY <1>2, <1>5, <1>8, <1>9, IdsKept DEF Stored
  <1>11. q.h \notin F
    BY <1>2 DEF Pure, touched
  <1>12. /\ F \intersect DOMAIN c.nodes \subseteq DOMAIN nodes
         /\ \A h \in F \intersect DOMAIN nodes :
              /\ h \in DOMAIN c.nodes /\ c.nodes[h] = nodes[h]
              /\ h \in nodenotify => h \in c.notify
    BY <1>3, <1>4, <1>7, <1>11 DEF Reads
  <1>13. TracksIn(F, c)
    BY <1>4, <1>6, <1>8, <1>12, OutsideTracks
  <1>14. fetchingnodes => F \intersect DOMAIN c.nodes = {}
    BY <1>6, <1>12 DEF Window
  <1> QED BY <1>1, <1>6, <1>10, <1>13, <1>14, GoodPurge

(* notifypurge() from exec() *)
LEMMA GoodExec ==
    ASSUME Core, Core', Extends, NEW F, Pure(F), Good(F), execNotifypurge
    PROVE  Good(F)'
  <1> DEFINE v == View(nodes, nodenotify)
  <1>1. /\ notifypurge(v, scsn) /\ session = "in" /\ loaded
        /\ UNCHANGED <<session, scsn, fetchingnodes>>
    BY DEF execNotifypurge, Core, Sess, sessionVars
  <1>2. v.nodes = nodes /\ v.notify = nodenotify
    BY ViewIs
  <1>3. TracksIn(F, v) /\ Window(F) /\ Cached(F)
    BY DEF Good, Tracks
  <1> HIDE DEF v
  <1>4. Stored(v.nodes, v.notify, db.rows, nextid, sctable)
    BY <1>1, <1>2 DEF Stored, Core, Store
  <1>5. fetchingnodes => F \intersect DOMAIN v.nodes = {}
    BY <1>2, <1>3 DEF Window
  <1> QED BY <1>1, <1>3, <1>4, <1>5, GoodPurge

(* Own commands take effect on own nodes only. *)
LEMMA GoodOwn ==
    ASSUME Core, Core', Extends, NEW F, Pure(F)', Good(F),
           \/ \E h \in Handle : unlink(h)
           \/ \E h \in Handle, p \in Handle \union {Root} : rename(h, p)
    PROVE  Good(F)'
  <1>0. Nodes(nodes, nodenotify) /\ Nodes(nodes', nodenotify') /\ now \in Nat /\ Numbers /\ History /\ History'
    BY HistoryIs DEF Core, Store
  <1>1. UNCHANGED <<session, scsn, cachedscsn, fetchingnodes, sctable, db, adrift, tree>>
    BY DEF unlink, rename, sessionVars, dbVars
  <1>2. /\ DOMAIN nodes' = DOMAIN nodes /\ nodenotify \subseteq nodenotify'
        /\ \A x \in F \intersect DOMAIN nodes : nodes'[x] = nodes[x]
    <2>1. F \intersect mine' = {}
      BY DEF Pure, touched
    <2>2. CASE \E h \in Handle : unlink(h)
      <3>1. PICK h : /\ nodes' = deltree(View(nodes, nodenotify), h).nodes
                     /\ nodenotify' = deltree(View(nodes, nodenotify), h).notify
                     /\ mine' = mine \union Subtree(nodes, h)
        BY <2>2 DEF unlink
      <3>2. Deletes(View(nodes, nodenotify), h, deltree(View(nodes, nodenotify), h))
        BY <1>0, ViewIs, DeltreeIs
      <3> QED BY <2>1, <3>1, <3>2, ViewIs DEF Deletes
    <2>3. CASE \E h \in Handle, p \in Handle \union {Root} : rename(h, p)
      <3>1. PICK h \in DOMAIN nodes, p \in Handle \union {Root} :
               /\ nodes' = setparent(nodes, h, p)
               /\ nodenotify' = nodenotify \union {h}
               /\ mine' = mine \union {h}
        BY <2>3, Zenon DEF rename, live
      <3>2. DOMAIN nodes' = DOMAIN nodes /\ \A x \in DOMAIN nodes : x # h => nodes'[x] = nodes[x]
        BY <3>1 DEF setparent
      <3> QED BY <2>1, <3>1, <3>2
    <2> QED BY <2>2, <2>3
  <1>3. PICK e, n, r, t, K : /\ e = View(nodes', nodenotify') /\ n = scsn /\ r = db.rows
                             /\ t = tree[n + 1] /\ K = Ever(n)
    OBVIOUS
  <1>4. TracksIn(F, e)
    <2>1. PICK c : c = View(nodes, nodenotify)
      OBVIOUS
    <2>2. c.nodes = nodes /\ c.notify = nodenotify /\ e.nodes = nodes' /\ e.notify = nodenotify'
      BY <1>3, <2>1, ViewIs
    <2>3. TracksIn(F, c)
      BY <2>1 DEF Good, Tracks
    <2> QED BY <1>0, <1>2, <2>2, <2>3, OutsideTracks
  <1>5. Tracks(F)'
    <2>1. n >= 0 /\ ~adrift => /\ Follows(F, e, t, K)
                               /\ sctable /\ db.sn # NoSn => Held(F, e, t, r) /\ Known(F, r, K)
      BY <1>3, <1>4, TracksNow
    <2>2. tree'[n + 1] = t /\ Ever(n)' = K
      BY <1>1, <1>3 DEF Ever
    <2> QED BY <1>1, <1>3, <2>1, <2>2, TracksNext
  <1>6. Cached(F)'
    <2>1. PICK m, k : db.sn = m /\ cachedscsn = k
      OBVIOUS
    <2>2. \A i : Recorded(F, r, i)' = Recorded(F, r, i)
      BY <1>1 DEF Recorded, Ever
    <2>3. ~adrift /\ m >= 0 => Recorded(F, r, m)
      BY <1>3, <2>1 DEF Good, Cached
    <2>4. ~adrift /\ session = "in" /\ sctable /\ k >= 0 /\ m # NoSn => Recorded(F, r, k)
      BY <1>3, <2>1 DEF Good, Cached
    <2> QED BY <1>1, <1>3, <2>1, <2>2, <2>3, <2>4, CachedNext
  <1>7. Window(F)'
    BY <1>1, <1>2 DEF Good, Window
  <1> QED BY <1>5, <1>6, <1>7 DEF Good

(* procsc(): a response takes the tree to the number it ends with. *)
LEMMA GoodResponse ==
    ASSUME Core, Core', Extends, NEW F, Pure(F), Good(F), scResponse
    PROVE  Good(F)'
  <1>0. Numbers /\ History /\ History' /\ now \in Nat /\ Poll /\ sessionid # Others
    BY HistoryIs DEF Core, Sess, Others
  <1>1. PICK q \in pendingsc : /\ nodes' = procsc(View(nodes, nodenotify), q.sn, q.upto).nodes
                               /\ nodenotify' = procsc(View(nodes, nodenotify), q.sn, q.upto).notify
                               /\ scsn' = q.upto
    BY DEF scResponse
  <1>2. UNCHANGED <<session, cachedscsn, fetchingnodes, sctable, db, adrift, tree>>
    BY DEF scResponse, sessionVars, dbVars, serverVars
  <1>3. /\ q.sn = scsn /\ scsn \in 0 .. now /\ q.upto \in q.sn .. now /\ ~fetchingnodes
        /\ q.upto \in 0 .. now /\ scsn <= q.upto
    BY <1>0 DEF Poll, Continues, Fetching, Numbers
  <1>4. PICK c, m, n, r, t, K, u, L :
           /\ c = View(nodes, nodenotify) /\ m = q.sn /\ n = q.upto /\ r = db.rows
           /\ t = tree[m + 1] /\ K = Ever(m) /\ u = tree[n + 1] /\ L = Ever(n)
    OBVIOUS
  <1>5. PICK e, d : d = procsc(c, m, n) /\ e = View(d.nodes, d.notify)
    OBVIOUS
  <1>6. e.nodes = d.nodes /\ e.notify = d.notify /\ e = View(nodes', nodenotify')
    BY <1>1, <1>4, <1>5, ViewIs
  <1>7. ASSUME ~adrift
        PROVE  /\ Follows(F, e, u, L)
               /\ sctable /\ db.sn # NoSn => Held(F, e, u, r) /\ Known(F, r, L)
    <2>1. /\ Follows(F, c, t, K)
          /\ sctable /\ db.sn # NoSn => Held(F, c, t, r) /\ Known(F, r, K)
      <3>1. TracksIn(F, c)
        BY <1>4 DEF Good, Tracks
      <3> QED BY <1>3, <1>4, <1>7, <3>1, TracksNow
    <2>2. Step(F, c, t, K, d, u, L, r)
      BY <1>0, <1>3, <1>4, <1>5, <2>1, ResponseStep
    <2>3. Follows(F, d, u, L) /\ (Held(F, c, t, r) /\ Known(F, r, K) => Held(F, d, u, r))
      BY <2>2 DEF Step
    <2>4. Follows(F, e, u, L) /\ (Held(F, d, u, r) => Held(F, e, u, r))
      BY <1>6, <2>3 DEF Follows, Held
    <2>5. K \subseteq L
      BY <1>0, <1>3, <1>4, EverGrows
    <2>6. Known(F, r, K) => Known(F, r, L)
      BY <2>5 DEF Known
    <2> QED BY <2>1, <2>3, <2>4, <2>6
  <1>8. Tracks(F)'
    <2>1. tree'[n + 1] = u /\ Ever(n)' = L
      BY <1>2, <1>4 DEF Ever
    <2> QED BY <1>1, <1>2, <1>4, <1>6, <1>7, <2>1, TracksNext
  <1>9. Cached(F)'
    <2>1. PICK i, k : db.sn = i /\ cachedscsn = k
      OBVIOUS
    <2>2. \A j : Recorded(F, r, j)' = Recorded(F, r, j)
      BY <1>2 DEF Recorded, Ever
    <2>3. ~adrift /\ i >= 0 => Recorded(F, r, i)
      BY <1>4, <2>1 DEF Good, Cached
    <2>4. ~adrift /\ session = "in" /\ sctable /\ k >= 0 /\ i # NoSn => Recorded(F, r, k)
      BY <1>4, <2>1 DEF Good, Cached
    <2> QED BY <1>2, <1>4, <2>1, <2>2, <2>3, <2>4, CachedNext
  <1>10. Window(F)'
    BY <1>2, <1>3 DEF Window
  <1> QED BY <1>8, <1>9, <1>10 DEF Good

(* CommandFetchNodes::procresult(): the tree is the server's at its number,
   and so is the cache. *)
LEMMA GoodFetch ==
    ASSUME Core, Core', Extends, NEW F, Pure(F), Good(F), fetchnodesResult
    PROVE  Good(F)'
  <1>0. Numbers /\ History /\ History' /\ now \in Nat /\ Poll /\ Sess /\ Nodes(nodes, nodenotify) /\ Cmds
        /\ (sctable => Ids(nodes, db.rows, nextid)) /\ PollType
    BY HistoryIs DEF Core, Store
  <1>1. PICK n, t, K : n = Head(cmds).at /\ t = tree[n + 1] /\ K = Ever(n)
    OBVIOUS
  <1>2. /\ n \in 0 .. now /\ fetchingnodes /\ session = "in"
    BY <1>0, <1>1, Lists DEF fetchnodesResult, Cmds, Poll, Fetching, Sess
  <1>3. PICK c, v : c = readnodes(v, t, FALSE) /\ v = View(nodes, nodenotify)
    OBVIOUS
  <1>4. initsc(c.nodes, n) /\ scsn' = n /\ UNCHANGED <<tree, nodenotify>> /\ ~fetchingnodes' /\ ~adrift'
    BY <1>1, <1>3 DEF fetchnodesResult, serverVars
  <1>5. F \intersect DOMAIN nodes = {}
    BY <1>2 DEF Good, Window
  <1>6. Apart(F, t) /\ Tree(t) /\ DOMAIN t \subseteq K
    BY <1>0, <1>1, <1>2, PureApart
  <1>7. v.nodes = nodes /\ v.notify = nodenotify
    BY <1>3, ViewIs
  <1>8. Reads(v, t, FALSE, c)
    BY <1>0, <1>3, <1>7, ReadIs
  <1>9. Nodes(c.nodes, c.notify) /\ SameIds(nodes, c.nodes) /\ c.notify = nodenotify
    <2>1. c.notify = nodenotify
      BY <1>7, <1>8 DEF Reads
    <2> QED BY <1>0, <1>6, <1>7, <1>8, <2>1, ReadStore DEF Tree
  <1>10. DOMAIN c.nodes = DOMAIN nodes \union DOMAIN t
    BY <1>7, <1>8 DEF Reads
  <1>11. F \intersect DOMAIN c.nodes \subseteq K
    BY <1>5, <1>6, <1>10
  <1>12. Agree(F, c.nodes, t)
    <2> SUFFICES ASSUME NEW h \in F \intersect DOMAIN t
                 PROVE  h \in DOMAIN c.nodes /\ ~c.nodes[h].removed /\ c.nodes[h].clear /\ Same(c.nodes[h], t[h])
      BY DEF Agree
    <2>1. h \in DOMAIN t \ DOMAIN v.nodes
      BY <1>5, <1>7
    <2>2. t[h].parent \in DOMAIN c.nodes \union {Root} /\ t[h].clear
      BY <1>6, <1>10 DEF Apart
    <2> QED BY <1>8, <1>10, <2>1, <2>2 DEF Reads, Same
  <1>13. tree'[n + 1] = t /\ Ever(n)' = K
    BY <1>1, <1>4 DEF Ever
  <1>14. Window(F)'
    BY <1>4 DEF Window
  <1>15. CASE sctable
    <2>1. PICK x \in putnodes(c.nodes, DOMAIN c.nodes, NoRows, nextid) : nodes' = x.nodes /\ finalizesc(n, x)
      BY <1>4, <1>15, Zenon DEF initsc
    <2>2. PICK o, W : o = [rows |-> NoRows, nodes |-> c.nodes, id |-> nextid] /\ W = DOMAIN c.nodes
      OBVIOUS
    <2>3. o.nodes = c.nodes /\ o.rows = NoRows
      BY <2>2
    <2>4. Nodes(c.nodes, W)
      BY <1>9, <2>2 DEF Nodes
    <2>5. Ids(c.nodes, NoRows, nextid) /\ DOMAIN NoRows \subseteq 1 .. nextid /\ 0 \notin DOMAIN NoRows
      <3>1. Ids(nodes, NoRows, nextid)
        BY <1>0, <1>15, NoEntryIs DEF Ids, NoEntry
      <3>2. DOMAIN NoRows = {}
        BY NoEntryIs DEF NoEntry
      <3> QED BY <1>9, <3>1, <3>2, IdsKept
    <2>6. Written(o, x, W)
      BY <2>1, <2>2, <2>4, <2>5, PutNodes
    <2>7. Held(F, View(o.nodes, W), t, o.rows)
      <3>1. \A h \in F \intersect DOMAIN t : h \in W
        BY <1>12, <2>2 DEF Agree
      <3> QED BY <2>3, <3>1, NoEntryIs, ViewIs DEF Held, NoEntry
    <2>8. W \subseteq DOMAIN o.nodes /\ Agree(F, o.nodes, t) /\ 0 \notin DOMAIN o.rows
      BY <1>12, <2>2, <2>3, <2>5
    <2>9. Exact(F, x.rows, t) /\ \A h \in F \intersect DOMAIN t : OwnRecord(x, h, t[h])
      BY <2>6, <2>7, <2>8, WriteExact
    <2>10. Known(F, x.rows, K)
      <3>1. Known(F, o.rows, K) /\ F \intersect W \subseteq K
        BY <1>11, <2>2, <2>3, NoEntryIs DEF Known, NoEntry
      <3> QED BY <2>6, <2>8, <3>1, WriteKnown
    <2>11. PICK e : e = View(nodes', nodenotify')
      OBVIOUS
    <2>12. e.nodes = x.nodes /\ e.notify = nodenotify
      BY <1>4, <2>1, <2>11, ViewIs
    <2>13. Follows(F, e, t, K) /\ Held(F, e, t, x.rows)
      <3>1. DOMAIN x.nodes = DOMAIN c.nodes /\ \A h \in DOMAIN c.nodes : Renumbered(c.nodes[h], x.nodes[h])
        BY <2>3, <2>6 DEF Written
      <3>2. Nodes(x.nodes, nodenotify)
        BY <1>9, <3>1 DEF Nodes, Renumbered
      <3>3. Agree(F, x.nodes, t)
        BY <1>12, <3>1 DEF Agree, Renumbered, Same
      <3>4. Held(F, e, t, x.rows)
        BY <2>9, <2>12 DEF Held, OwnRecord
      <3> QED BY <1>11, <2>12, <3>1, <3>2, <3>3, <3>4 DEF Follows
    <2>14. PICK r, m, k : r = db'.rows /\ m = db'.sn /\ k = cachedscsn'
      OBVIOUS
    <2>15. \/ r = x.rows /\ m = n /\ k = n
           \/ m = NoSn
      <3>1. n # NoSn
        BY <1>0, <1>2 DEF NoSn
      <3>2. Committed(n, x) \/ Aborted
        BY <2>1, FinalIs
      <3>3. CASE Committed(n, x)
        BY <2>14, <3>1, <3>3 DEF Committed, tscsn
      <3>4. CASE Aborted
        BY <2>14, <3>4 DEF Aborted
      <3> QED BY <3>2, <3>3, <3>4
    <2>16. Tracks(F)'
      BY <1>4, <1>13, <2>10, <2>11, <2>13, <2>14, <2>15, TracksNext
    <2>17. Cached(F)'
      <3>1. Recorded(F, x.rows, n)'
        BY <1>13, <2>9, <2>10 DEF Recorded
      <3>2. CASE m = NoSn
        BY <2>14, <3>2 DEF Cached, NoSn
      <3>3. CASE r = x.rows /\ m = n /\ k = n
        BY <2>14, <3>1, <3>3, CachedNext
      <3> QED BY <2>15, <3>2, <3>3
    <2> QED BY <1>14, <2>16, <2>17 DEF Good
  <1>16. CASE ~sctable
    <2>1. nodes' = c.nodes /\ UNCHANGED <<cachedscsn, sctable, db>>
      BY <1>4, <1>16 DEF initsc, dbVars
    <2>2. db.sn = NoSn
      BY <1>0, <1>2, <1>16 DEF Sess
    <2>3. PICK e, r : e = View(nodes', nodenotify') /\ r = db'.rows
      OBVIOUS
    <2>4. e.nodes = c.nodes /\ e.notify = nodenotify
      BY <1>4, <2>1, <2>3, ViewIs
    <2>5. Follows(F, e, t, K)
      BY <1>9, <1>11, <1>12, <2>4 DEF Follows
    <2>6. Tracks(F)'
      BY <1>4, <1>13, <2>1, <2>2, <2>3, <2>5, TracksNext
    <2>7. Cached(F)'
      BY <2>1, <2>2 DEF Cached, NoSn
    <2> QED BY <1>14, <2>6, <2>7 DEF Good
  <1> QED BY <1>15, <1>16

(* Every step keeps what is known of a set that only others work on. *)
LEMMA GoodStep ==
    ASSUME Core, Core', Extends, [Steady]_vars, NEW F, Pure(F), Pure(F)', Good(F)
    PROVE  Good(F)'
  <1>1. CASE \/ login \/ (\E continued \in BOOLEAN : loginResult(continued)) \/ resume
             \/ fetchnodes \/ fetchnodesAgain \/ tooMany \/ (\E crash \in BOOLEAN : stop(crash))
    BY <1>1, GoodSession
  <1>2. CASE fetchnodesResult
    BY <1>2, GoodFetch
  <1>3. CASE putnodesResult
    BY <1>3, GoodPutNodes
  <1>4. CASE execNotifypurge
    BY <1>4, GoodExec
  <1>5. CASE scResponse
    BY <1>5, GoodResponse
  <1>6. CASE \/ \E h \in Handle : unlink(h)
             \/ \E h \in Handle, p \in Handle \union {Root} : rename(h, p)
    BY <1>6, GoodOwn
  <1>7. CASE \/ otherResult \/ serverExecutes \/ otherClient \/ UNCHANGED vars
             \/ \E p \in Handle \union {Root} : putnodesNew(p)
    <2>1. UNCHANGED <<clientVars, dbVars, adrift>>
      BY <1>7, Zenon DEF otherResult, serverExecutes, otherClient, putnodesNew, vars
    <2>2. UNCHANGED <<nodes, nodenotify, sctable, db, adrift, scsn, fetchingnodes, session, cachedscsn>>
      BY <2>1 DEF clientVars, sessionVars, treeVars, dbVars
    <2> QED BY <2>2, GoodIdle
  <1>8. CASE scPost \/ scNotified \/ scFailure \/ elapse \/ syncsAreUp \/ serverAnswers \/ fetchnodesError
    <2>1. UNCHANGED <<nodes, nodenotify, sctable, db, adrift, session, cachedscsn>>
      BY <1>8 DEF scPost, scNotified, scFailure, elapse, syncsAreUp, serverAnswers, fetchnodesError,
         sessionVars, treeVars, dbVars
    <2>2. scsn' \in {scsn, NoSn}
      BY <1>8 DEF scPost, scNotified, scFailure, elapse, syncsAreUp, serverAnswers, fetchnodesError
    <2>3. fetchingnodes' => fetchingnodes
      BY <1>8 DEF scPost, scNotified, scFailure, elapse, syncsAreUp, serverAnswers, fetchnodesError
    <2> QED BY <2>1, <2>2, <2>3, GoodIdle
  <1>9. CASE reopened
    BY <1>9, GoodReopened
  <1> QED BY <1>1, <1>2, <1>3, <1>4, <1>5, <1>6, <1>7, <1>8, <1>9, Zenon
          DEF Steady, SteadyEngine, App, Server

(* What others alone have worked on becomes less. *)
LEMMA PureBefore ==
    ASSUME History, History', Extends, NEW S, Pure(S)'
    PROVE  Pure(S)
  <1>1. now \in Nat /\ DOMAIN tree = 1 .. now + 1
    BY HistoryIs
  <1>2. DOMAIN tree \subseteq DOMAIN tree'
    <2>1. now' \in Nat /\ DOMAIN tree' = 1 .. now' + 1
      BY DEF History, now
    <2> QED BY <1>1, <2>1 DEF Extends
  <1>3. \A i \in DOMAIN tree : tree'[i] = tree[i]
    BY <1>1 DEF Extends
  <1>4. touched \subseteq touched'
    BY <1>2, <1>3 DEF touched, Extends
  <1> QED BY <1>2, <1>3, <1>4 DEF Pure

(* Good for a set is good for its subsets. *)
LEMMA GoodLess ==
    ASSUME NEW G, NEW F, F \subseteq G, Good(G)
    PROVE  Good(F)
  <1>1. Window(F)
    BY DEF Good, Window
  <1>2. \A r, t : Exact(G, r, t) => Exact(F, r, t)
    BY DEF Exact
  <1>3. \A r, K : Known(G, r, K) => Known(F, r, K)
    BY DEF Known
  <1>4. \A c, t, r : Held(G, c, t, r) => Held(F, c, t, r)
    BY DEF Held
  <1>5. \A c, t, K : Follows(G, c, t, K) => Follows(F, c, t, K)
    BY DEF Follows, Agree
  <1>6. Tracks(F)
    BY <1>3, <1>4, <1>5 DEF Good, Tracks, TracksIn
  <1>7. Cached(F)
    BY <1>2, <1>3 DEF Good, Cached, Recorded
  <1> QED BY <1>1, <1>6, <1>7 DEF Good

\* The inductive invariant.
Complete == Core /\ Good(Foreign)

LEMMA CompleteInit ==
    ASSUME Init
    PROVE  Complete
  <1>1. /\ db.sn = NoSn /\ db.rows = NoRows /\ nodes = Empty /\ nodenotify = {} /\ scsn = NoSn
        /\ cachedscsn = NoSn /\ ~fetchingnodes /\ ~loaded /\ cmds = << >> /\ pendingsc = {}
        /\ session = "down" /\ sessionid = 1 /\ ~sctable /\ nextid = 0 /\ mine = {} /\ log = << >>
        /\ tree = << Empty >>
    BY DEF Init, Db
  <1>2. PollType /\ Poll
    <2>1. pendingsc \subseteq Request({}) /\ cmds \in Seq({})
      BY <1>1
    <2>2. PollType
      BY <2>1 DEF PollType, Init
    <2> QED BY <1>1, <2>2 DEF Poll, Continues, Fetching
  <1>3. History
    <2>1. log \in Seq({}) /\ tree \in Seq({Empty}) /\ now = 0 /\ Len(tree) = 1 /\ tree[1] = Empty
      BY <1>1 DEF now
    <2>2. Tree(Empty)
      BY NoEntryIs DEF Tree, NoEntry
    <2>3. \A i \in 1 .. now + 1 : Tree(tree[i])
      BY <2>1, <2>2
    <2> QED BY <2>1, <2>3 DEF History
  <1>4. Cmds /\ Numbers
    BY <1>1 DEF Cmds, Numbers
  <1>5. Sess
    BY <1>1 DEF Sess
  <1>6. Store
    <2>1. Nodes(Empty, {}) /\ Rows(NoRows)
      BY EmptyStore
    <2>2. DOMAIN NoRows \subseteq 1 .. nextid
      BY NoEntryIs DEF NoEntry
    <2> QED BY <1>1, <2>1, <2>2 DEF Store
  <1>7. Good(Foreign)
    BY <1>1 DEF Good, Window, Tracks, TracksIn, Cached, NoSn
  <1> QED BY <1>2, <1>3, <1>4, <1>5, <1>6, <1>7 DEF Core, Complete

LEMMA CompleteStep ==
    ASSUME Complete, [Steady]_vars
    PROVE  Complete'
  <1>1. Core /\ Core' /\ Extends /\ History /\ History'
    BY CoreStep DEF Complete, Core
  <1>2. PICK F : F = Foreign'
    OBVIOUS
  <1>3. Pure(F)'
    <2>1. Pure(Foreign)'
      BY ForeignIs, PTL
    <2> QED BY <1>2, <2>1 DEF Pure
  <1>4. Pure(F)
    BY <1>1, <1>3, PureBefore
  <1>5. F \subseteq Foreign
    BY <1>4, ForeignIs
  <1>6. Good(F)
    BY <1>5, GoodLess DEF Complete
  <1>7. Good(F)'
    BY <1>1, <1>3, <1>4, <1>6, GoodStep
  <1>8. Good(Foreign)'
    BY <1>2, <1>7 DEF Good, Window, Tracks, TracksIn, Cached, Recorded
  <1> QED BY <1>1, <1>8 DEF Complete

LEMMA CompleteNext ==
    ASSUME mixed \/ Complete, [Next]_vars
    PROVE  (mixed \/ Complete)'
  <1> SUFFICES ASSUME ~mixed' PROVE Complete'
    BY Zenon
  <1>1. Complete
    BY MixedStays, Zenon
  <1>2. [Steady]_vars
    BY <1>1, SteadyStep DEF Complete, Core
  <1> QED BY <1>1, <1>2, CompleteStep

(* CacheComplete: whatever order updates, own commands, writes to the cache,
   failed writes, reloads, logouts, crashes and resumed sessions come in, what
   the next login() finds in the state cache under sequence number n is, for
   the nodes that only others have worked on, the server's tree at n: each with
   one record, its content and its parent.  updatesc() writes only what has
   been notified since the last time, so the proof has to say of every node
   that its record is either right or the node notified (Held), that the
   record is the node's own (Ids) and that DbTable::next() has left nextid
   above all numbers in use (Store).  It says nothing of records for nodes the
   server no longer has, and nothing after a cache that was given up has been
   loaded (adrift) or fetchnodes() called while a tree was on its way (mixed). *)
THEOREM CacheIsComplete == Spec => []CacheComplete
  <1>1. Init => Complete
    BY CompleteInit
  <1>2. (mixed \/ Complete) /\ [Next]_vars => (mixed \/ Complete)'
    BY CompleteNext
  <1>3. mixed \/ Complete => CacheComplete
    BY DEF Complete, Good, Cached, Recorded, Exact, CacheComplete
  <1> QED BY <1>1, <1>2, <1>3, PTL DEF Spec

(* NothingMissing: a client that has seen the latest update, be it through
   server-client responses, a tree fetched anew or one restored from the cache
   and continued, has every node that only others have worked on, in its place
   and with its content.  The proof follows procsc() update by update
   (ResponseStep): what an update does to the server's tree its action does to
   the client's, provided that the response continues where the tree is
   (PollFollows).  The exceptions are those of CacheIsComplete. *)
THEOREM NothingIsMissing == Spec => []NothingMissing
  <1>1. Init => Complete
    BY CompleteInit
  <1>2. (mixed \/ Complete) /\ [Next]_vars => (mixed \/ Complete)'
    BY CompleteNext
  <1>3. mixed \/ Complete => NothingMissing
    <2> SUFFICES ASSUME Complete, UpToDate, ~adrift
                 PROVE  AllThere
      BY DEF NothingMissing
    <2>1. scsn = now /\ now \in Nat /\ latest = tree[scsn + 1]
      BY HistoryIs DEF Complete, Core, UpToDate, latest
    <2>2. Follows(Foreign, View(nodes, nodenotify), latest, Ever(scsn))
      BY <2>1 DEF Complete, Good, Tracks, TracksIn
    <2> QED BY <2>2, ViewIs DEF Follows, Agree, AllThere
  <1> QED BY <1>1, <1>2, <1>3, PTL DEF Spec
=============================================================================

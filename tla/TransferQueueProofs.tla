------------------------- MODULE TransferQueueProofs -------------------------
(***************************************************************************)
(* Safety of module TransferQueue, for any sets of fingerprints and        *)
(* targets, any number of slots and any pipeline: types, the links between *)
(* files and transfers, and that a file ends once.                         *)
(***************************************************************************)
EXTENDS TransferQueue, Induction, TLAPS

-----------------------------------------------------------------------------
(* Files and transfers *)

XferType ==
    [files : SUBSET File, slot : {"none", "active", "placing"},
     bt : {"ready", "waiting"}, failcount : 0 .. RetryLimit, local : BOOLEAN,
     prog : 0 .. Size, data : {"none", "temp", "moved"}]

States == {"new", "queued", "done", "failed", "stopped", "lost"}

\* every transfer has files, all with its fingerprint
Filed == \A t \in Queue : attached(t) # {} /\ \A f \in attached(t) : f[1] = t

(* The type invariant with its parts named. *)
LEMMA TypeParts ==
    /\ TypeOK <=> /\ Queue \subseteq Fp /\ transfers \in [Queue -> XferType] /\ Filed
                  /\ transfer \in [File -> Fp \union {0}] /\ status \in [File -> States]
    /\ TypeOK' <=> /\ Queue' \subseteq Fp /\ transfers' \in [Queue' -> XferType] /\ Filed'
                   /\ transfer' \in [File -> Fp \union {0}] /\ status' \in [File -> States]
  BY DEF TypeOK, XferType, Filed, States

(* Fingerprints tell uploads from downloads, and none is the null pointer. *)
LEMMA FileFacts ==
    ASSUME NEW f \in File
    PROVE  /\ f[1] \in Fp /\ f[1] # 0 /\ f[1] \in Nat
           /\ type(f[1]) = "PUT" => f \notin Get \X Target
  BY QueueAssumption DEF File, Fp, type

(* A file that has ended is in no list, one that has kept its dangling
   reference included. *)
EndedIsGone ==
    \A f \in File : status[f] # "queued" => \A t \in Queue : f \notin attached(t)

Links == Linked /\ EndedIsGone

\* Files F leave transfer t, those in L without clearing their reference;
\* the transfer, which is y then, ends with its last file.
Leave(t, F, L, y) ==
    /\ y.files = attached(t) \ F
    /\ transfers' = IF attached(t) \ F = {} THEN Without(transfers, t)
                    ELSE [transfers EXCEPT ![t] = y]
    /\ transfer' = [f \in File |-> IF f \in F \ L THEN 0 ELSE transfer[f]]
    /\ status' \in [File -> States]
    /\ \A f \in File \ F : status'[f] = status[f]
    /\ \A f \in F : status'[f] = "lost" <=> f \in L

(* Files that leave a transfer keep to the links. *)
LEMMA Detach ==
    ASSUME TypeOK, Links, NEW t \in Queue, NEW F \in SUBSET attached(t),
           NEW L \in SUBSET F, NEW y \in XferType, Leave(t, F, L, y)
    PROVE  TypeOK' /\ Links'
  <1> USE DEF Leave
  <1>0. /\ Queue \subseteq Fp /\ transfers \in [Queue -> XferType] /\ Filed
        /\ transfer \in [File -> Fp \union {0}] /\ status \in [File -> States]
        /\ F \subseteq File
    BY TypeParts DEF attached, XferType
  <1>1. /\ Queue' \subseteq Queue /\ transfers' \in [Queue' -> XferType]
        /\ \A u \in Queue : u # t => u \in Queue' /\ attached(u)' = attached(u)
        /\ t \in Queue' => attached(t)' = attached(t) \ F /\ attached(t)' # {}
        /\ t \notin Queue' => attached(t) \ F = {}
    BY <1>0 DEF Without, Queue, attached
  <1>2. transfer' \in [File -> Fp \union {0}]
    BY <1>0
  <1>3. Filed'
    BY <1>0, <1>1 DEF Filed
  <1>4. EndedIsGone'
    <2> SUFFICES ASSUME NEW f \in File, status'[f] # "queued", NEW u \in Queue'
                 PROVE  f \notin attached(u)'
      BY DEF EndedIsGone
    <2>1. CASE f \in F
      BY <1>0, <1>1, <2>1 DEF Filed
    <2>2. CASE f \notin F
      BY <1>1, <2>2 DEF Links, EndedIsGone
    <2> QED BY <2>1, <2>2
  <1>5. Linked'
    <2> SUFFICES ASSUME NEW f \in File, NEW u \in Fp, status'[f] # "lost"
                 PROVE  transfer'[f] = u <=> (u \in Queue' /\ f \in attached(u)')
      BY DEF Linked
    <2>1. CASE f \in F
      <3>1. transfer'[f] = 0 /\ u # 0
        BY <2>1, QueueAssumption DEF Fp
      <3>2. \A v \in Queue' : f \notin attached(v)'
        BY <1>0, <1>1, <2>1 DEF Filed
      <3> QED BY <3>1, <3>2
    <2>2. CASE f \notin F
      <3>1. transfer'[f] = transfer[f] /\ status[f] # "lost"
        BY <2>2
      <3>2. transfer[f] = u <=> (u \in Queue /\ f \in attached(u))
        BY <3>1 DEF Links, Linked
      <3>3. (u \in Queue /\ f \in attached(u)) <=> (u \in Queue' /\ f \in attached(u)')
        BY <1>1, <2>2
      <3> QED BY <3>1, <3>2, <3>3
    <2> QED BY <2>1, <2>2
  <1> QED BY <1>0, <1>1, <1>2, <1>3, <1>4, <1>5, TypeParts DEF Links

(* A transfer changes in other respects. *)
LEMMA Update ==
    ASSUME TypeOK, Links, NEW t \in Queue, NEW y \in XferType, y.files = attached(t),
           transfers' = [transfers EXCEPT ![t] = y], UNCHANGED <<transfer, status>>
    PROVE  TypeOK' /\ Links'
  <1>0. /\ Queue \subseteq Fp /\ transfers \in [Queue -> XferType] /\ Filed
        /\ transfer \in [File -> Fp \union {0}] /\ status \in [File -> States]
    BY TypeParts
  <1>1. /\ Queue' = Queue /\ transfers' \in [Queue -> XferType]
        /\ \A u \in Queue : attached(u)' = attached(u)
    BY <1>0 DEF Queue, attached
  <1>2. TypeOK'
    BY <1>0, <1>1, TypeParts DEF Filed
  <1>3. Links'
    BY <1>1 DEF Links, Linked, EndedIsGone
  <1> QED BY <1>2, <1>3

(* The transfer's destructor leaves its files without one. *)
LEMMA Delete ==
    ASSUME TypeOK, Links, NEW t \in Queue, NEW s \in {"failed", "done"},
           transfers' = Without(transfers, t),
           transfer' = [f \in File |-> IF f \in attached(t) THEN 0 ELSE transfer[f]],
           status' = [f \in File |-> IF f \in attached(t) THEN s ELSE status[f]]
    PROVE  TypeOK' /\ Links'
  <1> DEFINE y == [transfers[t] EXCEPT !.files = {}]
  <1>0. transfers[t] \in XferType /\ attached(t) \subseteq File /\ status \in [File -> States]
    BY TypeParts DEF attached, XferType
  <1>1. y \in XferType /\ y.files = {}
    BY <1>0 DEF XferType
  <1>2. status' \in [File -> States]
    BY <1>0 DEF States
  <1> DEFINE F == attached(t)
             L == {}
  <1>3. /\ F \in SUBSET attached(t) /\ L \in SUBSET F /\ y.files = attached(t) \ F
        /\ transfers' = IF attached(t) \ F = {} THEN Without(transfers, t)
                        ELSE [transfers EXCEPT ![t] = y]
        /\ transfer' = [f \in File |-> IF f \in F \ L THEN 0 ELSE transfer[f]]
        /\ \A f \in File \ F : status'[f] = status[f]
        /\ \A f \in F : status'[f] = "lost" <=> f \in L
    BY <1>0, <1>1
  <1> HIDE DEF F, L, y
  <1>4. Leave(t, F, L, y)
    BY <1>1, <1>2, <1>3 DEF Leave
  <1> QED BY <1>1, <1>3, <1>4, Detach

-----------------------------------------------------------------------------
(* The steps *)

(* startxfer() adds a file to the transfer of its fingerprint, or to a new
   one. *)
LEMMA StartStep ==
    ASSUME TypeOK, Links, NEW f \in File, startxfer(f)
    PROVE  TypeOK' /\ Links'
  <1> DEFINE t == f[1]
             x == IF t \in Queue THEN transfers[t] ELSE Transfer
             y == [x EXCEPT !.files = @ \union {f}]
  <1>0. /\ Queue \subseteq Fp /\ transfers \in [Queue -> XferType] /\ Filed
        /\ transfer \in [File -> Fp \union {0}] /\ status \in [File -> States]
        /\ t \in Fp /\ t # 0
    BY TypeParts, FileFacts
  <1>1. Transfer \in XferType /\ Transfer.files = {}
    <2>1. 0 \in 0 .. RetryLimit /\ 0 \in 0 .. Size
      BY QueueAssumption
    <2> QED BY <2>1, Zenon DEF Transfer, XferType
  <1>2. x \in XferType /\ x.files = IF t \in Queue THEN attached(t) ELSE {}
    BY <1>0, <1>1 DEF attached
  <1> HIDE DEF x
  <1>3. y \in XferType /\ y.files = x.files \union {f}
    BY <1>2 DEF XferType
  <1>4. /\ transfers' = Insert(transfers, t, y) /\ status[f] = "new"
        /\ transfer' = [transfer EXCEPT ![f] = t]
        /\ status' = [status EXCEPT ![f] = "queued"]
    BY DEF startxfer, x
  <1> HIDE DEF y
  <1>5. /\ Queue' = Queue \union {t} /\ transfers' \in [Queue' -> XferType]
        /\ \A u \in Queue : u # t => attached(u)' = attached(u)
        /\ attached(t)' = x.files \union {f}
    <2>1. transfers' = [u \in Queue \union {t} |-> IF u = t THEN y ELSE transfers[u]]
      BY <1>4 DEF Insert, Queue
    <2>2. Queue' = Queue \union {t}
      BY <2>1 DEF Queue
    <2>3. transfers' \in [Queue' -> XferType]
      BY <1>0, <1>3, <2>1, <2>2
    <2>4. transfers'[t] = y /\ \A u \in Queue : u # t => transfers'[u] = transfers[u]
      BY <2>1
    <2> QED BY <1>3, <2>2, <2>3, <2>4 DEF attached
  <1>6. Filed'
    BY <1>0, <1>2, <1>5 DEF Filed
  <1>7. transfer' \in [File -> Fp \union {0}] /\ status' \in [File -> States]
    BY <1>0, <1>4 DEF States
  <1>8. \A u \in Queue' : \A g \in File : g # f => (g \in attached(u)' <=> u \in Queue /\ g \in attached(u))
    BY <1>2, <1>5
  <1>9. \A g \in File : g # f => transfer'[g] = transfer[g] /\ status'[g] = status[g]
    BY <1>0, <1>4
  <1>10. EndedIsGone'
    <2>1. status'[f] = "queued"
      BY <1>0, <1>4
    <2> QED BY <2>1, <1>8, <1>9 DEF Links, EndedIsGone
  <1>11. Linked'
    <2> SUFFICES ASSUME NEW g \in File, NEW u \in Fp, status'[g] # "lost"
                 PROVE  transfer'[g] = u <=> (u \in Queue' /\ g \in attached(u)')
      BY DEF Linked
    <2>1. CASE g = f
      <3>1. transfer'[f] = t
        BY <1>0, <1>4
      <3>2. u \in Queue' /\ f \in attached(u)' => u = t
        BY <1>6 DEF Filed
      <3> QED BY <2>1, <3>1, <3>2, <1>5
    <2>2. CASE g # f
      <3>1. transfer[g] = u <=> (u \in Queue /\ g \in attached(u))
        BY <1>9, <2>2 DEF Links, Linked
      <3> QED BY <2>2, <3>1, <1>5, <1>8, <1>9
    <2> QED BY <2>1, <2>2
  <1> QED BY <1>0, <1>5, <1>6, <1>7, <1>10, <1>11, TypeParts DEF Links

(* stopxfer() takes a file out of the list of its transfer. *)
LEMMA StopStep ==
    ASSUME TypeOK, Links, NEW f \in File, stopxfer(f)
    PROVE  TypeOK' /\ Links'
  <1> DEFINE t == transfer[f]
             F == {f}
             L == {}
             y == [transfers[t] EXCEPT !.files = attached(t) \ F]
  <1>0. /\ Queue \subseteq Fp /\ transfers \in [Queue -> XferType]
        /\ transfer \in [File -> Fp \union {0}] /\ status \in [File -> States]
    BY TypeParts
  <1>1. /\ status[f] = "queued" /\ t # 0
        /\ transfers' = IF attached(t) \ {f} = {} THEN Without(transfers, t)
                        ELSE [transfers EXCEPT ![t].files = attached(t) \ {f}]
        /\ transfer' = [transfer EXCEPT ![f] = 0]
        /\ status' = [status EXCEPT ![f] = "stopped"]
    BY DEF stopxfer
  <1>2. t \in Queue /\ f \in attached(t)
    BY <1>0, <1>1 DEF Links, Linked
  <1>3. y \in XferType /\ y.files = attached(t) \ F
    BY <1>0, <1>2 DEF XferType, attached
  <1>4. transfers' = IF attached(t) \ F = {} THEN Without(transfers, t)
                     ELSE [transfers EXCEPT ![t] = y]
    BY <1>0, <1>1, <1>2
  <1>5. /\ F \in SUBSET attached(t) /\ L \in SUBSET F
        /\ transfer' = [g \in File |-> IF g \in F \ L THEN 0 ELSE transfer[g]]
        /\ status' \in [File -> States]
        /\ \A g \in File \ F : status'[g] = status[g]
        /\ \A g \in F : status'[g] = "lost" <=> g \in L
    BY <1>0, <1>1, <1>2 DEF States
  <1> HIDE DEF t, F, L, y
  <1>6. Leave(t, F, L, y)
    BY <1>2, <1>3, <1>4, <1>5 DEF Leave
  <1> QED BY <1>2, <1>3, <1>4, <1>5, <1>6, Detach

(* freeq() deletes every transfer. *)
LEMMA FreeStep ==
    ASSUME TypeOK, Links, freeq
    PROVE  TypeOK' /\ Links'
  <1>0. /\ Queue \subseteq Fp /\ transfers \in [Queue -> XferType]
        /\ transfer \in [File -> Fp \union {0}] /\ status \in [File -> States]
    BY TypeParts
  <1>1. Queue' = {} /\ transfers' \in [Queue' -> XferType]
    BY DEF freeq, Queue
  <1>2. transfer' \in [File -> Fp \union {0}] /\ status' \in [File -> States]
    BY <1>0 DEF freeq, States
  <1>3. Filed' /\ EndedIsGone'
    BY <1>1 DEF Filed, EndedIsGone
  <1>4. Linked'
    <2> SUFFICES ASSUME NEW f \in File, NEW u \in Fp, status'[f] # "lost"
                 PROVE  transfer'[f] # u
      BY <1>1 DEF Linked
    <2>0. u # 0
      BY QueueAssumption DEF Fp
    <2>1. CASE \E t \in Queue : f \in attached(t)
      BY <2>0, <2>1 DEF freeq
    <2>2. CASE ~ \E t \in Queue : f \in attached(t)
      <3>1. transfer'[f] = transfer[f] /\ status'[f] = status[f]
        BY <2>2 DEF freeq
      <3> QED BY <2>2, <3>1 DEF Links, Linked
    <2> QED BY <2>1, <2>2
  <1> QED BY <1>0, <1>1, <1>2, <1>3, <1>4, TypeParts DEF Links

(* Transfer::failed() defers a transfer or deletes it. *)
LEMMA FailedStep ==
    ASSUME TypeOK, Links, NEW t \in Queue, NEW e, NEW named \in BOOLEAN, failed(t, e, named)
    PROVE  TypeOK' /\ Links'
  <1>0. transfers \in [Queue -> XferType]
    BY TypeParts
  <1>1. CASE attached(t) # {} /\ retryable(t, e)
    <2> DEFINE y == [transfers[t] EXCEPT !.bt = "waiting", !.failcount = @ + 1,
                          !.slot = "none", !.prog = 0, !.data = "none",
                          !.local = named]
    <2>1. transfers[t].failcount + 1 \in 0 .. RetryLimit /\ 0 \in 0 .. Size
      BY <1>0, <1>1, QueueAssumption DEF retryable, XferType
    <2>2. y \in XferType
      BY <1>0, <2>1, Zenon DEF XferType
    <2>3. y.files = attached(t)
      BY <1>0 DEF XferType, attached
    <2>4. transfers' = [transfers EXCEPT ![t] = y] /\ UNCHANGED <<transfer, status>>
      BY <1>1 DEF failed
    <2> HIDE DEF y
    <2> QED BY <2>2, <2>3, <2>4, Update
  <1>2. CASE ~(attached(t) # {} /\ retryable(t, e))
    <2>1. deleted(t)
      BY <1>2 DEF failed
    <2> QED BY <2>1, Delete DEF deleted
  <1> QED BY <1>1, <1>2

(* A timer that elapses, progress in a slot, and a dispatch leave the files
   of a transfer alone; so does abortbackoff(). *)
LEMMA ElapseStep ==
    ASSUME TypeOK, Links, NEW t \in Queue, btElapse(t) \/ progress(t)
    PROVE  TypeOK' /\ Links'
  <1>0. transfers \in [Queue -> XferType]
    BY TypeParts
  <1>1. CASE btElapse(t)
    <2> DEFINE y == [transfers[t] EXCEPT !.bt = "ready"]
    <2>1. y \in XferType /\ y.files = attached(t)
      BY <1>0 DEF XferType, attached
    <2>2. transfers' = [transfers EXCEPT ![t] = y] /\ UNCHANGED <<transfer, status>>
      BY <1>0, <1>1 DEF btElapse
    <2> HIDE DEF y
    <2> QED BY <2>1, <2>2, Update
  <1>2. CASE progress(t)
    <2>1. PICK p \in 0 .. Size : transfers' = [transfers EXCEPT ![t].prog = p]
      BY <1>2 DEF progress
    <2> DEFINE y == [transfers[t] EXCEPT !.prog = p]
    <2>2. y \in XferType /\ y.files = attached(t)
      BY <1>0 DEF XferType, attached
    <2>3. transfers' = [transfers EXCEPT ![t] = y] /\ UNCHANGED <<transfer, status>>
      BY <1>0, <1>2, <2>1 DEF progress
    <2> HIDE DEF y
    <2> QED BY <2>2, <2>3, Update
  <1> QED BY <1>1, <1>2

(* first() is a member of the set: fingerprints are numbers. *)
LEMMA FirstIs ==
    ASSUME NEW S \in SUBSET Fp, S # {}
    PROVE  first(S) \in S /\ \A u \in S : first(S) <= u
  <1>1. S \subseteq Nat
    BY QueueAssumption DEF Fp
  <1>2. \E t \in S : \A u \in S : t <= u
    BY <1>1, LeastNat
  <1> QED BY <1>2, Zenon DEF first

LEMMA DispatchStep ==
    ASSUME TypeOK, Links, NEW d \in Direction, dispatch(d) \/ dispatchFails(d)
    PROVE  TypeOK' /\ Links'
  <1> DEFINE t == first(dispatchable(d))
  <1>0. transfers \in [Queue -> XferType] /\ Queue \subseteq Fp
    BY TypeParts
  <1>1. dispatchable(d) # {} /\ dispatchable(d) \subseteq Queue
    BY DEF dispatch, dispatchFails, dispatchable
  <1>2. t \in Queue
    BY <1>0, <1>1, FirstIs
  <1> HIDE DEF t
  <1>3. CASE dispatch(d)
    <2> DEFINE y == [transfers[t] EXCEPT !.local = TRUE, !.slot = "active", !.prog = 0]
    <2>1. 0 \in 0 .. Size
      BY QueueAssumption
    <2>2. y \in XferType
      BY <1>0, <1>2, <2>1, Zenon DEF XferType
    <2>3. y.files = attached(t)
      BY <1>0, <1>2 DEF XferType, attached
    <2>4. transfers' = [transfers EXCEPT ![t] = y] /\ UNCHANGED <<transfer, status>>
      BY <1>3 DEF dispatch, t
    <2> HIDE DEF y
    <2> QED BY <1>2, <2>2, <2>3, <2>4, Update
  <1>4. CASE dispatchFails(d)
    <2>1. PICK named \in {transfers[t].local, TRUE} : failed(t, "API_EREAD", named)
      BY <1>4 DEF dispatchFails, t
    <2>2. named \in BOOLEAN
      BY <1>0, <1>2 DEF XferType
    <2> QED BY <1>2, <2>1, <2>2, FailedStep
  <1> QED BY <1>3, <1>4

LEMMA AbortStep ==
    ASSUME TypeOK, Links, abortbackoff
    PROVE  TypeOK' /\ Links'
  <1>0. /\ Queue \subseteq Fp /\ transfers \in [Queue -> XferType] /\ Filed
        /\ transfer \in [File -> Fp \union {0}] /\ status \in [File -> States]
    BY TypeParts
  <1> DEFINE y(t) == IF transfers[t].failcount = 0 THEN transfers[t]
                     ELSE [transfers[t] EXCEPT !.failcount = 0, !.bt = "ready"]
  <1>1. \A t \in Queue : y(t) \in XferType
    <2> TAKE t \in Queue
    <2>1. 0 \in 0 .. RetryLimit
      BY QueueAssumption
    <2>2. [transfers[t] EXCEPT !.failcount = 0, !.bt = "ready"] \in XferType
      BY <1>0, <2>1, Zenon DEF XferType
    <2> QED BY <1>0, <2>2
  <1>2. \A t \in Queue : y(t).files = attached(t)
    BY <1>0 DEF XferType, attached
  <1>3. transfers' = [t \in Queue |-> y(t)] /\ UNCHANGED <<transfer, status>>
    BY DEF abortbackoff
  <1> HIDE DEF y
  <1>4. /\ Queue' = Queue /\ transfers' \in [Queue -> XferType]
        /\ \A u \in Queue : attached(u)' = attached(u)
    BY <1>1, <1>2, <1>3 DEF Queue, attached
  <1>5. TypeOK'
    BY <1>0, <1>3, <1>4, TypeParts DEF Filed
  <1>6. Links'
    BY <1>3, <1>4 DEF Links, Linked, EndedIsGone
  <1> QED BY <1>5, <1>6

(* complete() of a download: the files that are placed or lost leave it. *)
LEMMA GetStep ==
    ASSUME TypeOK, Links, NEW t \in Queue, NEW o \in Outcome(t), completeGet(t, o)
    PROVE  TypeOK' /\ Links'
  <1> DEFINE x == IF transfers[t].slot = "active"
                  THEN [transfers[t] EXCEPT !.data = "temp"] ELSE transfers[t]
             c == place(x, o)
             rest == x.files \ leaving(t, c)
             y == [x EXCEPT !.files = rest, !.slot = "placing", !.data = c.data]
             F == leaving(t, c)
             L == lost(t, c)
  <1>0. /\ transfers \in [Queue -> XferType] /\ status \in [File -> States]
        /\ attached(t) \subseteq File
    BY TypeParts DEF XferType, attached
  <1>1. x \in XferType /\ x.files = attached(t)
    BY <1>0 DEF XferType, attached
  <1> HIDE DEF x
  <1>2. /\ c.done \subseteq x.files /\ c.failed \subseteq x.files
        /\ c.done \intersect c.failed = {}
        /\ c.data \in {"none", "temp", "moved"}
    BY <1>1 DEF place, XferType
  <1>3. /\ transfers' = IF rest = {} THEN Without(transfers, t)
                        ELSE [transfers EXCEPT ![t] = y]
        /\ transfer' = [f \in File |-> IF f \in c.done THEN 0 ELSE transfer[f]]
        /\ status' = [f \in File |-> CASE f \in c.done -> "done"
                                       [] f \in lost(t, c) -> "lost"
                                       [] f \notin leaving(t, c) -> status[f]]
    BY Zenon DEF completeGet, x
  <1> HIDE DEF c
  <1>4. y \in XferType
    <2>1. rest \in SUBSET File
      BY <1>0, <1>1
    <2> HIDE DEF rest
    <2> QED BY <1>1, <1>2, <2>1, Zenon DEF XferType
  <1>5. y.files = attached(t) \ F
    BY <1>1 DEF XferType
  <1>6. transfers' = IF attached(t) \ F = {} THEN Without(transfers, t)
                     ELSE [transfers EXCEPT ![t] = y]
    BY <1>1, <1>3
  <1> HIDE DEF y
  <1>7. F \in SUBSET attached(t) /\ L \in SUBSET F /\ F \ L = c.done
    BY <1>1, <1>2 DEF leaving, lost
  <1>8. /\ \A f \in File : f \in c.done => status'[f] = "done"
        /\ \A f \in File : f \in L => status'[f] = "lost"
        /\ \A f \in File : f \notin F => status'[f] = status[f]
    BY <1>3, <1>7 DEF leaving
  <1>9. /\ \A f \in File \ F : status'[f] = status[f]
        /\ \A f \in F : status'[f] = "lost" <=> f \in L
    BY <1>0, <1>7, <1>8
  <1>10. status' \in [File -> States]
    <2>1. \A f \in File : status'[f] \in States
      BY <1>0, <1>7, <1>8 DEF States
    <2> QED BY <1>3, <2>1
  <1>11. transfer' = [f \in File |-> IF f \in F \ L THEN 0 ELSE transfer[f]]
    BY <1>3, <1>7
  <1> HIDE DEF F, L
  <1>12. Leave(t, F, L, y)
    BY <1>4, <1>5, <1>6, <1>7, <1>9, <1>10, <1>11 DEF Leave
  <1> QED BY <1>4, <1>5, <1>7, <1>12, Detach

(* Every step keeps the types and the links. *)
LEMMA LinksStep ==
    ASSUME TypeOK, Links, [Next]_vars
    PROVE  TypeOK' /\ Links'
  <1>1. ASSUME UNCHANGED queueVars PROVE TypeOK' /\ Links'
    BY <1>1 DEF queueVars, TypeOK, Links, Linked, EndedIsGone, Queue, attached
  <1>2. CASE App
    BY <1>1, <1>2, StartStep, StopStep, AbortStep, FreeStep DEF App, pausexfers
  <1>3. CASE \E d \in Direction : dispatch(d) \/ dispatchFails(d)
    BY <1>3, DispatchStep
  <1>4. CASE \E t \in Queue : btElapse(t) \/ progress(t) \/ Ends(t)
    <2> PICK t \in Queue : btElapse(t) \/ progress(t) \/ Ends(t)
      BY <1>4
    <2>1. CASE btElapse(t) \/ progress(t)
      BY <2>1, ElapseStep
    <2>2. CASE attemptFails(t)
      <3>1. transfers[t].local \in BOOLEAN
        BY TypeParts DEF XferType
      <3> QED BY <2>2, <3>1, FailedStep DEF attemptFails
    <2>3. CASE completePut(t)
      BY <2>3, Delete DEF completePut
    <2>4. CASE \E o \in Outcome(t) : completeGet(t, o)
      BY <2>4, GetStep
    <2> QED BY <2>1, <2>2, <2>3, <2>4 DEF Ends
  <1>5. CASE \E f \in File : nodeRemoved(f)
    BY <1>1, <1>5 DEF nodeRemoved
  <1>6. CASE UNCHANGED vars
    BY <1>1, <1>6 DEF vars
  <1> QED BY <1>2, <1>3, <1>4, <1>5, <1>6 DEF Next

LEMMA LinksInit ==
    ASSUME Init
    PROVE  TypeOK /\ Links
  <1>1. Queue = {} /\ transfers \in [Queue -> XferType]
    BY DEF Init, Queue
  <1>2. transfer \in [File -> Fp \union {0}] /\ status \in [File -> States]
    BY DEF Init, States
  <1>3. TypeOK
    BY <1>1, <1>2, TypeParts DEF Filed
  <1>4. 0 \notin Fp
    BY QueueAssumption DEF Fp
  <1>5. Links
    BY <1>1, <1>4 DEF Init, Links, Linked, EndedIsGone
  <1> QED BY <1>3, <1>5

(* Transfers are filed under their fingerprint, hold only files of that
   fingerprint, and never stay in the queue without a file: startxfer(),
   stopxfer(), Transfer::failed() and complete() together keep the two maps
   of transfers in order. *)
THEOREM TypeCorrect == Spec => []TypeOK
  <1>1. Init => TypeOK /\ Links
    BY LinksInit
  <1>2. TypeOK /\ Links /\ [Next]_vars => (TypeOK /\ Links)'
    BY LinksStep
  <1> QED BY <1>1, <1>2, PTL DEF Spec

(* Whatever the order in which files are added, stopped, fail, complete or
   are freed with the session, a file and its transfer refer to each other,
   but for the files that give up while a download is being placed. *)
THEOREM LinksHold == Spec => []Linked
  <1>1. Init => TypeOK /\ Links
    BY LinksInit
  <1>2. TypeOK /\ Links /\ [Next]_vars => (TypeOK /\ Links)'
    BY LinksStep
  <1>3. Links => Linked
    BY DEF Links
  <1> QED BY <1>1, <1>2, <1>3, PTL DEF Spec

-----------------------------------------------------------------------------
(* Ends *)

\* no file that has ended changes
Ended == \A f \in File : status[f] \notin {"new", "queued"} => status'[f] = status[f]

(* A step ends files that it finds new, stopped by the application while they
   are queued, or in the list of a transfer. *)
LEMMA EndStep ==
    ASSUME TypeOK, Links, [Next]_vars
    PROVE  Ended
  <1>0. /\ transfers \in [Queue -> XferType] /\ status \in [File -> States]
        /\ \A f \in File : \A t \in Queue : f \in attached(t) => status[f] = "queued"
    BY TypeParts DEF Links, EndedIsGone
  <1>1. ASSUME UNCHANGED status PROVE Ended
    BY <1>1 DEF Ended
  <1>2. ASSUME NEW t \in Queue, deleted(t) PROVE Ended
    BY <1>0, <1>2 DEF deleted, Ended
  <1>3. ASSUME NEW t \in Queue, NEW e, NEW named, failed(t, e, named) PROVE Ended
    BY <1>1, <1>2, <1>3 DEF failed
  <1>4. CASE App
    <2>1. CASE \E f \in File : startxfer(f) \/ stopxfer(f)
      BY <1>0, <2>1 DEF startxfer, stopxfer, Ended
    <2>2. CASE freeq
      BY <1>0, <2>2 DEF freeq, Ended
    <2>3. CASE (\E d \in Direction : pausexfers(d)) \/ abortbackoff
      BY <1>1, <2>3 DEF pausexfers, abortbackoff, queueVars
    <2> QED BY <1>4, <2>1, <2>2, <2>3 DEF App
  <1>5. CASE \E d \in Direction : dispatch(d) \/ dispatchFails(d)
    <2> PICK d \in Direction : dispatch(d) \/ dispatchFails(d)
      BY <1>5
    <2>1. CASE dispatch(d)
      BY <1>1, <2>1 DEF dispatch
    <2>2. CASE dispatchFails(d)
      <3>1. first(dispatchable(d)) \in Queue
        <4>1. dispatchable(d) # {} /\ dispatchable(d) \subseteq Queue /\ Queue \subseteq Fp
          BY <2>2, TypeParts DEF dispatchFails, dispatchable
        <4> QED BY <4>1, FirstIs
      <3> QED BY <1>3, <2>2, <3>1 DEF dispatchFails
    <2> QED BY <2>1, <2>2
  <1>6. CASE \E t \in Queue : btElapse(t) \/ progress(t) \/ Ends(t)
    <2> PICK t \in Queue : btElapse(t) \/ progress(t) \/ Ends(t)
      BY <1>6
    <2>1. CASE btElapse(t) \/ progress(t)
      BY <1>1, <2>1 DEF btElapse, progress
    <2>2. CASE attemptFails(t)
      BY <1>3, <2>2 DEF attemptFails
    <2>3. CASE completePut(t)
      BY <1>0, <2>3 DEF completePut, Ended
    <2>4. CASE \E o \in Outcome(t) : completeGet(t, o)
      <3> PICK o \in Outcome(t) : completeGet(t, o)
        BY <2>4
      <3> DEFINE x == IF transfers[t].slot = "active"
                      THEN [transfers[t] EXCEPT !.data = "temp"] ELSE transfers[t]
                 c == place(x, o)
      <3>1. x.files = attached(t)
        BY <1>0 DEF attached, XferType
      <3>2. c.done \subseteq attached(t) /\ c.failed \subseteq attached(t)
        BY <3>1 DEF place
      <3>3. status' = [f \in File |-> CASE f \in c.done -> "done"
                                        [] f \in lost(t, c) -> "lost"
                                        [] f \notin leaving(t, c) -> status[f]]
        BY Zenon DEF completeGet
      <3> HIDE DEF c
      <3>4. leaving(t, c) \subseteq attached(t)
        BY <3>2 DEF leaving, lost
      <3>5. \A f \in File : f \notin leaving(t, c) => status'[f] = status[f]
        BY <3>3 DEF leaving
      <3> QED BY <1>0, <3>4, <3>5 DEF Ended
    <2> QED BY <2>1, <2>2, <2>3, <2>4 DEF Ends
  <1>7. CASE \E f \in File : nodeRemoved(f)
    BY <1>1, <1>7 DEF nodeRemoved, queueVars
  <1>8. CASE UNCHANGED vars
    BY <1>1, <1>8 DEF vars, queueVars
  <1> QED BY <1>4, <1>5, <1>6, <1>7, <1>8 DEF Next

(* EndsOnce: however often complete() comes back to the files of a download,
   and whatever Transfer::failed(), stopxfer() and freeq() do in between, a
   file that has been reported, or stopped, is left alone.  It rests on the
   lists: what has ended is in none (EndedIsGone). *)
THEOREM FilesEndOnce == Spec => EndsOnce
  <1>1. Init => TypeOK /\ Links
    BY LinksInit
  <1>2. TypeOK /\ Links /\ [Next]_vars => (TypeOK /\ Links)'
    BY LinksStep
  <1>3. TypeOK /\ Links /\ [Next]_vars => [Ended]_vars
    BY EndStep
  <1> QED BY <1>1, <1>2, <1>3, PTL DEF Spec, EndsOnce, Ended
=============================================================================

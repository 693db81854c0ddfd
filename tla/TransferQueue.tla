---------------------------- MODULE TransferQueue ----------------------------
(***************************************************************************)
(* The queue of uploads and downloads: files are attached to transfers by  *)
(* their fingerprint, transfers wait for a slot, are dispatched, fail, are *)
(* deferred and retried, and a finished download is put in place for every *)
(* file attached (src/megaclient.cpp, src/transfer.cpp, src/file.cpp).     *)
(*                                                                         *)
(* What happens inside a slot is module TransferSlot's subject: here it    *)
(* reports progress, finishes or fails.  Fingerprints are numbers, ordered   *)
(* as the transfer map orders them.  The connectivity timers are "ready"   *)
(* (armed) or "waiting".                                                   *)
(***************************************************************************)
EXTENDS Integers, FiniteSets

CONSTANTS
    Get, Put,       \* fingerprints to be downloaded and uploaded
    LastFp,         \* the last fingerprint
    Target,         \* local targets a download may have
    Size,           \* size of every file
    MAXTRANSFERS,   \* slots
    MINPIPELINE,    \* data a direction may always have in its slots
    RetryLimit,     \* attempts after which a file gives up (16 in the code)
    Vanishing,      \* may a node that is to be downloaded be removed?
    LocalErrors,    \* errors of local renames and copies that may occur
    MaxFaults,      \* bound: failures of attempts and of local operations
    MaxCalls        \* bound: calls of stopxfer(), pausexfers(), abortbackoff()
                    \* and freeq()

ASSUME QueueAssumption ==
    /\ LastFp \in Nat
    /\ Get \union Put \subseteq 1 .. LastFp /\ Get \intersect Put = {}
    /\ IsFiniteSet(Target)
    /\ Size \in Nat \ {0} /\ MINPIPELINE \in Nat \ {0} /\ MAXTRANSFERS \in Nat \ {0}
    /\ RetryLimit \in Nat /\ MaxFaults \in Nat /\ MaxCalls \in Nat
    /\ Vanishing \in BOOLEAN
    /\ LocalErrors \subseteq {"transient", "permanent"}

\* the files that may be transferred: copies of a download, and uploads
File == (Get \X Target) \union (Put \X {"up"})
Fp == Get \union Put
Direction == {"GET", "PUT"}
type(t) == IF t \in Get THEN "GET" ELSE "PUT"

VARIABLES
    transfers,      \* transfers[d]: the transfers by fingerprint
    transfer,       \* File::transfer: a fingerprint, or 0
    status,         \* of a file: "new", "queued", "done", "failed", "stopped",
                    \* or "lost", if it has given up while it was being placed
    nodeless,       \* files whose node is gone
    xferpaused,     \* directions paused
    faults, calls

queueVars == <<transfers, transfer, status>>
vars == <<queueVars, nodeless, xferpaused, faults, calls>>

\* files: a list in the code, whose order nothing here depends on.  slot:
\* "none", "active", or "placing" when the slot's file is closed and only
\* local work is left.  local: the local filename has been set.  prog: what
\* the slot has last reported (progressreported).  data: where the downloaded
\* file is, "temp" or, once renamed, "moved".
Transfer ==
    [files |-> {}, slot |-> "none", bt |-> "ready", failcount |-> 0,
     local |-> FALSE, prog |-> 0, data |-> "none"]

Insert(f, k, x) == [j \in DOMAIN f \union {k} |-> IF j = k THEN x ELSE f[j]]
Without(f, k) == [j \in DOMAIN f \ {k} |-> f[j]]

Init ==
    /\ transfers = << >>
    /\ transfer = [f \in File |-> 0]
    /\ status = [f \in File |-> "new"]
    /\ nodeless = {}
    /\ xferpaused = {}
    /\ faults = 0 /\ calls = 0

Queue == DOMAIN transfers
attached(t) == transfers[t].files
tslots == {t \in Queue : transfers[t].slot # "none"}

-----------------------------------------------------------------------------
(* Adding and removing files *)

\* startxfer(): the transfer of this fingerprint, or a new one
startxfer(f) ==
    LET t == f[1]
        x == IF t \in Queue THEN transfers[t] ELSE Transfer
    IN  /\ status[f] = "new"
        /\ transfers' = Insert(transfers, t, [x EXCEPT !.files = @ \union {f}])
        /\ transfer' = [transfer EXCEPT ![f] = t]
        /\ status' = [status EXCEPT ![f] = "queued"]
        /\ UNCHANGED <<nodeless, xferpaused, faults, calls>>

\* Fault: a transfer without files stays.
stopxferKeeps(f) ==
    /\ calls < MaxCalls /\ status[f] = "queued" /\ transfer[f] # 0
    /\ calls' = calls + 1
    /\ transfers' = [transfers EXCEPT ![transfer[f]].files = @ \ {f}]
    /\ transfer' = [transfer EXCEPT ![f] = 0]
    /\ status' = [status EXCEPT ![f] = "stopped"]
    /\ UNCHANGED <<nodeless, xferpaused, faults>>

\* stopxfer(), also by File's destructor: the transfer ends with its last file
stopxfer(f) ==
    LET t == transfer[f]
        rest == attached(t) \ {f}
    IN  /\ calls < MaxCalls /\ status[f] = "queued" /\ t # 0
        /\ calls' = calls + 1
        /\ transfers' = IF rest = {} THEN Without(transfers, t)
                        ELSE [transfers EXCEPT ![t].files = rest]
        /\ transfer' = [transfer EXCEPT ![f] = 0]
        /\ status' = [status EXCEPT ![f] = "stopped"]
        /\ UNCHANGED <<nodeless, xferpaused, faults>>

\* Fault: the files still refer to it.
deletedOnly(t) ==
    /\ transfers' = Without(transfers, t)
    /\ status' = [f \in File |-> IF f \in attached(t) THEN "failed" ELSE status[f]]
    /\ UNCHANGED transfer

\* the transfer's destructor: its files are left without one
deleted(t) ==
    /\ transfers' = Without(transfers, t)
    /\ transfer' = [f \in File |-> IF f \in attached(t) THEN 0 ELSE transfer[f]]
    /\ status' = [f \in File |-> IF f \in attached(t) THEN "failed" ELSE status[f]]

\* freeq(), when the session ends
freeq ==
    /\ calls < MaxCalls /\ Queue # {}
    /\ calls' = calls + 1
    /\ transfers' = << >>
    /\ transfer' = [f \in File |-> IF \E t \in Queue : f \in attached(t)
                                   THEN 0 ELSE transfer[f]]
    /\ status' = [f \in File |-> IF \E t \in Queue : f \in attached(t)
                                 THEN "failed" ELSE status[f]]
    /\ UNCHANGED <<nodeless, xferpaused, faults>>

\* another client removes the node of a file to be downloaded
nodeRemoved(f) ==
    /\ Vanishing /\ f[1] \in Get /\ f \notin nodeless
    /\ status[f] = "queued" /\ ~transfers[f[1]].local
    /\ nodeless' = nodeless \union {f}
    /\ UNCHANGED <<queueVars, xferpaused, faults, calls>>

-----------------------------------------------------------------------------
(* Failure *)

\* File::failed(): is the file to be tried again?
retryable(t, e) == e # "API_EKEY" /\ transfers[t].failcount < RetryLimit

\* Transfer::failed(): deferred if a file wants that, deleted if none does.
\* The slot's destructor removes an unfinished download.  named: the local
\* filename is set by now.
failed(t, e, named) ==
    IF attached(t) # {} /\ retryable(t, e)
    THEN /\ transfers' = [transfers EXCEPT ![t] =
                [transfers[t] EXCEPT !.bt = "waiting", !.failcount = @ + 1,
                          !.slot = "none", !.prog = 0, !.data = "none",
                          !.local = named]]
         /\ UNCHANGED <<transfer, status>>
    ELSE deleted(t)

\* the timer of a deferred transfer
btElapse(t) ==
    /\ transfers[t].bt = "waiting"
    /\ transfers' = [transfers EXCEPT ![t].bt = "ready"]
    /\ UNCHANGED <<transfer, status, nodeless, xferpaused, faults, calls>>

\* abortbackoff(): transfers that have failed are ready, and have all their
\* attempts again
abortbackoff ==
    /\ calls < MaxCalls
    /\ calls' = calls + 1
    /\ transfers' = [t \in Queue |->
                        IF transfers[t].failcount = 0 THEN transfers[t]
                        ELSE [transfers[t] EXCEPT !.failcount = 0, !.bt = "ready"]]
    /\ UNCHANGED <<transfer, status, nodeless, xferpaused, faults>>

-----------------------------------------------------------------------------
(* Dispatch *)

first(S) == CHOOSE t \in S : \A u \in S : t <= u

slotavail == Cardinality(tslots) < MAXTRANSFERS

\* data that a direction's slots have still to transfer, added up slot by slot
due(d, t) == IF t \in tslots /\ type(t) = d THEN Size - transfers[t].prog ELSE 0

remaining(d) ==
    LET left[n \in 0 .. LastFp] == IF n = 0 THEN 0 ELSE left[n - 1] + due(d, n)
    IN  left[LastFp]

\* moretransfers(): the speed would be looked at after 50 ds, but nothing is
\* dispatched once 2 ds have elapsed ("t >= 2")
moretransfers(d) == slotavail /\ remaining(d) < MINPIPELINE

\* Fault: a deferred transfer is not looked at again.
dispatchableFresh(d) ==
    {t \in Queue : /\ type(t) = d /\ transfers[t].slot = "none"
                   /\ transfers[t].failcount = 0}

\* of the transfers that are ready (and so all due at once), the first
dispatchable(d) ==
    {t \in Queue : /\ type(t) = d /\ transfers[t].slot = "none"
                   /\ transfers[t].bt = "ready"}

\* a download needs a key, which the node of any of its files has
haskey(t) == \/ t \in Put \/ transfers[t].local
             \/ \E f \in attached(t) : f \notin nodeless

\* dispatch(): the local file is opened and a slot given
dispatch(d) ==
    LET t == first(dispatchable(d))
    IN  /\ moretransfers(d)
        /\ dispatchable(d) # {} /\ haskey(t)
        /\ transfers' = [transfers EXCEPT ![t] =
                [@ EXCEPT !.local = TRUE, !.slot = "active", !.prog = 0]]
        /\ UNCHANGED <<transfer, status, nodeless, xferpaused, faults, calls>>

\* ... or has no name after prepare(), or cannot be opened: the next one is
\* tried
dispatchFails(d) ==
    LET t == first(dispatchable(d))
    IN  /\ moretransfers(d)
        /\ dispatchable(d) # {} /\ haskey(t)
        /\ faults < MaxFaults
        /\ faults' = faults + 1
        /\ \E named \in {transfers[t].local, TRUE} : failed(t, "API_EREAD", named)
        /\ UNCHANGED <<nodeless, xferpaused, calls>>

\* pausexfers(): slots of a paused direction do nothing
pausexfers(d) ==
    /\ calls < MaxCalls
    /\ calls' = calls + 1
    /\ xferpaused' = IF d \in xferpaused THEN xferpaused \ {d}
                     ELSE xferpaused \union {d}
    /\ UNCHANGED <<queueVars, nodeless, faults>>

-----------------------------------------------------------------------------
(* Slots *)

running(t) == transfers[t].slot = "active" /\ type(t) \notin xferpaused

\* doio() reports what has been transferred and what is in flight, which is
\* less when a request has failed
progress(t) ==
    /\ running(t)
    /\ \E p \in 0 .. Size \ {transfers[t].prog} :
          transfers' = [transfers EXCEPT ![t].prog = p]
    /\ UNCHANGED <<transfer, status, nodeless, xferpaused, faults, calls>>

\* the attempt fails in the slot, or because the file received is not the
\* one expected
attemptFails(t) ==
    /\ \/ running(t)
       \/ transfers[t].slot = "placing" /\ transfers[t].data = "temp"
          /\ type(t) \notin xferpaused
    /\ faults < MaxFaults
    /\ faults' = faults + 1
    /\ \E e \in {"API_EAGAIN", "API_EKEY"} : failed(t, e, transfers[t].local)
    /\ UNCHANGED <<nodeless, xferpaused, calls>>

\* complete(), PUT: the file has not changed; every file adds its node.  The
\* last progress has not been reported when doio() comes here.
completePut(t) ==
    /\ running(t) /\ type(t) = "PUT"
    /\ transfers' = Without(transfers, t)
    /\ transfer' = [f \in File |-> IF f \in attached(t) THEN 0 ELSE transfer[f]]
    /\ status' = [f \in File |-> IF f \in attached(t) THEN "done" ELSE status[f]]
    /\ UNCHANGED <<nodeless, xferpaused, faults, calls>>

\* The loop of complete(), GET, over the files of transfer x.  o is what the
\* local file system does with each: a rename (a copy, once one has been
\* renamed), a copy only, or an error.  The temporary file is there for all
\* of them, unless an earlier attempt has renamed it.
place(x, o) ==
    LET present == x.data # "moved"
        ok == {f \in x.files : present /\ o[f] \in {"rename", "copy"}}
    IN  [data |-> IF \E f \in ok : o[f] = "rename" THEN "moved" ELSE x.data,
         done |-> ok,
         failed |-> {f \in x.files : ~present \/ o[f] = "permanent"}]

\* the files that give up after a permanent error: they leave the list and
\* keep their reference to the transfer
lost(t, c) == IF retryable(t, "API_EAGAIN") THEN {} ELSE c.failed

\* Fault: a file that has been placed stays in the list.
leavingLost(t, c) == lost(t, c)

leaving(t, c) == c.done \union lost(t, c)

\* complete(), GET, of a slot that has received everything or is to try
\* again: each file in turn; what could not be placed is tried again later
completeGet(t, o) ==
    LET x == IF transfers[t].slot = "active"
             THEN [transfers[t] EXCEPT !.data = "temp"] ELSE transfers[t]
        c == place(x, o)
        rest == x.files \ leaving(t, c)
        errors == Cardinality({f \in attached(t) : o[f] \in LocalErrors})
    IN  /\ type(t) = "GET" /\ "GET" \notin xferpaused
        /\ transfers[t].slot \in {"active", "placing"}
        /\ faults + errors <= MaxFaults
        /\ faults' = faults + errors
        /\ transfers' = IF rest = {} THEN Without(transfers, t)
                        ELSE [transfers EXCEPT ![t] =
                                [x EXCEPT !.files = rest, !.slot = "placing",
                                          !.data = c.data]]
        /\ transfer' = [f \in File |-> IF f \in c.done THEN 0 ELSE transfer[f]]
        /\ status' = [f \in File |-> CASE f \in c.done -> "done"
                                       [] f \in lost(t, c) -> "lost"
                                       [] f \notin leaving(t, c) -> status[f]]
        /\ UNCHANGED <<nodeless, xferpaused, calls>>

Outcome(t) == [attached(t) -> {"rename", "copy"} \union LocalErrors]

-----------------------------------------------------------------------------
App == \/ \E f \in File : startxfer(f) \/ stopxfer(f)
       \/ \E d \in Direction : pausexfers(d)
       \/ abortbackoff \/ freeq

Ends(t) == \/ attemptFails(t) \/ completePut(t)
           \/ \E o \in Outcome(t) : completeGet(t, o)

Next ==
    \/ App
    \/ \E d \in Direction : dispatch(d) \/ dispatchFails(d)
    \/ \E t \in Queue : btElapse(t) \/ progress(t) \/ Ends(t)
    \/ \E f \in File : nodeRemoved(f)

\* exec() dispatches and serves the slots of unpaused directions whenever it
\* runs, and wait() returns when a timer is due; a slot's attempt ends, as
\* module TransferSlot shows
Fairness ==
    /\ \A d \in Direction : WF_vars(dispatch(d))
    /\ \A t \in Fp : /\ WF_vars(t \in Queue /\ btElapse(t))
                     /\ WF_vars(t \in Queue /\ Ends(t))

Spec == Init /\ [][Next]_vars /\ Fairness

-----------------------------------------------------------------------------
TypeOK ==
    /\ Queue \subseteq Fp
    /\ transfers \in [Queue ->
          [files : SUBSET File, slot : {"none", "active", "placing"},
           bt : {"ready", "waiting"}, failcount : 0 .. RetryLimit, local : BOOLEAN,
           prog : 0 .. Size, data : {"none", "temp", "moved"}]]
    /\ \A t \in Queue : attached(t) # {} /\ \A f \in attached(t) : f[1] = t
    /\ transfer \in [File -> Fp \union {0}]
    /\ status \in [File -> {"new", "queued", "done", "failed", "stopped", "lost"}]

(* A file refers to a transfer exactly when that transfer has it in its list:
   what File's destructor and stopxfer() rely on when files and transfers end
   in any order.  The exception is a file that gives up while the download is
   being placed, whose reference is never cleared. *)
Linked == \A f \in File : \A t \in Fp :
             status[f] # "lost" =>
                 (transfer[f] = t <=> (t \in Queue /\ f \in attached(t)))

(* A file ends once: what has been reported complete or failed, or has been
   stopped, is not reported again, although a download that is placed in part
   is completed again for the rest, its slot may still fail then, and failures,
   stopxfer() and freeq() end whatever the transfer has in its list. *)
EndsOnce ==
    [][\A f \in File :
          status[f] \notin {"new", "queued"} => status'[f] = status[f]]_vars

\* the temporary file has been renamed while other files wait for it
stranded(f) == transfer[f] \in Queue /\ transfers[transfer[f]].data = "moved"

\* a download without a key is first in the queue
blocked == \E t \in Queue \intersect Get : ~haskey(t)

(* Every file that is queued is transferred, fails, or is stopped, unless a
   direction is paused (both share the slots): no slot, timer or deferred
   transfer is forgotten. *)
Settles ==
    \A f \in File :
        status[f] = "queued" ~> \/ status[f] # "queued" \/ xferpaused # {}
                                \/ blocked \/ \E g \in File : stranded(g)

(* place file in all target locations: every download that is queued and not
   given up is placed or fails in the end. *)
AllPlaced ==
    \A f \in Get \X Target :
        status[f] = "queued" ~> (status[f] # "queued" \/ "GET" \in xferpaused)
=============================================================================

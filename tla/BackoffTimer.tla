---------------------------- MODULE BackoffTimer ----------------------------
(***************************************************************************)
(* The timer with capped exponential backoff of src/backofftimer.cpp,      *)
(* together with the clock it reads (Waiter::ds, deciseconds).  dstime is  *)
(* an unsigned machine word: sums and shifts are taken modulo DSMOD (2^32  *)
(* in the code).                                                           *)
(***************************************************************************)
EXTENDS Naturals

CONSTANTS
    DSMOD,        \* number of values of dstime
    CAP,          \* ceiling of the doubled interval (36000 in the code)
    XFERTIMEOUT,  \* a slot without data for so long has stalled (600)
    Deltas,       \* the other arguments of backoff(dstime)
    Longest,      \* the longest interval asked for
    MaxDs         \* bound: the host's uptime, in deciseconds

\* backoff(dstime) has no ceiling of its own: its callers pass 1, 2, 11, 50,
\* 10 + totalnodes / 128, the time until a nagle deadline, and what is left
\* of XFERTIMEOUT.  The code relies on an uptime so far below the word's
\* range that the clock plus two of the longest intervals does not wrap.
ASSUME TimerAssumption ==
    /\ DSMOD \in Nat /\ Longest \in Nat /\ MaxDs \in Nat \ {0}
    /\ CAP \in 1 .. Longest
    /\ XFERTIMEOUT \in 0 .. Longest
    /\ Deltas \subseteq 0 .. Longest
    /\ MaxDs + 2 * Longest < DSMOD

VARIABLES
    ds,        \* Waiter::ds
    next,      \* time of the next trigger, 0 if none is set
    delta      \* interval the next backoff() will use

vars == <<ds, next, delta>>

\* The clock is CLOCK_MONOTONIC: it has advanced past 0 before any timer
\* exists.
Init ==
    /\ ds = 1
    /\ next = 0
    /\ delta = 1

reset ==
    /\ next' = 0
    /\ delta' = 1
    /\ UNCHANGED ds

\* Fault: the interval grows without limit.
doubledUncapped == (2 * delta) % DSMOD

\* the interval after this one: delta <<= 1, at most CAP
doubled == LET shifted == (2 * delta) % DSMOD
           IN  IF shifted > CAP THEN CAP ELSE shifted

backoff ==
    /\ next' = (ds + delta) % DSMOD
    /\ delta' = doubled
    /\ UNCHANGED ds

backoffBy(newdelta) ==
    /\ next' = (ds + newdelta) % DSMOD
    /\ delta' = newdelta
    /\ UNCHANGED ds

\* Fault: the whole timeout again, counted from the beginning of the silence.
restDoubled(silence) == XFERTIMEOUT + silence

\* what is left of XFERTIMEOUT after so long without data: 0 when a slot is
\* found stalled on time, a number just below DSMOD when it is found later
rest(silence) == (XFERTIMEOUT + DSMOD - silence) % DSMOD

\* the end of TransferSlot::doio(): check again when the slot would have
\* stalled.  lastdata is a value the clock has had, so the silence is
\* shorter than the uptime.
backoffRest(silence) == backoffBy(rest(silence))

armed == next = 0 \/ ds >= next

\* Fault: arm() sets the timer whatever its state.
armableAlways == TRUE

\* Fault: the interval is taken off the trigger time.
armableBefore == (next + DSMOD - delta) % DSMOD > ds

armable == (next + delta) % DSMOD > ds

arm ==
    /\ armable
    /\ next' = ds
    /\ delta' = 1
    /\ UNCHANGED ds

\* Fault: the time of the trigger instead of the time left.
retryinAbsolute == IF armed THEN 0 ELSE next

retryin == IF armed THEN 0 ELSE next - ds

\* update(): an elapsed trigger is remembered as the earliest set time (1)
\* and makes the caller wait for nothing; a future one bounds the wait.
update ==
    /\ next # 0 /\ next <= ds
    /\ next' = 1
    /\ UNCHANGED <<ds, delta>>

\* Fault: an elapsed trigger does not end the wait.
updatedLate(waituntil) ==
    IF next # 0 /\ next > ds /\ next < waituntil THEN next ELSE waituntil

\* the value update() leaves in *waituntil
updated(waituntil) ==
    IF next # 0 /\ next <= ds THEN 0
    ELSE IF next # 0 /\ next < waituntil THEN next ELSE waituntil

\* Waiter::bumpds(), at any later time up to the bound
bumpds ==
    /\ ds' \in (ds + 1) .. MaxDs
    /\ UNCHANGED <<next, delta>>

Next ==
    \/ reset
    \/ backoff
    \/ \E d \in Deltas : backoffBy(d)
    \/ \E silence \in 0 .. ds - 1 : backoffRest(silence)
    \/ arm
    \/ update
    \/ bumpds

Spec == Init /\ [][Next]_vars

-----------------------------------------------------------------------------
TypeOK ==
    /\ ds \in 1 .. MaxDs
    /\ next \in 0 .. (MaxDs + Longest)
    /\ delta \in 0 .. DSMOD - 1

(* retryin() (backofftimer.cpp:74) is what exec() reports to the user with
   notify_retry() and what dispatch() ranks transfers by.  A stalled slot
   makes doio() back off by XFERTIMEOUT - silence, which wraps around to
   almost the whole range of dstime, and the interval stays in the timer for
   the next backoff(): still a retry is never further away than the longest
   interval that was asked for, because the trigger time wraps back to a
   moment that has passed. *)
RetryBounded == retryin <= Longest

(* abortbackoff() calls arm() on every timer to retry at once: no timer that
   is waiting refuses it, whatever intervals, 0 and wrapped ones included, it
   was backed off by before. *)
WaitCanBeCut == ~armed => armable

(* MegaClient::wait() passes the earliest time it knows to update() of
   every timer in turn: a set timer never lets the engine sleep past its
   trigger, an elapsed one makes it return at once, and an unset one leaves
   the deadline alone. *)
NeverOversleeps ==
    \A w \in 0 .. (MaxDs + Longest) :
        /\ updated(w) <= w
        /\ (next # 0 /\ armed) => updated(w) = 0
        /\ ~armed => updated(w) <= next
        /\ next = 0 => updated(w) = w

phase == IF next = 0 THEN "unset" ELSE IF ds >= next THEN "due" ELSE "waiting"

Abstract == INSTANCE RetryTimer

\* each call does what the three-state timer says of that call: an interval of
\* its own, or doubled from one, makes the timer wait, and only what is left of
\* a timeout may make it due at once
Calls ==
    /\ reset => Abstract!reset
    /\ backoff /\ delta \in 1 .. Longest => Abstract!backoff
    /\ \A d \in Deltas \ {0} : backoffBy(d) => Abstract!backoff
    /\ arm => Abstract!arm

(* The callers only distinguish unset, waiting and due: the numbers
   implement the three-state timer, call by call.  In particular arm()
   (abortbackoff()) on a timer that was never backed off must not set it,
   because MegaClient::exec() takes a set btcs for "the other request buffer
   holds a failed batch". *)
ImplementsRetryTimer == Abstract!Spec /\ [][Calls]_vars
=============================================================================

------------------------- MODULE BackoffTimerProofs -------------------------
(***************************************************************************)
(* The properties of module BackoffTimer for every word size, cap, set of  *)
(* explicit intervals and uptime that TimerAssumption allows: the type     *)
(* invariant, the bound on the retry time, that every wait can be cut      *)
(* short, and that the timer implements the three-state timer of module    *)
(* RetryTimer.  An interval is short, or it is the wrapped remainder of a  *)
(* timeout that has passed; the sum of the clock and a short one does not  *)
(* reach DSMOD, and the sum with a wrapped one wraps back to a time        *)
(* between 1 and the present.                                              *)
(***************************************************************************)
EXTENDS BackoffTimer, TLAPS

(* Below the word size, unsigned arithmetic is exact. *)
LEMMA ModSmall ==
    ASSUME NEW n \in Nat, NEW m \in Nat, n < m
    PROVE  n % m = n
  BY SMT

(* Above it, it drops one multiple of the word size. *)
LEMMA ModWrap ==
    ASSUME NEW n \in Nat, NEW m \in Nat, m <= n, n < 2 * m
    PROVE  n % m = n - m
  BY SMT

(* The remainder is below the word size. *)
LEMMA ModRange ==
    ASSUME NEW n \in Nat, NEW m \in Nat, 0 < m
    PROVE  n % m \in 0 .. m - 1
  BY SMT

(* An interval d at time t is at most Longest, or it is the negative of an
   excess that is smaller than the clock. *)
Interval(d, t) ==
    /\ d \in 0 .. DSMOD - 1
    /\ d <= Longest \/ t + d > DSMOD

(* The trigger time of either kind of interval: set, at most Longest ahead,
   and ahead only of a short interval. *)
LEMMA Trigger ==
    ASSUME NEW t \in 1 .. MaxDs, NEW d, Interval(d, t)
    PROVE  /\ (t + d) % DSMOD \in 1 .. (t + Longest)
           /\ (t + d) % DSMOD > t => d <= Longest
  <1> USE TimerAssumption
  <1>1. /\ t \in Nat /\ t >= 1 /\ t <= MaxDs
        /\ d \in Nat /\ d < DSMOD
        /\ DSMOD \in Nat /\ Longest \in Nat /\ MaxDs \in Nat
        /\ MaxDs + Longest < DSMOD
    BY DEF Interval
  <1>2. CASE d <= Longest
    <2>1. t + d \in Nat /\ t + d < DSMOD
      BY <1>1, <1>2
    <2>2. (t + d) % DSMOD = t + d
      BY <1>1, <2>1, ModSmall
    <2> QED BY <1>1, <1>2, <2>2
  <1>3. CASE t + d > DSMOD
    <2>1. t + d \in Nat /\ DSMOD <= t + d /\ t + d < 2 * DSMOD
      BY <1>1, <1>3
    <2>2. (t + d) % DSMOD = (t + d) - DSMOD
      BY <1>1, <2>1, ModWrap
    <2> QED BY <1>1, <1>3, <2>2
  <1> QED BY <1>2, <1>3 DEF Interval

(* What is left of XFERTIMEOUT is such an interval: short as long as the
   slot has not stalled, wrapped by less than the clock's value after. *)
LEMMA RestIsInterval ==
    ASSUME NEW t \in 1 .. MaxDs, NEW silence \in 0 .. t - 1
    PROVE  Interval(rest(silence), t)
  <1> USE TimerAssumption
  <1>1. /\ t \in Nat /\ t >= 1 /\ t <= MaxDs
        /\ silence \in Nat /\ silence < t
        /\ XFERTIMEOUT \in Nat /\ XFERTIMEOUT <= Longest
        /\ DSMOD \in Nat /\ Longest \in Nat /\ MaxDs \in Nat
        /\ MaxDs + Longest < DSMOD
    OBVIOUS
  <1> DEFINE n == XFERTIMEOUT + DSMOD - silence
  <1>2. n \in Nat
    BY <1>1
  <1>3. CASE silence <= XFERTIMEOUT
    <2>1. DSMOD <= n /\ n < 2 * DSMOD
      BY <1>1, <1>3
    <2>2. n % DSMOD = n - DSMOD
      BY <1>1, <1>2, <2>1, ModWrap
    <2>3. rest(silence) = XFERTIMEOUT - silence
      BY <1>1, <2>2 DEF rest
    <2> QED BY <1>1, <1>3, <2>3 DEF Interval
  <1>4. CASE silence > XFERTIMEOUT
    <2>1. n < DSMOD
      BY <1>1, <1>4
    <2>2. rest(silence) = n
      BY <1>1, <1>2, <2>1, ModSmall DEF rest
    <2>3. t + n > DSMOD
      BY <1>1
    <2> QED BY <1>2, <2>1, <2>2, <2>3, <1>1 DEF Interval
  <1> QED BY <1>1, <1>3, <1>4

(* The interval after this one is within the cap, whatever it was. *)
LEMMA DoubledIsShort ==
    ASSUME delta \in 0 .. DSMOD - 1
    PROVE  doubled \in 0 .. CAP
  <1> USE TimerAssumption
  <1>1. 2 * delta \in Nat /\ DSMOD \in Nat /\ 0 < DSMOD /\ CAP \in Nat
    OBVIOUS
  <1>2. (2 * delta) % DSMOD \in 0 .. DSMOD - 1
    BY <1>1, ModRange
  <1> QED BY <1>1, <1>2 DEF doubled

(* The inductive invariant.  The interval is of one of the two kinds, the
   trigger is at most Longest ahead, ahead only after a short interval, and
   an unset timer has the shortest interval, which keeps arm() from setting
   it. *)
TimerInv ==
    /\ TypeOK
    /\ Interval(delta, ds)
    /\ next <= ds + Longest
    /\ next > ds => delta <= Longest
    /\ next = 0 => delta = 1

(* The effect of an explicit backoff, by either kind of interval. *)
LEMMA BackoffByStep ==
    ASSUME TimerInv, NEW d, Interval(d, ds), backoffBy(d)
    PROVE  TimerInv'
  <1> USE TimerAssumption
  <1>1. ds \in 1 .. MaxDs /\ ds' = ds /\ delta' = d /\ next' = (ds + d) % DSMOD
    BY DEF TimerInv, TypeOK, backoffBy
  <1>2. next' \in 1 .. (ds + Longest) /\ (next' > ds => d <= Longest)
    BY <1>1, Trigger
  <1>3. Interval(delta', ds') /\ d \in 0 .. DSMOD - 1
    BY <1>1 DEF Interval
  <1>4. TypeOK'
    BY <1>1, <1>2, <1>3 DEF TypeOK
  <1> QED BY <1>1, <1>2, <1>3, <1>4 DEF TimerInv, Interval

(* Arithmetic: bounds relative to the clock survive its advance. *)
LEMMA LaterIsFurther ==
    ASSUME NEW t \in Nat, NEW u \in Nat, t < u,
           NEW n \in Nat, NEW c \in Nat, NEW d \in Nat, NEW m \in Nat
    PROVE  /\ n <= t + c => n <= u + c
           /\ n > u => n > t
           /\ t + d > m => u + d > m
  OBVIOUS

(* The invariant is preserved, one step per operation of the timer. *)
LEMMA TimerStep == TimerInv /\ [Next]_vars => TimerInv'
  <1> SUFFICES ASSUME TimerInv, [Next]_vars
               PROVE  TimerInv'
    OBVIOUS
  <1>a. /\ DSMOD \in Nat /\ CAP \in Nat /\ 1 <= CAP /\ CAP <= Longest
        /\ Longest \in Nat /\ MaxDs \in Nat /\ MaxDs >= 1
        /\ MaxDs + 2 * Longest < DSMOD
    BY TimerAssumption
  <1>0. /\ ds \in Nat /\ ds >= 1 /\ ds <= MaxDs
        /\ next \in Nat /\ next <= MaxDs + Longest
        /\ delta \in Nat /\ delta < DSMOD
    BY <1>a DEF TimerInv, TypeOK
  <1>1. CASE reset
    BY <1>a, <1>0, <1>1 DEF reset, TimerInv, TypeOK, Interval
  <1>2. CASE backoff
    <2>1. ds' = ds /\ delta' = doubled /\ next' = (ds + delta) % DSMOD
      BY <1>2 DEF backoff
    <2>2. doubled \in 0 .. CAP
      BY DoubledIsShort DEF TimerInv, TypeOK
    <2>3. next' \in 1 .. (ds + Longest)
      BY <2>1, Trigger DEF TimerInv, TypeOK
    <2> QED BY <1>a, <1>0, <2>1, <2>2, <2>3 DEF TimerInv, TypeOK, Interval
  <1>3. ASSUME NEW d \in Deltas, backoffBy(d)
        PROVE  TimerInv'
    <2>1. Interval(d, ds)
      BY <1>a, <1>0, TimerAssumption DEF Interval
    <2> QED BY <1>3, <2>1, BackoffByStep
  <1>4. ASSUME NEW silence \in 0 .. ds - 1, backoffRest(silence)
        PROVE  TimerInv'
    <2>1. Interval(rest(silence), ds)
      BY RestIsInterval DEF TimerInv, TypeOK
    <2> QED BY <1>4, <2>1, BackoffByStep DEF backoffRest
  <1>5. CASE arm
    BY <1>a, <1>0, <1>5 DEF arm, TimerInv, TypeOK, Interval
  <1>6. CASE update
    BY <1>a, <1>0, <1>6 DEF update, TimerInv, TypeOK, Interval
  <1>7. CASE bumpds
    <2>1. ds' \in 1 .. MaxDs /\ ds < ds' /\ next' = next /\ delta' = delta
      BY <1>a, <1>0, <1>7 DEF bumpds
    <2>2. TypeOK'
      BY <2>1 DEF TimerInv, TypeOK
    <2>3. ds' \in Nat
      BY <1>a, <2>1
    <2>4. /\ next <= ds' + Longest /\ (next > ds' => next > ds)
          /\ ds + delta > DSMOD => ds' + delta > DSMOD
      BY <1>a, <1>0, <2>1, <2>3, LaterIsFurther DEF TimerInv
    <2>5. Interval(delta', ds')
      BY <2>1, <2>4 DEF TimerInv, Interval
    <2> QED BY <2>1, <2>2, <2>4, <2>5 DEF TimerInv
  <1>8. CASE UNCHANGED vars
    BY <1>8 DEF vars, TimerInv, TypeOK, Interval
  <1> QED BY <1>1, <1>2, <1>3, <1>4, <1>5, <1>6, <1>7, <1>8 DEF Next

(* It holds when the timer is constructed. *)
LEMMA TimerInit == Init => TimerInv
  BY TimerAssumption DEF Init, TimerInv, TypeOK, Interval

(* TypeOK: the clock, the trigger time and the interval stay in their
   ranges, whatever sequence of reset(), backoff(), arm() and update() the
   engine goes through, the wrapped remainders of a stall included. *)
THEOREM TypeCorrect == Spec => []TypeOK
  <1>1. TimerInv => TypeOK
    BY DEF TimerInv
  <1> QED BY <1>1, TimerInit, TimerStep, PTL DEF Spec

(* retryin(), which is shown to the user and ranks the queued transfers,
   never exceeds the longest interval that any caller asked for, although
   doio() passes an interval that wraps around after a stall. *)
THEOREM RetryBound == Spec => []RetryBounded
  <1>1. TimerInv => RetryBounded
    BY TimerAssumption DEF TimerInv, TypeOK, RetryBounded, retryin, armed
  <1> QED BY <1>1, TimerInit, TimerStep, PTL DEF Spec

(* arm() succeeds on every timer that is waiting, so abortbackoff() ends
   every wait. *)
THEOREM EveryWaitCanBeCut == Spec => []WaitCanBeCut
  <1>1. TimerInv => WaitCanBeCut
    <2> SUFFICES ASSUME TimerInv, ~armed
                 PROVE  (next + delta) % DSMOD > ds
      BY DEF WaitCanBeCut, armable
    <2>1. /\ ds \in Nat /\ ds <= MaxDs /\ next \in Nat /\ next > ds
          /\ delta \in Nat /\ delta <= Longest /\ next <= ds + Longest
          /\ DSMOD \in Nat /\ Longest \in Nat /\ MaxDs \in Nat
          /\ MaxDs + 2 * Longest < DSMOD
      BY TimerAssumption DEF TimerInv, TypeOK, armed
    <2>2. next + delta \in Nat /\ next + delta < DSMOD
      BY <2>1
    <2>3. (next + delta) % DSMOD = next + delta
      BY <2>1, <2>2, ModSmall
    <2> QED BY <2>1, <2>3
  <1> QED BY <1>1, TimerInit, TimerStep, PTL DEF Spec

(* update() never lets MegaClient::wait() sleep past a trigger, ends the
   wait for an elapsed one, and ignores a timer that is not set. *)
THEOREM WaitIsBounded == Spec => []NeverOversleeps
  <1>1. TypeOK => NeverOversleeps
    BY TimerAssumption DEF TypeOK, NeverOversleeps, updated, armed
  <1> QED BY <1>1, TypeCorrect, PTL

(* arm() does not set a timer that is unset. *)
LEMMA UnsetRefuses == ASSUME TimerInv, arm PROVE next # 0
  <1>1. ds \in Nat /\ ds >= 1 /\ DSMOD \in Nat /\ DSMOD > 1
    BY TimerAssumption DEF TimerInv, TypeOK
  <1> SUFFICES ASSUME next = 0
               PROVE  FALSE
    OBVIOUS
  <1>2. (next + delta) % DSMOD = 1
    BY <1>1, ModSmall DEF TimerInv
  <1> QED BY <1>1, <1>2 DEF arm, armable

(* Every operation of the numeric timer is an operation of the three-state
   timer or leaves its state alone. *)
LEMMA RefinementStep == TimerInv /\ [Next]_vars => [Abstract!Next]_phase
  <1> SUFFICES ASSUME TimerInv, [Next]_vars
               PROVE  [Abstract!Next]_phase
    OBVIOUS
  <1>0. /\ ds \in Nat /\ ds >= 1 /\ next \in Nat /\ delta \in Nat
        /\ DSMOD \in Nat /\ DSMOD > 1
    BY TimerAssumption DEF TimerInv, TypeOK
  <1> USE <1>0 DEF Abstract!Next, phase
  <1>9. ASSUME NEW d, Interval(d, ds), ds' = ds, next' = (ds + d) % DSMOD
        PROVE  [Abstract!Next]_phase
    <2>1. next' \in Nat /\ next' >= 1
      BY <1>9, Trigger, TimerAssumption DEF TimerInv, TypeOK
    <2> QED BY <1>9, <2>1 DEF Abstract!backoffRest
  <1>1. CASE reset
    BY <1>1 DEF reset, Abstract!reset
  <1>2. CASE backoff
    BY <1>2, <1>9 DEF backoff, TimerInv
  <1>3. ASSUME NEW d \in Deltas, backoffBy(d)
        PROVE  [Abstract!Next]_phase
    <2>1. Interval(d, ds)
      BY TimerAssumption DEF Interval
    <2> QED BY <1>3, <1>9, <2>1 DEF backoffBy
  <1>4. ASSUME NEW silence \in 0 .. ds - 1, backoffRest(silence)
        PROVE  [Abstract!Next]_phase
    <2>1. Interval(rest(silence), ds)
      BY RestIsInterval DEF TimerInv, TypeOK
    <2> QED BY <1>4, <1>9, <2>1 DEF backoffRest, backoffBy
  <1>5. CASE arm
    <2>1. next # 0
      BY <1>5, UnsetRefuses
    <2> QED BY <1>5, <2>1 DEF arm, Abstract!arm
  <1>6. CASE update
    BY <1>6 DEF update
  <1>7. CASE bumpds
    <2>1. ds' \in Nat /\ ds' >= ds /\ next' = next
      BY <1>7, TimerAssumption DEF bumpds
    <2> QED BY <2>1 DEF Abstract!elapse
  <1>8. CASE UNCHANGED vars
    BY <1>8 DEF vars
  <1> QED BY <1>1, <1>2, <1>3, <1>4, <1>5, <1>6, <1>7, <1>8 DEF Next

(* Each call of the numeric timer is that call of the three-state timer. *)
LEMMA CallsStep == ASSUME TimerInv PROVE Calls
  <1>0. /\ ds \in Nat /\ ds >= 1 /\ ds <= MaxDs /\ next \in Nat /\ delta \in Nat
        /\ DSMOD \in Nat /\ DSMOD > 1 /\ Longest \in Nat /\ MaxDs \in Nat
        /\ MaxDs + 2 * Longest < DSMOD
    BY TimerAssumption DEF TimerInv, TypeOK
  <1> USE <1>0 DEF phase
  <1>1. ASSUME NEW d \in 1 .. Longest, ds' = ds, next' = (ds + d) % DSMOD
        PROVE  Abstract!backoff
    <2>1. ds + d \in Nat /\ ds + d < DSMOD
      OBVIOUS
    <2>2. next' = ds + d
      BY <1>1, <2>1, ModSmall
    <2> QED BY <1>1, <2>2 DEF Abstract!backoff
  <1>2. reset => Abstract!reset
    BY DEF reset, Abstract!reset
  <1>3. backoff /\ delta \in 1 .. Longest => Abstract!backoff
    BY <1>1 DEF backoff
  <1>4. ASSUME NEW d \in Deltas \ {0}, backoffBy(d)
        PROVE  Abstract!backoff
    <2>1. d \in 1 .. Longest
      BY TimerAssumption
    <2> QED BY <1>1, <1>4, <2>1 DEF backoffBy
  <1>5. ASSUME arm
        PROVE  Abstract!arm
    <2>1. next # 0
      BY <1>5, UnsetRefuses
    <2> QED BY <1>5, <2>1 DEF arm, Abstract!arm
  <1> QED BY <1>2, <1>3, <1>4, <1>5 DEF Calls

(* The numeric timer implements the three-state timer that the components'
   modules instantiate, call by call. *)
THEOREM Refinement == Spec => ImplementsRetryTimer
  <1>1. Init => Abstract!Init
    BY DEF Init, Abstract!Init, phase
  <1>2. TimerInv => Calls
    BY CallsStep
  <1> QED BY <1>1, <1>2, TimerInit, TimerStep, RefinementStep, PTL
          DEF Spec, ImplementsRetryTimer, Abstract!Spec
=============================================================================

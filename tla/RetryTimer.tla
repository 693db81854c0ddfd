----------------------------- MODULE RetryTimer -----------------------------
(***************************************************************************)
(* What the engine's control flow tells apart in a BackoffTimer            *)
(* (include/mega/backofftimer.h): whether a trigger time is set at all     *)
(* (nextset(): next # 0) and whether it has passed (armed()).              *)
(*                                                                         *)
(*   "unset"    next = 0                                                   *)
(*   "waiting"  next > Waiter::ds                                          *)
(*   "due"      0 < next <= Waiter::ds                                     *)
(*                                                                         *)
(* Module BackoffTimer has the numbers and is shown to implement Spec;     *)
(* the components instantiate this module with their own timer as phase.   *)
(***************************************************************************)
VARIABLE phase

Phases == {"unset", "waiting", "due"}

armed   == phase # "waiting"
nextset == phase # "unset"

Init == phase = "unset"

reset   == phase' = "unset"
backoff == phase' = "waiting"

\* a backoff by what is left of a timeout, or one that doubles such an
\* interval: nothing left makes the timer due at once
backoffRest == phase' \in {"waiting", "due"}

\* arm() pulls a pending trigger to now; it never sets an unset timer
arm == phase' = IF phase = "waiting" THEN "due" ELSE phase

\* the clock passes the trigger time
elapse == phase = "waiting" /\ phase' = "due"

Next == reset \/ backoff \/ backoffRest \/ arm \/ elapse

Spec == Init /\ [][Next]_phase
=============================================================================

------------------------------ MODULE Induction ------------------------------
(***************************************************************************)
(* Induction over the natural numbers in first-order form (a property is   *)
(* given as the set of the numbers that have it), and with it the sums     *)
(* that the code computes in loops.                                        *)
(***************************************************************************)
EXTENDS Naturals, WellFoundedInduction, TLAPS

(* Every nonempty set of natural numbers has a least element. *)
LEMMA LeastNat ==
    ASSUME NEW T, T \subseteq Nat, T # {}
    PROVE  \E n \in T : \A m \in T : n <= m
  <1> DEFINE R == {p \in Nat \X Nat : p[1] < p[2]}
  <1>1. IsWellFoundedOn(R, Nat)
    BY NatLessThanWellFounded, Zenon DEF OpToRel
  <1>2. \A a, b \in Nat : a < b => <<a, b>> \in R
    <2> TAKE a, b \in Nat
    <2> HAVE a < b
    <2> DEFINE p == <<a, b>>
    <2>1. p \in Nat \X Nat /\ p[1] = a /\ p[2] = b
      OBVIOUS
    <2> HIDE DEF p
    <2>2. p \in R
      BY <2>1
    <2> QED BY <2>2 DEF p
  <1> HIDE DEF R
  <1>3. PICK n \in T : \A m \in T : ~(<<m, n>> \in R)
    BY <1>1, WFMin
  <1>4. \A m \in T : ~(m < n)
    BY <1>2, <1>3
  <1> QED BY <1>4

(* Induction on the natural numbers, over sets. *)
LEMMA SetInduction ==
    ASSUME NEW S, 0 \in S, \A n \in Nat : n \in S => n + 1 \in S
    PROVE  Nat \subseteq S
  <1> SUFFICES ASSUME Nat \ S # {} PROVE FALSE
    OBVIOUS
  <1>1. PICK n \in Nat \ S : \A m \in Nat \ S : n <= m
    BY LeastNat
  <1>2. n - 1 \in Nat
    OBVIOUS
  <1>3. n - 1 \in S
    BY <1>1, <1>2
  <1> QED BY <1>2, <1>3

-----------------------------------------------------------------------------
(* Sums that a loop computes *)

Below(N) == 0 .. N - 1

\* f[n] is the sum of the first n of the N weights w
IsSum(f, N, w) ==
    f = [n \in 0 .. N |-> IF n = 0 THEN 0 ELSE f[n - 1] + w[n - 1]]

Sum(N, w) == CHOOSE f : IsSum(f, N, w)

(* There is such a function. *)
LEMMA SumExists ==
    ASSUME NEW N \in Nat, NEW w
    PROVE  IsSum(Sum(N, w), N, w)
  <1> DEFINE S == {k \in Nat : \E f :
                      f = [n \in 0 .. k |-> IF n = 0 THEN 0 ELSE f[n - 1] + w[n - 1]]}
  <1>1. 0 \in S
    <2> DEFINE g == [n \in 0 .. 0 |-> 0]
    <2>1. g = [n \in 0 .. 0 |-> IF n = 0 THEN 0 ELSE g[n - 1] + w[n - 1]]
      OBVIOUS
    <2> QED BY <2>1
  <1>2. ASSUME NEW k \in Nat, k \in S PROVE k + 1 \in S
    <2>1. PICK f : f = [n \in 0 .. k |-> IF n = 0 THEN 0 ELSE f[n - 1] + w[n - 1]]
      BY <1>2
    <2> DEFINE g == [n \in 0 .. k + 1 |-> IF n <= k THEN f[n] ELSE f[k] + w[k]]
    <2>2. ASSUME NEW n \in 0 .. k + 1
          PROVE  g[n] = IF n = 0 THEN 0 ELSE g[n - 1] + w[n - 1]
      <3>1. CASE n = 0
        BY <2>1, <3>1
      <3>2. CASE n # 0 /\ n <= k
        <4>1. n - 1 \in 0 .. k + 1 /\ n - 1 <= k /\ n \in 0 .. k
          BY <3>2
        <4>2. g[n - 1] = f[n - 1] /\ g[n] = f[n]
          BY <4>1, <3>2
        <4>3. f[n] = f[n - 1] + w[n - 1]
          BY <2>1, <3>2, <4>1
        <4> QED BY <3>2, <4>2, <4>3
      <3>3. CASE n = k + 1
        <4>1. n # 0 /\ n - 1 = k
          BY <3>3
        <4>2. g[k] = f[k] /\ g[n] = f[k] + w[k]
          BY <3>3
        <4> HIDE DEF g
        <4> QED BY <4>1, <4>2
      <3> QED BY <3>1, <3>2, <3>3
    <2>3. g = [n \in 0 .. k + 1 |-> IF n = 0 THEN 0 ELSE g[n - 1] + w[n - 1]]
      <3>1. g = [n \in 0 .. k + 1 |-> g[n]]
        OBVIOUS
      <3> HIDE DEF g
      <3> QED BY <2>2, <3>1, Zenon
    <2> HIDE DEF g
    <2>4. \E h : h = [n \in 0 .. k + 1 |-> IF n = 0 THEN 0 ELSE h[n - 1] + w[n - 1]]
      BY <2>3, Zenon
    <2>5. k + 1 \in Nat
      OBVIOUS
    <2> QED BY <2>4, <2>5, Zenon
  <1> HIDE DEF S
  <1>3. N \in S
    BY <1>1, <1>2, SetInduction
  <1>4. \E f : IsSum(f, N, w)
    BY <1>3, Zenon DEF S, IsSum
  <1> QED BY <1>4, Zenon DEF Sum

(* Recurrence and type. *)
LEMMA SumIs ==
    ASSUME NEW N \in Nat, NEW f, NEW w \in [Below(N) -> Nat], IsSum(f, N, w)
    PROVE  /\ f \in [0 .. N -> Nat]
           /\ f[0] = 0
           /\ \A n \in Nat : n + 1 <= N => n \in Below(N) /\ f[n + 1] = f[n] + w[n]
  <1>1. f[0] = 0
    BY DEF IsSum
  <1>2. ASSUME NEW n \in Nat, n + 1 <= N
        PROVE  n \in Below(N) /\ f[n + 1] = f[n] + w[n]
    <2>1. n + 1 \in 0 .. N /\ n + 1 # 0 /\ (n + 1) - 1 = n /\ n \in Below(N)
      BY <1>2 DEF Below
    <2>2. \A m \in 0 .. N : f[m] = IF m = 0 THEN 0 ELSE f[m - 1] + w[m - 1]
      BY Zenon DEF IsSum
    <2>3. f[n + 1] = IF n + 1 = 0 THEN 0 ELSE f[(n + 1) - 1] + w[(n + 1) - 1]
      BY <2>1, <2>2, Zenon
    <2> QED BY <2>1, <2>3
  <1> DEFINE S == {n \in Nat : n <= N => f[n] \in Nat}
  <1>3. 0 \in S
    BY <1>1
  <1>4. ASSUME NEW n \in Nat, n \in S PROVE n + 1 \in S
    BY <1>2, <1>4
  <1> HIDE DEF S
  <1>5. \A n \in 0 .. N : f[n] \in Nat
    <2>1. Nat \subseteq S
      BY <1>3, <1>4, SetInduction
    <2> QED BY <2>1 DEF S
  <1>6. f = [n \in 0 .. N |-> f[n]]
    BY Zenon DEF IsSum
  <1> QED BY <1>1, <1>2, <1>5, <1>6

(* One more weight, one larger sum. *)
LEMMA SumAdd ==
    ASSUME NEW N \in Nat, NEW f, NEW v \in [Below(N) -> Nat], IsSum(f, N, v),
           NEW g, NEW w \in [Below(N) -> Nat], IsSum(g, N, w),
           NEW c \in Below(N), NEW k \in Nat, v[c] = w[c] + k,
           \A i \in Below(N) \ {c} : v[i] = w[i]
    PROVE  f[N] = g[N] + k
  <1>f. /\ f \in [0 .. N -> Nat] /\ f[0] = 0
        /\ \A n \in Nat : n + 1 <= N => n \in Below(N) /\ f[n + 1] = f[n] + v[n]
    BY SumIs, Zenon
  <1>g. /\ g \in [0 .. N -> Nat] /\ g[0] = 0
        /\ \A n \in Nat : n + 1 <= N => n \in Below(N) /\ g[n + 1] = g[n] + w[n]
    BY SumIs, Zenon
  <1>0. c \in Nat /\ c + 1 <= N
    BY DEF Below
  <1> DEFINE S == {n \in Nat : n <= N => f[n] = g[n] + IF n <= c THEN 0 ELSE k}
  <1>1. 0 \in S
    BY <1>0, <1>f, <1>g
  <1>2. ASSUME NEW n \in Nat, n \in S PROVE n + 1 \in S
    <2> SUFFICES ASSUME n + 1 <= N
                 PROVE  f[n + 1] = g[n + 1] + IF n + 1 <= c THEN 0 ELSE k
      OBVIOUS
    <2>1. /\ n \in Below(N) /\ f[n + 1] = f[n] + v[n] /\ g[n + 1] = g[n] + w[n]
          /\ f[n] \in Nat /\ g[n] \in Nat
      BY <1>f, <1>g
    <2>2. f[n] = g[n] + IF n <= c THEN 0 ELSE k
      BY <1>2
    <2>3. w[n] \in Nat
      BY <2>1
    <2> QED BY <1>0, <2>1, <2>2, <2>3
  <1> HIDE DEF S
  <1>3. N \in S
    BY <1>1, <1>2, SetInduction
  <1> QED BY <1>0, <1>3 DEF S

(* Equal sums of ordered weights are sums of equal weights. *)
LEMMA SumEqual ==
    ASSUME NEW N \in Nat, NEW f, NEW v \in [Below(N) -> Nat], IsSum(f, N, v),
           NEW g, NEW w \in [Below(N) -> Nat], IsSum(g, N, w),
           \A i \in Below(N) : w[i] <= v[i], f[N] = g[N]
    PROVE  \A i \in Below(N) : v[i] = w[i]
  <1>f. /\ f \in [0 .. N -> Nat] /\ f[0] = 0
        /\ \A n \in Nat : n + 1 <= N => n \in Below(N) /\ f[n + 1] = f[n] + v[n]
    BY SumIs, Zenon
  <1>g. /\ g \in [0 .. N -> Nat] /\ g[0] = 0
        /\ \A n \in Nat : n + 1 <= N => n \in Below(N) /\ g[n + 1] = g[n] + w[n]
    BY SumIs, Zenon
  <1> DEFINE S == {n \in Nat : n <= N =>
                      /\ g[n] <= f[n]
                      /\ f[n] = g[n] => \A i \in Below(N) : i < n => v[i] = w[i]}
  <1>1. 0 \in S
    BY <1>f, <1>g DEF Below
  <1>2. ASSUME NEW n \in Nat, n \in S PROVE n + 1 \in S
    <2> SUFFICES ASSUME n + 1 <= N
                 PROVE  /\ g[n + 1] <= f[n + 1]
                        /\ f[n + 1] = g[n + 1] =>
                               \A i \in Below(N) : i < n + 1 => v[i] = w[i]
      OBVIOUS
    <2>1. /\ n \in Below(N) /\ f[n + 1] = f[n] + v[n] /\ g[n + 1] = g[n] + w[n]
          /\ f[n] \in Nat /\ g[n] \in Nat
      BY <1>f, <1>g
    <2>2. g[n] <= f[n] /\ (f[n] = g[n] => \A i \in Below(N) : i < n => v[i] = w[i])
      BY <1>2
    <2>3. v[n] \in Nat /\ w[n] \in Nat /\ w[n] <= v[n]
      BY <2>1
    <2>4. g[n + 1] <= f[n + 1] /\ (f[n + 1] = g[n + 1] => f[n] = g[n] /\ v[n] = w[n])
      BY <2>1, <2>2, <2>3
    <2>5. \A i \in Below(N) : i < n + 1 => i < n \/ i = n
      BY DEF Below
    <2> QED BY <2>2, <2>4, <2>5
  <1> HIDE DEF S
  <1>3. N \in S
    BY <1>1, <1>2, SetInduction
  <1> QED BY <1>3 DEF S, Below

(* Nothing adds up to nothing. *)
LEMMA SumZero ==
    ASSUME NEW N \in Nat, NEW f, NEW w \in [Below(N) -> Nat], IsSum(f, N, w),
           \A i \in Below(N) : w[i] = 0
    PROVE  f[N] = 0
  <1>1. /\ f[0] = 0
        /\ \A n \in Nat : n + 1 <= N => n \in Below(N) /\ f[n + 1] = f[n] + w[n]
    BY SumIs
  <1> DEFINE S == {n \in Nat : n <= N => f[n] = 0}
  <1>2. 0 \in S
    BY <1>1
  <1>3. ASSUME NEW n \in Nat, n \in S PROVE n + 1 \in S
    BY <1>1, <1>3
  <1> HIDE DEF S
  <1>4. N \in S
    BY <1>2, <1>3, SetInduction
  <1> QED BY <1>4 DEF S
=============================================================================

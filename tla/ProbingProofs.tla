---------------------------- MODULE ProbingProofs ----------------------------
(***************************************************************************)
(* What the probe sequence of Probing does, for every array and every home *)
(* slot: it stays in the array, stops in at most one slot, stops where a   *)
(* key was put, and does stop if a slot is empty.                          *)
(***************************************************************************)
EXTENDS Probing, TLAPS, WellFoundedInduction

(* A product of a positive natural number by n is at least n. *)
LEMMA AtLeastOnce ==
  ASSUME NEW a \in Nat, NEW n \in Nat, a >= 1
  PROVE  a * n >= n
<1>1. a = (a - 1) + 1  OBVIOUS
<1>2. a * n = (a - 1) * n + n  BY <1>1
<1>3. (a - 1) * n >= 0  OBVIOUS
<1> QED  BY <1>2, <1>3

(* The remainder is the only one: n times something plus r leaves r. *)
LEMMA RemainderUnique ==
  ASSUME NEW q \in Nat, NEW n \in Nat, n > 0, NEW r \in 0 .. n-1
  PROVE  (q * n + r) % n = r
<1> DEFINE x == q * n + r
           d == x \div n
           m == x % n
<1>1. x \in Nat  OBVIOUS
<1>2. m \in 0 .. n-1 /\ d \in Nat /\ x = d * n + m  BY <1>1
<1> HIDE DEF d, m
<1>3. q * n + r = d * n + m  BY <1>2
<1>4. CASE q > d
  <2>1. (q - d) * n >= n  BY <1>2, <1>4, AtLeastOnce
  <2>2. (q - d) * n = q * n - d * n  BY <1>2
  <2> QED  BY <2>1, <2>2, <1>2, <1>3
<1>5. CASE d > q
  <2>1. (d - q) * n >= n  BY <1>2, <1>5, AtLeastOnce
  <2>2. (d - q) * n = d * n - q * n  BY <1>2
  <2> QED  BY <2>1, <2>2, <1>2, <1>3
<1>6. CASE q = d
  <2>1. m = r  BY <1>2, <1>3, <1>6
  <2> QED  BY <2>1 DEF m
<1> QED  BY <1>4, <1>5, <1>6, <1>2

(* A non-empty set of natural numbers has a least one. *)
LEMMA LeastNatural ==
  ASSUME NEW S \in SUBSET Nat, S # {}
  PROVE  \E m \in S : \A k \in S : m <= k
<1> DEFINE R == OpToRel(<, Nat)
<1>1. IsWellFoundedOn(R, Nat)  BY NatLessThanWellFounded
<1>2. R = {ss \in Nat \X Nat : ss[1] < ss[2]}  BY DEF OpToRel
<1> HIDE DEF R
<1>3. PICK x \in S : \A y \in S : ~ (<<y, x>> \in R)  BY <1>1, WFMin
<1>4. ASSUME NEW k \in S PROVE x <= k
  <2>1. x \in Nat /\ k \in Nat  OBVIOUS
  <2>2. ~ (<<k, x>> \in R)  BY <1>3
  <2>3. <<k, x>>[1] = k /\ <<k, x>>[2] = x  OBVIOUS
  <2>4. <<k, x>> \in Nat \X Nat  BY <2>1
  <2>5. ~ (k < x)  BY <2>2, <2>3, <2>4, <1>2
  <2> QED  BY <2>1, <2>5
<1> QED  BY <1>4

(* Induction up to n: what holds at 0 and is handed on holds everywhere.    *)
LEMMA UpTo ==
  ASSUME NEW n \in Nat, NEW good, 0 \in good,
         \A k \in 1 .. n : k - 1 \in good => k \in good
  PROVE  0 .. n \subseteq good
<1>1. SUFFICES ASSUME NEW bad \in (0 .. n) \ good PROVE FALSE
      OBVIOUS
<1> DEFINE rest == (0 .. n) \ good
<1>2. rest \in SUBSET Nat /\ rest # {}  BY <1>1
<1> HIDE DEF rest
<1>3. PICK m \in rest : \A k \in rest : m <= k
      BY <1>2, LeastNatural
<1>4. m \in (0 .. n) \ good /\ \A k \in (0 .. n) \ good : m <= k
      BY <1>3 DEF rest
<1>5. m # 0 /\ m \in 1 .. n  BY <1>4
<1>6. m - 1 \in 0 .. n /\ ~ (m <= m - 1)  BY <1>5
<1>7. m - 1 \in good  BY <1>4, <1>6
<1> QED  BY <1>4, <1>5, <1>7

(* The runs of n steps from a base, in a set S. *)
Run(n, S, base, step) ==
  {f \in [0 .. n -> S] : /\ f[0] = base
                         /\ \A k \in 1 .. n : f[k] = step[k][f[k-1]]}

(* A run exists when the steps lead from S to S: the recursive functions.   *)
LEMMA Recursion ==
  ASSUME NEW n \in Nat, NEW S, NEW base \in S, NEW step \in [1 .. n -> [S -> S]]
  PROVE  \E f : f \in Run(n, S, base, step)
<1> DEFINE Is(f, m) == /\ f \in [0 .. m -> S] /\ f[0] = base
                       /\ \A k \in 1 .. m : f[k] = step[k][f[k-1]]
           good == {m \in 0 .. n : \E f : Is(f, m)}
<1> HIDE DEF Is
<1>1. 0 \in good
  <2>1. Is([k \in 0 .. 0 |-> base], 0)  BY DEF Is
  <2> QED  BY <2>1
<1>2. ASSUME NEW k \in 1 .. n, k - 1 \in good PROVE k \in good
  <2>1. PICK f : Is(f, k - 1)  BY <1>2
  <2>2. f \in [0 .. k-1 -> S] /\ f[0] = base
        /\ \A j \in 1 .. k-1 : f[j] = step[j][f[j-1]]
        BY <2>1 DEF Is
  <2> DEFINE last == step[k][f[k-1]]
             g == [j \in 0 .. k |-> IF j = k THEN last ELSE f[j]]
  <2>3. last \in S  BY <2>2
  <2>4. \A j \in 0 .. k-1 : g[j] = f[j]  OBVIOUS
  <2>5. g[k] = last  OBVIOUS
  <2>6. g \in [0 .. k -> S]  BY <2>2, <2>3
  <2> HIDE DEF g
  <2>7. ASSUME NEW j \in 1 .. k PROVE g[j] = step[j][g[j-1]]
    <3>1. CASE j = k  BY <3>1, <2>4, <2>5
    <3>2. CASE j # k
      <4>1. j \in 1 .. k-1 /\ j - 1 \in 0 .. k-1  BY <3>2
      <4> QED  BY <4>1, <2>2, <2>4
    <3> QED  BY <3>1, <3>2
  <2>8. g[0] = base  BY <2>2, <2>4
  <2>9. Is(g, k)  BY <2>6, <2>7, <2>8 DEF Is
  <2> QED  BY <2>9
<1>3. 0 .. n \subseteq good
  <2> HIDE DEF good
  <2> QED  BY <1>1, <1>2, UpTo
<1>4. n \in good  BY <1>3
<1>5. PICK f : Is(f, n)  BY <1>4
<1> QED  BY <1>5 DEF Is, Run

-----------------------------------------------------------------------------
(* The loop of _get_index never leaves the array. *)
LEMMA ProbeInSlots ==
  ASSUME NEW n \in Nat, n > 0, NEW home \in Nat, NEW j \in 0 .. n-1
  PROVE  Probe(n, home, j) \in 0 .. n-1
BY DEF Probe

(* Before it is back where it started, it has looked at every slot. *)
LEMMA ProbeCoversSlots ==
  ASSUME NEW n \in Nat, n > 0, NEW home \in Nat, NEW slot \in 0 .. n-1
  PROVE  \E j \in 0 .. n-1 : Probe(n, home, j) = slot
<1> DEFINE r == home % n
           d == home \div n
<1>1. r \in 0 .. n-1 /\ d \in Nat /\ home = d * n + r  OBVIOUS
<1> HIDE DEF r, d
<1>2. CASE slot >= r
  <2>1. home + (slot - r) = d * n + slot  BY <1>1
  <2>2. slot - r \in 0 .. n-1  BY <1>1, <1>2
  <2> QED  BY <2>1, <2>2, <1>1, RemainderUnique DEF Probe
<1>3. CASE slot < r
  <2>1. home + (slot - r + n) = (d + 1) * n + slot  BY <1>1
  <2>2. slot - r + n \in 0 .. n-1  BY <1>1, <1>3
  <2>3. d + 1 \in Nat  BY <1>1
  <2> QED  BY <2>1, <2>2, <2>3, RemainderUnique DEF Probe
<1> QED  BY <1>1, <1>2, <1>3

(* Where the search stops there is an empty slot or the key. *)
LEMMA StopsAtSlot ==
  ASSUME NEW n \in Nat, n > 0, NEW home \in Nat, NEW at, NEW key,
         NEW index \in StopsAt(at, n, home, key)
  PROVE  index \in 0 .. n-1 /\ at[index] \in {None, key}
<1>1. PICK j \in 0 .. n-1 : /\ index = Probe(n, home, j)
                            /\ at[Probe(n, home, j)] \in {None, key}
      BY DEF StopsAt
<1>2. Probe(n, home, j) \in 0 .. n-1  BY ProbeInSlots
<1> QED  BY <1>1, <1>2

(* A key whose slot is on its probe sequence, with only other keys before   *)
(* it, is where the search for that key stops.                              *)
Reached(at, n, home, key, slot) ==
  \E j \in 0 .. n-1 : Probe(n, home, j) = slot /\ PassesBy(at, n, home, key, j)

LEMMA StopsOnlyThere ==
  ASSUME NEW n \in Nat, NEW home \in Nat, NEW at, NEW key, NEW slot,
         at[slot] \in {None, key}, Reached(at, n, home, key, slot)
  PROVE  StopsAt(at, n, home, key) = {slot}
<1>1. PICK j \in 0 .. n-1 : Probe(n, home, j) = slot /\ PassesBy(at, n, home, key, j)
      BY DEF Reached
<1>2. slot \in StopsAt(at, n, home, key)  BY <1>1 DEF StopsAt
<1>3. ASSUME NEW other \in StopsAt(at, n, home, key) PROVE other = slot
  <2>1. PICK i \in 0 .. n-1 : /\ other = Probe(n, home, i)
                              /\ PassesBy(at, n, home, key, i)
                              /\ at[Probe(n, home, i)] \in {None, key}
        BY <1>3 DEF StopsAt
  <2>2. ~ (j < i)  BY <1>1, <2>1 DEF PassesBy
  <2>3. ~ (i < j)  BY <1>1, <2>1 DEF PassesBy
  <2> QED  BY <2>1, <2>2, <2>3, <1>1
<1> QED  BY <1>2, <1>3

(* The home slot is reached. *)
LEMMA HomeIsReached ==
  ASSUME NEW n \in Nat, n > 0, NEW home, NEW at, NEW key
  PROVE  Reached(at, n, home, key, Probe(n, home, 0))
<1>1. 0 \in 0 .. n-1 /\ 0 .. 0-1 = {}  OBVIOUS
<1> QED  BY <1>1 DEF Reached, PassesBy

(* A slot where the search stops is reached. *)
LEMMA StopsWhereReached ==
  ASSUME NEW n, NEW home, NEW at, NEW key, NEW index \in StopsAt(at, n, home, key)
  PROVE  Reached(at, n, home, key, index)
BY DEF StopsAt, Reached

(* Filling an empty slot closes no path: the slot was on none of them. *)
LEMMA FillingKeepsPath ==
  ASSUME NEW n \in Nat, n > 0, NEW home \in Nat, NEW key, NEW slot, NEW index,
         NEW at, NEW filled,
         at[index] = None,
         \A s \in 0 .. n-1 : s # index => filled[s] = at[s],
         Reached(at, n, home, key, slot)
  PROVE  Reached(filled, n, home, key, slot)
<1>1. PICK j \in 0 .. n-1 : Probe(n, home, j) = slot /\ PassesBy(at, n, home, key, j)
      BY DEF Reached
<1>2. ASSUME NEW i \in 0 .. j-1
      PROVE  filled[Probe(n, home, i)] \notin {None, key}
  <2>1. at[Probe(n, home, i)] \notin {None, key}  BY <1>1 DEF PassesBy
  <2>2. i \in 0 .. n-1  OBVIOUS
  <2>3. Probe(n, home, i) \in 0 .. n-1  BY <2>2, ProbeInSlots
  <2> QED  BY <2>1, <2>3
<1> QED  BY <1>1, <1>2 DEF Reached, PassesBy

(* With an empty slot in the array every search stops. *)
LEMMA SearchEnds ==
  ASSUME NEW n \in Nat, n > 0, NEW home \in Nat, NEW at, NEW key,
         NEW slot \in 0 .. n-1, at[slot] = None
  PROVE  StopsAt(at, n, home, key) # {}
<1> DEFINE S == {j \in 0 .. n-1 : at[Probe(n, home, j)] \in {None, key}}
<1>1. S # {}
  <2>1. PICK j \in 0 .. n-1 : Probe(n, home, j) = slot  BY ProbeCoversSlots
  <2> QED  BY <2>1
<1>2. PICK m \in S : \A k \in S : m <= k
  <2>1. S \in SUBSET Nat  OBVIOUS
  <2> HIDE DEF S
  <2> QED  BY <1>1, <2>1, LeastNatural
<1>3. m \in 0 .. n-1  OBVIOUS
<1>4. PassesBy(at, n, home, key, m)
  <2>1. ASSUME NEW i \in 0 .. m-1 PROVE at[Probe(n, home, i)] \notin {None, key}
    <3>1. i \in 0 .. n-1 /\ ~ (m <= i)  BY <1>3
    <3>2. i \notin S  BY <3>1, <1>2
    <3> QED  BY <3>1, <3>2
  <2> QED  BY <2>1 DEF PassesBy
<1> QED  BY <1>3, <1>4 DEF StopsAt
=============================================================================

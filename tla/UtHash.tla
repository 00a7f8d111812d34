------------------------------- MODULE UtHash -------------------------------
(***************************************************************************)
(* detail/uthash.h, as table.c uses it: items that carry their own handle  *)
(* are in two kinds of lists at once, the application's list (prev, next)  *)
(* and the chain of a bucket (hh_prev, hh_next).  An operator here is what *)
(* a macro does to a hash t; HASH_NONFATAL_OOM is off, so a macro that     *)
(* finds no memory ends the program.                                       *)
(*                                                                         *)
(* An item is named by its key: a user never adds one key twice.           *)
(***************************************************************************)
EXTENDS Integers, Sequences, FiniteSets, SequencesExt, FiniteSetsExt

CONSTANTS Items, None,
          InitialBuckets,  \* HASH_INITIAL_NUM_BUCKETS, 32 in the code
          Threshold        \* HASH_BKT_CAPACITY_THRESH, 10 in the code

VARIABLE hashv             \* item -> its hash, the same in a whole behaviour

Ptr == Items \union {None}

UT_hash_bucket == [hh_head : Ptr, count : Nat, expand_mult : Nat]

EmptyBuckets(n) == [b \in 0..(n - 1) |-> [hh_head |-> None, count |-> 0, expand_mult |-> 0]]

(* head = NULL: there is no table. *)
NULL ==
  [head |-> None, tail |-> None, num_items |-> 0, buckets |-> <<>>,
   ineff_expands |-> 0, noexpand |-> FALSE,
   prev |-> [i \in Items |-> None], next |-> [i \in Items |-> None],
   hh_prev |-> [i \in Items |-> None], hh_next |-> [i \in Items |-> None]]

num_buckets(t) == Cardinality(DOMAIN t.buckets)

(* Whatever HASH_JEN makes of the key. *)
HASH_VALUE(item) == hashv[item]

(* n is a power of two, so this is hashv & (n - 1). *)
HASH_TO_BKT(item, n) == HASH_VALUE(item) % n

(* The items met from first on along next: one more than the hash counts are *)
(* looked at, enough to tell a list that is too long.                       *)
Follow(t, first, next) ==
  LET at[n \in 0..t.num_items] ==
        IF n = 0 THEN first ELSE IF at[n - 1] = None THEN None ELSE next[at[n - 1]]
  IN [n \in {m \in 1..(t.num_items + 1) : at[m - 1] # None} |-> at[n - 1]]

Chain(t, b) == Follow(t, t.buckets[b].hh_head, t.hh_next)
AppOrder(t) == Follow(t, t.head, t.next)

-----------------------------------------------------------------------------
HASH_FIND_IN_BKT(t, b, item) == IF item \in ToSet(Chain(t, b)) THEN item ELSE None

HASH_FIND(t, item) ==
  IF t.head = None THEN None
  ELSE HASH_FIND_IN_BKT(t, HASH_TO_BKT(item, num_buckets(t)), item)

HASH_COUNT(t) == t.num_items

HASH_MAKE_TABLE(item) ==
  [NULL EXCEPT !.head = item, !.tail = item, !.buckets = EmptyBuckets(InitialBuckets)]

HASH_APPEND_LIST(t, add) ==
  [t EXCEPT !.next = [@ EXCEPT ![add] = None, ![t.tail] = add],
            !.prev[add] = t.tail, !.tail = add]

(* How often a bucket of n items had its threshold raised: at each item     *)
(* beyond the ideal length that is beyond so many times that length too.    *)
ExpandMult(ideal, n) ==
  LET mult[k \in 0..n] ==
        IF k <= ideal THEN 0
        ELSE IF k > mult[k - 1] * ideal THEN mult[k - 1] + 1 ELSE mult[k - 1]
  IN mult[n]

(* The item so many places after this one in a chain. *)
Beside(chain, item, step) ==
  LET k == (CHOOSE j \in DOMAIN chain : chain[j] = item) + step
  IN IF k \in DOMAIN chain THEN chain[k] ELSE None

(* The chains of n buckets that these items make, put there in turn, each at *)
(* the head of its chain.                                                   *)
Rehashed(taken, n) ==
  LET chains[k \in 0..Len(taken)] ==
        IF k = 0 THEN [b \in 0..(n - 1) |-> <<>>]
        ELSE [chains[k - 1] EXCEPT ![HASH_TO_BKT(taken[k], n)] = <<taken[k]>> \o @]
  IN chains[Len(taken)]

(* Mutant of HASH_EXPAND_BUCKETS: every chain stays where it is. *)
ExpandInPlace(t) ==
  LET n == num_buckets(t)
  IN [t EXCEPT !.buckets = [b \in 0..(2 * n - 1) |->
                              IF b < n THEN t.buckets[b] ELSE EmptyBuckets(1)[0]]]

(* Twice the buckets: the chains are taken one after the other, and each    *)
(* item is put at the head of its new one.  An expansion that leaves more   *)
(* than half of the items beyond the ideal length was ineffective, and the  *)
(* second such in a row is the last.                                        *)
HASH_EXPAND_BUCKETS(t) ==
  LET n == 2 * num_buckets(t)
      ideal == (t.num_items \div n) + (IF t.num_items % n # 0 THEN 1 ELSE 0)
      taken == FlattenSeq([b \in 1..(n \div 2) |-> Chain(t, b - 1)])
      chain == Rehashed(taken, n)
      of(item) == chain[HASH_TO_BKT(item, n)]
      nonideal == MapThenSumSet(LAMBDA b : IF Len(chain[b]) > ideal
                                           THEN Len(chain[b]) - ideal ELSE 0,
                                DOMAIN chain)
      ineff == IF nonideal > t.num_items \div 2 THEN t.ineff_expands + 1 ELSE 0
  IN [t EXCEPT
        !.buckets = [b \in 0..(n - 1) |->
                       [hh_head |-> IF chain[b] = <<>> THEN None ELSE Head(chain[b]),
                        count |-> Len(chain[b]),
                        expand_mult |-> ExpandMult(ideal, Len(chain[b]))]],
        !.hh_prev = [i \in Items |-> IF i \in ToSet(taken) THEN Beside(of(i), i, -1) ELSE @[i]],
        !.hh_next = [i \in Items |-> IF i \in ToSet(taken) THEN Beside(of(i), i, 1) ELSE @[i]],
        !.ineff_expands = ineff,
        !.noexpand = @ \/ ineff > 1]

(* The item becomes the head of its bucket, which may be full by that.      *)
HASH_ADD_TO_BKT(t, add) ==
  LET b == HASH_TO_BKT(add, num_buckets(t))
      was == t.buckets[b]
      added == [t EXCEPT !.buckets[b] = [hh_head |-> add, count |-> was.count + 1,
                                         expand_mult |-> was.expand_mult],
                         !.hh_next[add] = was.hh_head,
                         !.hh_prev = [i \in Items |-> IF i = add THEN None
                                                      ELSE IF i = was.hh_head THEN add
                                                      ELSE @[i]]]
  IN IF was.count + 1 >= (was.expand_mult + 1) * Threshold /\ ~ t.noexpand
     THEN HASH_EXPAND_BUCKETS(added) ELSE added

HASH_ADD_TO_TABLE(t, add) == HASH_ADD_TO_BKT([t EXCEPT !.num_items = @ + 1], add)

HASH_ADD_KEYPTR(t, add) ==
  HASH_ADD_TO_TABLE(IF t.head = None THEN HASH_MAKE_TABLE(add)
                    ELSE HASH_APPEND_LIST(t, add), add)

(* Both neighbours of an item are joined, in a list of either kind. *)
Unlink(next, before, after) == [i \in Items |-> IF i = before THEN after ELSE next[i]]

HASH_DEL_IN_BKT(t, del) ==
  LET b == HASH_TO_BKT(del, num_buckets(t))
      before == t.hh_prev[del]
      after == t.hh_next[del]
  IN [t EXCEPT !.buckets[b] = [hh_head |-> IF @.hh_head = del THEN after ELSE @.hh_head,
                               count |-> @.count - 1, expand_mult |-> @.expand_mult],
               !.hh_next = Unlink(@, before, after),
               !.hh_prev = Unlink(@, after, before)]

(* Mutant of HASH_DELETE: the item after it still points back to it. *)
DeleteHalfLinked(t, del) ==
  LET before == t.prev[del]
      after == t.next[del]
      unlisted == [t EXCEPT !.head = IF before = None THEN after ELSE @,
                            !.next = Unlink(@, before, after), !.num_items = @ - 1]
  IN IF before = None /\ after = None THEN NULL ELSE HASH_DEL_IN_BKT(unlisted, del)

(* The last item takes the table with it. *)
HASH_DELETE(t, del) ==
  LET before == t.prev[del]
      after == t.next[del]
      unlisted == [t EXCEPT !.tail = IF @ = del THEN before ELSE @,
                            !.head = IF before = None THEN after ELSE @,
                            !.next = Unlink(@, before, after),
                            !.prev = Unlink(@, after, before),
                            !.num_items = @ - 1]
  IN IF before = None /\ after = None THEN NULL ELSE HASH_DEL_IN_BKT(unlisted, del)

-----------------------------------------------------------------------------
Mirrored(order, prev) ==
  \A k \in DOMAIN order : prev[order[k]] = IF k = 1 THEN None ELSE order[k - 1]

(* What HASH_FSCK looks at: every chain has the items its bucket counts,    *)
(* and the chains together, and the application's list, those the table     *)
(* counts, in lists that read the same from both ends.                      *)
HASH_FSCK(t) ==
  t.head # None =>
    /\ \A b \in DOMAIN t.buckets : /\ Len(Chain(t, b)) = t.buckets[b].count
                                   /\ Mirrored(Chain(t, b), t.hh_prev)
    /\ Len(FlattenSeq([b \in 1..num_buckets(t) |-> Chain(t, b - 1)])) = t.num_items
    /\ Len(AppOrder(t)) = t.num_items
    /\ Mirrored(AppOrder(t), t.prev)
=============================================================================

-------------------------------- MODULE KHash --------------------------------
(***************************************************************************)
(* The hash table of the broker's answer (khash.h with the instance        *)
(* broker_result: 64-bit keys, open addressing, triangular probing).       *)
(* kh_put grows the table in place: kh_resize walks the old buckets, and   *)
(* each entry it places may kick out another one that has not moved yet.   *)
(* kh_del is never called on this table.  So n_occupied is size, no bucket *)
(* is deleted outside of kh_resize, and a full table is never half empty:  *)
(* it always expands.                                                      *)
(***************************************************************************)
EXTENDS Integers, FiniteSets, FiniteSetsExt

VARIABLES
  n_buckets,      \* a power of two, or 0 before the first entry
  size,           \* h->size and h->n_occupied
  live,           \* buckets whose flag is neither empty nor deleted
  entries,        \* h->keys and h->vals; what a dead bucket holds is not read
  kpc,            \* "rest", in the loop of kh_resize, or in its kick-out loop
  new_n_buckets,  \* kh_resize: the size asked for, rounded up
  new_flags,      \* kh_resize: buckets taken in the new table
  j,              \* kh_resize: the next old bucket
  hand            \* kh_resize: the entry to be placed

table == <<n_buckets, size, live, entries>>
rehash == <<kpc, new_n_buckets, new_flags, j, hand>>
khash == <<table, rehash>>

NoEntry == [key |-> 0, val |-> 0]

\* upper_bound = n_buckets * 0.77 + 0.5
Upper(n) == (77 * n + 50) \div 100

\* kroundup32(n_buckets + 1), but at least 4
Expanded == IF n_buckets = 0 THEN 4 ELSE 2 * n_buckets

\* The m-th bucket probed for key k in a table of n buckets, n <= 2^11: the low
\* bits of kh_int64_hash_func are those of the key, and the steps are 1, 2, 3...
Probe(k, m, n) == (k + (m * (m + 1)) \div 2) % n

\* The first bucket probed that is in the set.
FirstProbe(k, n, buckets) ==
  Probe(k, Min({m \in 0 .. n - 1 : Probe(k, m, n) \in buckets}), n)

\* Where a search for the key ends: empty buckets, and that of the key itself.
Stops(k) == ((0 .. n_buckets - 1) \ live) \cup {b \in live : entries[b].key = k}

\* kh_get: the bucket of key k, n_buckets (kh_end) if there is none.
kh_get(k) ==
  IF n_buckets = 0 THEN 0
  ELSE LET b == FirstProbe(k, n_buckets, Stops(k))
       IN  IF b \in live THEN b ELSE n_buckets

\* The keys in the table.
Keys == {entries[b].key : b \in live}

-----------------------------------------------------------------------------
(* kh_clear                                                                 *)

\* The flags are emptied, the buckets stay.
kh_clear ==
  /\ live' = {} /\ size' = 0
  /\ UNCHANGED <<n_buckets, entries, rehash>>

-----------------------------------------------------------------------------
(* kh_put                                                                   *)

\* n_occupied >= upper_bound
Full == size >= Upper(n_buckets)

\* Call kh_resize.
Resize ==
  /\ kpc = "rest" /\ Full
  /\ new_n_buckets' = Expanded /\ new_flags' = {} /\ j' = 0
  /\ kpc' = "rehash"
  /\ UNCHANGED <<table, hand>>

\* Take the bucket, or give the key that is there a new value.
kh_put(k, v) ==
  /\ kpc = "rest" /\ ~Full
  /\ LET b == FirstProbe(k, n_buckets, Stops(k))
     IN  /\ entries' = [c \in DOMAIN entries \cup {b} |->
                          IF c = b THEN [key |-> k, val |-> v] ELSE entries[c]]
         /\ live' = live \cup {b}
         /\ size' = size + (IF b \in live THEN 0 ELSE 1)
  /\ UNCHANGED <<n_buckets, rehash>>

-----------------------------------------------------------------------------
(* kh_resize                                                                *)

Skip ==
  /\ kpc = "rehash" /\ j < n_buckets /\ j \notin live
  /\ j' = j + 1
  /\ UNCHANGED <<table, kpc, new_n_buckets, new_flags, hand>>

\* Take up an entry and mark its old bucket as deleted.
Take ==
  /\ kpc = "rehash" /\ j \in live
  /\ hand' = entries[j] /\ live' = live \ {j} /\ kpc' = "kick"
  /\ UNCHANGED <<n_buckets, size, entries, new_n_buckets, new_flags, j>>

\* Mutant of Target: the next free bucket, one by one.
TargetLinear ==
  LET at(m) == (hand.key + m) % new_n_buckets
  IN  at(Min({m \in 0 .. new_n_buckets - 1 : at(m) \notin new_flags}))

\* The first bucket that is free in the new table.
Target == FirstProbe(hand.key, new_n_buckets, (0 .. new_n_buckets - 1) \ new_flags)

\* Put the entry down.
Put(b) ==
  /\ entries' = [c \in DOMAIN entries \cup {b} |->
                   IF c = b THEN hand ELSE entries[c]]
  /\ new_flags' = new_flags \cup {b}

\* Mutant of Kick: the entry in the way is overwritten.
KickNothing ==
  /\ kpc = "kick" /\ Target \in live
  /\ Put(Target)
  /\ live' = live \ {Target} /\ kpc' = "rehash" /\ j' = j + 1
  /\ UNCHANGED <<n_buckets, size, new_n_buckets, hand>>

\* An old entry is in the way: exchange it and go on with that one.
Kick ==
  /\ kpc = "kick" /\ Target \in live
  /\ Put(Target)
  /\ hand' = entries[Target] /\ live' = live \ {Target}
  /\ UNCHANGED <<n_buckets, size, kpc, new_n_buckets, j>>

Place ==
  /\ kpc = "kick" /\ Target \notin live
  /\ Put(Target)
  /\ kpc' = "rehash" /\ j' = j + 1
  /\ UNCHANGED <<n_buckets, size, live, new_n_buckets, hand>>

\* The new flags replace the old ones.
Resized ==
  /\ kpc = "rehash" /\ j = n_buckets
  /\ n_buckets' = new_n_buckets /\ live' = new_flags
  /\ kpc' = "rest"
  /\ UNCHANGED <<size, entries, new_n_buckets, new_flags, j, hand>>

Rehash == Skip \/ Take \/ Kick \/ Place \/ Resized

-----------------------------------------------------------------------------
KHashInit ==
  /\ n_buckets = 0 /\ size = 0 /\ live = {} /\ entries = <<>>
  /\ kpc = "rest" /\ new_n_buckets = 0 /\ new_flags = {} /\ j = 0
  /\ hand = NoEntry

KHashTypeOK ==
  /\ n_buckets \in Nat /\ size \in Nat /\ new_n_buckets \in Nat /\ j \in Nat
  /\ live \subseteq 0 .. n_buckets - 1 /\ live \subseteq DOMAIN entries
  /\ new_flags \subseteq DOMAIN entries
  /\ kpc \in {"rest", "rehash", "kick"}

-----------------------------------------------------------------------------
(* Properties                                                               *)

\* Whatever the order of the keys, the collisions and the resizes: at rest no
\* entry is shadowed by another one or cut off from its first bucket, and the
\* count is that of the entries (khash.h:224-349).
LookupFinds ==
  kpc = "rest" => /\ \A b \in live : kh_get(entries[b].key) = b
                  /\ size = Cardinality(live)

\* The entries of old and new table and the one in hand.
Held == {entries[b] : b \in live \cup new_flags}
        \cup (IF kpc = "kick" THEN {hand} ELSE {})

\* While the table is resized in place, nothing is lost or made up
\* (khash.h:266-297).
NothingLost == [][kpc # "rest" => Held' = Held]_khash
=============================================================================

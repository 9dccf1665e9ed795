----------------------------- MODULE Timestamps -----------------------------
(***************************************************************************)
(* The two searches in the broker's hash table (rpki_config.c:142-182):    *)
(* which dump is the current one for a timestamp and which one is next.    *)
(* Timestamps are unsigned 32-bit integers, so both loops run modulo       *)
(* Width; the table is represented by the set of its keys.                 *)
(***************************************************************************)
EXTENDS Integers, FiniteSets

CONSTANTS Minute,    \* the backward step, 60 seconds
          Interval,  \* ROA_ARCHIVE_INTERVAL, the forward step, 180 seconds
          Width      \* 2^32: timestamps are 0 .. Width - 1

ASSUME WidthAssumption ==
  /\ Minute \in Nat \ {0}
  /\ Interval \in Nat \ {0}
  /\ Width \in Nat \ {0}
  /\ Minute <= Interval /\ Interval < Width

Timestamp == 0 .. Width - 1

\* The archive's dumps have timestamps of full minutes, and two of them are a
\* multiple of Interval apart.
OnGrid(keys) ==
  \A k \in keys : k % Minute = 0 /\ \A j \in keys : (j - k) % Interval = 0

\* Mutant of Floor: rounded up.
Ceiling(t) == t + Minute - (t % Minute)

\* Mutant of Floor: not rounded.
Unrounded(t) == t

\* timestamp - (timestamp % 60)
Floor(t) == t - (t % Minute)

\* The n-th key probed when the search starts at timestamp t and goes back.
Backward(t) == [n \in Timestamp |-> (Floor(t) - n * Minute) % Width]

\* The n-th key probed when the search starts after key k and goes forward.
Forward(k) == [n \in Timestamp |-> (k + (n + 1) * Interval) % Width]

\* The probes of a walk that find a key.
Hits(keys, walk) == {n \in Timestamp : walk[n] \in keys}

\* The key a loop stops at: the first probe that is in the table.
FirstHit(keys, walk) ==
  walk[CHOOSE n \in Hits(keys, walk) : \A m \in Hits(keys, walk) : n <= m]

\* Mutant of cfg_next_timestamp: one dump too many is believed to be left.
next_off_by_one(keys, count, used, k) ==
  IF count - used >= 1 THEN FirstHit(keys, Forward(k)) ELSE 0

\* Mutant of cfg_next_timestamp: the next slot, whether it has a dump or not.
next_unsearched(keys, count, used, k) ==
  IF count - used >= 1 THEN k + Interval ELSE 0

\* cfg_next_timestamp: another dump only if the counters say one is left.
cfg_next_timestamp(keys, count, used, k) ==
  IF count - used > 1 THEN FirstHit(keys, Forward(k)) ELSE 0

\* cfg_get_timestamps: the pair of the current and the next timestamp.
cfg_get_timestamps(keys, count, used, t) ==
  LET k == FirstHit(keys, Backward(t))
  IN  [current |-> k,
       next    |-> IF Cardinality(keys) > 1
                   THEN cfg_next_timestamp(keys, count, used, k) ELSE 0]
=============================================================================

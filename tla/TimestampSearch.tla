--------------------------- MODULE TimestampSearch ---------------------------
(***************************************************************************)
(* The two while loops of cfg_get_timestamps and cfg_next_timestamp        *)
(* (rpki_config.c:142-182), one probe of the hash table per step, on the   *)
(* wrapping clock.  Module Timestamps states what they compute in one      *)
(* expression; the properties here relate that expression, the loops and   *)
(* the intended dump.                                                      *)
(***************************************************************************)
EXTENDS Timestamps

CONSTANTS Tables,  \* the sets of keys considered
          Repeats, \* how often a timestamp may have been listed again
          Stamps,  \* the timestamps searched for
          Used     \* values of broker_khash_used

ASSUME SearchAssumption ==
  /\ Tables \subseteq SUBSET Timestamp /\ \A keys \in Tables : OnGrid(keys)
  /\ Repeats \subseteq Nat /\ Stamps \subseteq Timestamp
  /\ Used \subseteq Nat

VARIABLES keys, count, used, \* the table and its counters
          ts,              \* the timestamp
          probe,           \* current_ts of the first, next_ts of the second loop
          current, next,   \* cfg_time
          phase            \* the loop the program is in

vars == <<keys, count, used, ts, probe, current, next, phase>>

\* broker_khash_count counts a timestamp that an answer lists twice twice.
Init == /\ keys \in Tables /\ used \in Used /\ ts \in Stamps
        /\ count \in {Cardinality(keys) + repeats : repeats \in Repeats}
        /\ probe = Floor(ts)
        /\ current = 0 /\ next = 0
        /\ phase = "backward"

BackwardMiss ==
  /\ phase = "backward" /\ probe \notin keys
  /\ probe' = (probe - Minute) % Width
  /\ UNCHANGED <<keys, count, used, ts, current, next, phase>>

\* Mutant of MoreLeft: one dump too many is believed to be left.
OneLeft == Cardinality(keys) > 1 /\ count - used >= 1

\* Another dump is looked for if the table has one and the counters say so.
MoreLeft == Cardinality(keys) > 1 /\ count - used > 1

BackwardFound ==
  /\ phase = "backward" /\ probe \in keys
  /\ current' = probe
  /\ IF MoreLeft
     THEN phase' = "forward" /\ probe' = (probe + Interval) % Width
     ELSE phase' = "done" /\ UNCHANGED probe
  /\ UNCHANGED <<keys, count, used, ts, next>>

ForwardMiss ==
  /\ phase = "forward" /\ probe \notin keys
  /\ probe' = (probe + Interval) % Width
  /\ UNCHANGED <<keys, count, used, ts, current, next, phase>>

ForwardFound ==
  /\ phase = "forward" /\ probe \in keys
  /\ next' = probe
  /\ phase' = "done"
  /\ UNCHANGED <<keys, count, used, ts, probe, current>>

Next == BackwardMiss \/ BackwardFound \/ ForwardMiss \/ ForwardFound

\* The loops keep running.
Spec == Init /\ [][Next]_vars /\ WF_vars(Next)

-----------------------------------------------------------------------------
\* The loops compute what Timestamps says of them.
LoopsAgree ==
  phase = "done" =>
    [current |-> current, next |-> next] =
      cfg_get_timestamps(keys, count, used, ts)

\* The current dump is the newest not newer than the timestamp; if there is
\* none the search wraps around and ends at the newest dump of all.
CurrentCovers ==
  phase \in {"forward", "done"} =>
    LET older == {k \in keys : k <= ts}
    IN  /\ current \in keys
        /\ \A k \in (IF older # {} THEN older ELSE keys) : k <= current
        /\ older # {} => current <= ts

\* used is the rank of the current dump.
UsedIsRank == used = Cardinality({k \in keys : k < current})

\* With counters that fit the table next is the successor, 0 at the end: the search
\* never wraps around.
NextSucceeds ==
  (phase = "done" /\ UsedIsRank /\ count = Cardinality(keys)) =>
    IF \E k \in keys : k > current
    THEN next > current /\ \A k \in keys : k > current => next <= k
    ELSE next = 0

\* Both searches end in a table with a key, whatever the timestamp.
SearchEnds == keys # {} ~> phase = "done"

\* cfg_next_timestamp returns the "Next timestamp, 0 if there is no ROA file"
\* (rpki_config.h:207), also when a timestamp was listed twice (broker.c:239).
NextIsLater == (phase = "done" /\ UsedIsRank) => next = 0 \/ next > current
=============================================================================

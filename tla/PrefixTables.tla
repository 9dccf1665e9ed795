---------------------------- MODULE PrefixTables ----------------------------
(***************************************************************************)
(* cfg_parse_urls and cfg_import_roa_file (rpki_config.c:184-364): the     *)
(* prefix tables filled from the dumps of one timestamp.  Collectors are   *)
(* numbered in the order of the broker's answer, which is the order of     *)
(* the URLs; collector c owns prefix table c, except in unified mode,      *)
(* where every dump goes to table 0.                                       *)
(***************************************************************************)
EXTENDS Integers

CONSTANTS CollectorsCount,  \* number of collectors, at most MAX_RPKI_COUNT
          Unified,          \* cfg_input.unified
          EmptyDumps        \* whether a dump may be a file without a byte

ASSUME CollectorsAssumption ==
  /\ CollectorsCount \in Nat \ {0}
  /\ Unified \in BOOLEAN /\ EmptyDumps \in BOOLEAN

Collector == 0 .. CollectorsCount - 1

\* The records of a dump, told apart only by whether an import that breaks off
\* at a bad line has already added them.
Half == {"head", "tail"}

\* A group of records: where it comes from.
Record(dumps) == [collector : Collector, dump : dumps, half : Half]

\* All records of the dump of collector c at timestamp k.
Dump(c, k) == {[collector |-> c, dump |-> k, half |-> h] : h \in Half}

\* Mutant of TableOf: unified mode is forgotten.
TableOfItself(c) == c

\* The table the dump of collector c is imported into.
TableOf(c) == IF Unified THEN 0 ELSE c

\* Mutant of Cleaned: the old records stay.
Uncleaned(tables) == tables

\* pfx_table_src_remove on every table.
Cleaned(tables) == [c \in Collector |-> {}]

\* The records imported as a whole into table t, up to the collector stop, and
\* those added to it before stop's import broke off.
Whole(urls, k, stop, t) ==
  UNION {Dump(c, k) : c \in {d \in urls : d < stop /\ TableOf(d) = t}}
Rest(k, stop, broken, t) ==
  {r \in Dump(stop, k) : TableOf(stop) = t /\ r.half \in broken}

\* cfg_import_roa_file for one URL after the other: they add to the tables.
Imported(tables, urls, k, stop, broken) ==
  [t \in Collector |->
     tables[t] \cup Whole(urls, k, stop, t) \cup Rest(k, stop, broken, t)]

\* Mutant of Activated: a collector without URL is flagged too.
ActivatedAll(urls, stop) == {c \in Collector : c < stop}

\* The flags set on the way: collectors that had a URL and were imported.
Activated(urls, stop) == {c \in urls : c < stop}

\* What may happen: every import succeeds, or the one of collector stop breaks
\* off (file unreadable, no header, wrong order: nothing added; bad line: the
\* records before it stay).
ParseOutcome(urls) ==
  {[stop |-> CollectorsCount, broken |-> {}]} \cup
  [stop : urls, broken : {{}, {"head"}}]

ParseOk(outcome) == outcome.stop = CollectorsCount

\* The dump of collector stop is empty: nothing was read into the buffer whose end
\* is marked, and it was never allocated.
ParseEmpty(outcome) ==
  EmptyDumps /\ ~ParseOk(outcome) /\ outcome.broken = {}

\* The tables, flags and count cfg_parse_urls leaves.
cfg_parse_urls(tables, urls, k, outcome) ==
  [pfxt   |-> Imported(Cleaned(tables), urls, k, outcome.stop, outcome.broken),
   active |-> Activated(urls, outcome.stop),
   count  |-> outcome.stop]
=============================================================================

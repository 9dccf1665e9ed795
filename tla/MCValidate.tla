----------------------------- MODULE MCValidate -----------------------------
(***************************************************************************)
(* Small instances of RpkiValidate.  A minute is 2 units, the interval     *)
(* between dumps 6, and timestamps wrap around at 32: as for 60, 180 and   *)
(* 2^32 the width is no multiple of the interval, and going once (in the   *)
(* code: 15 times) around the clock shifts the grid by one minute or two.  *)
(***************************************************************************)
EXTENDS RpkiValidate

MCGrid == {6, 12, 18, 24}

\* Dumps of any of the collectors may be missing at any time.
AnyArchive == [MCGrid -> SUBSET Collector]

\* The same, where a dump of the first collector only comes with the others.
LastCollectorArchive ==
  [MCGrid -> {{}, {CollectorsCount - 1}, Collector}]

\* No dump is missing, but collectors come and go.
GaplessArchive == [MCGrid -> SUBSET Collector \ {{}}]

ClosedRequests == {{<<7, 29>>}, {<<6, 19>>}, {<<6, 13>>, <<20, 29>>}}
OneRequest == {{<<7, 29>>}}
TwoRequests == OneRequest \cup {{<<6, 13>>, <<20, 29>>}}
OpenRequests == {{<<7, 0>>}, {<<13, 0>>}}

\* What the theorems about the cursor assume of the requests and the archive
\* is true of these.
ASSUME TheoremsApply ==
  /\ Requests \in {ClosedRequests, OneRequest, TwoRequests} => EveryIntervalEnds
  /\ Archives = GaplessArchive => NoDumpMissing

LastTime == 24
PersistentCaller == Init /\ [][Next]_vars /\ Persistence(LastTime)
CatchesUpAtLast == CatchesUp(LastTime)
=============================================================================

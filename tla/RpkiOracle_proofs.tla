------------------------- MODULE RpkiOracle_proofs -------------------------
(***************************************************************************)
(* What a caller that passes no dump by gets from RpkiValidate: answers of *)
(* the newest dump, none in a gap, the same one when it asks again; and    *)
(* that the calls implement the oracle, for this caller and for others.    *)
(***************************************************************************)
EXTENDS RpkiValidate_proofs

\* The caller passes no dump by, and the lists are not asked for again.
Attentive == AlignedStart /\ Dense /\ EveryIntervalEnds

\* Of the dumps that have been asked for, none is ahead of the cursor but the
\* one the call under way is about to move to.
NoneLeftBehind ==
  \A k \in keys : k <= seen =>
    \/ k <= current
    \/ pc \in {"located", "advance"} /\ k = next /\ k <= ts /\ ts < k + Interval

\* What is known of the time asked for at the stages of a call: at the entry that
\* it passes no dump by, later that it was seen, and before the step to the next
\* dump that it is not in the gap before it.
AskedTime ==
  /\ current = 0 => seen = 0
  /\ (pc = "entry" /\ current # 0 /\ InIntervals(ts)) =>
       \A k \in keys : seen < k /\ k <= ts => ts < k + Interval
  /\ pc \in {"located", "advance", "answer"} => ts <= seen
  /\ (pc = "advance" /\ mode = 1) =>
       ts < current + Interval \/ next = 0 \/ ts >= next

\* The last answer came from the newest dump, which is still the current one,
\* until a call for another time has moved on.
LastAnswer ==
  result.kind = "answer" =>
    /\ result.dump # 0
    /\ \A k \in keys : k <= result.ts => k <= result.dump
    /\ pc \in {"idle", "entry", "located", "advance"} => result.dump = current
    /\ (pc = "answer" /\ ts = result.ts) => result.dump = current

DenseInv == /\ NoneLeftBehind /\ AskedTime /\ NewestDump /\ NoAnswerInGap
            /\ LastAnswer

DInv == CInv /\ DenseInv

-----------------------------------------------------------------------------
\* The types of the time seen.
LEMMA SeenType ==
  ASSUME CInv
  PROVE  seen \in Nat
<1>1. seen \in Timestamp
  BY DEF CInv, IInv, TypeOK
<1>. QED  BY <1>1, WidthAssumption DEF Timestamp

\* If every interval ends the library neither asks again nor goes live.
LEMMA NothingPastTable ==
  ASSUME CInv, EveryIntervalEnds
  PROVE  ~PastTable
BY DEF PastTable, Expired, CInv, CursorMode

\* A step that leaves the cursor alone and is not at one of the stages in the
\* middle of a call.
LEMMA BetweenCalls ==
  ASSUME DInv, UNCHANGED <<keys, current, seen>>,
         pc \notin {"located", "advance"},
         pc' \notin {"entry", "located", "advance", "answer"}
  PROVE  (NoneLeftBehind /\ AskedTime /\ NewestDump /\ NoAnswerInGap)'
BY DEF DInv, DenseInv, NoneLeftBehind, AskedTime, NewestDump, NoAnswerInGap

\* A step that keeps the last answer or replaces it by another result.
LEMMA AnswerKept ==
  ASSUME DInv,
         \/ result'.kind # "answer"
         \/ /\ UNCHANGED <<result, keys, current>> /\ pc' # "answer"
            /\ pc' = "idle" => pc \in {"idle", "entry", "located", "advance"}
            /\ pc' \in {"entry", "located", "advance"} =>
                 pc \in {"idle", "entry", "located", "advance"}
  PROVE  LastAnswer'
BY DEF DInv, DenseInv, LastAnswer

\* The configuration, the caller and the surroundings.
LEMMA OutsideDense ==
  ASSUME DInv, Attentive, SetConfig \/ Call \/ RtrSynced \/ Destroy \/ Tick
  PROVE  DenseInv'
<1>. USE DEF environment, config, broker, times, tables, call
<1>1. CASE SetHistorical
  <2>1. /\ pc = "unset" /\ pc' = "idle" /\ result' = result /\ result.kind = "none"
        /\ current = 0 /\ UNCHANGED <<times, call>>
    BY <1>1 DEF SetHistorical, DInv, CInv, CursorStage
  <2>2. seen = 0
    BY <2>1 DEF DInv, DenseInv, AskedTime
  <2>3. keys' \subseteq Nat /\ 0 \notin keys'
    <3>1. keys' \in SUBSET Grid
      BY <1>1, AnswerType DEF SetHistorical, TakeAnswer, Broker!Answered
    <3>. QED  BY <3>1, OnTheGrid
  <2>4. (NoneLeftBehind /\ AskedTime /\ NewestDump /\ NoAnswerInGap)'
    BY <2>1, <2>2, <2>3 DEF NoneLeftBehind, AskedTime, NewestDump, NoAnswerInGap
  <2>. QED  BY <2>1, <2>4 DEF DenseInv, LastAnswer
<1>2. CASE SetLive \/ SetFails
  <2>1. /\ pc' \in {"connecting", "exited"} /\ pc = "unset"
        /\ UNCHANGED <<keys, current, seen, result>>
    BY <1>2 DEF SetLive, SetFails
  <2>. QED  BY <2>1, BetweenCalls, AnswerKept DEF DenseInv
<1>3. CASE Call
  <2>1. /\ pc = "idle" /\ pc' = "entry"
        /\ UNCHANGED <<keys, intervals, current, next, seen, result>>
        /\ (Dense /\ ~Unlocated /\ InIntervals(ts')) =>
             \A k \in keys : seen < k /\ k <= ts' => ts' < k + Interval
    BY <1>3 DEF Call
  <2>2. AskedTime'
    BY <2>1 DEF AskedTime, Attentive, Unlocated, InIntervals, DInv, DenseInv
  <2>3. (NoneLeftBehind /\ NewestDump /\ NoAnswerInGap)'
    BY <2>1 DEF DInv, DenseInv, NoneLeftBehind, NewestDump, NoAnswerInGap
  <2>. QED  BY <2>1, <2>2, <2>3, AnswerKept DEF DenseInv
<1>4. CASE RtrSynced
  <2>1. /\ UNCHANGED <<keys, current, seen>> /\ pc' = "idle"
        /\ pc \in {"connecting", "switching"}
    BY <1>4 DEF RtrSynced, Return
  <2>2. result'.kind # "answer"
    BY <1>4, FailedKind
    DEF RtrSynced, Return, Live, DInv, CInv, CursorStage
  <2>. QED  BY <2>1, <2>2, BetweenCalls, AnswerKept DEF DenseInv
<1>5. CASE Destroy
  <2>1. pc' = "destroyed" /\ keys' = {} /\ UNCHANGED <<current, seen, result>>
    BY <1>5 DEF Destroy
  <2>. QED  BY <2>1 DEF DInv, DenseInv, NoneLeftBehind, AskedTime, NewestDump,
                        NoAnswerInGap, LastAnswer
<1>6. CASE Tick
  BY <1>6 DEF Tick, DInv, DenseInv, NoneLeftBehind, AskedTime, InIntervals,
              NewestDump, NoAnswerInGap, LastAnswer
<1>. QED  BY <1>1, <1>2, <1>3, <1>4, <1>5, <1>6 DEF SetConfig

\* The checks at the entry and the first element.
LEMMA EntryDense ==
  ASSUME DInv, Attentive, Entry
  PROVE  DenseInv'
<1>. USE DEF environment, config, broker, times, tables, call
<1>1. CInv /\ Cautious /\ NoneLeftBehind /\ AskedTime /\ LastAnswer
  BY DEF DInv, DenseInv, Attentive, Cautious
<1>2. CASE AnswerLive \/ RejectPrefixLive \/ RejectTimestamp \/ BlankOlder
  <2>1. /\ pc = "entry" /\ pc' = "idle" /\ UNCHANGED <<keys, current, seen>>
        /\ result' \in {Live, Failed, Blank}
    BY <1>2 DEF AnswerLive, RejectPrefixLive, RejectTimestamp, BlankOlder, Return
  <2>2. result'.kind # "answer"
    BY <2>1 DEF Live, Failed, Blank
  <2>. QED  BY <2>1, <2>2, BetweenCalls, AnswerKept DEF DenseInv
<1>3. CASE Locate
  <2>1. /\ pc = "entry" /\ pc' \in {"located", "idle", "crashed"}
        /\ result' = result \/ result' = Failed
        /\ seen' = (IF ts > seen THEN ts ELSE seen)
    BY <1>3, LoadOutcome DEF Locate, ChecksPass, Accept
  <2>2. /\ current = 0 /\ keys' = keys /\ ts' = ts /\ current' \in keys
        /\ current' <= ts /\ \A k \in keys : k <= ts => k = current'
    BY <1>1, <1>3, LocateCursor
  <2>3. seen = 0 /\ ts \in Nat /\ keys \subseteq Nat /\ 0 \notin keys
    BY <1>1, <2>2, CursorTypes DEF AskedTime
  <2>4. seen' = ts
    BY <2>1, <2>3
  <2>5. NoneLeftBehind' /\ AskedTime'
    BY <2>1, <2>2, <2>3, <2>4 DEF NoneLeftBehind, AskedTime
  <2>6. result'.kind # "answer"
    BY <1>1, <2>1, <2>2, FailedKind DEF LastAnswer
  <2>. QED  BY <2>1, <2>5, <2>6, AnswerKept DEF DenseInv, NewestDump, NoAnswerInGap
<1>4. CASE Located
  <2>1. /\ pc = "entry" /\ pc' = "located" /\ current # 0 /\ keys # {}
        /\ UNCHANGED <<keys, current, next, mode, ts, result>>
        /\ seen' = (IF ts > seen THEN ts ELSE seen)
        /\ InIntervals(ts)
    <3>1. khash_count # 0 => keys # {}
      BY <1>1, <1>4, FS_EmptySet DEF Located, ChecksPass, CInv, IInv, TableLinks
    <3>. QED  BY <1>1, <1>4, <3>1 DEF Located, ChecksPass, Accept, Unlocated, CInv,
                                      CursorTable
  <2>2. IsSuccessor(next)
    BY <1>1, <2>1 DEF CInv, CursorTable, CursorFitsTable, InTable, Unlocated
  <2>3. /\ \A k \in keys : seen < k /\ k <= ts => ts < k + Interval
        /\ \A k \in keys : k <= seen => k <= current
        /\ \A k \in keys : k \in Nat /\ k \in Grid
        /\ seen \in Nat /\ ts \in Nat /\ current \in Nat /\ Interval \in Nat
    BY <1>1, <2>1, CursorTypes, SeenType DEF AskedTime, NoneLeftBehind
  <2>4. ASSUME NEW k \in keys, k <= seen', k > current
        PROVE  k = next /\ k <= ts /\ ts < k + Interval
    <3>1. seen < k /\ k <= ts
      BY <2>1, <2>3, <2>4
    <3>2. ts < k + Interval
      BY <2>3, <3>1
    <3>3. next \in keys /\ next > current /\ next <= k
      BY <2>2, <2>4 DEF IsSuccessor
    <3>4. ~(next < k)
      <4>. SUFFICES ASSUME next < k PROVE FALSE
        OBVIOUS
      <4>1. seen < next /\ next <= ts
        BY <2>3, <3>1, <3>3
      <4>2. ts < next + Interval
        BY <2>3, <3>3, <4>1
      <4>3. next + Interval <= k
        BY <2>3, <3>3, Apart
      <4>. QED  BY <2>3, <3>1, <3>3, <4>2, <4>3
    <3>. QED  BY <2>3, <3>1, <3>2, <3>3, <3>4
  <2>5. NoneLeftBehind'
    BY <2>1, <2>3, <2>4 DEF NoneLeftBehind
  <2>6. AskedTime'
    BY <2>1, <2>3 DEF AskedTime
  <2>. QED  BY <2>1, <2>5, <2>6, AnswerKept DEF DenseInv, NewestDump, NoAnswerInGap
<1>. QED  BY <1>2, <1>3, <1>4 DEF Entry

\* The gap, the step to the next dump and the answer.
LEMMA RestDense ==
  ASSUME DInv, Attentive, Switch \/ Finish
  PROVE  DenseInv'
<1>. USE DEF environment, config, broker, times, tables, call
<1>1. CInv /\ Cautious /\ NoneLeftBehind /\ AskedTime /\ LastAnswer /\ ~PastTable
  BY NothingPastTable DEF DInv, DenseInv, Attentive, Cautious
<1>2. /\ \A k \in keys : k \in Nat /\ k # 0
      /\ seen \in Nat /\ ts \in Nat /\ current \in Nat /\ next \in Nat
      /\ Interval \in Nat \ {0}
  BY <1>1, CursorTypes, SeenType
<1>3. pc \in {"located", "advance", "answer"} =>
        ts <= seen /\ current # 0 /\ IsSuccessor(next) /\ (mode = 1 => current <= ts)
  BY <1>1 DEF AskedTime, CInv, CursorStage, CursorTable, CursorFitsTable, InTable,
              Unlocated
<1>4. CASE Switch
  <2>1. BlankGap \/ NoSwitch
    BY <1>1, <1>4
    DEF Switch, HybridUnreachable, HybridCrashes, HybridMalformed, HybridRequest, HybridHangs,
        Hybrid, SwitchToLive, SwitchToLiveFails
  <2>2. CASE BlankGap
    <3>1. /\ pc = "located" /\ ts < next /\ pc' = "idle" /\ result' = Blank
          /\ UNCHANGED <<keys, current, seen>>
      BY <2>2 DEF BlankGap, InGap, Return
    <3>2. NoneLeftBehind'
      BY <1>1, <1>2, <3>1 DEF NoneLeftBehind
    <3>3. AskedTime'
      BY <1>1, <3>1 DEF AskedTime
    <3>4. result'.kind # "answer"
      BY <3>1 DEF Blank
    <3>. QED  BY <3>1, <3>2, <3>3, <3>4, AnswerKept DEF DenseInv, NewestDump,
                                                        NoAnswerInGap
  <2>3. CASE NoSwitch
    <3>1. /\ pc = "located" /\ ~InGap /\ pc' = "advance"
          /\ UNCHANGED <<mode, keys, current, next, ts, seen, result>>
      BY <2>3 DEF NoSwitch
    <3>2. NoneLeftBehind'
      BY <1>1, <3>1 DEF NoneLeftBehind
    <3>3. mode = 1 => ts < current + Interval \/ next = 0 \/ ts >= next
      BY <1>2, <3>1 DEF InGap, Expired
    <3>4. AskedTime'
      BY <1>1, <3>1, <3>3 DEF AskedTime
    <3>. QED  BY <3>1, <3>2, <3>4, AnswerKept DEF DenseInv, NewestDump, NoAnswerInGap
  <2>. QED  BY <2>1, <2>2, <2>3
<1>5. CASE Advance
  <2>1. /\ pc = "advance" /\ pc' \in {"answer", "idle", "crashed"}
        /\ (result' = result /\ pc' # "idle") \/ result' = Failed
        /\ UNCHANGED <<mode, keys, ts, seen>>
    BY <1>5, LoadEnds DEF Advance
  <2>2. /\ current' = next /\ next \in keys /\ ts >= next /\ current < next
        /\ \A k \in keys : k > current => next <= k
    BY <1>1, <1>5, AdvanceCursor
  <2>3. \A k \in keys : k <= seen => k <= next
    BY <1>1, <1>2, <2>2 DEF NoneLeftBehind
  <2>4. ts <= seen
    BY <1>3, <2>1
  <2>5. ts < next + Interval
    BY <1>1, <1>2, <2>2, <2>4 DEF NoneLeftBehind
  <2>6. NoneLeftBehind' /\ AskedTime' /\ NewestDump' /\ NoAnswerInGap'
    BY <1>2, <2>1, <2>2, <2>3, <2>4, <2>5
    DEF NoneLeftBehind, AskedTime, NewestDump, NoAnswerInGap
  <2>7. LastAnswer'
    <3>1. CASE result' = Failed
      BY <3>1, FailedKind DEF LastAnswer
    <3>2. CASE result' = result /\ result.kind = "answer" /\ pc' # "idle"
      <4>1. /\ result.dump # 0 /\ result.dump = current
            /\ \A k \in keys : k <= result.ts => k <= current
        BY <1>1, <2>1, <3>2 DEF LastAnswer
      <4>2. ts # result.ts
        BY <1>2, <2>2, <4>1
      <4>. QED  BY <2>1, <3>2, <4>1, <4>2 DEF LastAnswer
    <3>3. CASE result' = result /\ result.kind # "answer"
      BY <3>3 DEF LastAnswer
    <3>. QED  BY <2>1, <3>1, <3>2, <3>3
  <2>. QED  BY <2>6, <2>7 DEF DenseInv
<1>6. CASE NoAdvance
  <2>1. /\ pc = "advance" /\ pc' = "answer" /\ (next = 0 \/ ~(ts >= next))
        /\ UNCHANGED <<mode, keys, current, next, ts, seen, result>>
    BY <1>6 DEF NoAdvance, NextReached
  <2>2. \A k \in keys : k <= seen => k <= current
    BY <1>1, <1>2, <2>1 DEF NoneLeftBehind
  <2>3. NoneLeftBehind' /\ AskedTime' /\ NewestDump'
    BY <1>1, <1>2, <1>3, <2>1, <2>2 DEF NoneLeftBehind, AskedTime, NewestDump
  <2>4. NoAnswerInGap'
    <3>. SUFFICES ASSUME mode = 1, NEW k \in keys, k > ts
                  PROVE  ts < current + Interval
      BY <2>1 DEF NoAnswerInGap
    <3>1. ts < current + Interval \/ next = 0
      BY <1>1, <2>1 DEF AskedTime
    <3>2. next # 0
      <4>1. k > current
        BY <1>2, <1>3, <2>1
      <4>2. next \in keys
        BY <1>3, <2>1, <4>1 DEF IsSuccessor
      <4>. QED  BY <1>2, <4>2
    <3>. QED  BY <3>1, <3>2
  <2>5. LastAnswer'
    BY <1>1, <2>1 DEF LastAnswer
  <2>. QED  BY <2>3, <2>4, <2>5 DEF DenseInv
<1>7. CASE Validate
  <2>1. /\ pc = "answer" /\ pc' = "idle"
        /\ result' = [kind |-> "answer", ts |-> ts, dump |-> current,
                      tables |-> Consulted]
        /\ UNCHANGED <<keys, current, seen>>
    BY <1>7 DEF Validate, Return
  <2>2. LastAnswer'
    BY <1>3, <2>1 DEF DInv, DenseInv, NewestDump, LastAnswer
  <2>. QED  BY <2>1, <2>2, BetweenCalls DEF DenseInv
<1>8. CASE RejectPrefix \/ Crash
  <2>1. /\ pc = "answer" /\ UNCHANGED <<keys, current, seen>>
        /\ \/ pc' = "idle" /\ result' = Failed
           \/ pc' = "crashed" /\ result' = result
    BY <1>8 DEF RejectPrefix, Crash, Return
  <2>. QED  BY <2>1, FailedKind, BetweenCalls, AnswerKept DEF DenseInv
<1>. QED  BY <1>4, <1>5, <1>6, <1>7, <1>8 DEF Finish

\* The invariant holds in every behaviour.
LEMMA DenseInvariance ==
  ASSUME Attentive
  PROVE  Spec => []DInv
<1>1. Init => DenseInv
  BY DEF Init, NoResult, DenseInv, NoneLeftBehind, AskedTime, NewestDump,
         NoAnswerInGap, LastAnswer
<1>2. CInv /\ DenseInv /\ [Next]_vars => DenseInv'
  <2>. SUFFICES ASSUME DInv, [Next]_vars PROVE DenseInv'
    BY DEF DInv
  <2>1. CASE UNCHANGED vars
    BY <2>1
    DEF vars, config, broker, times, call, DInv, DenseInv, NoneLeftBehind, AskedTime,
        InIntervals, NewestDump, NoAnswerInGap, LastAnswer
  <2>. QED  BY <2>1, OutsideDense, EntryDense, RestDense DEF Next, Library
<1>3. DInv <=> CInv /\ DenseInv
  BY DEF DInv
<1>4. Cautious
  BY DEF Attentive, Cautious
<1>5. Spec => []CInv
  BY <1>4, CursorInvariance
<1>. QED  BY <1>1, <1>2, <1>3, <1>5, PTL DEF Spec

-----------------------------------------------------------------------------
(* The theorems about a caller that passes no dump by.                      *)

\* Every answer is taken from the newest dump of the table that is not newer than
\* the element, although a call moves at most one dump ahead (rpki.c:211-221).
THEOREM NewestIsUsed ==
  ASSUME Attentive
  PROVE  Spec => []NewestDump
<1>1. DInv => NewestDump
  BY DEF DInv, DenseInv
<1>. QED  BY <1>1, DenseInvariance, PTL

\* No historical answer for an element between the end of a dump's period and the
\* next dump (rpki.c:190-198).
THEOREM GapsUnanswered ==
  ASSUME Attentive
  PROVE  Spec => []NoAnswerInGap
<1>1. DInv => NoAnswerInGap
  BY DEF DInv, DenseInv
<1>. QED  BY <1>1, DenseInvariance, PTL

\* Asked again for the same time the library answers from the same dump
\* (rpki.c:75-247).
THEOREM AnswersStable ==
  ASSUME Attentive
  PROVE  Spec => StableAnswers
<1>1. DInv /\ [Next]_vars =>
        ((result.kind = "answer" /\ result'.kind = "answer" /\ result'.ts = result.ts)
           => result'.dump = result.dump)
  <2>. SUFFICES ASSUME DInv, [Next]_vars, result.kind = "answer",
                       result'.kind = "answer", result'.ts = result.ts
                PROVE  result'.dump = result.dump
    OBVIOUS
  <2>. USE DEF environment, config, broker, times, tables, call
  <2>1. Failed.kind = "error" /\ Blank.kind = "blank" /\ Live.kind = "live"
    BY DEF Failed, Blank, Live
  <2>2. CASE Validate
    <3>1. /\ pc = "answer" /\ result'.ts = ts /\ result'.dump = current
      BY <2>2 DEF Validate, Return
    <3>. QED  BY <3>1 DEF DInv, DenseInv, LastAnswer
  <2>3. CASE ~Validate
    <3>1. result' = result
      <4>1. CASE UNCHANGED vars
        BY <4>1 DEF vars
      <4>2. CASE SetConfig \/ Call \/ RtrSynced \/ Destroy \/ Tick
        BY <2>1, <4>2 DEF SetConfig, SetHistorical, SetLive, SetFails, Call,
                          RtrSynced, Return, Destroy, Tick
      <4>3. CASE Entry
        BY <2>1, <4>3, LoadOutcome
        DEF Entry, AnswerLive, RejectPrefixLive, RejectTimestamp, BlankOlder, Locate,
            Located, Return
      <4>4. CASE Switch
        BY <2>1, <4>4, LoadOutcome
        DEF Switch, HybridUnreachable, HybridCrashes, HybridMalformed, HybridRequest, HybridHangs,
            SwitchToLive, SwitchToLiveFails, BlankGap, NoSwitch, Return
      <4>5. CASE Finish
        BY <2>1, <2>3, <4>5, LoadOutcome
        DEF Finish, Advance, NoAdvance, RejectPrefix, Crash, Return
      <4>. QED  BY <4>1, <4>2, <4>3, <4>4, <4>5 DEF Next, Library
    <3>. QED  BY <3>1
  <2>. QED  BY <2>2, <2>3
<1>. QED  BY <1>1, DenseInvariance, PTL DEF Spec, StableAnswers

-----------------------------------------------------------------------------
(* The steps of the oracle, in terms of the variables of the program.       *)

InCall == pc \in {"entry", "located", "switching", "advance", "answer", "hung",
                  "crashed"}

\* No dump is left after the current one, and it is outdated.
OutOfDumps == ts >= current + Interval /\ \A k \in keys : k <= current

\* Nothing the oracle sees changes.
LEMMA NothingSeen ==
  ASSUME UNCHANGED <<keys, current, mode, rtr, ts, result>>, InCall' <=> InCall
  PROVE  UNCHANGED Oracle!ovars
<1>1. pc' \in {"entry", "located", "switching", "advance", "answer", "hung",
              "crashed"}
      <=> pc \in {"entry", "located", "switching", "advance", "answer", "hung",
                  "crashed"}
  BY DEF InCall
<1>. QED  BY <1>1 DEF Oracle!ovars

\* A later dump, or an error.
LEMMA SeekStep ==
  ASSUME InCall, UNCHANGED <<mode, rtr, ts>>,
         keys' = keys \/ (mode = 1 /\ OutOfDumps),
         \/ current' = current
         \/ /\ mode = 1 \/ rtr = "none"
            /\ current' \in keys' /\ current <= current' /\ current' <= ts,
         \/ InCall' /\ result' = result
         \/ pc' = "idle" /\ result' = Failed
  PROVE  Oracle!Seek
<1>1. Oracle!GoOnOrFail
  BY DEF Oracle!GoOnOrFail, Oracle!Reply, InCall, Failed
<1>. QED  BY <1>1 DEF Oracle!Seek, Oracle!Exhausted, OutOfDumps, InCall

\* The callers and archives the oracle is right about: an attentive caller with
\* closed intervals, or one that passes dumps by.
Suited == Cautious /\ (Dense => EveryIntervalEnds)

\* Without a historical mode and without a connection the dump looked at last
\* answers everything; a closed connection is seen at the end only.
WayInv ==
  /\ pc \in {"located", "advance", "answer"} => mode = 1 \/ rtr = "none"
  /\ rtr = "closed" => pc = "destroyed"

\* What the oracle's steps are derived from.
OInv == MInv /\ CInv /\ WayInv /\ (Dense => DenseInv)

\* Every step keeps WayInv.
LEMMA WayStep ==
  ASSUME MInv, CInv, WayInv, [Next]_vars
  PROVE  WayInv'
<1>. USE DEF environment, config, broker, times, tables, call
<1>1. CASE UNCHANGED vars
  BY <1>1 DEF vars, WayInv
<1>2. CASE SetConfig \/ Call \/ Tick
  BY <1>2 DEF SetConfig, SetHistorical, SetLive, SetFails, Call, Tick, WayInv
<1>3. CASE RtrSynced
  <2>1. rtr' = "synced" /\ pc' = "idle"
    BY <1>3 DEF RtrSynced, Return
  <2>. QED  BY <2>1 DEF WayInv
<1>4. CASE Destroy
  BY <1>4 DEF Destroy, WayInv
<1>5. CASE Entry
  <2>1. pc = "entry" /\ rtr' = rtr /\ mode' = mode
    BY <1>5 DEF Entry, AnswerLive, RejectPrefixLive, RejectTimestamp, BlankOlder,
                Locate, Located, ChecksPass
  <2>2. CASE Locate \/ Located
    <3>1. ~LivePath
      BY <2>2 DEF Locate, Located, ChecksPass
    <3>2. rtr \in {"none", "starting", "synced", "closed"} /\ mode \in {0, 1}
      BY DEF MInv, TypeOK
    <3>3. mode = 1 \/ rtr = "none"
      BY <2>1, <3>1, <3>2 DEF LivePath, MInv, ModeInv, WayInv
    <3>. QED  BY <2>1, <3>3 DEF WayInv
  <2>3. CASE AnswerLive \/ RejectPrefixLive \/ RejectTimestamp \/ BlankOlder
    <3>1. pc' = "idle"
      BY <2>3 DEF AnswerLive, RejectPrefixLive, RejectTimestamp, BlankOlder, Return
    <3>. QED  BY <2>1, <3>1 DEF WayInv
  <2>. QED  BY <1>5, <2>2, <2>3 DEF Entry
<1>6. CASE Switch
  <2>1. pc = "located"
    BY <1>6
    DEF Switch, HybridUnreachable, HybridCrashes, HybridMalformed, HybridRequest, HybridHangs, Hybrid,
        SwitchToLive, SwitchToLiveFails, PastTable, BlankGap, InGap, NoSwitch
  <2>2. CASE SwitchToLive
    BY <2>2 DEF SwitchToLive, WayInv
  <2>3. CASE SwitchToLiveFails
    BY <2>1, <2>3 DEF SwitchToLiveFails, Return, WayInv
  <2>4. CASE Switch /\ ~SwitchToLive /\ ~SwitchToLiveFails
    <3>1. UNCHANGED <<mode, rtr>> /\ pc' # "destroyed"
      BY <2>4, LoadEnds
      DEF Switch, HybridUnreachable, HybridCrashes, HybridMalformed, HybridRequest, HybridHangs,
          BlankGap, NoSwitch, Return
    <3>. QED  BY <2>1, <3>1 DEF WayInv
  <2>. QED  BY <1>6, <2>2, <2>3, <2>4
<1>7. CASE Finish
  <2>1. /\ pc \in {"advance", "answer"} /\ pc' # "destroyed"
        /\ UNCHANGED <<mode, rtr>>
    BY <1>7, LoadEnds
    DEF Finish, Advance, NoAdvance, Validate, RejectPrefix, Crash, Return
  <2>. QED  BY <2>1 DEF WayInv
<1>. QED  BY <1>1, <1>2, <1>3, <1>4, <1>5, <1>6, <1>7 DEF Next, Library

\* The oracle's invariant holds in every behaviour.
LEMMA OracleInvariance ==
  ASSUME Suited
  PROVE  Spec => []OInv
<1>1. Init => WayInv
  BY DEF Init, WayInv
<1>2. MInv /\ CInv /\ WayInv /\ [Next]_vars => WayInv'
  BY WayStep
<1>3. Spec => []CInv
  BY CursorInvariance DEF Suited
<1>4. Spec => [](Dense => DenseInv)
  <2>1. CASE Dense
    <3>1. Attentive
      BY <2>1 DEF Suited, Cautious, Attentive
    <3>2. Spec => []DInv
      BY <3>1, DenseInvariance
    <3>3. DInv => (Dense => DenseInv)
      BY DEF DInv
    <3>. QED  BY <3>2, <3>3, PTL
  <2>2. CASE ~Dense
    <3>1. Dense => DenseInv
      BY <2>2
    <3>. QED  BY <3>1, PTL
  <2>. QED  BY <2>1, <2>2
<1>5. MInv /\ CInv /\ WayInv /\ (Dense => DenseInv) => OInv
  BY DEF OInv
<1>. QED  BY <1>1, <1>2, <1>3, <1>4, <1>5, ModeInvariance, PTL DEF Spec

\* Beyond the last dump of the table.
LEMMA TableExhausted ==
  ASSUME CInv, PastTable
  PROVE  OutOfDumps /\ mode = 1 /\ pc = "located"
<1>1. pc = "located" /\ mode = 1 /\ ts >= current + Interval /\ next = 0
  BY DEF PastTable, Expired
<1>2. IsSuccessor(0)
  BY <1>1 DEF CInv, CursorStage, CursorTable, CursorFitsTable, InTable, Unlocated
<1>3. \A k \in keys : ~(k > current)
  BY <1>2, CursorTypes DEF IsSuccessor
<1>. QED  BY <1>1, <1>3, CursorTypes DEF OutOfDumps

-----------------------------------------------------------------------------
(* Every step is one of the oracle's or changes nothing it sees.            *)

\* The configuration, the caller and the surroundings.
LEMMA OutsideOracle ==
  ASSUME OInv, SetConfig \/ Call \/ RtrSynced \/ Destroy \/ Tick
  PROVE  [Oracle!Next]_(Oracle!ovars)
<1>. USE DEF environment, config, broker, times, tables, call
<1>1. CASE SetHistorical
  <2>1. /\ pc = "unset" /\ pc' = "idle" /\ mode = 0 /\ rtr = "none" /\ mode' = 1
        /\ current = 0 /\ UNCHANGED <<current, ts, result>>
    BY <1>1 DEF SetHistorical, OInv, MInv, ModeInv, CInv, CursorStage
  <2>2. Oracle!SetUp
    BY <2>1 DEF Oracle!SetUp
  <2>. QED  BY <2>2 DEF Oracle!Next
<1>2. CASE SetLive
  <2>1. /\ pc = "unset" /\ pc' = "connecting" /\ mode = 0 /\ rtr = "none"
        /\ mode' = 0 /\ rtr' = "starting"
        /\ current = 0 /\ UNCHANGED <<keys, current, ts, result>>
    BY <1>2 DEF SetLive, OInv, MInv, ModeInv, CInv, CursorStage
  <2>2. Oracle!SetUp
    BY <2>1 DEF Oracle!SetUp
  <2>. QED  BY <2>2 DEF Oracle!Next
<1>3. CASE SetFails \/ Tick
  <2>1. UNCHANGED <<keys, current, mode, rtr, ts, result>> /\ (InCall' <=> InCall)
    BY <1>3 DEF SetFails, Tick, InCall
  <2>. QED  BY <2>1, NothingSeen
<1>4. CASE Call
  <2>1. /\ pc = "idle" /\ pc' = "entry"
        /\ UNCHANGED <<keys, current, mode, rtr, result>>
    BY <1>4 DEF Call
  <2>2. Oracle!Ask
    BY <2>1 DEF Oracle!Ask
  <2>. QED  BY <2>2 DEF Oracle!Next
<1>5. CASE RtrSynced
  <2>1. /\ rtr = "starting" /\ rtr' = "synced" /\ pc' = "idle" /\ mode = 0
        /\ UNCHANGED <<keys, current, mode, ts>>
    BY <1>5 DEF RtrSynced, Return, OInv, MInv, ModeInv, TypeOK
  <2>2. CASE pc = "connecting" /\ result' = result
    <3>1. UNCHANGED Oracle!ovars
      BY <2>1, <2>2 DEF Oracle!ovars
    <3>. QED  BY <3>1
  <2>3. CASE pc = "switching" /\ result' = Live
    <3>1. Oracle!AnswerLive
      BY <2>1, <2>3 DEF Oracle!AnswerLive, Oracle!Reply, Live
    <3>. QED  BY <3>1 DEF Oracle!Next
  <2>4. CASE pc = "switching" /\ result' = Failed
    <3>1. Oracle!Seek
      BY <2>1, <2>4 DEF Oracle!Seek, Oracle!GoOnOrFail, Oracle!Reply, Failed
    <3>. QED  BY <3>1 DEF Oracle!Next
  <2>. QED  BY <1>5, <2>2, <2>3, <2>4 DEF RtrSynced, Return
<1>6. CASE Destroy
  <2>1. /\ pc = "idle" /\ pc' = "destroyed" /\ keys' = {}
        /\ UNCHANGED <<current, mode, ts, result>>
        /\ rtr' = rtr \/ (rtr = "synced" /\ rtr' = "closed")
    BY <1>6 DEF Destroy, CloseConnection, Closed
  <2>2. Oracle!Forget
    BY <2>1 DEF Oracle!Forget
  <2>. QED  BY <2>2 DEF Oracle!Next
<1>. QED  BY <1>1, <1>2, <1>3, <1>4, <1>5, <1>6 DEF SetConfig

\* The checks at the entry and the first element.
LEMMA EntryOracle ==
  ASSUME OInv, Suited, Entry
  PROVE  [Oracle!Next]_(Oracle!ovars)
<1>. USE DEF environment, config, broker, times, tables, call
<1>1. CInv /\ Cautious
  BY DEF OInv, Suited
<1>2. CASE AnswerLive
  <2>1. /\ pc = "entry" /\ mode = 0 /\ rtr = "synced" /\ pc' = "idle"
        /\ result' = Live /\ UNCHANGED <<keys, current, mode, rtr, ts>>
    BY <1>2 DEF AnswerLive, LivePath, Return
  <2>2. Oracle!AnswerLive
    BY <2>1 DEF Oracle!AnswerLive, Oracle!Reply, Live
  <2>. QED  BY <2>2 DEF Oracle!Next
<1>3. CASE RejectPrefixLive \/ RejectTimestamp
  <2>1. /\ InCall /\ pc' = "idle" /\ result' = Failed
        /\ UNCHANGED <<keys, current, mode, rtr, ts>>
    BY <1>3 DEF RejectPrefixLive, RejectTimestamp, Return, InCall
  <2>. QED  BY <2>1, SeekStep DEF Oracle!Next
<1>4. CASE BlankOlder
  <2>1. /\ pc = "entry" /\ mode = 1 /\ ts < current /\ pc' = "idle"
        /\ result' = Blank /\ UNCHANGED <<keys, current, mode, rtr, ts>>
    BY <1>4 DEF BlankOlder, OlderThanCurrent, Return
  <2>2. Oracle!Blank
    BY <2>1 DEF Oracle!Blank, Oracle!Reply, Blank
  <2>. QED  BY <2>2 DEF Oracle!Next
<1>5. CASE Locate
  <2>1. /\ InCall /\ UNCHANGED <<keys, mode, rtr, ts>>
        /\ \/ InCall' /\ result' = result
           \/ pc' = "idle" /\ result' = Failed
    BY <1>5, LoadEnds DEF Locate, ChecksPass, Accept, InCall
  <2>2. /\ mode = 1 /\ current' \in keys' /\ current <= current' /\ current' <= ts
    BY <1>1, <1>5, LocateCursor, CursorTypes
  <2>. QED  BY <2>1, <2>2, SeekStep DEF Oracle!Next
<1>6. CASE Located
  <2>1. UNCHANGED <<keys, current, mode, rtr, ts, result>> /\ (InCall' <=> InCall)
    BY <1>6 DEF Located, ChecksPass, Accept, InCall
  <2>. QED  BY <2>1, NothingSeen
<1>. QED  BY <1>2, <1>3, <1>4, <1>5, <1>6 DEF Entry

\* Beyond the last dump, or in a gap.
LEMMA SwitchOracle ==
  ASSUME OInv, IInv', Suited, Switch
  PROVE  [Oracle!Next]_(Oracle!ovars)
<1>. USE DEF environment, config, broker, times, tables, call
<1>1. CInv /\ Cautious
  BY DEF OInv, Suited
<1>2. CASE HybridUnreachable \/ HybridMalformed
  <2>1. /\ PastTable /\ pc' = "idle" /\ result' = Failed
        /\ UNCHANGED <<current, mode, rtr, ts>>
    BY <1>2 DEF HybridUnreachable, HybridMalformed, Hybrid, Return
  <2>2. InCall /\ OutOfDumps /\ mode = 1
    BY <1>1, <2>1, TableExhausted DEF InCall
  <2>. QED  BY <2>1, <2>2, SeekStep DEF Oracle!Next
<1>3. CASE HybridRequest
  <2>1. /\ PastTable /\ UNCHANGED <<mode, rtr, ts>>
        /\ \/ InCall' /\ result' = result
           \/ pc' = "idle" /\ result' = Failed
    BY <1>3, LoadEnds DEF HybridRequest, Hybrid, InCall
  <2>2. InCall /\ OutOfDumps /\ mode = 1
    BY <1>1, <2>1, TableExhausted DEF InCall
  <2>3. current' \in keys' /\ current <= current' /\ current' <= ts
    <3>1. current' \in Nat
      <4>1. current' \in Grid \cup {0}
        BY DEF IInv, TypeOK
      <4>. QED  BY <4>1, OnTheGrid
    <3>. QED  BY <1>1, <1>3, <3>1, HybridCursor, CursorTypes
  <2>. QED  BY <2>1, <2>2, <2>3, SeekStep DEF Oracle!Next
<1>41. CASE HybridCrashes
  <2>1. UNCHANGED <<keys, current, mode, rtr, ts, result>> /\ (InCall' <=> InCall)
    BY <1>41 DEF HybridCrashes, Hybrid, PastTable, InCall
  <2>. QED  BY <2>1, NothingSeen
<1>4. CASE HybridHangs
  <2>1. /\ PastTable /\ UNCHANGED <<current, mode, rtr, ts, result>> /\ InCall'
    BY <1>4 DEF HybridHangs, Hybrid, InCall
  <2>2. InCall /\ OutOfDumps /\ mode = 1
    BY <1>1, <2>1, TableExhausted DEF InCall
  <2>. QED  BY <2>1, <2>2, SeekStep DEF Oracle!Next
<1>5. CASE SwitchToLive \/ SwitchToLiveFails
  <2>1. /\ PastTable /\ mode' = 0 /\ UNCHANGED <<keys, current, ts>>
        /\ rtr' = "starting" \/ rtr' = rtr
        /\ \/ pc' \in {"switching", "crashed"} /\ result' = result
           \/ pc' = "idle" /\ result' = Failed
    BY <1>5 DEF SwitchToLive, SwitchToLiveFails, LeaveHistorical, Return
  <2>2. pc = "located" /\ OutOfDumps /\ mode = 1
    BY <1>1, <2>1, TableExhausted
  <2>3. rtr = "none"
    BY <2>2 DEF OInv, MInv, ModeInv
  <2>4. Oracle!GoOnOrFail
    BY <2>1, <2>2 DEF Oracle!GoOnOrFail, Oracle!Reply, Failed
  <2>5. Oracle!GoLive
    BY <2>1, <2>2, <2>3, <2>4 DEF Oracle!GoLive, Oracle!Exhausted, OutOfDumps
  <2>. QED  BY <2>5 DEF Oracle!Next
<1>6. CASE BlankGap
  <2>1. /\ pc = "located" /\ mode = 1 /\ ts >= current + Interval
        /\ next # 0 /\ ts < next
        /\ pc' = "idle" /\ result' = Blank
        /\ UNCHANGED <<keys, current, mode, rtr, ts>>
    BY <1>6 DEF BlankGap, InGap, Expired, Return
  <2>2. \A k \in keys : k > current => next <= k
    BY <1>1, <2>1 DEF CInv, CursorStage, CursorTable, CursorFitsTable, InTable,
                      Unlocated, IsSuccessor
  <2>3. \A k \in keys : ~(k <= ts /\ ts < k + Interval)
    BY <1>1, <2>1, <2>2, CursorTypes
  <2>4. Oracle!Blank
    BY <2>1, <2>3 DEF Oracle!Blank, Oracle!Reply, Oracle!InForce, Blank
  <2>. QED  BY <2>4 DEF Oracle!Next
<1>7. CASE NoSwitch
  <2>1. UNCHANGED <<keys, current, mode, rtr, ts, result>> /\ (InCall' <=> InCall)
    BY <1>7 DEF NoSwitch, InCall
  <2>. QED  BY <2>1, NothingSeen
<1>. QED  BY <1>2, <1>3, <1>4, <1>41, <1>5, <1>6, <1>7 DEF Switch

\* The step to the next dump and the answer.
LEMMA FinishOracle ==
  ASSUME OInv, Finish
  PROVE  [Oracle!Next]_(Oracle!ovars)
<1>. USE DEF environment, config, broker, times, tables, call
<1>1. CInv
  BY DEF OInv
<1>2. CASE Advance
  <2>1. /\ pc = "advance" /\ InCall /\ UNCHANGED <<keys, mode, rtr, ts>>
        /\ \/ InCall' /\ result' = result
           \/ pc' = "idle" /\ result' = Failed
    BY <1>2, LoadEnds DEF Advance, InCall
  <2>2. current' \in keys' /\ current <= current' /\ current' <= ts
    BY <1>1, <1>2, <2>1, AdvanceCursor, CursorTypes
  <2>3. mode = 1 \/ rtr = "none"
    BY <2>1 DEF OInv, WayInv
  <2>. QED  BY <2>1, <2>2, <2>3, SeekStep DEF Oracle!Next
<1>3. CASE NoAdvance \/ Crash
  <2>1. UNCHANGED <<keys, current, mode, rtr, ts, result>> /\ (InCall' <=> InCall)
    BY <1>3 DEF NoAdvance, Crash, InCall
  <2>. QED  BY <2>1, NothingSeen
<1>4. CASE RejectPrefix
  <2>1. /\ InCall /\ pc' = "idle" /\ result' = Failed
        /\ UNCHANGED <<keys, current, mode, rtr, ts>>
    BY <1>4 DEF RejectPrefix, Return, InCall
  <2>. QED  BY <2>1, SeekStep DEF Oracle!Next
<1>5. CASE Validate
  <2>1. /\ pc = "answer" /\ pc' = "idle"
        /\ result'.kind = "answer" /\ result'.ts = ts /\ result'.dump = current
        /\ UNCHANGED <<keys, current, mode, rtr, ts>>
    BY <1>5 DEF Validate, Return
  <2>2. mode = 1 \/ rtr = "none"
    BY <2>1 DEF OInv, WayInv
  <2>3. mode = 1 => current \in keys /\ current <= ts
    BY <1>1, <2>1 DEF CInv, CursorStage, CursorTable, InTable, Unlocated
  <2>4. (mode = 1 /\ Dense) =>
          /\ \A k \in keys : k <= ts => k <= current
          /\ Oracle!InForce(current) \/ \A k \in keys : k <= current
    <3>. SUFFICES ASSUME mode = 1, Dense
                  PROVE  /\ \A k \in keys : k <= ts => k <= current
                         /\ Oracle!InForce(current) \/ \A k \in keys : k <= current
      OBVIOUS
    <3>1. \A k \in keys : k <= ts => k <= current
      BY <2>1 DEF OInv, DenseInv, NewestDump
    <3>2. (\E k \in keys : k > ts) => ts < current + Interval
      BY <2>1 DEF OInv, DenseInv, NoAnswerInGap
    <3>3. CASE \E k \in keys : k > ts
      BY <2>3, <3>1, <3>2, <3>3 DEF Oracle!InForce
    <3>4. CASE ~ \E k \in keys : k > ts
      BY <1>1, <3>1, <3>4, CursorTypes
    <3>. QED  BY <3>1, <3>3, <3>4
  <2>5. Oracle!Answer
    BY <2>1, <2>2, <2>3, <2>4 DEF Oracle!Answer, Oracle!Reply
  <2>. QED  BY <2>5 DEF Oracle!Next
<1>. QED  BY <1>2, <1>3, <1>4, <1>5 DEF Finish

\* The calls implement the oracle: cursor, counters, successor and stages together
\* choose the dump in force, for an attentive caller the newest one, and nothing
\* else ever shows (rpki.c:75-247).
THEOREM OracleImplemented ==
  ASSUME Suited
  PROVE  Spec => IsOracle
<1>1. Init => Oracle!Init
  BY DEF Init, NoResult, Oracle!Init
<1>2. OInv /\ IInv' /\ [Next]_vars => [Oracle!Next]_(Oracle!ovars)
  <2>. SUFFICES ASSUME OInv, IInv', [Next]_vars
                PROVE  [Oracle!Next]_(Oracle!ovars)
    OBVIOUS
  <2>1. CASE UNCHANGED vars
    <3>1. UNCHANGED <<keys, current, mode, rtr, ts, result>> /\ (InCall' <=> InCall)
      BY <2>1 DEF vars, config, broker, times, call, InCall
    <3>. QED  BY <3>1, NothingSeen
  <2>. QED  BY <2>1, OutsideOracle, EntryOracle, SwitchOracle, FinishOracle
            DEF Next, Library
<1>3. OInv => IInv
  BY DEF OInv, CInv
<1>. QED  BY <1>1, <1>2, <1>3, OracleInvariance, PTL DEF Spec, IsOracle, Oracle!Spec
=============================================================================

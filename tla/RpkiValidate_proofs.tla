------------------------- MODULE RpkiValidate_proofs -------------------------
(***************************************************************************)
(* Type correctness of RpkiValidate, the contents of its prefix tables,    *)
(* the life of its connection and the movement of its cursor, for every    *)
(* archive, every list of intervals, every number of collectors and every  *)
(* width of the clock.                                                     *)
(***************************************************************************)
EXTENDS RpkiValidate, Timestamps_proofs

\* The table entries agree with their counter, and next is one of them; there
\* is none before the configuration.
TableLinks ==
  pc # "destroyed" => /\ khash_count = Cardinality(keys)
                      /\ next # 0 => next \in keys
                      /\ pc = "unset" => next = 0

\* Every flag stands for a complete dump, below pfxt_count or not.
FlagsComplete ==
  pc # "destroyed" =>
     \A c \in pfxt_active : /\ c \in archive[current]
                            /\ Dump(c, current) \subseteq pfxt[TableOf(c)]
                            /\ Unified \/ pfxt[c] = Dump(c, current)

IInv == TypeOK /\ TableLinks /\ RecordsAreCurrent /\ FlagsComplete

-----------------------------------------------------------------------------
\* Every answer of the broker is a finite set of dumps of the archive.
LEMMA AnswerType ==
  ASSUME NEW request
  PROVE  /\ Answer(request) \subseteq Grid
         /\ Cardinality(Answer(request)) \in Nat
<1>1. Answer(request) \subseteq Grid
  BY DEF Answer, Published
<1>2. IsFiniteSet(Answer(request))
  BY <1>1, GridAssumption, FS_Subset
<1>. QED  BY <1>1, <1>2, FS_CardinalityType

\* The max_end field is a timestamp.
LEMMA MaxEndType ==
  ASSUME NEW request \in SUBSET (Timestamp \X Timestamp), request # {}
  PROVE  MaxEnd(request) \in Timestamp
<1>. DEFINE ends == {iv[2] : iv \in request}
<1>1. ends \subseteq Timestamp /\ ends # {}
  OBVIOUS
<1>2. 0 \in Timestamp
  BY WidthAssumption DEF Timestamp
<1>3. \E e \in ends : \A f \in ends : f <= e
  BY <1>1, GreatestExists
<1>4. \E e \in ends : \A iv \in request : iv[2] <= e
  BY <1>3
<1>. QED  BY <1>1, <1>2, <1>4 DEF MaxEnd

\* The search for the timestamps ends in the table.
LEMMA TimestampsInTable ==
  ASSUME NEW K \in SUBSET Grid, K # {}, NEW count \in Int, NEW used \in Int,
         NEW t \in Timestamp
  PROVE  /\ cfg_get_timestamps(K, count, used, t).current \in K
         /\ cfg_get_timestamps(K, count, used, t).next \in K \cup {0}
<1>. DEFINE k == FirstHit(K, Backward(t))
<1>1. PICK g \in K : TRUE
  OBVIOUS
<1>2. PICK n \in Timestamp : Backward(t)[n] = g
  BY GridAssumption
<1>3. Hits(K, Backward(t)) # {}
  BY <1>1, <1>2 DEF Hits
<1>4. k \in K
  BY <1>3, FirstHitIsKey
<1>5. k \in Timestamp
  BY <1>4, GridAssumption
<1>6. cfg_next_timestamp(K, count, used, k) \in K \cup {0}
  BY <1>4, <1>5, NextIsKey
<1>. QED  BY <1>4, <1>6 DEF cfg_get_timestamps

\* What loading the dumps of timestamp k should leave, however it ends: records
\* of that dump only, and flags only for dumps that were imported as a whole.
SoundTables(tabs, active, urls, k) ==
  /\ tabs \in [Collector -> SUBSET Record(Grid)]
  /\ active \subseteq Collector
  /\ \A c \in Collector : \A r \in tabs[c] : r.dump = k
  /\ \A c \in active : /\ c \in urls
                       /\ Dump(c, k) \subseteq tabs[TableOf(c)]
                       /\ Unified \/ tabs[c] = Dump(c, k)

\* cfg_parse_urls leaves that.
LEMMA ParsedTables ==
  ASSUME NEW old, NEW urls, urls \in SUBSET Collector, NEW k, k \in Grid,
         NEW outcome, outcome \in ParseOutcome(urls)
  PROVE  /\ SoundTables(cfg_parse_urls(old, urls, k, outcome).pfxt,
                        cfg_parse_urls(old, urls, k, outcome).active, urls, k)
         /\ cfg_parse_urls(old, urls, k, outcome).count \in Nat
<1>. DEFINE loaded == cfg_parse_urls(old, urls, k, outcome)
<1>. DEFINE stop == outcome.stop
            broken == outcome.broken
            whole(t) == Whole(urls, k, stop, t)
            rest(t) == Rest(k, stop, broken, t)
<1>1. /\ stop \in Nat /\ Collector \subseteq Nat
      /\ broken # {} => stop \in Collector
  <2>1. CollectorsCount \in Nat /\ Collector \subseteq Nat
    BY CollectorsAssumption DEF Collector
  <2>2. \/ stop = CollectorsCount /\ broken = {}
        \/ stop \in urls
    BY DEF ParseOutcome
  <2>. QED  BY <2>1, <2>2
<1>2. loaded.pfxt = [t \in Collector |-> whole(t) \cup rest(t)]
  <2>1. loaded.pfxt = Imported(Cleaned(old), urls, k, stop, broken)
    BY DEF cfg_parse_urls
  <2>2. Imported(Cleaned(old), urls, k, stop, broken)
          = [t \in Collector |-> Cleaned(old)[t] \cup whole(t) \cup rest(t)]
    BY DEF Imported
  <2>3. \A t \in Collector : Cleaned(old)[t] \cup whole(t) \cup rest(t)
                               = whole(t) \cup rest(t)
    BY DEF Cleaned
  <2>. QED  BY <2>1, <2>2, <2>3, Zenon
<1>3. \A t : \A r \in whole(t) \cup rest(t) : r \in Record(Grid) /\ r.dump = k
  <2>1. \A c \in Collector : \A r \in Dump(c, k) : r \in Record(Grid) /\ r.dump = k
    BY DEF Dump, Record
  <2>2. \A t : \A r \in rest(t) : stop \in Collector
    BY <1>1 DEF Rest
  <2>. QED  BY <2>1, <2>2 DEF Whole, Rest
<1>4. loaded.active = {c \in urls : c < stop} /\ loaded.count = stop
  BY DEF cfg_parse_urls, Activated
<1>. HIDE DEF loaded
<1>5. ASSUME NEW c \in loaded.active
      PROVE  /\ c \in urls
             /\ Dump(c, k) \subseteq loaded.pfxt[TableOf(c)]
             /\ Unified \/ loaded.pfxt[c] = Dump(c, k)
  <2>1. c \in urls /\ c < stop /\ c \in Collector
    BY <1>4, <1>5
  <2>2. TableOf(c) \in Collector
    <3>1. 0 \in Collector
      BY CollectorsAssumption DEF Collector
    <3>. QED  BY <2>1, <3>1 DEF TableOf
  <2>3. Dump(c, k) \subseteq whole(TableOf(c))
    BY <2>1 DEF Whole
  <2>4. CASE ~Unified
    <3>1. {d \in urls : d < stop /\ TableOf(d) = c} = {c}
      BY <2>1, <2>4 DEF TableOf
    <3>2. rest(c) = {}
      BY <1>1, <2>1, <2>4 DEF TableOf, Rest
    <3>3. whole(c) = Dump(c, k)
      BY <3>1 DEF Whole
    <3>4. loaded.pfxt[c] = whole(c) \cup rest(c)
      BY <1>2, <2>1
    <3>5. loaded.pfxt[TableOf(c)] = loaded.pfxt[c]
      BY <2>4 DEF TableOf
    <3>. QED  BY <2>1, <2>3, <3>2, <3>3, <3>4, <3>5
  <2>. QED  BY <1>2, <2>1, <2>2, <2>3, <2>4
<1>6. \A c \in Collector : \A r \in loaded.pfxt[c] : r.dump = k
  BY <1>2, <1>3
<1>7. loaded.pfxt \in [Collector -> SUBSET Record(Grid)]
  BY <1>2, <1>3
<1>8. loaded.active \subseteq Collector /\ loaded.count \in Nat
  BY <1>1, <1>4
<1>9. SoundTables(loaded.pfxt, loaded.active, urls, k)
  BY <1>5, <1>6, <1>7, <1>8 DEF SoundTables
<1>. QED  BY <1>8, <1>9 DEF loaded

-----------------------------------------------------------------------------
(* The initial states and the steps.                                        *)

Results == [kind : {"none", "error", "blank", "live", "answer"},
            ts : Timestamp, dump : Grid \cup {0}, tables : SUBSET Collector]

\* Results without a dump are results.
LEMMA PlainResults ==
  ASSUME ts \in Timestamp
  PROVE  Failed \in Results /\ Blank \in Results /\ Live \in Results
BY DEF Failed, Blank, Live, Results

\* Loading the dumps of timestamp k, whether it succeeds, breaks off or crashes.
LEMMA LoadEffect ==
  ASSUME archive \in [Grid -> SUBSET Collector], ts \in Timestamp,
         result \in Results, NEW k, k \in Grid, NEW stage, Load(k, stage)
  PROVE  /\ SoundTables(pfxt', pfxt_active', archive[k], k)
         /\ pfxt_count' \in Nat
         /\ pc' \in {stage, "idle", "crashed"}
         /\ result' \in Results
<1>1. PICK outcome \in ParseOutcome(archive[k]) :
        LET loaded == cfg_parse_urls(pfxt, archive[k], k, outcome)
        IN  /\ pfxt' = loaded.pfxt
            /\ pfxt_active' = loaded.active
            /\ pfxt_count' = loaded.count
            /\ \/ ParseOk(outcome) /\ pc' = stage /\ UNCHANGED result
               \/ ~ParseOk(outcome) /\ pc' = "idle" /\ result' = Failed
               \/ ParseEmpty(outcome) /\ pc' = "crashed" /\ UNCHANGED result
  BY DEF Load
<1>2. /\ pfxt' = cfg_parse_urls(pfxt, archive[k], k, outcome).pfxt
      /\ pfxt_active' = cfg_parse_urls(pfxt, archive[k], k, outcome).active
      /\ pfxt_count' = cfg_parse_urls(pfxt, archive[k], k, outcome).count
      /\ pc' \in {stage, "idle", "crashed"}
      /\ result' = result \/ result' = Failed
  BY <1>1
<1>3. archive[k] \in SUBSET Collector
  OBVIOUS
<1>4. /\ SoundTables(cfg_parse_urls(pfxt, archive[k], k, outcome).pfxt,
                     cfg_parse_urls(pfxt, archive[k], k, outcome).active,
                     archive[k], k)
      /\ cfg_parse_urls(pfxt, archive[k], k, outcome).count \in Nat
  BY <1>1, <1>3, ParsedTables
<1>. QED  BY <1>2, <1>4, PlainResults

\* The initial states.
LEMMA InitInv == Init => IInv
<1>. SUFFICES ASSUME Init PROVE IInv
  OBVIOUS
<1>1. 0 \in Timestamp
  BY WidthAssumption DEF Timestamp
<1>2. result \in Results
  BY <1>1 DEF Init, NoResult, Results
<1>3. archive \in Archives /\ now \in Clock
  BY DEF Init
<1>4. pfxt \in [Collector -> SUBSET Record(Grid)]
  BY DEF Init
<1>5. pc \in Stages /\ rtr \in {"none", "starting", "synced", "closed"}
  BY DEF Init, Stages
<1>6. /\ mode = 0 /\ intervals = {} /\ max_end = 0
      /\ keys = {} /\ khash_count = 0 /\ khash_used = 0
      /\ current = 0 /\ next = 0 /\ current_gap = 0
      /\ pfxt_active = {} /\ pfxt_count = 0 /\ ts = 0 /\ seen = 0
  BY DEF Init
<1>7. TypeOK
  BY <1>1, <1>2, <1>3, <1>4, <1>5, <1>6 DEF TypeOK, Results
<1>8. TableLinks
  BY FS_EmptySet DEF Init, TableLinks
<1>9. RecordsAreCurrent
  BY DEF Init, RecordsAreCurrent
<1>10. FlagsComplete
  BY DEF Init, FlagsComplete
<1>. QED  BY <1>7, <1>8, <1>9, <1>10 DEF IInv

\* A step that leaves the table, the cursor and the prefix tables alone keeps
\* the invariant if it keeps the types.
LEMMA Untouched ==
  ASSUME IInv, TypeOK', pc' # "destroyed" => pc # "destroyed",
         pc' = "unset" => pc = "unset",
         UNCHANGED <<archive, keys, khash_count, current, next, pfxt, pfxt_active>>
  PROVE  IInv'
<1>1. TableLinks'
  BY DEF IInv, TableLinks
<1>2. RecordsAreCurrent'
  BY DEF IInv, RecordsAreCurrent
<1>3. FlagsComplete'
  BY DEF IInv, FlagsComplete
<1>. QED  BY <1>1, <1>2, <1>3 DEF IInv

\* So does a step that loads the tables of the timestamp it makes current.
LEMMA Reloaded ==
  ASSUME TypeOK', TableLinks', archive' = archive,
         SoundTables(pfxt', pfxt_active', archive[current'], current')
  PROVE  IInv'
<1>1. RecordsAreCurrent'
  BY DEF SoundTables, RecordsAreCurrent
<1>2. FlagsComplete'
  BY DEF SoundTables, FlagsComplete
<1>. QED  BY <1>1, <1>2 DEF IInv

\* rpki_set_config.
LEMMA SetConfigInv == IInv /\ SetConfig => IInv'
<1>. SUFFICES ASSUME IInv, SetConfig PROVE IInv'
  OBVIOUS
<1>. USE DEF environment, config, broker, times, tables, call
<1>1. TypeOK
  BY DEF IInv
<1>2. CASE SetHistorical
  <2>1. PICK request \in Requests : TakeAnswer(request) /\ pc' = "idle"
    BY <1>2 DEF SetHistorical
  <2>2. request \in SUBSET (Timestamp \X Timestamp) /\ request # {}
    BY <2>1, EnvironmentAssumption
  <2>3. /\ keys' \subseteq Grid /\ khash_count' \in Nat
        /\ khash_count' = Cardinality(keys')
        /\ intervals' \in SUBSET (Timestamp \X Timestamp)
        /\ max_end' \in Timestamp
    BY <2>1, <2>2, AnswerType, MaxEndType DEF TakeAnswer, Broker!Answered
  <2>4. TypeOK'
    BY <1>1, <1>2, <2>1, <2>3 DEF SetHistorical, TypeOK, Stages
  <2>5. TableLinks'
    BY <1>2, <2>1, <2>3 DEF SetHistorical, IInv, TableLinks
  <2>6. UNCHANGED <<archive, current, pfxt, pfxt_active>> /\ pc = "unset"
    BY <1>2 DEF SetHistorical
  <2>7. RecordsAreCurrent' /\ FlagsComplete'
    BY <2>6 DEF IInv, RecordsAreCurrent, FlagsComplete
  <2>. QED  BY <2>4, <2>5, <2>7 DEF IInv
<1>3. CASE SetLive
  <2>1. intervals' \subseteq Timestamp \X Timestamp
    BY <1>3, EnvironmentAssumption DEF SetLive
  <2>2. TypeOK'
    BY <1>1, <1>3, <2>1 DEF SetLive, TypeOK, Stages
  <2>. QED  BY <1>3, <2>2, Untouched DEF SetLive
<1>4. CASE SetFails
  <2>1. TypeOK'
    BY <1>1, <1>4 DEF SetFails, TypeOK, Stages
  <2>. QED  BY <1>4, <2>1, Untouched DEF SetFails
<1>. QED  BY <1>2, <1>3, <1>4 DEF SetConfig

\* The steps of the caller and of the surroundings.
LEMMA SurroundingsInv == IInv /\ (Tick \/ RtrSynced \/ Call \/ Destroy) => IInv'
<1>. SUFFICES ASSUME IInv, Tick \/ RtrSynced \/ Call \/ Destroy PROVE IInv'
  OBVIOUS
<1>. USE DEF environment, config, broker, times, tables, call
<1>1. TypeOK
  BY DEF IInv
<1>2. CASE Tick
  <2>1. TypeOK'
    BY <1>1, <1>2 DEF Tick, TypeOK
  <2>. QED  BY <1>2, <2>1, Untouched DEF Tick
<1>3. CASE RtrSynced
  <2>1. result' \in Results /\ pc' = "idle"
    BY <1>1, <1>3, PlainResults DEF RtrSynced, TypeOK, Results, Return
  <2>2. TypeOK'
    BY <1>1, <1>3, <2>1 DEF RtrSynced, TypeOK, Results, Stages
  <2>. QED  BY <1>3, <2>1, <2>2, Untouched DEF RtrSynced
<1>4. CASE Call
  <2>1. ts' \in Timestamp
    BY <1>4, EnvironmentAssumption DEF Call
  <2>2. TypeOK'
    BY <1>1, <1>4, <2>1 DEF Call, TypeOK, Stages
  <2>. QED  BY <1>4, <2>2, Untouched DEF Call
<1>5. CASE Destroy
  <2>1. /\ pfxt' \in [Collector -> SUBSET Record(Grid)]
        /\ \A c \in Collector : pfxt'[c] = {}
    BY <1>5 DEF Destroy, Cleaned
  <2>2. rtr' \in {"none", "starting", "synced", "closed"}
    BY <1>1, <1>5 DEF Destroy, CloseConnection, Closed, TypeOK
  <2>3. TypeOK'
    BY <1>1, <1>5, <2>1, <2>2 DEF Destroy, TypeOK, Stages
  <2>4. pc' = "destroyed"
    BY <1>5 DEF Destroy
  <2>. QED  BY <2>1, <2>3, <2>4
            DEF IInv, TableLinks, RecordsAreCurrent, FlagsComplete
<1>. QED  BY <1>2, <1>3, <1>4, <1>5

\* The entry of rpki_validate.
LEMMA EntryInv == IInv /\ Entry => IInv'
<1>. SUFFICES ASSUME IInv, Entry PROVE IInv'
  OBVIOUS
<1>. USE DEF environment, config, broker, times, tables, call
<1>1. TypeOK /\ ts \in Timestamp
  BY DEF IInv, TypeOK
<1>2. CASE AnswerLive
  <2>1. TypeOK'
    BY <1>1, <1>2, PlainResults
    DEF AnswerLive, Return, TypeOK, Results, Stages
  <2>. QED  BY <1>2, <2>1, Untouched DEF AnswerLive, Return
<1>3. CASE RejectPrefixLive \/ RejectTimestamp \/ BlankOlder
  <2>1. /\ pc' = "idle" /\ pc = "entry" /\ (result' = Failed \/ result' = Blank)
        /\ UNCHANGED <<environment, config, broker, times, current_gap, tables,
                       rtr, call>>
    BY <1>3 DEF RejectPrefixLive, RejectTimestamp, BlankOlder, Return
  <2>2. result' \in Results
    BY <1>1, <2>1, PlainResults
  <2>3. TypeOK'
    BY <1>1, <2>1, <2>2 DEF TypeOK, Results, Stages
  <2>. QED  BY <2>1, <2>3, Untouched
<1>4. CASE Located
  <2>1. ts' = ts /\ seen' \in Timestamp
    BY <1>1, <1>4 DEF Located, Accept, TypeOK
  <2>2. TypeOK'
    BY <1>1, <1>4, <2>1 DEF Located, TypeOK, Stages
  <2>. QED  BY <1>4, <2>2, Untouched DEF Located, ChecksPass
<1>5. CASE Locate
  <2>. DEFINE found == cfg_get_timestamps(keys, khash_count, khash_used, ts)
  <2>1. /\ pc = "entry" /\ khash_count # 0
        /\ current' = found.current /\ next' = found.next
        /\ Load(found.current, "located")
        /\ ts' = ts /\ (seen' = ts \/ seen' = seen)
        /\ UNCHANGED <<environment, config, broker, current_gap, rtr>>
    BY <1>5 DEF Locate, ChecksPass, Accept
  <2>2. khash_count = Cardinality(keys)
    BY <2>1 DEF IInv, TableLinks
  <2>3. keys # {} /\ keys \in SUBSET Grid
    BY <1>1, <2>1, <2>2, FS_EmptySet DEF TypeOK
  <2>4. found.current \in keys /\ found.next \in keys \cup {0}
    BY <1>1, <2>3, TimestampsInTable DEF TypeOK
  <2>. HIDE DEF found
  <2>5. result \in Results /\ archive \in [Grid -> SUBSET Collector]
    BY <1>1, EnvironmentAssumption DEF TypeOK, Results
  <2>6. /\ SoundTables(pfxt', pfxt_active', archive[found.current], found.current)
        /\ pfxt_count' \in Nat
        /\ pc' \in {"located", "idle", "crashed"}
        /\ result' \in Results
    BY <1>1, <2>1, <2>3, <2>4, <2>5, LoadEffect
  <2>7. TypeOK'
    BY <1>1, <2>1, <2>3, <2>4, <2>6 DEF TypeOK, Results, Stages, SoundTables
  <2>8. TableLinks'
    BY <2>1, <2>2, <2>4, <2>6 DEF TableLinks
  <2>. QED  BY <2>1, <2>6, <2>7, <2>8, Reloaded
<1>. QED  BY <1>2, <1>3, <1>4, <1>5 DEF Entry

\* Behind the last dump, and the switch of an open interval.
LEMMA SwitchInv == IInv /\ Switch => IInv'
<1>. SUFFICES ASSUME IInv, Switch PROVE IInv'
  OBVIOUS
<1>. USE DEF environment, config, broker, times, tables, call
<1>1. /\ TypeOK /\ ts \in Timestamp /\ 0 \in Timestamp
      /\ Failed \in Results /\ Blank \in Results
  BY WidthAssumption, PlainResults DEF IInv, TypeOK, Timestamp
<1>2. {<<ts, 0>>} \in SUBSET (Timestamp \X Timestamp)
  BY <1>1
<1>31. CASE HybridCrashes
  <2>1. TypeOK'
    BY <1>1, <1>31 DEF HybridCrashes, TypeOK, Stages
  <2>. QED  BY <1>31, <2>1, Untouched DEF HybridCrashes, Hybrid, PastTable
<1>3. CASE HybridUnreachable
  <2>1. TypeOK'
    BY <1>1, <1>3 DEF HybridUnreachable, Broker!Refused, Return, TypeOK,
            Results, Stages
  <2>. QED  BY <1>3, <2>1, Untouched
            DEF HybridUnreachable, Broker!Refused, Return, Hybrid, PastTable
<1>4. CASE HybridMalformed
  <2>1. intervals' \subseteq Timestamp \X Timestamp
    BY <1>2, <1>4 DEF HybridMalformed, Broker!BrokenOff
  <2>2. TypeOK'
    BY <1>1, <1>4, <2>1 DEF HybridMalformed, Broker!BrokenOff, Return, TypeOK,
            Results, Stages
  <2>3. next' = 0 /\ pc # "destroyed" /\ pc' = "idle"
    BY <1>4 DEF HybridMalformed, Broker!BrokenOff, Hybrid, PastTable, Return
  <2>4. TableLinks'
    BY <1>4, <2>3, FS_EmptySet DEF HybridMalformed, Broker!BrokenOff, TableLinks
  <2>5. UNCHANGED <<archive, current, pfxt, pfxt_active>>
    BY <1>4 DEF HybridMalformed, Broker!BrokenOff
  <2>6. RecordsAreCurrent' /\ FlagsComplete'
    BY <2>3, <2>5 DEF IInv, RecordsAreCurrent, FlagsComplete
  <2>. QED  BY <2>2, <2>4, <2>6 DEF IInv
<1>5. CASE HybridRequest
  <2>. DEFINE found == cfg_get_timestamps(keys', khash_count', khash_used', ts)
  <2>1. /\ pc = "located"
        /\ keys' = Answer({<<ts, 0>>}) /\ keys' # {}
        /\ khash_count' = Cardinality(keys')
        /\ intervals' = {<<ts, 0>>} /\ max_end' = MaxEnd({<<ts, 0>>})
        /\ khash_used' = 0
        /\ current' = found.current /\ next' = found.next
        /\ Load(found.current, "advance")
        /\ UNCHANGED <<environment, mode, current_gap, rtr, call>>
    BY <1>5 DEF HybridRequest, Hybrid, PastTable, TakeAnswer, Broker!Answered,
            ResetUsed
  <2>2. keys' \in SUBSET Grid /\ khash_count' \in Nat
    BY <2>1, AnswerType
  <2>3. max_end' \in Timestamp
    BY <1>2, <2>1, MaxEndType
  <2>4. found.current \in keys' /\ found.next \in keys' \cup {0}
    <3>1. /\ keys' \in SUBSET Grid /\ keys' # {} /\ ts \in Timestamp
          /\ khash_count' \in Int /\ khash_used' \in Int
      BY <1>1, <2>1, <2>2
    <3>. QED  BY <3>1, TimestampsInTable
  <2>. HIDE DEF found
  <2>5. result \in Results /\ archive \in [Grid -> SUBSET Collector]
    BY <1>1, EnvironmentAssumption DEF TypeOK, Results
  <2>6. /\ SoundTables(pfxt', pfxt_active', archive[found.current], found.current)
        /\ pfxt_count' \in Nat
        /\ pc' \in {"advance", "idle", "crashed"}
        /\ result' \in Results
    BY <1>1, <2>1, <2>2, <2>4, <2>5, LoadEffect
  <2>7. TypeOK'
    BY <1>1, <1>2, <2>1, <2>2, <2>3, <2>4, <2>6
    DEF TypeOK, Results, Stages, SoundTables
  <2>8. TableLinks'
    BY <2>1, <2>4, <2>6 DEF TableLinks
  <2>. QED  BY <2>1, <2>6, <2>7, <2>8, Reloaded
<1>6. CASE HybridHangs
  <2>1. /\ keys' = Answer({<<ts, 0>>}) /\ khash_count' = Cardinality(keys')
        /\ intervals' = {<<ts, 0>>} /\ max_end' = MaxEnd({<<ts, 0>>})
        /\ khash_used' = 0 /\ pfxt_count' = 0 /\ pc' = "hung"
        /\ UNCHANGED <<environment, mode, times, current_gap, pfxt, pfxt_active,
                       rtr, call, result>>
    BY <1>6 DEF HybridHangs, TakeAnswer, Broker!Answered,
            ResetUsed
  <2>2. /\ keys' \in SUBSET Grid /\ khash_count' \in Nat
        /\ max_end' \in Timestamp
    BY <1>2, <2>1, AnswerType, MaxEndType
  <2>3. TypeOK'
    <3>1. intervals' \subseteq Timestamp \X Timestamp /\ pc' \in Stages
      BY <1>1, <1>2, <2>1 DEF Stages
    <3>2. /\ archive' \in Archives /\ now' \in Clock /\ mode' \in {0, 1}
          /\ current' \in Grid \cup {0} /\ next' \in Grid \cup {0}
          /\ current_gap' \in {0, 1}
          /\ pfxt' \in [Collector -> SUBSET Record(Grid)]
          /\ pfxt_active' \subseteq Collector
      BY <1>1, <2>1 DEF TypeOK
    <3>3. /\ rtr' = rtr /\ ts' = ts /\ seen' = seen /\ result' = result
          /\ khash_used' \in Nat /\ pfxt_count' \in Nat
      BY <2>1
    <3>. QED  BY <1>1, <2>2, <3>1, <3>2, <3>3 DEF TypeOK
  <2>4. next' = 0 /\ pc # "destroyed"
    BY <1>6, <2>1 DEF HybridHangs, Hybrid, PastTable
  <2>5. TableLinks'
    BY <2>1, <2>4 DEF TableLinks
  <2>6. RecordsAreCurrent' /\ FlagsComplete'
    BY <2>1, <2>4 DEF IInv, RecordsAreCurrent, FlagsComplete
  <2>. QED  BY <2>3, <2>5, <2>6 DEF IInv
<1>7. CASE SwitchToLive
  <2>1. TypeOK'
    BY <1>1, <1>7 DEF SwitchToLive, LeaveHistorical, TypeOK, Stages
  <2>. QED  BY <1>7, <2>1, Untouched DEF SwitchToLive, PastTable
<1>8. CASE SwitchToLiveFails
  <2>1. pc' \in {"crashed", "idle"} /\ (result' = result \/ result' = Failed)
    BY <1>8 DEF SwitchToLiveFails, Return
  <2>2. result' \in [kind : {"none", "error", "blank", "live", "answer"},
                     ts : Timestamp, dump : Grid \cup {0},
                     tables : SUBSET Collector]
    BY <1>1, <2>1 DEF TypeOK, Results
  <2>3. TypeOK'
    BY <1>1, <1>8, <2>1, <2>2
    DEF SwitchToLiveFails, LeaveHistorical, TypeOK, Stages
  <2>. QED  BY <1>8, <2>1, <2>3, Untouched DEF SwitchToLiveFails, PastTable
<1>9. CASE BlankGap
  <2>1. TypeOK'
    BY <1>1, <1>9 DEF BlankGap, Return, TypeOK, Results, Stages
  <2>. QED  BY <1>9, <2>1, Untouched DEF BlankGap, Return, InGap
<1>10. CASE NoSwitch
  <2>1. TypeOK'
    BY <1>1, <1>10 DEF NoSwitch, TypeOK, Stages
  <2>. QED  BY <1>10, <2>1, Untouched DEF NoSwitch
<1>. QED  BY <1>3, <1>31, <1>4, <1>5, <1>6, <1>7, <1>8, <1>9, <1>10 DEF Switch

\* The step to the next dump, and the answer.
LEMMA FinishInv == IInv /\ Finish => IInv'
<1>. SUFFICES ASSUME IInv, Finish PROVE IInv'
  OBVIOUS
<1>. USE DEF environment, config, broker, times, tables, call
<1>1. TypeOK /\ ts \in Timestamp /\ Failed \in Results
  BY PlainResults DEF IInv, TypeOK
<1>2. CASE Advance
  <2>. DEFINE k == next
  <2>1. /\ pc = "advance" /\ k # 0
        /\ khash_used' = khash_used + 1
        /\ current' = k
        /\ next' = cfg_next_timestamp(keys, khash_count, khash_used', k)
        /\ Load(k, "answer")
        /\ UNCHANGED <<environment, config, keys, khash_count, current_gap, rtr,
                       call>>
    BY <1>2 DEF Advance, NextReached
  <2>2. /\ k \in keys /\ keys \subseteq Grid /\ k \in Timestamp
        /\ khash_count = Cardinality(keys)
    BY <1>1, <2>1, GridAssumption DEF IInv, TypeOK, TableLinks
  <2>3. khash_used' \in Nat /\ khash_count \in Nat
    BY <1>1, <2>1 DEF TypeOK
  <2>4. next' \in keys \cup {0}
    BY <2>1, <2>2, <2>3, NextIsKey
  <2>5. result \in Results /\ archive \in [Grid -> SUBSET Collector]
    BY <1>1, EnvironmentAssumption DEF TypeOK, Results
  <2>6. /\ SoundTables(pfxt', pfxt_active', archive[k], k)
        /\ pfxt_count' \in Nat
        /\ pc' \in {"answer", "idle", "crashed"}
        /\ result' \in Results
    BY <1>1, <2>1, <2>2, <2>5, LoadEffect
  <2>7. TypeOK'
    BY <1>1, <2>1, <2>2, <2>3, <2>4, <2>6
    DEF TypeOK, Results, Stages, SoundTables
  <2>8. TableLinks'
    BY <2>1, <2>2, <2>4, <2>6 DEF TableLinks
  <2>. QED  BY <2>1, <2>6, <2>7, <2>8, Reloaded
<1>3. CASE NoAdvance
  <2>1. TypeOK'
    BY <1>1, <1>3 DEF NoAdvance, TypeOK, Stages
  <2>. QED  BY <1>3, <2>1, Untouched DEF NoAdvance
<1>4. CASE Validate
  <2>1. Consulted \in SUBSET Collector
    BY <1>1 DEF Consulted, TypeOK
  <2>2. [kind |-> "answer", ts |-> ts, dump |-> current, tables |-> Consulted]
          \in Results
    BY <1>1, <2>1 DEF TypeOK, Results
  <2>3. TypeOK'
    BY <1>1, <1>4, <2>2 DEF Validate, Return, TypeOK, Results, Stages
  <2>. QED  BY <1>4, <2>3, Untouched DEF Validate, Return
<1>5. CASE RejectPrefix
  <2>1. TypeOK'
    BY <1>1, <1>5 DEF RejectPrefix, Return, TypeOK, Results, Stages
  <2>. QED  BY <1>5, <2>1, Untouched DEF RejectPrefix, Return
<1>6. CASE Crash
  <2>1. TypeOK'
    BY <1>1, <1>6 DEF Crash, TypeOK, Stages
  <2>. QED  BY <1>6, <2>1, Untouched DEF Crash
<1>. QED  BY <1>2, <1>3, <1>4, <1>5, <1>6 DEF Finish

\* Every step keeps the invariant.
LEMMA StepInv == IInv /\ [Next]_vars => IInv'
<1>. SUFFICES ASSUME IInv, [Next]_vars PROVE IInv'
  OBVIOUS
<1>1. CASE UNCHANGED vars
  BY <1>1
  DEF vars, environment, config, broker, times, tables, call, IInv, TypeOK,
      TableLinks, RecordsAreCurrent, FlagsComplete
<1>. QED  BY <1>1, SetConfigInv, SurroundingsInv, EntryInv, SwitchInv, FinishInv
          DEF Next, Library

-----------------------------------------------------------------------------
(* The theorems.                                                            *)

\* The invariant holds in every behaviour of a configuration.
THEOREM Invariance == Spec => []IInv
BY InitInv, StepInv, PTL DEF Spec

\* Type correctness; in particular the keys of the broker's table and both
\* timestamps of cfg_time are always dumps of the archive, however the searches
\* run modulo the width of the clock (rpki_config.c:142-182).
THEOREM TypeCorrect == Spec => []TypeOK
<1>1. IInv => TypeOK
  BY DEF IInv
<1>. QED  BY <1>1, Invariance, PTL

\* No prefix table ever holds a record of another dump than the current one
\* (cfg_parse_urls, rpki_config.c:187-193).
THEOREM RecordsCurrent == Spec => []RecordsAreCurrent
<1>1. IInv => RecordsAreCurrent
  BY DEF IInv
<1>. QED  BY <1>1, Invariance, PTL

\* Every table rpki_validate consults holds the whole dump of its collector and,
\* without unified mode, nothing else (rpki_config.c:195-221, rpki.c:223-244).
THEOREM FlaggedComplete == Spec => []FlaggedTablesComplete
<1>1. IInv => FlaggedTablesComplete
  BY CollectorsAssumption
  DEF IInv, FlagsComplete, FlaggedTablesComplete, Consulted, TableOf
<1>. QED  BY <1>1, Invariance, PTL

-----------------------------------------------------------------------------
(* Mode, RTR connection and live results: which states of the three go      *)
(* together, and what that says about the switch to live mode and about     *)
(* rpki_destroy_config.                                                     *)

\* The connection goes with the mode, it is being started only while somebody
\* waits for it, and a live result is only there as long as the mode is live.
ModeInv ==
  /\ mode = 1 \/ pc = "unset" => rtr = "none"
  /\ rtr = "starting" => pc \in {"connecting", "switching"}
  /\ pc = "destroyed" => rtr \in {"none", "closed"}
  /\ result.kind = "live" => /\ pc \in {"idle", "entry", "destroyed"}
                             /\ mode = 0
                             /\ pc # "destroyed" => rtr = "synced"

MInv == TypeOK /\ ModeInv

\* What the mode does not depend on: a step between stages of a call in which
\* mode and connection stay, and the result stays or is not a live one.
LEMMA CallStep ==
  ASSUME MInv, pc \in Stages \ {"unset", "connecting", "switching", "destroyed"},
         pc' \in Stages \ {"unset", "destroyed"}, UNCHANGED <<mode, rtr>>,
         result' = result \/ result' \in {Failed, Blank}
           \/ result'.kind = "answer",
         result.kind = "live" /\ result' = result => pc' \in {"idle", "entry"}
  PROVE  ModeInv'
<1>1. Failed.kind = "error" /\ Blank.kind = "blank"
  BY DEF Failed, Blank
<1>2. rtr # "starting"
  BY DEF MInv, ModeInv
<1>3. result'.kind = "live" => result' = result
  BY <1>1
<1>. QED  BY <1>2, <1>3 DEF MInv, ModeInv

\* Loading a dump leaves the result alone or sets it to an error.
LEMMA LoadOutcome ==
  ASSUME NEW k, NEW stage, Load(k, stage)
  PROVE  pc' \in {stage, "idle", "crashed"} /\ (result' = result \/ result' = Failed)
BY DEF Load

\* The configuration and the surroundings.
LEMMA OutsideMode ==
  ASSUME MInv, SetConfig \/ Call \/ RtrSynced \/ Destroy \/ Tick
  PROVE  ModeInv'
<1>. USE DEF environment, config, broker, times, tables, call
<1>1. CASE SetHistorical
  BY <1>1 DEF SetHistorical, MInv, ModeInv
<1>2. CASE SetLive
  BY <1>2 DEF SetLive, MInv, ModeInv
<1>3. CASE SetFails
  BY <1>3 DEF SetFails, MInv, ModeInv
<1>4. CASE Call
  BY <1>4 DEF Call, MInv, ModeInv
<1>5. CASE RtrSynced
  <2>1. mode = 0
    BY <1>5 DEF RtrSynced, MInv, ModeInv, TypeOK
  <2>2. Failed.kind = "error"
    BY DEF Failed
  <2>. QED  BY <1>5, <2>1, <2>2 DEF RtrSynced, Return, MInv, ModeInv
<1>6. CASE Destroy
  <2>1. rtr \in {"none", "synced", "closed"} /\ mode \in {0, 1}
    BY <1>6 DEF Destroy, MInv, ModeInv, TypeOK
  <2>2. rtr' \in {"none", "closed"} /\ (mode = 1 => rtr' = "none")
    BY <1>6, <2>1 DEF Destroy, CloseConnection, Closed, MInv, ModeInv
  <2>. QED  BY <1>6, <2>2 DEF Destroy, MInv, ModeInv
<1>7. CASE Tick
  BY <1>7 DEF Tick, MInv, ModeInv
<1>. QED  BY <1>1, <1>2, <1>3, <1>4, <1>5, <1>6, <1>7 DEF SetConfig

\* The stages of a call.
LEMMA LibraryMode ==
  ASSUME MInv, Library
  PROVE  ModeInv'
<1>. USE DEF environment, config, broker, times, tables, call
<1>1. CASE AnswerLive
  <2>1. mode = 0 /\ rtr = "synced" /\ pc' = "idle" /\ UNCHANGED <<mode, rtr>>
    BY <1>1 DEF AnswerLive, LivePath, Return
  <2>. QED  BY <2>1 DEF ModeInv
<1>2. CASE RejectPrefixLive \/ RejectTimestamp \/ BlankOlder
  BY <1>2, CallStep
  DEF RejectPrefixLive, RejectTimestamp, BlankOlder, Return, Stages
<1>3. CASE Locate \/ Located
  <2>1. /\ pc = "entry" /\ pc' \in {"located", "idle", "crashed"} /\ UNCHANGED <<mode, rtr>>
        /\ result' = result \/ result' = Failed
    BY <1>3, LoadOutcome DEF Locate, Located, ChecksPass
  <2>2. result.kind # "live"
    BY <1>3 DEF Locate, Located, ChecksPass, LivePath, MInv, ModeInv
  <2>. QED  BY <2>1, <2>2, CallStep DEF Stages
<1>4. CASE HybridUnreachable \/ HybridMalformed \/ BlankGap
  BY <1>4, CallStep
  DEF HybridUnreachable, HybridMalformed, BlankGap, Hybrid, PastTable, InGap,
      Return, Stages
<1>5. CASE HybridRequest \/ HybridCrashes \/ HybridHangs \/ NoSwitch
  <2>1. /\ pc = "located" /\ pc' \in {"advance", "idle", "hung", "crashed"}
        /\ UNCHANGED <<mode, rtr>>
        /\ result' = result \/ result' = Failed
    BY <1>5, LoadOutcome
    DEF HybridRequest, HybridCrashes, HybridHangs, NoSwitch, Hybrid, PastTable, InGap
  <2>2. result.kind # "live"
    BY <2>1 DEF MInv, ModeInv
  <2>. QED  BY <2>1, <2>2, CallStep DEF Stages
<1>6. CASE SwitchToLive
  <2>1. pc = "located" /\ pc' = "switching" /\ mode' = 0 /\ result' = result
    BY <1>6 DEF SwitchToLive, PastTable, LeaveHistorical
  <2>. QED  BY <2>1 DEF MInv, ModeInv
<1>7. CASE SwitchToLiveFails
  <2>1. /\ pc = "located" /\ pc' \in {"crashed", "idle"} /\ mode' = 0
        /\ rtr' = rtr /\ (result' = result \/ result' = Failed)
    BY <1>7 DEF SwitchToLiveFails, PastTable, LeaveHistorical, Return
  <2>2. Failed.kind = "error"
    BY DEF Failed
  <2>. QED  BY <2>1, <2>2 DEF MInv, ModeInv
<1>8. CASE Finish
  <2>1. /\ pc \in {"advance", "answer"} /\ pc' \in {"answer", "idle", "crashed"}
        /\ UNCHANGED <<mode, rtr>>
        /\ result' \in {result, Failed} \/ result'.kind = "answer"
    BY <1>8, LoadOutcome
    DEF Finish, Advance, NoAdvance, Validate, RejectPrefix, Crash, Return
  <2>2. result.kind # "live"
    BY <2>1 DEF MInv, ModeInv
  <2>. QED  BY <2>1, <2>2, CallStep DEF Stages
<1>. QED  BY <1>1, <1>2, <1>3, <1>4, <1>5, <1>6, <1>7, <1>8
          DEF Library, Entry, Switch

\* The invariant of the mode holds in every behaviour.
LEMMA ModeInvariance == Spec => []MInv
<1>1. Init => ModeInv
  BY DEF Init, ModeInv, NoResult
<1>2. MInv /\ [Next]_vars => ModeInv'
  <2>. SUFFICES ASSUME MInv, [Next]_vars PROVE ModeInv'
    OBVIOUS
  <2>1. CASE UNCHANGED vars
    BY <2>1 DEF vars, config, MInv, ModeInv
  <2>. QED  BY <2>1, OutsideMode, LibraryMode DEF Next
<1>3. TypeOK /\ ModeInv <=> MInv
  BY DEF MInv
<1>. QED  BY <1>1, <1>2, <1>3, TypeCorrect, PTL DEF Spec

-----------------------------------------------------------------------------
\* The connection to the RTR server exists in live mode only, and
\* rpki_destroy_config closes it (rpki_config.c:132-135).
THEOREM ConnectionIsClosed == Spec => []ConnectionClosed
<1>1. MInv => ConnectionClosed
  BY DEF MInv, ModeInv, ConnectionClosed, TypeOK
<1>. QED  BY <1>1, ModeInvariance, PTL

\* After a live result only live results and errors come (rpki.c:91-100: the
\* mode is never historical again).
THEOREM LiveStaysLive == Spec => LiveIsFinal
<1>1. ASSUME MInv, [Next]_vars, result.kind = "live"
      PROVE  result'.kind \in {"live", "error"}
  <2>. USE DEF environment, config, broker, times, tables, call
  <2>1. /\ pc \in {"idle", "entry", "destroyed"} /\ (pc = "entry" => LivePath)
        /\ Failed.kind = "error" /\ Live.kind = "live"
    BY <1>1 DEF MInv, ModeInv, LivePath, Failed, Live
  <2>2. CASE Tick \/ Call \/ Destroy \/ RtrSynced \/ UNCHANGED vars
    BY <1>1, <2>1, <2>2 DEF Tick, Call, Destroy, RtrSynced, Return, vars
  <2>3. CASE SetConfig
    BY <2>1, <2>3 DEF SetConfig, SetHistorical, SetLive, SetFails
  <2>4. CASE Entry
    BY <2>1, <2>4
    DEF Entry, AnswerLive, RejectPrefixLive, RejectTimestamp, BlankOlder, Locate,
        Located, ChecksPass, Return
  <2>5. CASE Switch
    BY <2>1, <2>5
    DEF Switch, HybridUnreachable, HybridCrashes, HybridMalformed, HybridRequest, HybridHangs,
        SwitchToLive, SwitchToLiveFails, BlankGap, NoSwitch, Hybrid, PastTable,
        InGap
  <2>6. CASE Finish
    BY <2>1, <2>6
    DEF Finish, Advance, NoAdvance, Validate, RejectPrefix, Crash
  <2>. QED  BY <1>1, <2>2, <2>3, <2>4, <2>5, <2>6 DEF Next, Library
<1>. QED  BY <1>1, ModeInvariance, PTL DEF Spec, LiveIsFinal

\* Mode and connection live the life of RtrConnection, the one that
\* LiveConnection implements (rpki.c:57-62, 179-181, rpki_config.c:133).
THEOREM ConnectionUsed == Spec => UsesConnection
<1>1. Init => Connection!Init
  BY DEF Init, Connection!Init
<1>2. ASSUME MInv, [Next]_vars
      PROVE  [Connection!Next]_<<mode, rtr>>
  <2>. USE DEF environment, config, broker, times, tables, call
  <2>1. CASE UNCHANGED vars
    BY <2>1 DEF vars
  <2>2. CASE SetHistorical
    <3>1. Connection!BeginHistorical
      BY <1>2, <2>2 DEF SetHistorical, MInv, ModeInv, Connection!BeginHistorical
    <3>. QED  BY <3>1 DEF Connection!Next
  <2>3. CASE SetLive
    <3>1. Connection!Start
      BY <1>2, <2>3 DEF SetLive, MInv, ModeInv, Connection!Start
    <3>. QED  BY <3>1 DEF Connection!Next
  <2>4. CASE RtrSynced
    <3>1. Connection!Sync
      BY <2>4 DEF RtrSynced, Connection!Sync
    <3>. QED  BY <3>1 DEF Connection!Next
  <2>5. CASE SwitchToLive
    <3>1. mode = 1
      BY <2>5 DEF SwitchToLive, PastTable, Expired
    <3>2. Connection!Start
      BY <1>2, <2>5, <3>1
      DEF SwitchToLive, LeaveHistorical, MInv, ModeInv, Connection!Start
    <3>. QED  BY <3>2 DEF Connection!Next
  <2>6. CASE SwitchToLiveFails
    <3>1. Connection!LeaveHistorical
      BY <2>6 DEF SwitchToLiveFails, PastTable, Expired, LeaveHistorical,
                  Connection!LeaveHistorical
    <3>. QED  BY <3>1 DEF Connection!Next
  <2>7. CASE Destroy
    <3>1. mode' = mode /\ (rtr' = rtr \/ Connection!Close)
      BY <2>7 DEF Destroy, CloseConnection, Closed, Connection!Close
    <3>. QED  BY <3>1 DEF Connection!Next
  <2>8. CASE Tick \/ Call \/ SetFails \/ Entry \/ Finish
    <3>1. UNCHANGED <<mode, rtr>>
      BY <2>8
      DEF Tick, Call, SetFails, Entry, AnswerLive, RejectPrefixLive,
          RejectTimestamp, BlankOlder, Locate, Located, Finish, Advance,
          NoAdvance, Validate, RejectPrefix, Crash
    <3>. QED  BY <3>1
  <2>9. CASE Switch /\ ~SwitchToLive /\ ~SwitchToLiveFails
    <3>1. UNCHANGED <<mode, rtr>>
      BY <2>9
      DEF Switch, HybridUnreachable, HybridCrashes, HybridMalformed, HybridRequest, HybridHangs,
          BlankGap, NoSwitch
    <3>. QED  BY <3>1
  <2>. QED  BY <1>2, <2>1, <2>2, <2>3, <2>4, <2>5, <2>6, <2>7, <2>8, <2>9
            DEF Next, SetConfig, Library
<1>. QED  BY <1>1, <1>2, ModeInvariance, PTL
          DEF Spec, UsesConnection, Connection!Spec

-----------------------------------------------------------------------------
(* The cursor, which is the current dump, the next one and the counter of   *)
(* used entries: it fits the broker's table, moves forwards only and        *)
(* changes together with the prefix tables.                                 *)

\* The configurations this is true of: the first call falls between the first
\* dump and the second, and the lists are not asked for again, or if they are
\* some dump covers the time they are asked for.
Cautious == AlignedStart /\ (EveryIntervalEnds \/ NoDumpMissing)

\* The table lists dumps of the archive, and the cursor fits it.
CursorTable ==
  /\ CursorFitsTable
  /\ \A k \in keys : archive[k] # {}
  /\ InTable => current \in keys
  /\ current = 0 => next = 0 /\ khash_used = 0

\* Historical mode is left at the end of an open interval only.
CursorMode ==
  /\ mode = 0 => IF current = 0 THEN keys = {} ELSE max_end = 0
  /\ mode = 1 /\ EveryIntervalEnds => max_end # 0

\* What the stages of a call know of table and cursor.
CursorStage ==
  /\ pc \in {"unset", "connecting"} =>
       keys = {} /\ current = 0 /\ mode = 0 /\ result.kind = "none"
  /\ pc \in {"located", "advance", "answer"} =>
       keys # {} /\ current # 0 /\ (mode = 1 => current <= ts)
  /\ (pc = "entry" /\ current = 0 /\ keys # {}) =>
       Cardinality({k \in keys : k <= ts}) = 1
  /\ BlankOnlyInGap

CInv == IInv /\ CursorTable /\ CursorMode /\ CursorStage

-----------------------------------------------------------------------------
(* Dumps on the grid.                                                       *)

\* What the lemmas about the searches ask of a table.
LEMMA OnTheGrid ==
  ASSUME NEW K \in SUBSET Grid
  PROVE  K \in SUBSET Timestamp /\ OnGrid(K) /\ K \subseteq Nat /\ 0 \notin K
<1>1. K \in SUBSET Timestamp /\ 0 \notin K
  BY GridAssumption
<1>2. OnGrid(K)
  BY GridAssumption DEF OnGrid
<1>3. Timestamp \subseteq Nat
  BY WidthAssumption DEF Timestamp
<1>. QED  BY <1>1, <1>2, <1>3

\* Two dumps are at least an interval apart.
LEMMA Apart ==
  ASSUME NEW k \in Grid, NEW j \in Grid, k < j
  PROVE  k + Interval <= j
<1>1. k \in Nat /\ j \in Nat /\ (j - k) % Interval = 0
  BY OnTheGrid DEF OnGrid
<1>2. Interval \in Nat \ {0} /\ j - k \in Int
  BY <1>1, WidthAssumption
<1>3. PICK m \in Int : j - k = Interval * m
  BY <1>1, <1>2, Multiple
<1>4. m >= 1
  <2>1. m <= 0 => Interval * m <= 0
    BY <1>2, <1>3
  <2>. QED  BY <1>1, <1>3, <2>1
<1>5. Interval * m >= Interval
  BY <1>2, <1>4
<1>. QED  BY <1>1, <1>2, <1>3, <1>5

\* A search from a time at which exactly one dump of the table is old enough
\* puts the cursor on that dump, the first one.
LEMMA OneIsOlder ==
  ASSUME NEW K \in SUBSET Grid, NEW t \in Timestamp,
         Cardinality({k \in K : k <= t}) = 1
  PROVE  LET found == cfg_get_timestamps(K, Cardinality(K), 0, t)
         IN  /\ found.current \in K /\ found.current <= t
             /\ \A k \in K : k <= t => k = found.current
             /\ Cardinality({k \in K : k < found.current}) = 0
             /\ SuccessorIn(K, found.current, found.next)
<1>1. /\ K \in SUBSET Timestamp /\ OnGrid(K) /\ K \subseteq Nat /\ t \in Nat
      /\ Cardinality(K) \in Nat
  BY OnTheGrid, KeysCount, WidthAssumption DEF Timestamp
<1>. DEFINE older == {k \in K : k <= t}
            found == cfg_get_timestamps(K, Cardinality(K), 0, t)
<1>2. IsFiniteSet(older)
  <2>1. older \in SUBSET Timestamp
    BY <1>1
  <2>. QED  BY <2>1, KeysCount
<1>3. PICK x : older = {x}
  BY <1>2, FS_Singleton
<1>4. x \in K /\ x <= t /\ \A k \in K : k <= t => k = x
  BY <1>3
<1>5. FirstHit(K, Backward(t)) = x
  <2>1. \A k \in K : k <= t => k <= x
    BY <1>1, <1>4
  <2>. QED  BY <1>1, <1>4, <2>1, BackwardCovers
<1>6. Cardinality({k \in K : k < x}) = 0
  <2>1. \A k \in K : ~(k < x)
    BY <1>1, <1>4
  <2>2. {k \in K : k < x} = {}
    BY <2>1
  <2>. QED  BY <2>2, FS_EmptySet
<1>7. SuccessorIn(K, x, cfg_next_timestamp(K, Cardinality(K), 0, x))
  BY <1>1, <1>4, <1>6, NextIsSuccessor
<1>8. /\ found.current = x
      /\ found.next = cfg_next_timestamp(K, Cardinality(K), 0, x)
  BY <1>1, <1>5 DEF cfg_get_timestamps, cfg_next_timestamp
<1>. HIDE DEF found
<1>. QED  BY <1>4, <1>6, <1>7, <1>8 DEF found

\* A list asked for from time t on holds at most one dump that is old enough.
LEMMA OneInForce ==
  ASSUME NEW t \in Timestamp, NEW k \in Answer({<<t, 0>>}), k <= t
  PROVE  Cardinality({j \in Answer({<<t, 0>>}) : j <= t}) = 1
<1>1. /\ t \in Nat /\ Interval \in Nat
      /\ \A j \in Answer({<<t, 0>>}) : j + Interval > t /\ j \in Nat /\ j \in Grid
  <2>1. Answer({<<t, 0>>}) \in SUBSET Grid
    BY AnswerType
  <2>2. Answer({<<t, 0>>}) \subseteq Nat
    BY <2>1, OnTheGrid
  <2>. QED  BY <2>1, <2>2, WidthAssumption DEF Answer, Timestamp
<1>2. \A j \in Answer({<<t, 0>>}) : j <= t => j = k
  <2>. SUFFICES ASSUME NEW j \in Answer({<<t, 0>>}), j <= t, j # k PROVE FALSE
    OBVIOUS
  <2>1. CASE j < k
    <3>1. j + Interval <= k
      BY <1>1, <2>1, Apart
    <3>. QED  BY <1>1, <3>1
  <2>2. CASE k < j
    <3>1. k + Interval <= j
      BY <1>1, <2>2, Apart
    <3>. QED  BY <1>1, <3>1
  <2>. QED  BY <1>1, <2>1, <2>2
<1>3. {j \in Answer({<<t, 0>>}) : j <= t} = {k}
  BY <1>2
<1>. QED  BY <1>3, FS_Singleton

\* The end of the last interval.
LEMMA LastEnd ==
  ASSUME NEW request \in SUBSET (Timestamp \X Timestamp), request # {},
         \A iv \in request : iv[2] # 0
  PROVE  MaxEnd(request) # 0
<1>. DEFINE ends == {iv[2] : iv \in request}
<1>1. ends \subseteq Timestamp /\ ends # {} /\ 0 \notin ends
  OBVIOUS
<1>2. \E e \in ends : \A f \in ends : f <= e
  BY <1>1, GreatestExists
<1>3. \E e \in ends : \A iv \in request : iv[2] <= e
  BY <1>2
<1>. QED  BY <1>1, <1>3 DEF MaxEnd

-----------------------------------------------------------------------------
(* The three steps that move the cursor.                                    *)

\* Loading a dump ends in the next stage, with an error or a crash.
LEMMA LoadEnds ==
  ASSUME NEW k, NEW stage, Load(k, stage)
  PROVE  \/ pc' = stage /\ result' = result
         \/ pc' = "idle" /\ result' = Failed
         \/ pc' = "crashed" /\ result' = result
BY DEF Load

\* The types of table and cursor.
LEMMA CursorTypes ==
  ASSUME CInv
  PROVE  /\ keys \in SUBSET Grid /\ keys \in SUBSET Timestamp /\ OnGrid(keys)
         /\ keys \subseteq Nat /\ 0 \notin keys
         /\ current \in Nat /\ next \in Nat /\ khash_used \in Nat
         /\ ts \in Timestamp /\ ts \in Nat /\ Interval \in Nat \ {0}
         /\ mode \in {0, 1} /\ archive \in Archives
<1>1. TypeOK
  BY DEF CInv, IInv
<1>2. keys \in SUBSET Grid /\ current \in Grid \cup {0} /\ next \in Grid \cup {0}
  BY <1>1 DEF TypeOK
<1>3. keys \in SUBSET Timestamp /\ OnGrid(keys) /\ keys \subseteq Nat /\ 0 \notin keys
  BY <1>2, OnTheGrid
<1>4. Grid \subseteq Nat
  BY OnTheGrid
<1>5. Timestamp \subseteq Nat
  BY WidthAssumption DEF Timestamp
<1>6. khash_used \in Nat /\ ts \in Timestamp /\ mode \in {0, 1} /\ archive \in Archives
  BY <1>1 DEF TypeOK
<1>. QED  BY <1>2, <1>3, <1>4, <1>5, <1>6, WidthAssumption

\* The cursor on a key, with its rank and its successor, fits the table.
LEMMA CursorPlaced ==
  ASSUME current' \in keys', 0 \notin keys', SuccessorIn(keys', current', next'),
         khash_used' = Cardinality({k \in keys' : k < current'}),
         \A k \in keys' : archive'[k] # {}
  PROVE  CursorTable'
<1>1. CursorFitsTable'
  BY DEF CursorFitsTable, IsSuccessor, SuccessorIn
<1>. QED  BY <1>1 DEF CursorTable

\* The first call that passes the checks locates the first dump.
LEMMA LocateCursor ==
  ASSUME CInv, Cautious, Locate
  PROVE  /\ CursorTable' /\ current = 0 /\ mode = 1
         /\ keys' = keys /\ ts' = ts /\ current' \in keys /\ current' <= ts
         /\ \A k \in keys : k <= ts => k = current'
         /\ SuccessorIn(keys, current', next')
<1>. USE DEF environment, config, broker, times, tables, call
<1>. DEFINE found == cfg_get_timestamps(keys, Cardinality(keys), 0, ts)
<1>1. /\ pc = "entry" /\ current = 0 /\ khash_count # 0 /\ ts' = ts
      /\ UNCHANGED <<archive, keys, khash_count, khash_used, mode>>
  BY DEF Locate, ChecksPass, Unlocated, Accept
<1>2. khash_count = Cardinality(keys) /\ khash_used = 0
  BY <1>1 DEF CInv, CursorTable, IInv, TableLinks
<1>3. keys # {}
  BY <1>1, <1>2, FS_EmptySet
<1>4. mode = 1
  BY <1>1, <1>3, CursorTypes DEF CInv, CursorMode
<1>5. Cardinality({k \in keys : k <= ts}) = 1
  BY <1>1, <1>3 DEF CInv, CursorStage
<1>6. current' = found.current /\ next' = found.next
  BY <1>2 DEF Locate
<1>7. /\ found.current \in keys /\ found.current <= ts
      /\ \A k \in keys : k <= ts => k = found.current
      /\ Cardinality({k \in keys : k < found.current}) = 0
      /\ SuccessorIn(keys, found.current, found.next)
  BY <1>5, CursorTypes, OneIsOlder
<1>. HIDE DEF found
<1>8. CursorTable'
  BY <1>1, <1>2, <1>6, <1>7, CursorTypes, CursorPlaced DEF CInv, CursorTable
<1>. QED  BY <1>1, <1>4, <1>6, <1>7, <1>8

\* Asking for more dumps moves on to the one in force, the first of the new list.
LEMMA HybridCursor ==
  ASSUME CInv, IInv', Cautious, HybridRequest
  PROVE  /\ CursorTable' /\ ~EveryIntervalEnds
         /\ mode = 1 /\ mode' = 1 /\ max_end = 0
         /\ current < current' /\ current' # 0 /\ current' \in keys'
         /\ current' <= ts /\ ts' = ts
<1>. USE DEF environment, config, broker, times, tables, call
<1>. DEFINE K == Answer({<<ts, 0>>})
            found == cfg_get_timestamps(K, Cardinality(K), 0, ts)
<1>1. /\ pc = "located" /\ mode = 1 /\ ts >= current + Interval /\ max_end = 0
      /\ keys' = K /\ K # {} /\ khash_used' = 0
      /\ current' = found.current /\ next' = found.next
      /\ UNCHANGED <<archive, mode, ts>>
  BY DEF HybridRequest, Hybrid, PastTable, Expired, TakeAnswer, Broker!Answered,
         ResetUsed
<1>2. current \in keys /\ archive[current] # {} /\ ~EveryIntervalEnds
  BY <1>1 DEF CInv, CursorStage, CursorTable, CursorMode, InTable, Unlocated
<1>3. PICK g \in K : TRUE
  BY <1>1
<1>4. K \in SUBSET Grid /\ K \subseteq Nat /\ 0 \notin K
  BY AnswerType, OnTheGrid
<1>5. /\ g + Lag <= now /\ archive[g] # {} /\ g \in Nat
      /\ Lag \in Nat /\ now \in Nat
  <2>1. now \in Clock
    BY DEF CInv, IInv, TypeOK
  <2>2. Timestamp \subseteq Nat
    BY WidthAssumption DEF Timestamp
  <2>. QED  BY <1>3, <1>4, <2>1, <2>2, EnvironmentAssumption DEF Answer, Published
<1>6. \E k \in K : k <= ts
  <2>1. CASE g <= ts
    BY <2>1
  <2>2. CASE ts < g
    <3>1. NoDumpMissing
      BY <1>2 DEF Cautious
    <3>2. current <= ts
      BY <1>1, CursorTypes
    <3>3. current \in Grid /\ g \in Grid
      BY <1>2, <1>4, CursorTypes
    <3>4. PICK k \in Grid : archive[k] # {} /\ k <= ts /\ ts < k + Interval
      BY <1>2, <1>5, <2>2, <3>1, <3>2, <3>3, CursorTypes DEF NoDumpMissing
    <3>5. k \in Nat
      BY OnTheGrid
    <3>6. k + Lag <= now
      BY <1>5, <2>2, <3>4, <3>5, CursorTypes
    <3>7. k \in K
      BY <3>4, <3>5, <3>6, CursorTypes DEF Answer, Published
    <3>. QED  BY <3>4, <3>7
  <2>. QED  BY <1>5, <2>1, <2>2, CursorTypes
<1>7. Cardinality({k \in K : k <= ts}) = 1
  BY <1>6, CursorTypes, OneInForce
<1>8. /\ found.current \in K /\ found.current <= ts
      /\ Cardinality({k \in K : k < found.current}) = 0
      /\ SuccessorIn(K, found.current, found.next)
  <2>1. ts \in Timestamp
    BY CursorTypes
  <2>. HIDE DEF K
  <2>. QED  BY <1>4, <1>7, <2>1, OneIsOlder
<1>. HIDE DEF found
<1>9. found.current + Interval > ts
  BY <1>8 DEF Answer
<1>10. current < found.current
  BY <1>1, <1>4, <1>8, <1>9, CursorTypes
<1>11. \A k \in K : archive'[k] # {}
  BY <1>1 DEF Answer, Published
<1>12. CursorTable'
  BY <1>1, <1>4, <1>8, <1>11, CursorPlaced
<1>. QED  BY <1>1, <1>2, <1>4, <1>8, <1>10, <1>12

\* One step forwards.
LEMMA AdvanceCursor ==
  ASSUME CInv, Advance
  PROVE  /\ CursorTable' /\ keys' = keys /\ current' = next /\ next \in keys
         /\ ts >= next /\ current < next /\ \A k \in keys : k > current => next <= k
         /\ SuccessorIn(keys, current', next')
<1>. USE DEF environment, config, broker, times, tables, call
<1>1. /\ pc = "advance" /\ next # 0 /\ ts >= next
      /\ khash_used' = khash_used + 1 /\ current' = next
      /\ next' = cfg_next_timestamp(keys, khash_count, khash_used', next)
      /\ UNCHANGED <<archive, keys, khash_count>>
  BY DEF Advance, NextReached
<1>2. InTable
  BY <1>1 DEF CInv, CursorStage, InTable, Unlocated
<1>3. /\ current \in keys /\ IsSuccessor(next)
      /\ khash_used = Cardinality({k \in keys : k < current})
      /\ khash_count = Cardinality(keys)
  BY <1>1, <1>2 DEF CInv, CursorTable, CursorFitsTable, IInv, TableLinks
<1>4. /\ next \in keys /\ current < next
      /\ \A k \in keys : k > current => next <= k
      /\ SuccessorIn(keys, current, next)
  BY <1>1, <1>3 DEF IsSuccessor, SuccessorIn
<1>5. khash_used' = Cardinality({k \in keys : k < next})
  BY <1>1, <1>3, <1>4, CursorTypes, RankOfSuccessor
<1>6. SuccessorIn(keys, next, next')
  BY <1>1, <1>3, <1>4, <1>5, CursorTypes, NextIsSuccessor
<1>7. CursorTable'
  BY <1>1, <1>4, <1>5, <1>6, CursorTypes, CursorPlaced DEF CInv, CursorTable
<1>. QED  BY <1>1, <1>4, <1>6, <1>7

\* All other steps keep the cursor, and the list until the end or an answer that
\* breaks off or lists nothing.
LEMMA CursorStays ==
  ASSUME [Next]_vars, ~Locate, ~HybridRequest, ~Advance
  PROVE  /\ UNCHANGED <<archive, current, next>>
         /\ \/ UNCHANGED <<keys, khash_used>>
            \/ SetHistorical \/ HybridMalformed \/ HybridHangs \/ Destroy
<1>. USE DEF environment, config, broker, times, tables, call
<1>1. CASE UNCHANGED vars
  BY <1>1 DEF vars
<1>2. CASE SetConfig \/ Call \/ RtrSynced \/ Destroy \/ Tick
  BY <1>2 DEF SetConfig, SetHistorical, SetLive, SetFails, Call, RtrSynced, Destroy,
              Tick
<1>3. CASE Entry
  BY <1>3 DEF Entry, AnswerLive, RejectPrefixLive, RejectTimestamp, BlankOlder,
              Located
<1>4. CASE Switch
  BY <1>4 DEF Switch, HybridUnreachable, HybridCrashes, HybridMalformed, HybridHangs,
              Broker!Refused, SwitchToLive, SwitchToLiveFails, BlankGap, NoSwitch
<1>5. CASE Finish
  BY <1>5 DEF Finish, NoAdvance, Validate, RejectPrefix, Crash
<1>. QED  BY <1>1, <1>2, <1>3, <1>4, <1>5 DEF Next, Library

-----------------------------------------------------------------------------
(* Every step keeps the invariant.                                          *)

\* The table and the cursor.
LEMMA TableStep ==
  ASSUME CInv, IInv', Cautious, [Next]_vars
  PROVE  CursorTable'
<1>. USE DEF environment, config, broker, times, tables, call
<1>1. CASE Locate \/ HybridRequest \/ Advance
  BY <1>1, LocateCursor, HybridCursor, AdvanceCursor
<1>2. CASE UNCHANGED <<archive, keys, khash_used, current, next>>
  BY <1>2 DEF CInv, CursorTable, CursorFitsTable, IsSuccessor, InTable, Unlocated
<1>3. CASE SetHistorical
  <2>1. /\ current = 0 /\ UNCHANGED <<archive, khash_used, current, next>>
        /\ \A k \in keys' : archive[k] # {}
    BY <1>3 DEF SetHistorical, TakeAnswer, Broker!Answered, Answer, Published,
                CInv, CursorStage
  <2>. QED  BY <2>1 DEF CInv, CursorTable, CursorFitsTable, InTable, Unlocated
<1>4. CASE HybridMalformed \/ Destroy
  <2>1. keys' = {} /\ UNCHANGED <<archive, khash_used, current, next>>
    BY <1>4 DEF HybridMalformed, Broker!BrokenOff, Destroy
  <2>. QED  BY <2>1 DEF CInv, CursorTable, CursorFitsTable, InTable
<1>5. CASE HybridHangs
  <2>1. keys' = {} /\ khash_used' = 0 /\ UNCHANGED <<archive, current, next>>
    BY <1>5 DEF HybridHangs, TakeAnswer, Broker!Answered, ResetUsed
  <2>. QED  BY <2>1 DEF CInv, CursorTable, CursorFitsTable, InTable
<1>. QED  BY <1>1, <1>2, <1>3, <1>4, <1>5, CursorStays

\* The mode.
LEMMA ModeStep ==
  ASSUME CInv, IInv', Cautious, [Next]_vars
  PROVE  CursorMode'
<1>. USE DEF environment, config, broker, times, tables, call
<1>1. CASE Locate
  <2>1. mode = 1 /\ UNCHANGED <<mode, max_end>>
    BY <1>1, LocateCursor DEF Locate
  <2>. QED  BY <2>1 DEF CInv, CursorMode
<1>2. CASE HybridRequest
  BY <1>2, HybridCursor DEF CursorMode
<1>3. CASE Advance
  <2>1. current # 0 /\ current' # 0 /\ UNCHANGED <<mode, max_end>>
    BY <1>3 DEF Advance, NextReached, CInv, CursorStage
  <2>. QED  BY <2>1 DEF CInv, CursorMode
<1>4. CASE SetHistorical
  <2>1. PICK request \in Requests : TakeAnswer(request)
    BY <1>4 DEF SetHistorical
  <2>2. request \in SUBSET (Timestamp \X Timestamp) /\ request # {}
    BY EnvironmentAssumption
  <2>3. mode' = 1 /\ max_end' = MaxEnd(request)
    BY <1>4, <2>1 DEF SetHistorical, TakeAnswer, Broker!Answered
  <2>. QED  BY <2>2, <2>3, LastEnd DEF CursorMode, EveryIntervalEnds
<1>5. CASE SetLive
  <2>1. keys' = {} /\ mode' = 0 /\ current' = 0
    BY <1>5 DEF SetLive, CInv, CursorStage
  <2>. QED  BY <2>1 DEF CursorMode
<1>6. CASE HybridMalformed
  <2>1. keys' = {} /\ UNCHANGED <<mode, max_end, current>>
    BY <1>6 DEF HybridMalformed, Broker!BrokenOff
  <2>. QED  BY <2>1 DEF CInv, CursorMode
<1>7. CASE HybridHangs
  <2>1. mode' = 1 /\ ~EveryIntervalEnds
    BY <1>7 DEF HybridHangs, Hybrid, PastTable, Expired, CInv, CursorMode
  <2>. QED  BY <2>1 DEF CursorMode
<1>8. CASE Destroy
  <2>1. keys' = {} /\ UNCHANGED <<mode, max_end, current>>
    BY <1>8 DEF Destroy
  <2>. QED  BY <2>1 DEF CInv, CursorMode
<1>9. CASE SwitchToLive \/ SwitchToLiveFails
  <2>1. mode' = 0 /\ max_end = 0 /\ current # 0 /\ UNCHANGED <<max_end, current>>
    BY <1>9 DEF SwitchToLive, SwitchToLiveFails, LeaveHistorical, PastTable, CInv,
                CursorStage
  <2>. QED  BY <2>1 DEF CursorMode
<1>10. CASE UNCHANGED <<mode, max_end, keys, current>>
  BY <1>10 DEF CInv, CursorMode
<1>11. \/ Locate \/ HybridRequest \/ Advance \/ SetHistorical \/ SetLive
       \/ HybridMalformed \/ HybridHangs \/ Destroy \/ SwitchToLive
       \/ SwitchToLiveFails \/ UNCHANGED <<mode, max_end>>
  <2>1. CASE UNCHANGED vars
    BY <2>1 DEF vars
  <2>2. CASE SetFails \/ Call \/ RtrSynced \/ Tick
    BY <2>2 DEF SetFails, Call, RtrSynced, Tick
  <2>3. CASE Entry
    BY <2>3 DEF Entry, AnswerLive, RejectPrefixLive, RejectTimestamp, BlankOlder,
                Located
  <2>4. CASE Switch
    BY <2>4 DEF Switch, HybridUnreachable, HybridCrashes, Broker!Refused, BlankGap, NoSwitch
  <2>5. CASE Finish
    BY <2>5 DEF Finish, NoAdvance, Validate, RejectPrefix, Crash
  <2>. QED  BY <2>1, <2>2, <2>3, <2>4, <2>5 DEF Next, SetConfig, Library
<1>. QED  BY <1>1, <1>2, <1>3, <1>4, <1>5, <1>6, <1>7, <1>8, <1>9, <1>10, <1>11,
             CursorStays

\* A stage that is neither of the ones CursorStage is about needs no more than
\* an answer that is not blank.
LEMMA OtherStage ==
  ASSUME pc' \notin {"unset", "connecting", "located", "advance", "answer", "entry"},
         pc' = "idle" => result'.kind # "blank"
  PROVE  CursorStage'
BY DEF CursorStage, BlankOnlyInGap

\* An error is not blank.
LEMMA FailedKind == Failed.kind = "error"
BY DEF Failed

\* The stages, outside of a call.
LEMMA OutsideStage ==
  ASSUME CInv, Cautious, SetConfig \/ Call \/ RtrSynced \/ Destroy \/ Tick
  PROVE  CursorStage'
<1>. USE DEF environment, config, broker, times, tables, call
<1>1. CASE SetHistorical \/ SetFails
  BY <1>1, OtherStage DEF SetHistorical, SetFails, CInv, CursorStage
<1>2. CASE SetLive
  BY <1>2 DEF SetLive, CInv, CursorStage, BlankOnlyInGap
<1>3. CASE Call
  <2>1. /\ pc' = "entry"
        /\ (AlignedStart /\ Unlocated /\ keys # {}) =>
             Cardinality({k \in keys : k <= ts'}) = 1
        /\ UNCHANGED <<keys, current, next>>
    BY <1>3 DEF Call
  <2>2. AlignedStart /\ (current = 0 => Unlocated)
    BY DEF Cautious, CInv, CursorTable, Unlocated
  <2>. QED  BY <2>1, <2>2 DEF CursorStage, BlankOnlyInGap
<1>4. CASE RtrSynced
  <2>1. pc = "connecting" => result.kind = "none"
    BY DEF CInv, CursorStage
  <2>2. Live.kind = "live"
    BY DEF Live
  <2>3. pc' = "idle" /\ result'.kind # "blank"
    BY <1>4, <2>1, <2>2, FailedKind DEF RtrSynced, Return
  <2>. QED  BY <2>3, OtherStage
<1>5. CASE Destroy
  BY <1>5, OtherStage DEF Destroy
<1>6. CASE Tick
  BY <1>6 DEF Tick, CInv, CursorStage, BlankOnlyInGap
<1>. QED  BY <1>1, <1>2, <1>3, <1>4, <1>5, <1>6 DEF SetConfig

\* The stages of a call.
LEMMA LibraryStage ==
  ASSUME CInv, IInv', Cautious, Library
  PROVE  CursorStage'
<1>. USE DEF environment, config, broker, times, tables, call
<1>1. khash_count # 0 /\ pc = "entry" => keys # {}
  BY FS_EmptySet DEF CInv, IInv, TableLinks
<1>2. CASE AnswerLive \/ RejectPrefixLive \/ RejectTimestamp
  <2>1. pc' = "idle" /\ (result' = Live \/ result' = Failed)
    BY <1>2 DEF AnswerLive, RejectPrefixLive, RejectTimestamp, Return
  <2>. QED  BY <2>1, OtherStage DEF Live, Failed
<1>3. CASE BlankOlder
  <2>1. /\ pc' = "idle" /\ result' = Blank /\ ts < current
        /\ UNCHANGED <<keys, current>>
    BY <1>3 DEF BlankOlder, OlderThanCurrent, Return
  <2>2. ~(Blank.ts >= current)
    BY <2>1, CursorTypes DEF Blank
  <2>. QED  BY <2>1, <2>2 DEF CursorStage, BlankOnlyInGap
<1>4. CASE Locate
  <2>1. pc' \in {"located", "crashed"} \/ (pc' = "idle" /\ result' = Failed)
    BY <1>4, LoadEnds DEF Locate
  <2>2. keys' # {} /\ current' # 0 /\ current' <= ts'
    BY <1>4, LocateCursor, CursorTypes
  <2>. QED  BY <2>1, <2>2, FailedKind DEF CursorStage, BlankOnlyInGap
<1>5. CASE Located
  <2>1. pc' = "located" /\ keys' # {} /\ current' # 0
    BY <1>1, <1>5 DEF Located, ChecksPass, Unlocated, CInv, CursorTable
  <2>2. /\ UNCHANGED <<mode, current, ts>> /\ ~(mode = 1 /\ ts < current)
    BY <1>5 DEF Located, ChecksPass, Accept, OlderThanCurrent
  <2>3. mode' = 1 => current' <= ts'
    BY <2>2, CursorTypes
  <2>. QED  BY <2>1, <2>3 DEF CursorStage, BlankOnlyInGap
<1>6. CASE HybridRequest
  <2>1. pc' \in {"advance", "crashed"} \/ (pc' = "idle" /\ result' = Failed)
    BY <1>6, LoadEnds DEF HybridRequest
  <2>2. keys' # {} /\ current' # 0 /\ current' <= ts'
    BY <1>6, HybridCursor
  <2>. QED  BY <2>1, <2>2, FailedKind DEF CursorStage, BlankOnlyInGap
<1>7. CASE HybridUnreachable \/ HybridCrashes \/ HybridMalformed \/ HybridHangs
           \/ SwitchToLive \/ SwitchToLiveFails
  BY <1>7, OtherStage, FailedKind
  DEF HybridUnreachable, HybridCrashes, HybridMalformed, HybridHangs, SwitchToLive,
      SwitchToLiveFails, Return
<1>8. CASE BlankGap
  <2>1. /\ pc = "located" /\ ts >= current + Interval /\ next # 0 /\ ts < next
        /\ pc' = "idle" /\ result' = Blank /\ UNCHANGED <<keys, current>>
    BY <1>8 DEF BlankGap, InGap, Expired, Return
  <2>2. \A k \in keys : k > current => next <= k
    BY <2>1 DEF CInv, CursorStage, CursorTable, CursorFitsTable, InTable, Unlocated,
                IsSuccessor
  <2>3. \A k \in keys : ~(k <= ts /\ ts < k + Interval)
    BY <2>1, <2>2, CursorTypes
  <2>4. Blank.ts = ts
    BY DEF Blank
  <2>. QED  BY <2>1, <2>3, <2>4 DEF CursorStage, BlankOnlyInGap
<1>9. CASE NoSwitch \/ NoAdvance
  BY <1>9 DEF NoSwitch, NoAdvance, CInv, CursorStage, BlankOnlyInGap
<1>10. CASE Advance
  <2>1. pc' \in {"answer", "crashed"} \/ (pc' = "idle" /\ result' = Failed)
    BY <1>10, LoadEnds DEF Advance
  <2>2. keys' # {} /\ current' # 0 /\ current' <= ts'
    <3>1. ts' = ts
      BY <1>10 DEF Advance
    <3>. QED  BY <1>10, <3>1, AdvanceCursor, CursorTypes
  <2>. QED  BY <2>1, <2>2, FailedKind DEF CursorStage, BlankOnlyInGap
<1>11. CASE Validate \/ RejectPrefix \/ Crash
  BY <1>11, OtherStage, FailedKind DEF Validate, RejectPrefix, Crash, Return
<1>. QED  BY <1>2, <1>3, <1>4, <1>5, <1>6, <1>7, <1>8, <1>9, <1>10, <1>11
          DEF Library, Entry, Switch, Finish

\* The invariant of the cursor holds in every behaviour.
LEMMA CursorInvariance ==
  ASSUME Cautious
  PROVE  Spec => []CInv
<1>1. Init => CursorTable /\ CursorMode /\ CursorStage
  BY DEF Init, CursorTable, CursorMode, CursorStage, CursorFitsTable, InTable,
         Unlocated, BlankOnlyInGap, NoResult
<1>2. CInv /\ IInv' /\ [Next]_vars => (CursorTable /\ CursorMode /\ CursorStage)'
  <2>. SUFFICES ASSUME CInv, IInv', [Next]_vars
                PROVE  (CursorTable /\ CursorMode /\ CursorStage)'
    OBVIOUS
  <2>1. CursorTable' /\ CursorMode'
    BY TableStep, ModeStep
  <2>2. CursorStage'
    <3>1. CASE UNCHANGED vars
      BY <3>1 DEF vars, config, broker, times, call, CInv, CursorStage,
                  BlankOnlyInGap
    <3>. QED  BY <3>1, OutsideStage, LibraryStage DEF Next
  <2>. QED  BY <2>1, <2>2
<1>3. CInv <=> IInv /\ CursorTable /\ CursorMode /\ CursorStage
  BY DEF CInv
<1>. QED  BY <1>1, <1>2, <1>3, Invariance, PTL DEF Spec

-----------------------------------------------------------------------------
(* The theorems.                                                            *)

\* The counter of used entries is the rank of the current dump and next is its
\* successor, whatever imports and requests failed (rpki_config.c:169-179,
\* rpki.c:213-216).
THEOREM CursorFits ==
  ASSUME Cautious
  PROVE  Spec => []CursorFitsTable
<1>1. CInv => CursorFitsTable
  BY DEF CInv, CursorTable
<1>. QED  BY <1>1, CursorInvariance, PTL

\* An empty result for an element that is not older than the current dump means
\* that no dump of the table is in force (rpki.c:190-198).
THEOREM BlankMeansGap ==
  ASSUME Cautious
  PROVE  Spec => []BlankOnlyInGap
<1>1. CInv => BlankOnlyInGap
  BY DEF CInv, CursorStage
<1>. QED  BY <1>1, CursorInvariance, PTL

\* The cursor never goes back to an older dump (rpki.c:110-121, 138-152,
\* 155-173, 211-221).
THEOREM CursorNeverBack ==
  ASSUME Cautious
  PROVE  Spec => NeverBack
<1>1. CInv /\ IInv' /\ [Next]_vars => current' >= current
  <2>. SUFFICES ASSUME CInv, IInv', [Next]_vars PROVE current' >= current
    OBVIOUS
  <2>1. CASE Locate \/ HybridRequest \/ Advance
    <3>1. current' \in Nat
      <4>1. current' \in Grid \cup {0}
        BY DEF IInv, TypeOK
      <4>. QED  BY <4>1, OnTheGrid
    <3>2. CASE Locate
      BY <3>1, <3>2, LocateCursor
    <3>3. CASE HybridRequest
      BY <3>1, <3>3, HybridCursor, CursorTypes
    <3>4. CASE Advance
      BY <3>4, AdvanceCursor, CursorTypes
    <3>. QED  BY <2>1, <3>2, <3>3, <3>4
  <2>2. CASE ~(Locate \/ HybridRequest \/ Advance)
    BY <2>2, CursorStays, CursorTypes
  <2>. QED  BY <2>1, <2>2
<1>2. CInv => IInv
  BY DEF CInv
<1>. QED  BY <1>1, <1>2, CursorInvariance, PTL DEF Spec, NeverBack

\* As long as the cursor stays on a dump the prefix tables stay as its import
\* left them (rpki.c:138-152, 211-227).
THEOREM TablesFollow ==
  ASSUME Cautious
  PROVE  Spec => TablesFollowCursor
<1>1. CInv /\ IInv' /\ [Next]_vars =>
        ((current # 0 /\ current' = current /\ max_end # 0 /\ pc' # "destroyed")
           => pfxt' = pfxt /\ Consulted' = Consulted)
  <2>. SUFFICES ASSUME CInv, IInv', [Next]_vars, current # 0, current' = current,
                       max_end # 0, pc' # "destroyed"
                PROVE  pfxt' = pfxt /\ Consulted' = Consulted
    OBVIOUS
  <2>. USE DEF environment, config, broker, times, tables, call
  <2>1. ~Locate /\ ~HybridRequest /\ ~Advance
    BY LocateCursor, HybridCursor, AdvanceCursor, CursorTypes
  <2>2. mode = 1
    BY CursorTypes DEF CInv, CursorMode
  <2>3. pfxt' = pfxt /\ pfxt_active' = pfxt_active /\ pfxt_count' = pfxt_count
    <3>1. CASE UNCHANGED vars
      BY <3>1 DEF vars
    <3>2. CASE SetConfig \/ Call \/ RtrSynced \/ Destroy \/ Tick
      BY <3>2 DEF SetConfig, SetHistorical, SetLive, SetFails, Call, RtrSynced,
                  Destroy, Tick
    <3>3. CASE Entry
      BY <2>1, <2>2, <3>3
      DEF Entry, AnswerLive, LivePath, RejectPrefixLive, RejectTimestamp, BlankOlder,
          Located
    <3>4. CASE Switch
      BY <2>1, <3>4
      DEF Switch, HybridUnreachable, HybridCrashes, HybridMalformed, HybridHangs, Hybrid, PastTable,
          SwitchToLive, SwitchToLiveFails, BlankGap, NoSwitch
    <3>5. CASE Finish
      BY <2>1, <3>5 DEF Finish, NoAdvance, Validate, RejectPrefix, Crash
    <3>. QED  BY <3>1, <3>2, <3>3, <3>4, <3>5 DEF Next, Library
  <2>. QED  BY <2>3 DEF Consulted
<1>2. CInv => IInv
  BY DEF CInv
<1>. QED  BY <1>1, <1>2, CursorInvariance, PTL DEF Spec, TablesFollowCursor
=============================================================================

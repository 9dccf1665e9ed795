---------------------------- MODULE RpkiValidate ----------------------------
(***************************************************************************)
(* One configuration of the library and the calls made on it:              *)
(* rpki_set_config, rpki_validate and rpki_destroy_config (rpki.c) with    *)
(* the dump selection of rpki_config.c.  A call of rpki_validate runs      *)
(* through the stages entry, located, advance and answer, one action per   *)
(* stage; between two steps the clock and the broker's archive move on.    *)
(* The broker, the RTR manager and the clock are external.                 *)
(***************************************************************************)
EXTENDS Timestamps, PrefixTables

CONSTANTS Grid,          \* timestamps at which the archive may hold dumps
          Archives,      \* the archives considered: which collectors have a
                         \* dump at which timestamp
          Requests,      \* interval lists the caller may configure
          Times,         \* timestamps of validated elements
          Clock,         \* clock readings
          Lag,           \* time until a dump is listed by the broker
          Dense,         \* the caller passes no listed dump by: it has an element
                         \* for the period each of them is in force
          AlignedStart,  \* the first call falls between the first listed dump
                         \* and the second
          LiveAllowed    \* the collector serves RTR, so live mode is possible

ASSUME GridAssumption ==
  /\ Grid \subseteq Timestamp \ {0}
  /\ IsFiniteSet(Grid) /\ OnGrid(Grid)
  /\ \A g \in Grid : g + Interval \in Timestamp
  /\ \A t \in Timestamp, g \in Grid : \E n \in Timestamp : Backward(t)[n] = g

ASSUME EnvironmentAssumption ==
  /\ Archives \subseteq [Grid -> SUBSET Collector]
  /\ Requests \subseteq SUBSET (Timestamp \X Timestamp)
  /\ {} \notin Requests
  /\ Times \subseteq Timestamp
  /\ Clock \subseteq Timestamp /\ \A t \in Clock : t >= Interval
  /\ Lag \in Nat
  /\ Dense \in BOOLEAN /\ AlignedStart \in BOOLEAN /\ LiveAllowed \in BOOLEAN

\* Every interval the caller may configure has an end.
EveryIntervalEnds == \A request \in Requests : \A iv \in request : iv[2] # 0

\* In every archive some dump is in force at any time between two others.
NoDumpMissing ==
  \A listing \in Archives :
    LET dumps == {k \in Grid : listing[k] # {}}
    IN  \A first, last \in dumps, t \in Timestamp :
          first <= t /\ t < last => \E k \in dumps : k <= t /\ t < k + Interval

VARIABLES
  archive,       \* the dumps that exist or will exist (external)
  now,           \* time(NULL) (external)
  mode,          \* cfg_input.mode: 1 historical, 0 live
  intervals,     \* cfg_input.intervals as a set of pairs, end 0 is open
  max_end,       \* cfg_time.max_end
  keys,          \* keys of cfg_broker.broker_kh
  khash_count,   \* cfg_broker.broker_khash_count
  khash_used,    \* cfg_broker.broker_khash_used
  current,       \* cfg_time.current_roa_timestamp
  next,          \* cfg_time.next_roa_timestamp
  current_gap,   \* cfg_time.current_gap
  pfxt,          \* cfg_val.pfxt: the records in each prefix table
  pfxt_active,   \* cfg_val.pfxt_active: the collectors whose flag is set
  pfxt_count,    \* cfg_val.pfxt_count
  rtr,           \* cfg_val.rtr_mgr_cfg: none, starting, synced or closed
  pc,            \* where the program is
  ts,            \* the timestamp of the call under way
  seen,          \* the latest timestamp that passed the checks so far
  result         \* what the last call returned

environment == <<archive, now>>
config == <<mode, intervals, max_end>>
broker == <<keys, khash_count, khash_used>>
times == <<current, next>>
tables == <<pfxt, pfxt_active, pfxt_count>>
call == <<ts, seen>>
vars == <<environment, config, broker, times, current_gap, tables, rtr, pc,
          call, result>>

Stages == {"unset", "connecting", "idle", "entry", "located", "switching",
           "advance", "answer", "exited", "hung", "crashed", "destroyed"}

NoResult == [kind |-> "none", ts |-> 0, dump |-> 0, tables |-> {}]
Failed == [kind |-> "error", ts |-> ts, dump |-> 0, tables |-> {}]
Blank == [kind |-> "blank", ts |-> ts, dump |-> 0, tables |-> {}]
Live == [kind |-> "live", ts |-> ts, dump |-> 0, tables |-> {}]

-----------------------------------------------------------------------------
(* External: the clock and the broker.                                      *)

\* Dumps the broker lists at the current time.
Published == {k \in Grid : archive[k] # {} /\ k + Lag <= now}

\* The keys of the answer to a request: the dumps in force in an interval.
Answer(request) ==
  {k \in Published : \E iv \in request :
      k + Interval > iv[1] /\ (iv[2] = 0 \/ k <= iv[2])}

\* The max_end field of the answer: 0 if an interval is open.
MaxEnd(request) ==
  IF \E iv \in request : iv[2] = 0 THEN 0
  ELSE CHOOSE e \in {iv[2] : iv \in request} : \A iv \in request : iv[2] <= e

Tick == /\ now' \in {t \in Clock : t > now}
        /\ UNCHANGED <<archive, config, broker, times, current_gap, tables,
                       rtr, pc, call, result>>

-----------------------------------------------------------------------------
(* Pieces shared by several stages.                                         *)

\* A call of broker_connect; BrokerAnswer implements it.
Broker == INSTANCE BrokerContract

\* broker_connect returns 0.
TakeAnswer(request) ==
  Broker!Answered([keys      |-> Answer(request),
                   count     |-> Cardinality(Answer(request)),
                   intervals |-> request,
                   max_end   |-> MaxEnd(request)])

\* Load the dumps of timestamp k; go to the given stage, return -1 or crash.
Load(k, stage) ==
  \E outcome \in ParseOutcome(archive[k]) :
    LET loaded == cfg_parse_urls(pfxt, archive[k], k, outcome)
    IN  /\ pfxt' = loaded.pfxt
        /\ pfxt_active' = loaded.active
        /\ pfxt_count' = loaded.count
        /\ \/ ParseOk(outcome) /\ pc' = stage /\ UNCHANGED result
           \/ ~ParseOk(outcome) /\ pc' = "idle" /\ result' = Failed
           \/ ParseEmpty(outcome) /\ pc' = "crashed" /\ UNCHANGED result

\* Return from rpki_validate.
Return(r) == pc' = "idle" /\ result' = r

InIntervals(t) ==
  \E iv \in intervals : iv[1] <= t /\ (t <= iv[2] \/ iv[2] = 0)

Unlocated == current = 0 /\ next = 0

-----------------------------------------------------------------------------
(* rpki_set_config                                                          *)

\* Historical mode: the broker answers.
SetHistorical ==
  /\ pc = "unset"
  /\ \E request \in Requests :
       /\ TakeAnswer(request)
       /\ pc' = "idle"
  /\ mode' = 1
  /\ UNCHANGED <<environment, khash_used, times, current_gap, tables, rtr,
                 call, result>>

\* Live mode: the connection is started and the caller waits for it.
SetLive ==
  /\ pc = "unset" /\ LiveAllowed
  /\ \E request \in Requests : intervals' = request
  /\ mode' = 0 /\ rtr' = "starting" /\ pc' = "connecting"
  /\ UNCHANGED <<environment, max_end, broker, times, current_gap, tables,
                 call, result>>

\* Bad arguments, an unusable broker or RTR server: the process exits, or
\* crashes where the broker does not serve the second request.
SetFails ==
  /\ pc = "unset"
  /\ pc' = "exited"
  /\ UNCHANGED <<environment, config, broker, times, current_gap, tables, rtr,
                 call, result>>

\* The RTR manager reports its first synchronisation: the wait ends, in a call
\* of rpki_validate with the first live result or the rejection of the prefix.
RtrSynced ==
  /\ rtr = "starting"
  /\ rtr' = "synced"
  /\ \/ pc = "connecting" /\ pc' = "idle" /\ UNCHANGED result
     \/ pc = "switching" /\ \E r \in {Live, Failed} : Return(r)
  /\ UNCHANGED <<environment, config, broker, times, current_gap, tables, call>>

-----------------------------------------------------------------------------
(* rpki_validate: entry                                                     *)

\* The caller asks for an element.
Call ==
  /\ pc = "idle"
  /\ ts' \in Times
  /\ (Dense /\ ~Unlocated /\ InIntervals(ts')) =>
       \A k \in keys : seen < k /\ k <= ts' => ts' < k + Interval
  /\ (AlignedStart /\ Unlocated /\ keys # {}) =>
       Cardinality({k \in keys : k <= ts'}) = 1
  /\ pc' = "entry"
  /\ UNCHANGED <<environment, config, broker, times, current_gap, tables, rtr,
                 seen, result>>

LivePath == mode = 0 /\ rtr = "synced"

\* Live validation against the RTR socket's table.
AnswerLive ==
  /\ pc = "entry" /\ LivePath
  /\ pfxt_count' = 1
  /\ Return(Live)
  /\ UNCHANGED <<environment, config, broker, times, current_gap, pfxt,
                 pfxt_active, rtr, call>>

\* The prefix of the element is not an address: -1.
RejectPrefixLive ==
  /\ pc = "entry" /\ LivePath
  /\ Return(Failed)
  /\ UNCHANGED <<environment, config, broker, times, current_gap, tables, rtr,
                 call>>

\* Mutant of OlderThanCurrent: no check against the current dump.
OlderUnchecked == FALSE

\* The element precedes the dump that is loaded.
OlderThanCurrent == mode = 1 /\ ts < current

\* Not in a configured interval, or no dumps at all: -1.
RejectTimestamp ==
  /\ pc = "entry" /\ ~LivePath
  /\ ~InIntervals(ts) \/ (~OlderThanCurrent /\ khash_count = 0)
  /\ Return(Failed)
  /\ UNCHANGED <<environment, config, broker, times, current_gap, tables, rtr,
                 call>>

\* Older than the current dump: an empty result.
BlankOlder ==
  /\ pc = "entry" /\ ~LivePath
  /\ InIntervals(ts) /\ OlderThanCurrent
  /\ Return(Blank)
  /\ UNCHANGED <<environment, config, broker, times, current_gap, tables, rtr,
                 call>>

ChecksPass == /\ pc = "entry" /\ ~LivePath
              /\ InIntervals(ts) /\ ~OlderThanCurrent /\ khash_count # 0

Accept == seen' = (IF ts > seen THEN ts ELSE seen) /\ ts' = ts

\* The first element: find its dump and the next one, load the tables.
Locate ==
  /\ ChecksPass /\ Unlocated
  /\ LET found == cfg_get_timestamps(keys, khash_count, khash_used, ts)
     IN  /\ current' = found.current
         /\ next' = found.next
         /\ Load(found.current, "located")
  /\ Accept
  /\ UNCHANGED <<environment, config, broker, current_gap, rtr>>

\* Mutant of Located: the dump that is loaded is imported again.
LocatedReloads ==
  /\ ChecksPass /\ ~Unlocated
  /\ Load(current, "located")
  /\ Accept
  /\ UNCHANGED <<environment, config, broker, times, current_gap, rtr>>

Located ==
  /\ ChecksPass /\ ~Unlocated
  /\ pc' = "located"
  /\ Accept
  /\ UNCHANGED <<environment, config, broker, times, current_gap, tables, rtr,
                 result>>

-----------------------------------------------------------------------------
(* rpki_validate: beyond the last dump, or in a gap                         *)

\* Mutant of Expired: off by one at the end of the dump's period.
ExpiredLate == mode = 1 /\ ts > current + Interval

\* The current dump is out of date at ts.
Expired == mode = 1 /\ ts >= current + Interval

\* An open interval, and the last dump of the table no longer covers ts.
PastTable == pc = "located" /\ Expired /\ max_end = 0 /\ next = 0

Hybrid == PastTable /\ current < now - Interval

\* broker_connect fails before the table is touched: -1.
HybridUnreachable ==
  /\ Hybrid
  /\ Broker!Refused
  /\ Return(Failed)
  /\ UNCHANGED <<environment, mode, khash_used, times, current_gap, tables, rtr,
                 call>>

\* The broker does not serve the second request: broker_connect crashes.
HybridCrashes ==
  /\ Hybrid
  /\ pc' = "crashed"
  /\ UNCHANGED <<environment, config, broker, times, current_gap, tables, rtr,
                 call, result>>

\* The answer breaks off after the table was cleared and the request's interval
\* or nothing usable was stored: -1.
HybridMalformed ==
  /\ Hybrid
  /\ \E left \in {{}, {<<ts, 0>>}} : Broker!BrokenOff(left)
  /\ Return(Failed)
  /\ UNCHANGED <<environment, mode, max_end, khash_used, times, current_gap,
                 tables, rtr, call>>

\* Mutant of ResetUsed: the counter survives the new table.
ResetUsedForgotten == UNCHANGED khash_used

\* The new table is unused.
ResetUsed == khash_used' = 0

\* The broker lists dumps from ts on: locate ts again in the new table.
HybridRequest ==
  /\ Hybrid
  /\ Answer({<<ts, 0>>}) # {}
  /\ TakeAnswer({<<ts, 0>>})
  /\ ResetUsed
  /\ LET found == cfg_get_timestamps(keys', khash_count', khash_used', ts)
     IN  /\ current' = found.current
         /\ next' = found.next
         /\ Load(found.current, "advance")
  /\ UNCHANGED <<environment, mode, current_gap, rtr, call>>

\* The broker lists nothing: the backward search has no key to stop at.
HybridHangs ==
  /\ Hybrid
  /\ Answer({<<ts, 0>>}) = {}
  /\ TakeAnswer({<<ts, 0>>})
  /\ ResetUsed /\ pfxt_count' = 0
  /\ pc' = "hung"
  /\ UNCHANGED <<environment, mode, times, current_gap, pfxt, pfxt_active, rtr,
                 call, result>>

\* Mutant of LeaveHistorical: the mode is not switched.
LeaveHistoricalForgotten == UNCHANGED mode

\* input->mode = 0
LeaveHistorical == mode' = 0

\* Live mode: start the RTR connection and wait for it.
SwitchToLive ==
  /\ PastTable /\ ~Hybrid /\ LiveAllowed
  /\ LeaveHistorical /\ rtr' = "starting" /\ pc' = "switching"
  /\ UNCHANGED <<environment, intervals, max_end, broker, times, current_gap,
                 tables, call, result>>

\* validation_set_live_config fails; its result is ignored.  A prefix that is
\* no address is rejected before the missing socket is used.
SwitchToLiveFails ==
  /\ PastTable /\ ~Hybrid
  /\ LeaveHistorical
  /\ \/ pc' = "crashed" /\ UNCHANGED result
     \/ Return(Failed)
  /\ UNCHANGED <<environment, intervals, max_end, broker, times, current_gap,
                 tables, rtr, call>>

\* Mutant of InGap: empty results from the element on, not from the gap on.
InGapEarly == pc = "located" /\ mode = 1 /\ next # 0 /\ ts < next

\* Between the end of the current dump's period and the next dump.
InGap == pc = "located" /\ Expired /\ next # 0 /\ ts < next

BlankGap ==
  /\ InGap
  /\ current_gap' = 0
  /\ Return(Blank)
  /\ UNCHANGED <<environment, config, broker, times, tables, rtr, call>>

NoSwitch ==
  /\ pc = "located" /\ ~PastTable /\ ~InGap
  /\ pc' = "advance"
  /\ UNCHANGED <<environment, config, broker, times, current_gap, tables, rtr,
                 call, result>>

-----------------------------------------------------------------------------
(* rpki_validate: the next dump, the validation and the result              *)

\* Mutant of NextReached: strict comparison.
NextPassed == next # 0 /\ ts > next

\* The next dump is in force at ts.
NextReached == next # 0 /\ ts >= next

\* One step to the next dump.
Advance ==
  /\ pc = "advance" /\ NextReached
  /\ khash_used' = khash_used + 1
  /\ current' = next
  /\ next' = cfg_next_timestamp(keys, khash_count, khash_used', next)
  /\ Load(next, "answer")
  /\ UNCHANGED <<environment, config, keys, khash_count, current_gap, rtr, call>>

NoAdvance ==
  /\ pc = "advance" /\ ~NextReached
  /\ pc' = "answer"
  /\ UNCHANGED <<environment, config, broker, times, current_gap, tables, rtr,
                 call, result>>

\* The tables rpki_validate consults: flagged, and below pfxt_count.
Consulted == {c \in pfxt_active : c < pfxt_count}

\* Unified output is built from table 0's status; without it the output walks
\* a hash table that was never created.
NullOutput == Unified /\ 0 \notin Consulted

Validate ==
  /\ pc = "answer" /\ ~NullOutput
  /\ Return([kind |-> "answer", ts |-> ts, dump |-> current,
             tables |-> Consulted])
  /\ current_gap' = 1
  /\ UNCHANGED <<environment, config, broker, times, tables, rtr, call>>

RejectPrefix ==
  /\ pc = "answer" /\ Consulted # {}
  /\ Return(Failed)
  /\ UNCHANGED <<environment, config, broker, times, current_gap, tables, rtr,
                 call>>

Crash ==
  /\ pc = "answer" /\ NullOutput
  /\ pc' = "crashed"
  /\ UNCHANGED <<environment, config, broker, times, current_gap, tables, rtr,
                 call, result>>

-----------------------------------------------------------------------------
(* rpki_destroy_config                                                      *)

\* validation_close_connection: an existing RTR manager is stopped.
Closed(manager) == IF manager = "synced" THEN "closed" ELSE manager

\* Mutant of CloseConnection: nothing is closed.
CloseNothing == UNCHANGED rtr

\* The connection is closed if the mode is live.
CloseConnection == rtr' = (IF mode = 0 THEN Closed(rtr) ELSE rtr)

Destroy ==
  /\ pc = "idle"
  /\ pc' = "destroyed"
  /\ pfxt' = Cleaned(pfxt) /\ keys' = {}
  /\ CloseConnection
  /\ UNCHANGED <<environment, config, khash_count, khash_used, times,
                 current_gap, pfxt_active, pfxt_count, call, result>>

-----------------------------------------------------------------------------
Init ==
  /\ archive \in Archives /\ now \in Clock
  /\ mode = 0 /\ intervals = {} /\ max_end = 0
  /\ keys = {} /\ khash_count = 0 /\ khash_used = 0
  /\ current = 0 /\ next = 0 /\ current_gap = 0
  /\ pfxt = [c \in Collector |-> {}] /\ pfxt_active = {} /\ pfxt_count = 0
  /\ rtr = "none" /\ pc = "unset"
  /\ ts = 0 /\ seen = 0 /\ result = NoResult

SetConfig == SetHistorical \/ SetLive \/ SetFails
Entry == \/ AnswerLive \/ RejectPrefixLive \/ RejectTimestamp \/ BlankOlder
         \/ Locate \/ Located
Switch == \/ HybridUnreachable \/ HybridCrashes \/ HybridMalformed
          \/ HybridRequest \/ HybridHangs \/ SwitchToLive \/ SwitchToLiveFails \/ BlankGap
          \/ NoSwitch
Finish == Advance \/ NoAdvance \/ Validate \/ RejectPrefix \/ Crash

\* The steps of a call under way: nobody but the library takes them.
Library == Entry \/ Switch \/ Finish

Next == SetConfig \/ Call \/ Library \/ RtrSynced \/ Destroy \/ Tick

Spec == Init /\ [][Next]_vars

-----------------------------------------------------------------------------
(* Properties                                                               *)

\* The variables stay in their ranges; the keys are dumps of the archive and
\* the counter of entries is their number while the table is in use.
TypeOK ==
  /\ archive \in Archives /\ now \in Clock
  /\ mode \in {0, 1} /\ max_end \in Timestamp
  /\ intervals \subseteq Timestamp \X Timestamp
  /\ keys \subseteq Grid
  /\ khash_count \in Nat /\ khash_used \in Nat
  /\ current \in Grid \cup {0} /\ next \in Grid \cup {0}
  /\ current_gap \in {0, 1}
  /\ pfxt \in [Collector -> SUBSET Record(Grid)]
  /\ pfxt_active \subseteq Collector /\ pfxt_count \in Nat
  /\ rtr \in {"none", "starting", "synced", "closed"}
  /\ pc \in Stages
  /\ ts \in Timestamp /\ seen \in Timestamp
  /\ result \in [kind : {"none", "error", "blank", "live", "answer"},
                 ts : Timestamp, dump : Grid \cup {0},
                 tables : SUBSET Collector]

\* No table ever holds a record of another dump than the current one, whatever
\* imports failed and whatever tables were replaced (rpki_config.c:187-193).
RecordsAreCurrent ==
  \A c \in Collector : \A r \in pfxt[c] : r.dump = current

\* A consulted table stands for a dump that was imported as a whole, also after
\* the import of a later collector broke off: into table 0 in unified mode,
\* otherwise into its own, which holds nothing else (rpki_config.c:203-221).
FlaggedTablesComplete ==
  pc # "destroyed" =>
     \A c \in Consulted :
        /\ c \in archive[current]
        /\ IF Unified THEN Dump(c, current) \subseteq pfxt[0]
           ELSE pfxt[c] = Dump(c, current)

\* Whether a located table is in use.
InTable == ~Unlocated /\ keys # {}

\* The successor of the current dump in the table, 0 if it is the last one.
IsSuccessor(k) ==
  IF \E j \in keys : j > current
  THEN k \in keys /\ k > current /\ \A j \in keys : j > current => k <= j
  ELSE k = 0

\* The counter of used entries is the rank of the current dump, which is what
\* lets it tell whether a next dump exists, and next is that dump
\* (rpki_config.c:169-179, rpki.c:213-216).
CursorFitsTable ==
  InTable => /\ khash_used = Cardinality({k \in keys : k < current})
             /\ IsSuccessor(next)

\* A result is taken from the newest dump of the table that is not newer than
\* the element, if the caller is dense.
NewestDump == pc = "answer" => \A k \in keys : k <= ts => k <= current

\* No historical result for an element in a gap between two dumps
\* (rpki.c:191), whether or not the call moved to another dump.
NoAnswerInGap ==
  (pc = "answer" /\ mode = 1 /\ \E k \in keys : k > ts) =>
     ts < current + Interval

\* An element not older than the current dump gets an empty result only if no
\* dump of the table is in force at its time.
BlankOnlyInGap ==
  (pc = "idle" /\ result.kind = "blank" /\ result.ts >= current) =>
     \A k \in keys : ~(k <= result.ts /\ result.ts < k + Interval)

\* The cursor moves through the archive forwards only, by failing calls,
\* retries, replaced tables and the switch to live mode too.
NeverBack == [][current' >= current]_vars

\* Two results for the same timestamp with nothing else in between come from
\* the same dump.
StableAnswers ==
  [][(result.kind = "answer" /\ result'.kind = "answer" /\ result'.ts = result.ts)
       => result'.dump = result.dump]_vars

\* Tables and cursor change together: a dump whose import failed is not
\* imported again by the calls that follow, and no call for a loaded dump loses
\* a collector (rpki.c:138-152, 211-227).  The lists are not asked for again here.
TablesFollowCursor ==
  [][(current # 0 /\ current' = current /\ max_end # 0 /\ pc' # "destroyed")
       => pfxt' = pfxt /\ Consulted' = Consulted]_vars

\* After the first live result no historical result is given any more.
LiveIsFinal ==
  [][result.kind = "live" => result'.kind \in {"live", "error"}]_vars

\* The connection to the RTR server exists in live mode only, and destroying
\* the configuration closes it (rpki_config.c:132-135).
ConnectionClosed ==
  /\ rtr \in {"starting", "synced"} => mode = 0
  /\ pc = "destroyed" => rtr \in {"none", "closed"}

\* The library keeps running while a call is under way, and the caller comes
\* back with an element of time t whenever the library is idle again and again.
Again(t) == Call /\ ts' = t
Persistence(t) == WF_vars(Library) /\ SF_vars(Again(t))

\* A call moves at most one dump ahead; a caller that asks for time t again
\* and again still gets to the newest dump of the table for t, or destroys the
\* configuration.
CatchesUp(t) ==
  (pc = "idle" /\ mode = 1 /\ InIntervals(t) /\ InTable) ~>
     (pc = "destroyed" \/ \A k \in keys : k <= t => k <= current)

-----------------------------------------------------------------------------
(* Refinement                                                               *)

\* The calls implement the oracle: cursor, counters, successor and stages
\* together choose the dump in force, for a caller that passes none by the
\* newest one, and nothing else ever shows (rpki.c:75-247).
Oracle == INSTANCE RoaOracle WITH
  Prompt <- Dense, dumps <- keys, horizon <- current, asked <- ts,
  way <- (IF mode = 1 THEN "history" ELSE IF rtr = "none" THEN "none" ELSE "live"),
  busy <- pc \in {"entry", "located", "switching", "advance", "answer", "hung",
                  "crashed"},
  reply <- [kind |-> result.kind, ts |-> result.ts, dump |-> result.dump]
IsOracle == Oracle!Spec

\* Mode and connection go through the life of RtrConnection, which is what
\* LiveConnection implements (rpki.c:57-62, 179-181, rpki_config.c:133).
Connection == INSTANCE RtrConnection
UsesConnection == Connection!Spec

-----------------------------------------------------------------------------
(* What comments of the code say, and the code does not keep.               *)

\* "Next timestamp, 0 if there is no ROA file" (rpki_config.h:203-207): a next
\* timestamp is later than the current one.
NextIsLater == next # 0 => next > current

\* A call of rpki_validate returns 0 or -1 (rpki.h:68).
NeverCrashes == pc # "crashed"

\* cfg_get_timestamps returns, -1 if it finds no timestamps
\* (rpki_config.h:198-199).
NeverHangs == pc # "hung"
=============================================================================

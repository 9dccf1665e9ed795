# ROAFetchlib: models, checks and proofs

ROAFetchlib validates BGP elements (prefix, origin AS, timestamp) against RPKI
data. For past elements it asks a broker which ROA dumps of an archive cover
the configured time intervals and loads the dump in force at the element's
time; for present ones it connects to an RTR server. A stream tool calls it
element by element, so one configuration lives through a long sequence of
calls, while the clock and the archive move on. This directory holds TLA+
modules of that behaviour, TLC configurations that check them and proofs
checked with TLAPS. `PROJECT.json` lists components, runs, mutants, the source
lines of each definition, findings, hazards and theorems.

## 1. Inventory

| Component | State | Operations | Modelled in |
|---|---|---|---|
| API, `src/src/rpki.c` | none of its own; all in `rpki_cfg_t` | `rpki_set_config`, `rpki_validate`, `rpki_destroy_config` | `RpkiValidate` |
| Timestamp search, `rpki_config.c:142-182` | `cfg_time.current_roa_timestamp`, `next_roa_timestamp`; reads the hash table and its two counters | `cfg_get_timestamps`, `cfg_next_timestamp` | `Timestamps`, `TimestampSearch` |
| Prefix tables, `rpki_config.c:184-364` | `cfg_val.pfxt[]`, `pfxt_active[]`, `pfxt_count` | `cfg_parse_urls`, `cfg_import_roa_file`, `cfg_add_record_to_pfx_table` | `PrefixTables` |
| Life cycle, `rpki_config.c:45-140` | the whole `rpki_cfg_t` | `cfg_create`, `cfg_destroy` | `RpkiValidate` (`Init`, `SetFails`, `Destroy`), `LiveConnection` (checks, memory of the connection) |
| Broker access, `broker.c`, `utils_broker.c` | `cfg_broker`: table, `broker_khash_count`, `broker_khash_used`, `roa_urls`; lists, intervals, `start` and `max_end` | `broker_connect`, `broker_json_buf`, `broker_parse_json` | `BrokerAnswer`; from outside `BrokerContract` |
| JSON tokenizer, `jsmn.c` | parser and tokens of one answer | `jsmn_init`, `jsmn_parse` | `Jsmn` |
| Hash table, `khash.h` | buckets, flags, size | `kh_get`, `kh_put`, `kh_clear`, `kh_resize` | `KHash` |
| Live connection, `validation.c:44-176` | `rtr_mgr_cfg`, `rtr_socket`, three allocations, the options | set-up, start and wait, close | `LiveConnection`; from outside `RtrConnection` |
| Validation of a route, `validation.c:178-215`, `elem.c`, `utils_elem.c` | one `elem_t` per call: statuses, hash table, two arrays | validation per table, collecting reasons, result | `RpkiElem`; in `RpkiValidate` which tables are consulted |
| Input checks, `utils_cfg.c` | `cfg_input` | checks of intervals, collectors, flags, SSH options, values | `ConfigInput` |
| Debug output, tests, man pages, build files | | | not modelled |

**How they interact.** Everything is one thread of plain calls on one
`rpki_cfg_t`. `rpki_set_config` creates it, asks the broker (historical mode)
or connects to the RTR server (live mode). `rpki_validate` reads mode and
intervals, uses the timestamp search on the broker's table, hands the URLs found
to the prefix tables, and validates against every flagged table. When an open
interval runs out of dumps it goes back to the broker ("hybrid") or switches
the configuration to live mode. Concurrency comes from outside: the clock read
at `rpki.c:161`, the archive behind the broker, and the RTR manager's thread.

**What is hard.** (a) The searches are loops over a hash table modulo 2^32,
and whether another dump exists is decided by counters and not by the table.
(b) The cursor, the table and the prefix tables are three caches that must agree,
and each can change while the others stay: imports break off, a second broker
answer replaces the table, a failed switch leaves the mode changed. (c) One call
moves at most one dump ahead and checks for a gap only before it. (d) Callers
send elements out of order, skip periods, and retry after errors.
(e) The decision between hybrid and live depends on the time of the call.
(f) An answer of the broker is stored field by field in the configuration, which
still holds the last one; token array, rows and hash table grow while it is
stored. (g) The connection is set up on two ways, with options
from different buffers, by a caller that checks the result and one that does not, and
its sockets are shared with a thread.
`PROJECT.json` lists each hazard at its line.

**What makes the components correct.** The search ends and returns the covering
dump and its successor. The prefix tables hold only records of the current dump,
and every table that is consulted is complete. The cursor never moves back, the
counter is its rank, and a result comes from the newest dump not newer than the
element, never from an expired one. A connection exists in live mode only and is
closed in the end. A caller that keeps asking catches up. An answer of the broker is
taken as a whole or refused, whatever came before, and found again in the hash
table. The thread of the RTR manager never outlives its sockets.

## 2. Modules

- **Timestamps** - the two searches as expressions. `Backward(t)` and `Forward(k)`
  are the sequences of probed keys modulo `Width`; `FirstHit` is the key a loop
  stops at; `cfg_get_timestamps`, `cfg_next_timestamp` are the functions
  of that name with their counters. Pure operators and no recursion, so that they
  can be proved about.
- **TimestampSearch** - the same two `while` loops as a state machine, one probe per
  step (`BackwardMiss`, `BackwardFound`, `ForwardMiss`, `ForwardFound`). `LoopsAgree`
  ties it to `Timestamps`, so the composition may use the expression.
- **PrefixTables** - `cfg_parse_urls` as a function from the tables, the collectors
  that have a URL, the timestamp and an outcome to the new tables, flags and count.
  The outcome says at which collector the import broke off and whether it had added
  records. A dump is two groups of records, `head` and `tail`: enough to tell
  a complete import from a partial one.
- **RpkiValidate** - the configuration and the calls on it; composes the above. One
  call is split at the points where the code consults something that may have
  changed or may fail: `entry` (mode, interval, order and table checks, first
  location), `located` (gap, hybrid, live), `advance` (one step to the next
  dump), `answer` (validation and result). Between two steps only `Tick` (clock,
  and with it the archive) interleaves; nobody else touches the configuration. Every
  early return of `rpki_validate` is an action: `RejectPrefixLive` (line 94),
  `RejectTimestamp` (116, 133), `BlankOlder` (127), failing loads (145, 173, 221),
  `HybridUnreachable` and `HybridMalformed` (167), `SwitchToLiveFails` (180-184),
  `BlankGap` (205), `RejectPrefix` (233). `Crash`, `HybridCrashes`, the third outcome of
  `Load` (an empty dump) and `HybridHangs` are where the code follows a null pointer or
  does not return.
- **RpkiElem** - what `RpkiValidate` does in one step at `answer`, for one element:
  `elem_create` (`Init`), the loop over the tables (`SkipTable`, `ValidateTable`,
  `ValidationFails`, `NextTable`), the reasons RTRlib names, collected in a hash table
  whose entries point into the arrays `valid_asn` and `valid_prefix` (`AddKey`,
  `AppendPrefix`), and the output in both forms (`Output`). `CrashIsNullOutput` is
  what `RpkiValidate` relies on. The arrays have `ReasonsSize` slots, whatever RTRlib
  answers, and a reason too many is `Overflow`. A prefix is a text, and the texts of an
  origin, with a blank between them, are cut at the character the buffer of
  `PrefixLen` ends with; the result is a set of statements.
- **RoaOracle** - what a caller may expect, without counters, successors, tables and
  stages: the oracle looks at one dump that only moves forward (`horizon`), answers
  from it, gives nothing where no dump is in force, asks for more dumps or goes live
  only when it has run out of them, and may fail. For a prompt caller the answer is from the newest
  dump. `RpkiValidate` implements it (`IsOracle`).
- **ConfigInput** - the checks of `utils_cfg.c` as operators. A list is the sequence of
  what stands between its delimiters: a number or `Malformed`, an item or an option with
  its length. Items and options may be empty; the checks count delimiters, `strtok`
  skips the empty ones (`Items`, `Token`).
- **Jsmn** - `jsmn_parse` over a sequence of lexemes: `Lexeme` is one turn of its loop,
  `Called` a call that goes on where the last one ran out of tokens, `AtEnd` the search for open
  brackets. Next to it a reference, what the tokens are by the nesting of brackets
  alone (`TokensOf`, `WellFormed`).
- **KHash** - buckets, flags and entries of the broker's table. `kh_put` and `kh_get` are
  steps, `kh_resize` is a step per bucket and per entry kicked out (`Skip`, `Take`,
  `Kick`, `Place`, `Resized`).
- **BrokerAnswer** - `broker_connect` on top of the three: the two requests, one
  turn of the tokenizer per step, growth of the token array, fields in the order of the code
  (`Store`), entry by entry into table and rows (`PutEntry`). The next call meets what
  earlier ones left in table, rows and interval slots. `FetchCrashes` and `EndOverflows`
  are where a null pointer is followed and where an end that is longer than the start is
  written behind its array; nothing is said of what follows.
- **BrokerContract** - a call as one step: `Answered`, `BrokenOff` or `Refused`.
  `BrokerAnswer` implements it on `shown`, what its callers see between calls
  (`EachCallIsOneStep`); `RpkiValidate` is built from its operators.
- **LiveConnection** - from the arguments of `rpki_set_config` (`Create`) over
  the broker or at once to `validation_set_live_config` (`CollectorRefused` ... `InfoAnswers`),
  `validation_start_connection` (`TransportFails` ... `Poll`; `InitFails` and `StartFails`
  are the results of RTRlib that are not tested), the call that goes on
  after a failed switch (`Reject`, `Crash`), and `cfg_destroy` (`Destroy`, `StopManager`, `Free`).
  The RTR manager runs by itself (`Sync`).
- **RtrConnection** - the life of the connection as `rpki.c` relies on it;
  implemented by `LiveConnection` (`ImplementsConnection`) and by `RpkiValidate`
  (`UsesConnection`).
- **MCSearch**, **MCValidate**, **MCElem**, **MCBroker**, **MCLive** - constants for TLC.
- **Timestamps_proofs** (lemmas only), **TimestampSearch_proofs**, **RpkiValidate_proofs**,
  **RpkiOracle_proofs**, **LiveConnection_proofs**, **RpkiElem_proofs**,
  **BrokerAnswer_proofs**, **BrokerText_proofs** - lemmas and theorems (section 4).
  `RpkiOracle_proofs` builds on `RpkiValidate_proofs`, `BrokerText_proofs` on
  `BrokerAnswer_proofs`; these two are also about `Jsmn` and `KHash`.

State and code: `keys` are the keys of `broker_kh`, `current` and `next` are
the two timestamps of `cfg_time`, `pfxt`, `pfxt_active`, `pfxt_count` are the fields
of `cfg_val`, `rtr` stands for `rtr_mgr_cfg` and `rtr_socket`, `mode`, `intervals`,
`max_end` are the fields of that name. `seen` is the newest timestamp that
passed the checks (history, only read by the assumption `Dense`), `result` the
outcome of the last call.

External, and modelled from its use: the broker lists the dumps published so far
whose period meets a requested interval, echoes the intervals, and reports
`max_end` as the last end, 0 for an open interval; the RTR manager reports
synchronisation at some time, never, or on and off; the clock moves forward. In
`LiveConnection` an SSH server takes the options of the caller only, in the order of
`rpki.h:52`, and the checks, both requests, the transport and the two steps of the RTR
manager may fail; allocations do not.

Assumptions on the caller are constants, and each run says which it makes:
`Dense` - the caller has an element in the period of each listed dump, so it passes
none by; `AlignedStart` - the first element lies between the first listed dump and
the second. The library documents neither, but several properties need one
of them, and the violation runs show what happens without.

## 3. Runs

In `MCValidate` a minute is 2, the archive's interval 6 and the clock 32 wide, in
`MCSearch` 6, 18 and 128; the code has 60, 180 and 2^32. What matters is kept:
a minute divides the interval, neither divides the width, the grid shares a factor
with the width, so a search that goes around the clock meets values off the grid first.
`EmptyDumps` is `TRUE` in `hybrid` only: after the crash on an empty dump
no caller catches up, so `jumping` is for archives without one. Four dumps (five in `MCSearch`) give a first, an inner, a last one and gaps of one and
two periods; two collectors give a first and a later one.

| Run | Setting | Shows |
|---|---|---|
| `search_loops` | all tables over 5 grid points, 14 stamps (on, before, after a dump, at the ends of the clock), used counter 0..3, count right or one too high | the loops end, compute the expression, find covering dump and, with the right count, successor |
| `dense_unified` | unified, 2 collectors, any dumps missing, closed intervals, `Dense` and `AlignedStart` | `NewestDump`, `NoAnswerInGap`, `StableAnswers`; the calls implement the oracle |
| `jumping` | 2 tables, a caller that skips dumps, failing imports, fair | tables, cursor and counter agree; no dump is imported twice or half forgotten; empty results only in gaps; never back; `CatchesUpAtLast` |
| `hybrid` | open intervals, running clock, dumps listed one unit late, live possible, 1 collector | new requests, switch to live and its failures, destruction; oracle and life of the connection are implemented |
| `elem_result` | 2 tables, any flags and count, both forms, live and historical, up to 3 reasons over 2 origins and 2 prefixes, 3 slots for up to 4 keys, values of 3 characters | entries never mix, the arrays overflow only when full of different keys, the result is what each table said as far as its values hold it, the only crash in the output is `NullOutput` |
| `broker_answer` | up to 3 calls, 25 replies each: whole answers with 0 to 14 dumps, a key listed twice, odd and too many intervals, bad numbers, an end longer than the start, texts that break off or are no JSON, error pages, failing requests | tokens, table and configuration are those of the last accepted answer; each call with a regular one is one step; calls that are served return |
| `live_connection` | 960 arguments, with and without SSH, at once and by a switch, every external step failing | sockets outlive the thread, all is freed, options arrive whole, `RtrConnection` is implemented |
| `next_wraps` | no `AlignedStart` | violated `NextIsLater` |
| `gap_after_jump` | no `Dense` | violated `NoAnswerInGap` |
| `live_setup_fails` | as `live_connection` | violated `TcpWithoutOptions`: a switch without options tries SSH; the failed set-up is ignored |
| `irregular_answer` | one call, an answer with a timestamp listed twice and an odd list of intervals | violated `AnswerAsDocumented`: three entries are counted of two, and the last value of the list is paired with what is left in the slot behind it |
| `result_as_documented` | as `elem_result` | violated `ResultAsDocumented`: a notfound is missing after a switch; with `NotFoundLost` excepted, prefixes are cut |

The five violation runs each check what a comment or document says and the code
does not do; `PROJECT.json` quotes the lines. The properties of the passing runs say what
holds beside them: `AcceptedIsWhole` and `EachCallIsOneStep` of answers with both ends of each
interval and no timestamp twice (`Regular`), `CallEnds` of calls that are served (`Served`),
`OptionsAsGiven` of options without an empty part, `ResultComplete` of all but the call of
`NotFoundLost`, and of values as far as their buffers hold them.

More disagreements of this kind were met. They are steps or outcomes of the models like the others,
and the operator that states the promise can be put in a `.cfg` in place of the properties of the run
named; TLC then shows the code breaking it. They have no run here, since the step is the whole
of the trace.

| Operator | As run | What is promised, and what the code does |
|---|---|---|
| `NeverCrashes` | `dense_unified`; `hybrid`, which has `EmptyDumps` | a table without a dump "is empty and skipped" (`rpki_config.c:223`), and an import returns 0 or -1 (`rpki_config.h:224`): the unified output reads table 0 all the same (`elem.c:102`), and the end of an empty file is written through a null pointer (`rpki_config.c:263`) |
| `NeverHangs` | `hybrid` | "otherwise -1" (`rpki_config.h:198-199`): after a second answer without dumps the search runs on an empty table (`rpki_config.c:147`) |
| `RequestReturns` | `broker_answer` | "otherwise -1" (`broker.h:123`): the handle and the buffer of the second request are not tested (`broker.c:72`, `87`) |
| `ParseReturns` | `broker_answer` | "otherwise -1" (`broker.h:132`): an end longer than the start is copied behind the array (`broker.c:213`) |
| `ReasonsHeld` | `elem_result` | "All valid ASN for one validation" (`elem.h:87`): keys are written behind 160 slots (`elem.c:192`) |
| `PrivkeySecond` | `live_connection` | "SSH user, SSH privkey, SSH hostkey" (`rpki_config.h:58`): the second option is used as host key (`validation.c:90`), as `rpki.h:52` and `validation.h:124` have it |
| `ThreeParameters` | `live_connection` | "three parameter" (`utils_cfg.c:272`): the check counts commas, and `user,,key` yields two for `strtok` (`validation.c:89-91`) |
| `FailedStartReturns` | `live_connection` | "otherwise -1" (`validation.h:125`): a manager that did not start is waited for (`validation.c:145-147`) |
| `NextIsLater` of `TimestampSearch` | `search_loops` | "0 if there is no ROA file" (`rpki_config.h:207`): with a count that is one too high, as a timestamp listed twice makes it, the search at the last dump wraps around (`rpki_config.c:170`) | Deadlock is not checked: a
destroyed, exited, crashed or hung configuration stops for good.

**Fairness.** `search_loops`: the loops are sequential code and keep running
(`WF_vars(Next)`). `jumping`: the library's steps within a call keep running
(`WF_vars(Library)`; no step of it waits for anybody in historical mode), and the
caller comes back with the same timestamp (`SF_vars(Again(t))`: strong, since `Call`
is disabled again and again while a call runs). Imports may fail each time: the cursor
moves before the import, so failures do not stop the progress of the cursor. No
fairness is assumed of the clock, the broker or the RTR manager. `broker_answer`
and `live_connection`: a call keeps running (`WF(Library)`); both requests return in some way. Nothing is assumed of
the server, so the wait for it may last.

**Bounds.** The clock readings, element times, intervals and archives are the sets in
the `.cfg` files and `MCValidate`; nothing else is bounded. They contain a
time on each dump, inside each period, at its end, and after the last one.
`broker_answer`: 3 calls (`MaxCalls`) - one that grows what the next shrinks and one after it;
6 tokens (the code has 256), so that the array grows two or three times
and also runs out at a bracket; 13 rows (2048), so that one of the answers needs more; 5 items
(32) and 8 interval slots (1024); numbers below 100000 (2^32). Dumps lie 180 apart,
so that all of them start at the same bucket of 4, and 15 of them take the table
through 4, 8, 16 and 32 buckets. `elem_result`: 3 slots (the code has 160), so that four keys are
one too many, and values of 3 characters (63), so that two short prefixes fit and a longer second one
is cut inside. `live_connection`: the real lengths 128 and 1024; options of
127, 128, 1023, 1024 and 1025 characters, of two parts, and with an empty part.

## 4. Proofs

Each theorem is about every value of the constants that satisfies the named
assumptions: every grid, archive, list of intervals, number of collectors and width
of the clock; every number of tables, origins, prefixes, reasons of RTRlib and slots of the two arrays,
and every length of a value; every list of arguments and length of the option buffers. The inductive invariants hold of the
runs whose constants satisfy the hypotheses; TLC cannot evaluate `SInv`,
and `HInv` and `Rows` in `BInv`, which quantify over all numbers.

| Theorem | States | Inductive invariant |
|---|---|---|
| `LoopsCompute`, `CurrentIsNewest`, `NextIsNextDump` | `Spec => []LoopsAgree`, `[]CurrentCovers`, `[]NextSucceeds` | `SInv` |
| `TypeCorrect`, `RecordsCurrent`, `FlaggedComplete` | `Spec => []TypeOK`, `[]RecordsAreCurrent`, `[]FlaggedTablesComplete` | `IInv` |
| `ConnectionIsClosed`, `LiveStaysLive`, `ConnectionUsed` | `Spec => []ConnectionClosed`, `LiveIsFinal`, `UsesConnection` | `MInv` |
| `CursorFits`, `BlankMeansGap`, `CursorNeverBack`, `TablesFollow` | if `Cautious`: `Spec => []CursorFitsTable`, `[]BlankOnlyInGap`, `NeverBack`, `TablesFollowCursor` | `CInv` |
| `NewestIsUsed`, `GapsUnanswered`, `AnswersStable` | if `Attentive`: `Spec => []NewestDump`, `[]NoAnswerInGap`, `StableAnswers` | `DInv` |
| `OracleImplemented` | if `Suited`: `Spec => IsOracle` | `OInv` |
| `LiveTypeCorrect`, `SocketsOutliveManager`, `EverythingFreed`, `OptionsArrive`, `ConnectionImplemented` | `Spec => []TypeOK`, `[]ManagerHasSockets`, `[]AllFreed`, `[]OptionsAsGiven`, `ImplementsConnection` | `LInv`, `OptionsInv` |
| `ElemTypeCorrect`, `EntriesMatch`, `OverflowsWhenFull`, `ResultIsComplete`, `CrashExplained` | `Spec => []TypeOK`, `[]EntriesMatchReasons`, `[]OverflowNamesMany`, `[]ResultComplete`, `[]CrashIsNullOutput` | `EInv`, `ResultInv` |
| `ReasonsSuffice` | if `Tables * MaxReasons <= ReasonsSize`: `Spec => []ReasonsHeld` | `EInv` |
| `EntriesFound`, `ResizeLosesNothing` | `BSpec => []LookupFinds`, `NothingLost` | `HInv` |
| `BrokerTypeCorrect` | `BSpec => []BTypeOK` | `BInv` |
| `CutOffNeverTaken` | `BSpec => []CutOffRefused` | `BInv`, `Covered` |
| `TokensOfEachText` | `BSpec => [](Punctuated(js) => TokensMatch)` | `BInv`, `Covered`, `Matched` |
| `AnswersAreWhole`, `CallsAreSteps` | if `KeepsScheme`: `BSpec => []AcceptedIsWhole`, `EachCallIsOneStep` | these and `Stored` |

**The searches** (`SInv`). The invariant says of each loop that the value under test
is the one of the walk `Backward(ts)` or `Forward(current)` at some `n`, and that none of the
values before it was a key. It quantifies over all `n \in Nat` and is therefore
not checked by TLC; the loop is `FirstHit` because a hit without an earlier one is
the first (`FirstHitIs`). `FullTurn` says that after `Width` steps of any
size a walk is where it was, so the forward search ends at a key at the latest where it
started; on the grid and with a rank that says another dump is left it
meets the successor before it leaves the clock.

**The tables** (`IInv`). `TypeOK`, `RecordsAreCurrent` and two strengthenings.
`TableLinks`: the counter is the number of keys, and a next timestamp is a key - needed
because `Locate` runs on a table only known not to be empty by its counter, and
because `Advance` loads `next`. `FlagsComplete`: as `FlaggedTablesComplete`, but for every
flag and not only those below `pfxt_count`, since live results set the count to
1. Every search on a table that is not empty ends at a key (`TimestampsInTable`),
and every load leaves tables that are sound for the timestamp it made current,
also if it breaks off (`ParsedTables`, `LoadEffect`).

**The mode** (`MInv`, that is `IInv /\ ModeInv`). Which modes, connection states and stages go
together: the connection is being started only while somebody waits for it,
historical mode has none, and a live result implies live mode with a synchronised
connection until destruction.

**The cursor** (`CInv`). `CursorTable`: the cursor fits the table, is on a key of
it, and the table lists dumps the archive has. `CursorMode`: historical mode is left at the end of
an open interval only - needed because a stale cursor would survive in
a mode that is entered again. `CursorStage`: what the stages know; at the entry of the first
call exactly one listed dump is old enough, so the search puts the cursor on the first dump and the
counter at rank 0 is right. The hard step is a second broker answer (`HybridCursor`): the table is
replaced under the cursor, and the new lists begin with the dump in force at the time of the element.

**Prompt callers** (`DInv`). `NoneLeftBehind`: of the dumps asked for, only the one that the
call under way is about to move to lies ahead of the cursor. A call moves at most one
dump ahead and checks for a gap only before the move, so `AskedTime` carries what
`Dense` promised at the entry to the step, and `LastAnswer` ties the last result to
the cursor, so that asking again finds the same dump.

**The oracle** (`OInv`). `IsOracle` maps the cursor to the oracle's horizon; each
group of actions has a lemma that maps its steps to steps or stutters. `WayInv` tells
historical from live calls in their middle. If the caller is not `Dense` the oracle promises less,
and `DenseInv` is not needed.

**The connection** (`LInv`). What is allocated and runs at each stage; whoever waits has a
manager that runs, or one that was not started and never synchronises. `OptionsInv`
adds that the stored options are what fits of the caller's until they are handed
over. The checks leave three parts only, so the sums of their lengths are
unfolded (`SumOfParts`) and no induction is needed; if none is empty `strtok` yields them
one after the other (`AllThree`).

**One element** (`EInv`). `SlotsInv`: the slots in use are those below the counter, and the
counter is at most `MaxReasons` per table done, which is what `ReasonsSuffice` needs; at an
overflow it is the number of slots, all with different keys (`OverflowsWhenFull`).
`EntriesMatchReasons` is part of its own invariant; a step of the collection is
compared with one step of the recursive function `Named`, whose properties are proved
by a least counterexample. Cutting the text after each prefix or once at the end is the same.
`ResultInv` says that a finished element has the result and the status of the crash.

**The hash table** (`HInv`). A lookup tries a bucket, then goes 1, 2, 3 ... further. The
steps add up to triangular numbers, and up to the size of the table no two of these are
equal modulo it, because the size is a power of two: an odd factor of a multiple of it
can be cancelled. That fact is `LikePowerOfTwo`; it is true of 1, and carried along as the
size doubles. So the probes of a lookup visit every bucket (a map from a finite set to itself that
sends no two to one reaches all), and a table that is never full has a free bucket on every
path: a search ends, and what it finds is the key or a bucket for it. `OnPath` says that no free bucket
lies before an entry on its path. During `kh_resize` the table is two at once: `Resizing` describes
the entries still to be moved, the ones moved already, and the one in hand, and `Held` is the same
before and after each step. The invariant holds of a table of any size whose hash is the low bits
of the key, as that of khash is up to 2^11 buckets.

**The broker's answers** (`BInv`). `HInv`, and: a table is resized only for an entry that is to be
put; the tokens fit their array, each starts in the text, and `jsmn_parse` has counted them
(`Parsing`); there are rows for all tokens, and the token of the next key is 13 ahead of the
number of rows in use (`Rows`); the numbers are reduced modulo `Width` (`Numbers`).

**Answers that broke off** (`Covered`). The tokens describe what the tokenizer has passed (`Scanned`):
each opening bracket has a token; behind an open one the text has been deeper than in front of it
ever since, and between an ended one and its end as well, and the end is a bracket of its type (`Placed`);
the depth is one more than in front of the innermost open bracket, and this also at each open
bracket (`Level`), which is what makes the next closing bracket meet its partner. Each kind of lexeme
keeps it, a call that runs out of tokens leaves it, and so does the call that goes on. At the end
of the text without an open token it says that the text is `WellFormed`.

**The tokens of a text** (`Matched`). Each token made so far is a value of the text with the number of
parts the text has for it up to here (`Tallied`), and `toksuper` is what the next value
will be counted to (`Super`): the key behind a `:` and still behind its value, otherwise the innermost open
bracket. The text says what a value belongs to by its nesting alone (`Owner`), and the hard step is to
show that this is the same (`OwnerIsSuper`). A new token adds one part to one token and none to the
others (`PartsGrow`); a token has no part yet when it is made.

**What is stored** (`Stored`). Until the fields are stored callers see what the last call
left; then fields and intervals are those of the text (`Fields`), and after `n` rows these hold
the URLs of the first `n` timestamps, and the entries lead to the last row of each
timestamp among them (`Listed`), so each timestamp leads to its last URL also if it is listed twice. Putting an entry
replaces the one with its key (`PutInTable`), growing the table replaces none (`GrowInTable`).
When the tokens are used up all timestamps of the text are in (`Complete`), and what the callers
see is `ViewOf(js)` if the text is `Regular`: the code counts pairs, and as many entries only if no
timestamp comes twice, and fills the slots of the list, which are pairs only if it is even. A call that stops earlier has cleared the table, or has changed nothing.

Hypotheses on the broker's texts: `jsmn_parse` without strict mode also takes `{"a":1 2}`, and counts
the second number to the key and not to the object. `Punctuated` excludes it: a `:` stands behind a
string and inside of a bracket, and no value follows a number or string behind a `:` directly.
`broker_parse_json` takes tokens by their number alone: the third is the list of projects, from the 14th on
each pair is a timestamp and its URL. `Scheme` is this order as `broker.c:128-138` expects it, and `InScheme` asks for
it only if the text is complete and its fields pass the checks; all other texts, cut off
anywhere, broken or with unusable fields, are covered without it. `KeepsScheme` is
`InScheme` for all texts the broker may send; `TheoremsApply` of `MCBroker` makes TLC check
it for those of the run.

Hypotheses on the caller are operators of the proof modules, conditions under
which the library keeps the promise, and the violation runs show what happens
without: `Cautious == AlignedStart /\ (EveryIntervalEnds \/ NoDumpMissing)`,
`Attentive == AlignedStart /\ Dense /\ EveryIntervalEnds`,
`Suited == Cautious /\ (Dense => EveryIntervalEnds)`. The constants of
`dense_unified` satisfy all three, those of `jumping` and `hybrid` `Cautious` and `Suited`;
`TheoremsApply` of `MCValidate` makes TLC check that. With open intervals and an archive
with holes a second answer may begin after the time of the element, and the cursor then lies before
the table.

Assumptions: `WidthAssumption`, `CollectorsAssumption`, `EnvironmentAssumption`, `ReplyAssumption`,
`InputAssumption`, `SearchAssumption`, `SshAssumption`, `OptionsAssumption`, `ElemAssumption`, and
`GridAssumption`: dumps are full minutes and multiples of `Interval` apart
(`OnGrid`), end before the clock wraps around, and the backward search reaches every
grid point from every timestamp. For 60, 180 and 2^32 it does: the multiples
of 60 modulo 2^32 are the multiples of 4, and grid points are multiples of 180.

Only model-checked: liveness (`SearchEnds`, `CatchesUpAtLast`,
`CallEnds`), which the provers cannot state without ENABLED. Every other property of a passing run is
stated by a theorem, under the hypotheses above where it has some.

## 5. Not modelled

The memory of URLs, prefix tables and hash table, failing allocations, leaks; the
wording of requests, results and messages; the fields of a dump line (`cfg_add_record_to_pfx_table` only
parses them); the RTR protocol and the trie of RTRlib; URL formats; lists
of names over 128 characters, which are cut; keys from 2^31 on, which `atoi` does not read;
`kh_del` and shrinking tables, which are not used. The hash table of `elem.c` is
represented by its keys. The jsmn build with parent links or strict mode is not used.
After `HybridMalformed` the code may also have overwritten `max_end`; it is not read
again before the next answer, so the action leaves it alone. Dumps are assumed to end before the clock wraps
around (`g + Interval` is a timestamp).

The result of an element has no size in the model: the code collects it in 4096 characters
(`VALIDATION_MAX_RESULT_LEN`) and the names of all collectors in a buffer beside it (`elem.c:80-82`),
drops what is behind, and the buffer of the caller may be shorter. Keys are identities, not texts cut
to 64 characters (`VALID_ASN_LEN`); two collectors with long names could share one. The AS number is
printed with `PRIu8`, a conversion for a smaller type, which glibc prints like the number it gets.

`RpkiValidate` takes the count of an answer to be the number of its timestamps. An answer that lists one
twice is in `BrokerAnswer`, its count in `TimestampSearch`; the two together with the calls are not a run.
Nor does it have answers with an odd list of intervals, or an end longer than the start.

An interval list of `ConfigInput` has no two delimiters in a row. What `tr_ssh_init` allocates inside the
transport is not among the three allocations of `AllFreed`; it is not freed if `tr_open` fails. `InitFails` ends
the model: the library goes on with a pointer that RTRlib did not set.

## 6. Plan

1. Done: the modules above and the proofs of section 4.
2. Beyond reach of the runs: answers with thousands of dumps, and the real width of the clock. The
   theorems cover them, except for the liveness properties.
3. Left to model: the memory of URLs and prefix tables, and the strings of section 5.

----------------------------- MODULE BrokerAnswer -----------------------------
(***************************************************************************)
(* broker_connect, broker_json_buf and broker_parse_json (broker.c) with   *)
(* utils_broker_check_url and utils_broker_add_projects_collectors: two    *)
(* requests, the tokens of the second answer, and the way they are stored  *)
(* in the configuration.  A configuration makes one call after the other,  *)
(* so a call meets what earlier ones left.  The broker is external.        *)
(***************************************************************************)
EXTENDS Jsmn, KHash, ConfigInput

CONSTANTS Replies,       \* what the broker may reply to a call: to the first
                         \* request (check), to the second one (second), and the
                         \* text (js) of the second reply
          TokNr,         \* the first size of the token array, 256
          RoaUrlsCount,  \* BROKER_ROA_URLS_COUNT, 2048
          MaxCalls       \* bound: calls made

\* A text is a sequence of lexemes, and every one has a length and can be read as a
\* list of numbers.
IsText(text) ==
  /\ Len(text) \in Nat /\ DOMAIN text = 1 .. Len(text)
  /\ \A n \in 1 .. Len(text) : /\ text[n].sym \in Symbols /\ text[n].len \in Nat
                               /\ text[n].nums \in Seq(Nat \cup {Malformed})

ASSUME ReplyAssumption ==
  /\ \A r \in Replies : /\ r.check \in {"down", "error", "html", "ok"}
                        /\ r.second \in {"down", "empty", "unreadable", "text"}
                        /\ IsText(r.js)
  /\ TokNr \in Nat \ {0} /\ RoaUrlsCount \in Nat /\ MaxCalls \in Nat

VARIABLES
  khash_count,      \* cfg_broker.broker_khash_count
  roa_urls,         \* cfg_broker.roa_urls: the rows that are allocated
  projects,         \* cfg_input.projects and their count
  collectors,       \* cfg_input.collectors and their count
  intervals,        \* cfg_input.intervals
  intervals_count,  \* cfg_input.intervals_count
  start,            \* cfg_time.start
  max_end,          \* cfg_time.max_end
  bpc,              \* where the call is
  calls,            \* number of calls made
  reply,            \* the reply to the call under way
  parser,           \* jsmn_parser and its tokens
  tok_nr,           \* size of the token array
  i,                \* the next key token
  ret,              \* what the last call returned
  shown             \* auxiliary: what the callers of broker_connect see

lists == <<projects, collectors>>
windows == <<intervals, intervals_count>>
limits == <<start, max_end>>
config == <<khash_count, roa_urls, lists, windows, limits, table>>
request == <<calls, reply>>
parse == <<parser, tok_nr>>
bvars == <<config, rehash, bpc, request, parse, i, ret, shown>>

-----------------------------------------------------------------------------
(* A text: lexemes with their reading as a list of names and of numbers.    *)

js == reply.js

\* The text of the n-th token, counted from 0 as in the code.
Text(n) == js[parser.tokens[n + 1].start]

Num(lexeme) == IF Len(lexeme.nums) = 1 THEN lexeme.nums[1] ELSE Malformed

\* atoi
Atoi(lexeme) == IF Num(lexeme) = Malformed THEN 0 ELSE Num(lexeme)

\* utils_broker_add_projects_collectors: the names in the order of the answer.
Separated(lexeme) == lexeme.names

\* What the rest of the library sees of the configuration.
View == [keys |-> Keys, count |-> khash_count,
         intervals |-> Pairs(intervals, intervals_count), max_end |-> max_end]

\* Return to the caller.
Return(r) == bpc' = "idle" /\ ret' = r /\ shown' = View'

-----------------------------------------------------------------------------
(* broker_connect and broker_json_buf                                       *)

\* The caller asks for intervals.
Connect ==
  /\ bpc = "idle" /\ calls < MaxCalls
  /\ reply' \in Replies /\ calls' = calls + 1 /\ bpc' = "check"
  /\ UNCHANGED <<config, rehash, parse, i, ret, shown>>

\* utils_broker_check_url: not reachable, an error message, or a web page: -1.
CheckRefuses ==
  /\ bpc = "check" /\ reply.check # "ok"
  /\ UNCHANGED <<config, rehash, request, parse, i>>
  /\ Return(-1)

CheckPasses ==
  /\ bpc = "check" /\ reply.check = "ok"
  /\ bpc' = "fetch"
  /\ UNCHANGED <<config, rehash, request, parse, i, ret, shown>>

\* The second request is not opened, or nothing is read: neither the handle nor
\* the buffer is checked before it is used.
FetchCrashes ==
  /\ bpc = "fetch" /\ reply.second \in {"down", "empty"}
  /\ bpc' = "crashed"
  /\ UNCHANGED <<config, rehash, request, parse, i, ret, shown>>

\* Reading the second answer fails: -1.
FetchFails ==
  /\ bpc = "fetch" /\ reply.second = "unreadable"
  /\ UNCHANGED <<config, rehash, request, parse, i>>
  /\ Return(-1)

Fetch ==
  /\ bpc = "fetch" /\ reply.second = "text"
  /\ parser' = Called(jsmn_init) /\ tok_nr' = TokNr
  /\ bpc' = "tokenise"
  /\ UNCHANGED <<config, rehash, request, i, ret, shown>>

-----------------------------------------------------------------------------
(* broker_parse_json: the tokens                                            *)

\* One turn of the loop of jsmn_parse, or its end.
Tokenise ==
  /\ bpc = "tokenise" /\ parser.ret = "go"
  /\ parser' = (IF parser.pos <= Len(js)
                THEN Lexeme(parser, js[parser.pos].sym, tok_nr) ELSE AtEnd(parser))
  /\ UNCHANGED <<config, rehash, bpc, request, tok_nr, i, ret, shown>>

\* Mutant of Doubled: the array keeps its size.
Undoubled == tok_nr

Doubled == 2 * tok_nr

\* JSMN_ERROR_NOMEM: double the token array and call jsmn_parse again.
Grow ==
  /\ bpc = "tokenise" /\ parser.ret = "nomem"
  /\ tok_nr' = Doubled /\ parser' = Called(parser)
  /\ UNCHANGED <<config, rehash, bpc, request, i, ret, shown>>

\* Invalid or incomplete JSON, or not all fields: -1.
Refuse ==
  /\ bpc = "tokenise"
  /\ parser.ret \in {"inval", "part"} \/ (parser.ret = "done" /\ parser.count < 12)
  /\ UNCHANGED <<config, rehash, request, parse, i>>
  /\ Return(-1)

Tokenised ==
  /\ bpc = "tokenise" /\ parser.ret = "done" /\ parser.count >= 12
  /\ bpc' = "store"
  /\ UNCHANGED <<config, rehash, request, parse, i, ret, shown>>

-----------------------------------------------------------------------------
(* broker_parse_json: the fields                                            *)

\* Mutant of ResetCount: the old entries are still counted.
ResetCountForgotten == UNCHANGED khash_count

ResetCount == khash_count' = 0

\* Mutant of MoreRows: the rows are never enough.
MoreRowsForgotten == UNCHANGED roa_urls

\* One row for each token, if there are more tokens than rows at the start.
MoreRows ==
  roa_urls' = IF parser.count > RoaUrlsCount
              THEN [row \in 0 .. parser.count - 1 |-> <<"none">>] ELSE roa_urls

Interval == utils_cfg_add_intervals(Text(6).nums, intervals)
Start == utils_cfg_validity_check_val(Num(Text(8)), start)
MaxEnd == utils_cfg_validity_check_val(Num(Text(10)), max_end)

\* max_end is copied to the array that was made as long as start.
EndTooLong == Interval.count # -1 /\ Start.ok /\ Text(10).len > Text(8).len

\* The copy goes on behind the array: whatever happens is not defined.
EndOverflows ==
  /\ bpc = "store" /\ EndTooLong
  /\ bpc' = "overflow"
  /\ UNCHANGED <<config, rehash, request, parse, i, ret, shown>>

\* Clear the table (kh_init for the first answer) and store the fields; the
\* first one that is refused ends the call with the table empty.
Store ==
  /\ bpc = "store" /\ ~EndTooLong
  /\ kh_clear /\ ResetCount /\ MoreRows
  /\ projects' = Separated(Text(2)) /\ collectors' = Separated(Text(4))
  /\ intervals' = Interval.intervals /\ intervals_count' = Interval.count
  /\ start' = (IF Interval.count = -1 THEN start ELSE Start.val)
  /\ max_end' = (IF Interval.count = -1 \/ ~Start.ok THEN max_end ELSE MaxEnd.val)
  /\ UNCHANGED <<request, parse>>
  /\ IF Interval.count # -1 /\ Start.ok /\ MaxEnd.ok
     THEN bpc' = "entries" /\ i' = 13 /\ UNCHANGED <<ret, shown>>
     ELSE Return(-1) /\ UNCHANGED i

-----------------------------------------------------------------------------
(* broker_parse_json: the dumps                                             *)

More == bpc = "entries" /\ i < parser.count

\* kh_put grows the table.
GrowTable ==
  /\ \/ More /\ Resize
     \/ Rehash
  /\ UNCHANGED <<khash_count, roa_urls, lists, windows, limits, bpc, request,
                 parse, i, ret, shown>>

\* Mutant of Row: the row of the key's rank in the list of tokens.
RowOfToken == i - 13

\* The row of the next URL.
Row == khash_count

\* A timestamp and its URL.
PutEntry ==
  /\ More
  /\ kh_put(Atoi(Text(i)), Row)
  /\ roa_urls' = [roa_urls EXCEPT ![khash_count] = Text(i + 1).names]
  /\ khash_count' = khash_count + 1
  /\ i' = i + 2
  /\ UNCHANGED <<lists, windows, limits, bpc, request, parse, ret, shown>>

Finish ==
  /\ bpc = "entries" /\ ~More
  /\ UNCHANGED <<config, rehash, request, parse, i>>
  /\ Return(0)

-----------------------------------------------------------------------------
BInit ==
  /\ KHashInit
  /\ khash_count = 0 /\ roa_urls = [row \in 0 .. RoaUrlsCount - 1 |-> <<"none">>]
  /\ projects = <<>> /\ collectors = <<>>
  /\ intervals = [w \in Window |-> 0] /\ intervals_count = 0
  /\ start = 0 /\ max_end = 0
  /\ bpc = "idle" /\ calls = 0
  /\ reply = [check |-> "ok", second |-> "empty", js |-> <<>>]
  /\ parser = jsmn_init /\ tok_nr = 0 /\ i = 0 /\ ret = -1
  /\ shown = View

\* The steps of a call under way.
Library ==
  \/ CheckRefuses \/ CheckPasses \/ FetchCrashes \/ FetchFails \/ Fetch
  \/ Tokenise \/ Grow \/ Refuse \/ Tokenised \/ EndOverflows \/ Store
  \/ GrowTable \/ PutEntry \/ Finish

BNext == Connect \/ Library

\* The calls of one configuration; a call keeps running.
BSpec == BInit /\ [][BNext]_bvars /\ WF_bvars(Library)

-----------------------------------------------------------------------------
(* Properties                                                               *)

\* The variables stay in their ranges; in particular every URL has a row of
\* its own (broker.c:141-148, 238).
BTypeOK ==
  /\ KHashTypeOK
  /\ khash_count \in 0 .. Cardinality(DOMAIN roa_urls)
  /\ intervals \in [Window -> 0 .. Width - 1]
  /\ intervals_count \in -1 .. MaxCount
  /\ start \in 0 .. Width - 1 /\ max_end \in 0 .. Width - 1
  /\ bpc \in {"idle", "check", "fetch", "tokenise", "store", "entries",
             "crashed", "overflow"}
  /\ parser.toksuper \in 0 .. Len(parser.tokens)
  /\ Len(parser.tokens) <= tok_nr
  /\ ret \in {0, -1}

\* The tokens of a well-formed text are its values, with their places and the
\* number of their parts, however often the token array had to grow.
TokensMatch ==
  (bpc = "store" /\ WellFormed(js)) =>
    /\ parser.tokens = TokensOf(js)
    /\ parser.count = Len(parser.tokens)

\* An answer that broke off on the way is never taken for an answer, not even
\* for a shorter one.
CutOffRefused == (bpc = "idle" /\ ret = 0) => WellFormed(js)

\* The n-th value of a text (from 0), and the keys of its 12th, the dumps.
Field(text, n) == text[Starts(text)[n + 1]]
DataKeys(text) ==
  LET owner == Owner(text)
  IN  {n \in DOMAIN owner : owner[n] = Starts(text)[13]}

\* The URL that is last in the text for each timestamp.
UrlsOf(text) ==
  LET data == DataKeys(text)
  IN  [k \in {Atoi(text[n]) : n \in data} |->
         text[Max({n \in data : Atoi(text[n]) = k}) + 2].names]

\* The intervals of a text: two consecutive values form one (rpki_config.h:100).
PairsOf(text) ==
  LET nums == Field(text, 6).nums
  IN  {<<nums[n], nums[n + 1]>> : n \in {m \in 1 .. Len(nums) - 1 : m % 2 = 1}}

\* What rpki.c should see of a text; the count is that of the different entries
\* (broker.h:76).
ViewOf(text) ==
  LET keys == {Atoi(text[n]) : n \in DataKeys(text)}
  IN  [keys |-> keys, count |-> Cardinality(keys),
       intervals |-> PairsOf(text), max_end |-> Num(Field(text, 10))]

\* A text with both ends of each interval, and without a timestamp listed twice.
\* What becomes of the others, AnswerAsDocumented shows.
Regular(text) ==
  /\ Len(Starts(text)) >= 7 => Len(Field(text, 6).nums) % 2 = 0
  /\ Len(Starts(text)) >= 13 =>
       Cardinality({Atoi(text[n]) : n \in DataKeys(text)}) = Cardinality(DataKeys(text))

\* The scheme of an answer (broker.c:128-138): behind the 13th token, the object of
\* the dumps, there are only its keys, each with its URL.
Scheme(text) ==
  LET starts == Starts(text)
  IN  \E n \in 0 .. Len(text) :
        /\ Len(starts) = 13 + 2 * n
        /\ DataKeys(text) = {starts[14 + 2 * r] : r \in 0 .. n - 1}
        /\ \A r \in 0 .. n - 1 : starts[15 + 2 * r] = starts[14 + 2 * r] + 2

\* The fields of a text are taken for those of an answer.
Usable(text) ==
  /\ Len(Starts(text)) >= 12
  /\ LET nums == Field(text, 6).nums
     IN  /\ utils_cfg_check_input(nums)
         /\ \A n \in 1 .. Len(nums) : nums[n] \in 0 .. Width - 1
  /\ \A f \in {8, 10} : Num(Field(text, f)) \in 0 .. Width - 1

\* What a broker sends is punctuated like JSON and, if its fields are usable, has
\* the scheme of an answer; it may be cut off anywhere.
InScheme(text) ==
  Punctuated(text) /\ (WellFormed(text) /\ Usable(text) => Scheme(text))

\* A call that returns 0 leaves the configuration that of its answer, whatever
\* earlier calls left: each timestamp leads to its own URL, the last one the text
\* has for it, and names and ends come from the same answer; with a regular text, so
\* do the intervals and the number of entries (broker.c:110-245).
AcceptedIsWhole ==
  (bpc = "idle" /\ ret = 0) =>
    /\ Regular(js) => View = ViewOf(js)
    /\ [k \in Keys |-> roa_urls[entries[kh_get(k)].val]] = UrlsOf(js)
    /\ projects = Field(js, 2).names /\ collectors = Field(js, 4).names
    /\ start = Num(Field(js, 8)) /\ max_end = Num(Field(js, 10))

\* Seen from outside, each call that gets a regular text is one step of
\* BrokerContract: it has the whole effect of its answer, or leaves the table
\* empty, or changes nothing.
Effect == INSTANCE BrokerContract WITH
            keys <- shown.keys, khash_count <- shown.count,
            intervals <- shown.intervals, max_end <- shown.max_end
OneStep == Effect!Call({ViewOf(js)}, {{}, PairsOf(js)})
EachCallIsOneStep == Effect!Empty /\ [][OneStep \/ ~Regular(js)]_shown

\* The broker answers the second request, with a max_end that is not longer than
\* start.
Served(r) ==
  /\ r.check = "ok" => r.second \in {"unreadable", "text"}
  /\ Len(Starts(r.js)) >= 11 => Field(r.js, 10).len <= Field(r.js, 8).len

\* A call that is served returns; in particular the token array grows to a size
\* that is enough (broker.c:110-118).
CallEnds == (bpc = "check" /\ Served(reply)) ~> bpc = "idle"

-----------------------------------------------------------------------------
(* What the documentation says, and the code does not do                    *)

\* An answer that is taken leaves the configuration as documented, also if it lists
\* a timestamp twice or half an interval: broker_khash_count is the "Number of
\* different entries in the broker khash" (broker.h:76), and "two consecutive values
\* form an interval" (rpki_config.h:100).
AnswerAsDocumented == (bpc = "idle" /\ ret = 0) => View = ViewOf(js)

\* broker_json_buf returns "0 if the JSON read-in was successful, otherwise -1"
\* (broker.h:123), also when the second request is not opened or gives nothing
\* (broker.c:72, 87).
RequestReturns == bpc # "crashed"

\* broker_parse_json returns "0 if the JSON parsing was valid, otherwise -1"
\* (broker.h:132), whatever the length of the values (broker.c:212-214).
ParseReturns == bpc # "overflow"
=============================================================================

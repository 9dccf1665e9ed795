------------------------------- MODULE RoaOracle -------------------------------
(***************************************************************************)
(* What a caller may expect of rpki_validate: an oracle over the dumps     *)
(* listed by the broker.  It looks at one dump, its horizon, that only     *)
(* moves forward; answers from the dump in force, gives an empty reply     *)
(* where no dump is, asks for more dumps or goes live when it has run out  *)
(* of them, and may fail at any time.  It knows nothing of counters,       *)
(* successors and prefix tables: RpkiValidate is shown to implement it.    *)
(***************************************************************************)
EXTENDS Integers

CONSTANTS Interval,  \* how long a dump is in force
          Prompt     \* whether the caller passes no dump by, so that an answer
                     \* has to come from the newest one

VARIABLES dumps,    \* the timestamps of the dumps listed
          horizon,  \* the dump looked at, 0 before the first
          way,      \* "history", "live" or "none"
          busy,     \* whether an element is being validated
          asked,    \* its timestamp
          reply     \* [kind, ts, dump], kind is none before the first reply

ovars == <<dumps, horizon, way, busy, asked, reply>>

InForce(d) == d <= asked /\ asked < d + Interval

\* No dump is left after the horizon, and it does not cover the element.
Exhausted == asked >= horizon + Interval /\ \A d \in dumps : d <= horizon

Reply(kind, dump) ==
  busy' = FALSE /\ reply' = [kind |-> kind, ts |-> asked, dump |-> dump]

\* The work goes on, or ends with an error.
GoOnOrFail == UNCHANGED <<busy, reply>> \/ Reply("error", 0)

Init == /\ dumps = {} /\ horizon = 0 /\ way = "none"
        /\ busy = FALSE /\ reply.kind = "none"

\* The dumps of the configured intervals, or a live connection.
SetUp ==
  /\ way = "none" /\ horizon = 0 /\ ~busy
  /\ \/ way' = "history"
     \/ way' = "live" /\ UNCHANGED dumps
  /\ UNCHANGED <<horizon, busy, asked, reply>>

Ask == ~busy /\ busy' = TRUE /\ UNCHANGED <<dumps, horizon, way, reply>>

\* Look at a later dump, if need be of a new list.
Seek ==
  /\ busy
  /\ dumps' = dumps \/ (way = "history" /\ Exhausted)
  /\ \/ horizon' = horizon
     \/ /\ way # "live" /\ horizon' \in dumps'
        /\ horizon <= horizon' /\ horizon' <= asked
  /\ GoOnOrFail
  /\ UNCHANGED <<way, asked>>

\* From the horizon.  A prompt caller gets the newest dump that is not newer
\* than the element, and nothing if that one is outdated and others follow.
Answer ==
  /\ busy /\ way # "live"
  /\ way = "history" =>
       /\ horizon \in dumps /\ horizon <= asked
       /\ Prompt => /\ \A d \in dumps : d <= asked => d <= horizon
                    /\ InForce(horizon) \/ \A d \in dumps : d <= horizon
  /\ Reply("answer", horizon)
  /\ UNCHANGED <<dumps, horizon, way, asked>>

\* Nothing: the oracle does not look back, and there may be no dump in force.
Blank ==
  /\ busy /\ way = "history"
  /\ asked < horizon \/ \A d \in dumps : ~InForce(d)
  /\ Reply("blank", 0)
  /\ UNCHANGED <<dumps, horizon, way, asked>>

\* Out of dumps: go live, for good.  If that fails, what was looked at last
\* answers everything.
GoLive ==
  /\ busy /\ way = "history" /\ Exhausted
  /\ way' \in {"live", "none"}
  /\ GoOnOrFail
  /\ UNCHANGED <<dumps, horizon, asked>>

AnswerLive ==
  /\ busy /\ way = "live"
  /\ Reply("live", 0)
  /\ UNCHANGED <<dumps, horizon, way, asked>>

\* The end.
Forget == ~busy /\ dumps' = {} /\ UNCHANGED <<horizon, way, busy, asked, reply>>

Next == SetUp \/ Ask \/ Seek \/ Answer \/ Blank \/ GoLive \/ AnswerLive \/ Forget

Spec == Init /\ [][Next]_ovars
=============================================================================

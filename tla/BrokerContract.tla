---------------------------- MODULE BrokerContract ----------------------------
(***************************************************************************)
(* What a request to the broker does to the configuration, seen from       *)
(* rpki.c: broker_connect returns 0 and everything is that of the answer,  *)
(* or -1 and the table is the old one or empty.  RpkiValidate calls these  *)
(* operators, BrokerAnswer is shown to implement them.                     *)
(***************************************************************************)
EXTENDS Integers, FiniteSets

VARIABLES keys,         \* keys of cfg_broker.broker_kh
          khash_count,  \* cfg_broker.broker_khash_count
          intervals,    \* cfg_input.intervals as a set of pairs
          max_end       \* cfg_time.max_end

\* An answer is [keys, count, intervals, max_end]; it lists a key more than
\* once if count is above the number of keys.
Answered(answer) ==
  /\ keys' = answer.keys /\ khash_count' = answer.count
  /\ intervals' = answer.intervals /\ max_end' = answer.max_end

\* The answer was refused after the table was cleared; the intervals stored so
\* far are left.
BrokenOff(left) ==
  /\ keys' = {} /\ khash_count' = 0
  /\ intervals' = left

\* The request was refused: nothing has changed.
Refused == UNCHANGED <<keys, khash_count, intervals, max_end>>

\* A whole call, if the answers may be these.
Call(answers, lefts) ==
  \/ Refused
  \/ \E l \in lefts : BrokenOff(l)
  \/ \E a \in answers : Answered(a)

Empty == keys = {} /\ khash_count = 0 /\ intervals = {} /\ max_end = 0
=============================================================================

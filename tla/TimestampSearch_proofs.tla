----------------------- MODULE TimestampSearch_proofs -----------------------
(***************************************************************************)
(* The two loops compute what module Timestamps says of them and end at    *)
(* the dumps that are meant, for every table on the grid, every timestamp  *)
(* and every width of the clock.  The invariant says of a loop under way   *)
(* how many probes it has made, on the wrapping clock, and that none of    *)
(* them found a key.                                                       *)
(***************************************************************************)
EXTENDS TimestampSearch, Timestamps_proofs

\* Every search starts from the values the configuration left.
SearchType == /\ keys \in Tables /\ used \in Used /\ ts \in Stamps
              /\ \E repeats \in Repeats : count = Cardinality(keys) + repeats

\* The value of the n-th probe of each loop, without the bound on n.
BackwardProbe(n) == (Floor(ts) - n * Minute) % Width
ForwardProbe(n) == (current + (n + 1) * Interval) % Width

\* The first loop has missed all its probes so far.
BackwardUnderWay ==
  phase = "backward" =>
    /\ next = 0
    /\ \E n \in Nat : /\ probe = BackwardProbe(n)
                      /\ \A m \in Nat : m < n => BackwardProbe(m) \notin keys

\* Once it is over, current is the key it is meant to stop at.
CurrentFound ==
  phase \in {"forward", "done"} =>
    /\ Hits(keys, Backward(ts)) # {}
    /\ current = FirstHit(keys, Backward(ts))

\* The second loop runs if another dump is left, and has missed its probes.
ForwardUnderWay ==
  phase = "forward" =>
    /\ MoreLeft
    /\ next = 0
    /\ \E n \in Nat : /\ probe = ForwardProbe(n)
                      /\ \A m \in Nat : m < n => ForwardProbe(m) \notin keys

\* The key the second loop is meant to stop at, if it ran.
NextFound ==
  phase = "done" => next = (IF MoreLeft THEN FirstHit(keys, Forward(current)) ELSE 0)

SInv == /\ SearchType /\ phase \in {"backward", "forward", "done"}
        /\ BackwardUnderWay /\ CurrentFound /\ ForwardUnderWay /\ NextFound

-----------------------------------------------------------------------------
\* A walk that finds a key for the first time finds the one FirstHit names.
LEMMA FirstHitIs ==
  ASSUME NEW K, NEW walk, NEW n \in Timestamp, walk[n] \in K,
         \A m \in Timestamp : m < n => walk[m] \notin K
  PROVE  Hits(K, walk) # {} /\ FirstHit(K, walk) = walk[n]
<1>1. Hits(K, walk) # {}
  BY DEF Hits
<1>2. PICK f \in Timestamp : /\ walk[f] \in K /\ FirstHit(K, walk) = walk[f]
                             /\ \A m \in Timestamp : walk[m] \in K => f <= m
  BY <1>1, FirstHitIsFirst
<1>3. f = n
  <2>1. f <= n /\ ~(f < n)
    BY <1>2
  <2>. QED  BY <2>1, WidthAssumption DEF Timestamp
<1>. QED  BY <1>1, <1>2, <1>3

\* Turning the clock does not change a value on it.
LEMMA Turned ==
  ASSUME NEW a \in Int, NEW c \in Int
  PROVE  (a + Width * c) % Width = a % Width
<1>1. Width \in Nat \ {0}
  BY WidthAssumption
<1>. DEFINE q == a \div Width
            r == a % Width
<1>2. q \in Int /\ r \in Int /\ a = Width * q + r /\ 0 <= r /\ r < Width
  BY <1>1, Division
<1>. HIDE DEF q, r
<1>3. a + Width * c = Width * (q + c) + r
  BY <1>1, <1>2
<1>4. (Width * (q + c) + r) % Width = r
  BY <1>1, <1>2, Remainder
<1>. QED  BY <1>3, <1>4 DEF r

\* A step on the clock taken from a value on it.
LEMMA Stepped ==
  ASSUME NEW a \in Int, NEW d \in Int
  PROVE  ((a % Width) + d) % Width = (a + d) % Width
<1>1. Width \in Nat \ {0}
  BY WidthAssumption
<1>. DEFINE q == a \div Width
            r == a % Width
<1>2. q \in Int /\ r \in Int /\ a = Width * q + r
  BY <1>1, Division
<1>. HIDE DEF q, r
<1>3. a + d = (r + d) + Width * q
  BY <1>1, <1>2
<1>4. ((r + d) + Width * q) % Width = (r + d) % Width
  BY <1>2, Turned
<1>. QED  BY <1>3, <1>4 DEF r

\* The start of the search.
LEMMA FloorType ==
  ASSUME NEW t \in Timestamp
  PROVE  Floor(t) \in Timestamp
<1>1. PICK a \in Nat : Floor(t) = Minute * a /\ Floor(t) <= t
  BY FloorIsMinute
<1>. QED  BY <1>1, WidthAssumption DEF Timestamp

\* Width probes further the loops are where they were: the n-th one is the first
\* to find a key only for n below Width.
LEMMA ProbesRepeat ==
  ASSUME NEW n \in Nat, n >= Width, NEW base \in Int, NEW step \in Int
  PROVE  /\ n - Width \in Nat /\ n - Width < n
         /\ (base + (n - Width) * step) % Width = (base + n * step) % Width
<1>1. Width \in Nat \ {0}
  BY WidthAssumption
<1>2. n - Width \in Nat /\ n - Width < n
  BY <1>1
<1>3. /\ base + (n - Width) * step \in Int
      /\ base + n * step = (base + (n - Width) * step) + Width * step
  BY <1>1
<1>. QED  BY <1>2, <1>3, Turned

-----------------------------------------------------------------------------
LEMMA SearchInit == Init => SInv
<1>. SUFFICES ASSUME Init PROVE SInv
  OBVIOUS
<1>1. SearchType /\ phase = "backward" /\ next = 0 /\ probe = Floor(ts)
  BY DEF Init, SearchType
<1>2. ts \in Timestamp
  BY <1>1, SearchAssumption DEF SearchType
<1>3. Floor(ts) \in Timestamp
  BY <1>2, FloorType
<1>4. Floor(ts) - 0 * Minute = Floor(ts)
  BY <1>3, WidthAssumption DEF Timestamp
<1>5. probe = BackwardProbe(0)
  BY <1>1, <1>3, <1>4, NoWrap DEF BackwardProbe
<1>. QED  BY <1>1, <1>5
          DEF SInv, BackwardUnderWay, CurrentFound, ForwardUnderWay, NextFound

\* A loop that misses makes one more probe.
LEMMA MissInv == SInv /\ (BackwardMiss \/ ForwardMiss) => SInv'
<1>. SUFFICES ASSUME SInv, BackwardMiss \/ ForwardMiss PROVE SInv'
  OBVIOUS
<1>1. ts \in Timestamp /\ keys \subseteq Timestamp
  BY SearchAssumption DEF SInv, SearchType
<1>2. Floor(ts) \in Int /\ Minute \in Int /\ Interval \in Int /\ Width \in Nat \ {0}
  BY <1>1, FloorType, WidthAssumption DEF Timestamp
<1>3. CASE BackwardMiss
  <2>1. PICK n \in Nat : /\ probe = BackwardProbe(n)
                         /\ \A m \in Nat : m < n => BackwardProbe(m) \notin keys
    BY <1>3 DEF BackwardMiss, SInv, BackwardUnderWay
  <2>2. /\ Floor(ts) - n * Minute \in Int /\ -Minute \in Int
        /\ (Floor(ts) - n * Minute) + (-Minute) = Floor(ts) - (n + 1) * Minute
    BY <1>2
  <2>3. ((Floor(ts) - n * Minute) % Width) + (-Minute)
          = ((Floor(ts) - n * Minute) % Width) - Minute
    BY <1>2, <2>2, Division
  <2>4. probe' = BackwardProbe(n + 1)
    BY <1>3, <2>1, <2>2, <2>3, Stepped DEF BackwardMiss, BackwardProbe
  <2>5. \A m \in Nat : m < n + 1 => BackwardProbe(m) \notin keys
    <3>1. \A m \in Nat : m < n + 1 => m < n \/ m = n
      OBVIOUS
    <3>. QED  BY <1>3, <2>1, <3>1 DEF BackwardMiss
  <2>6. UNCHANGED <<keys, count, used, ts, current, next, phase>> /\ phase = "backward"
    BY <1>3 DEF BackwardMiss
  <2>7. BackwardUnderWay'
    <3>1. n + 1 \in Nat /\ next = 0
      BY <2>6 DEF SInv, BackwardUnderWay
    <3>. QED  BY <2>4, <2>5, <2>6, <3>1 DEF BackwardUnderWay, BackwardProbe
  <2>. QED  BY <2>6, <2>7
            DEF SInv, SearchType, CurrentFound, ForwardUnderWay, NextFound
<1>4. CASE ForwardMiss
  <2>1. PICK n \in Nat : /\ probe = ForwardProbe(n)
                         /\ \A m \in Nat : m < n => ForwardProbe(m) \notin keys
    BY <1>4 DEF ForwardMiss, SInv, ForwardUnderWay
  <2>2. current \in Int
    <3>1. current \in keys
      BY <1>4, FirstHitIsKey DEF ForwardMiss, SInv, CurrentFound
    <3>. QED  BY <1>1, <1>2, <3>1 DEF Timestamp
  <2>3. /\ current + (n + 1) * Interval \in Int
        /\ (current + (n + 1) * Interval) + Interval
             = current + ((n + 1) + 1) * Interval
    BY <1>2, <2>2
  <2>4. probe' = ForwardProbe(n + 1)
    BY <1>2, <1>4, <2>1, <2>3, Stepped DEF ForwardMiss, ForwardProbe
  <2>5. \A m \in Nat : m < n + 1 => ForwardProbe(m) \notin keys
    <3>1. \A m \in Nat : m < n + 1 => m < n \/ m = n
      OBVIOUS
    <3>. QED  BY <1>4, <2>1, <3>1 DEF ForwardMiss
  <2>6. UNCHANGED <<keys, count, used, ts, current, next, phase>> /\ phase = "forward"
    BY <1>4 DEF ForwardMiss
  <2>7. ForwardUnderWay'
    <3>1. n + 1 \in Nat /\ next = 0 /\ MoreLeft
      BY <2>6 DEF SInv, ForwardUnderWay
    <3>. QED  BY <2>4, <2>5, <2>6, <3>1 DEF ForwardUnderWay, ForwardProbe, MoreLeft
  <2>. QED  BY <2>6, <2>7
            DEF SInv, SearchType, CurrentFound, BackwardUnderWay, NextFound
<1>. QED  BY <1>3, <1>4

\* The first loop stops.
LEMMA BackwardFoundInv == SInv /\ BackwardFound => SInv'
<1>. SUFFICES ASSUME SInv, BackwardFound PROVE SInv'
  OBVIOUS
<1>1. /\ phase = "backward" /\ probe \in keys /\ current' = probe
      /\ UNCHANGED <<keys, count, used, ts, next>> /\ next = 0
      /\ ts \in Timestamp /\ keys \subseteq Timestamp
  BY SearchAssumption DEF BackwardFound, SInv, SearchType, BackwardUnderWay
<1>2. /\ Floor(ts) \in Int /\ Minute \in Int /\ Interval \in Int
      /\ Width \in Nat \ {0}
  BY <1>1, FloorType, WidthAssumption DEF Timestamp
<1>3. PICK n \in Nat : /\ probe = BackwardProbe(n)
                       /\ \A m \in Nat : m < n => BackwardProbe(m) \notin keys
  BY <1>1 DEF SInv, BackwardUnderWay
<1>4. n \in Timestamp
  <2>1. ASSUME n >= Width PROVE FALSE
    <3>. DEFINE step == -Minute
    <3>0. step \in Int
      BY <1>2
    <3>. HIDE DEF step
    <3>1. /\ n - Width \in Nat /\ n - Width < n
          /\ (Floor(ts) + (n - Width) * step) % Width
               = (Floor(ts) + n * step) % Width
      BY <1>2, <2>1, <3>0, ProbesRepeat
    <3>2. /\ Floor(ts) + (n - Width) * step = Floor(ts) - (n - Width) * Minute
          /\ Floor(ts) + n * step = Floor(ts) - n * Minute
      BY <1>2 DEF step
    <3>3. BackwardProbe(n - Width) = BackwardProbe(n)
      BY <3>1, <3>2 DEF BackwardProbe
    <3>. QED  BY <1>1, <1>3, <3>1, <3>3
  <2>. QED  BY <1>2, <2>1 DEF Timestamp
<1>5. \A m \in Timestamp : Backward(ts)[m] = BackwardProbe(m)
  BY DEF Backward, BackwardProbe
<1>6. \A m \in Timestamp : m < n => Backward(ts)[m] \notin keys
  <2>1. Timestamp \subseteq Nat
    BY <1>2 DEF Timestamp
  <2>. QED  BY <1>3, <1>5, <2>1
<1>7. Hits(keys, Backward(ts)) # {} /\ FirstHit(keys, Backward(ts)) = probe
  BY <1>1, <1>3, <1>4, <1>5, <1>6, FirstHitIs
<1>8. CASE MoreLeft
  <2>1. phase' = "forward" /\ probe' = (probe + Interval) % Width
    BY <1>8 DEF BackwardFound
  <2>2. 0 \in Nat /\ (0 + 1) * Interval = Interval /\ \A m \in Nat : ~(m < 0)
    BY <1>2
  <2>3. ForwardUnderWay'
    BY <1>1, <1>8, <2>1, <2>2 DEF ForwardUnderWay, ForwardProbe, MoreLeft
  <2>. QED  BY <1>1, <1>7, <2>1, <2>3
            DEF SInv, SearchType, BackwardUnderWay, CurrentFound, NextFound
<1>9. CASE ~MoreLeft
  <2>1. phase' = "done" /\ ~MoreLeft'
    BY <1>1, <1>9 DEF BackwardFound, MoreLeft
  <2>. QED  BY <1>1, <1>7, <2>1
            DEF SInv, SearchType, BackwardUnderWay, CurrentFound, ForwardUnderWay,
                NextFound
<1>. QED  BY <1>8, <1>9

\* The second loop stops.
LEMMA ForwardFoundInv == SInv /\ ForwardFound => SInv'
<1>. SUFFICES ASSUME SInv, ForwardFound PROVE SInv'
  OBVIOUS
<1>1. /\ phase = "forward" /\ phase' = "done" /\ probe \in keys /\ next' = probe
      /\ UNCHANGED <<keys, count, used, ts, probe, current>>
      /\ keys \subseteq Timestamp /\ MoreLeft
  BY SearchAssumption DEF ForwardFound, SInv, SearchType, ForwardUnderWay
<1>2. Interval \in Int /\ Width \in Nat \ {0}
  BY WidthAssumption
<1>3. current \in Int
  <2>1. current \in keys
    BY <1>1, FirstHitIsKey DEF SInv, CurrentFound
  <2>. QED  BY <1>1, <1>2, <2>1 DEF Timestamp
<1>4. PICK n \in Nat : /\ probe = ForwardProbe(n)
                       /\ \A m \in Nat : m < n => ForwardProbe(m) \notin keys
  BY <1>1 DEF SInv, ForwardUnderWay
<1>5. n \in Timestamp
  <2>1. ASSUME n >= Width PROVE FALSE
    <3>1. current + Interval \in Int
      BY <1>2, <1>3
    <3>2. /\ n - Width \in Nat /\ n - Width < n
          /\ ((current + Interval) + (n - Width) * Interval) % Width
               = ((current + Interval) + n * Interval) % Width
      BY <1>2, <2>1, <3>1, ProbesRepeat
    <3>3. /\ (current + Interval) + (n - Width) * Interval
               = current + ((n - Width) + 1) * Interval
          /\ (current + Interval) + n * Interval = current + (n + 1) * Interval
      BY <1>2, <1>3
    <3>4. ForwardProbe(n - Width) = ForwardProbe(n)
      BY <3>2, <3>3 DEF ForwardProbe
    <3>. QED  BY <1>1, <1>4, <3>2, <3>4
  <2>. QED  BY <1>2, <2>1 DEF Timestamp
<1>6. \A m \in Timestamp : Forward(current)[m] = ForwardProbe(m)
  BY DEF Forward, ForwardProbe
<1>7. \A m \in Timestamp : m < n => Forward(current)[m] \notin keys
  <2>1. Timestamp \subseteq Nat
    BY <1>2 DEF Timestamp
  <2>. QED  BY <1>4, <1>6, <2>1
<1>8. FirstHit(keys, Forward(current)) = probe
  BY <1>1, <1>4, <1>5, <1>6, <1>7, FirstHitIs
<1>9. NextFound'
  BY <1>1, <1>8 DEF NextFound, MoreLeft
<1>. QED  BY <1>1, <1>9
          DEF SInv, SearchType, BackwardUnderWay, CurrentFound, ForwardUnderWay

\* The invariant holds in every behaviour.
LEMMA SearchInvariance == Spec => []SInv
<1>1. SInv /\ [Next]_vars => SInv'
  <2>. SUFFICES ASSUME SInv, [Next]_vars PROVE SInv'
    OBVIOUS
  <2>1. CASE UNCHANGED vars
    BY <2>1 DEF vars, SInv, SearchType, BackwardUnderWay, CurrentFound,
                ForwardUnderWay, NextFound, BackwardProbe, ForwardProbe, MoreLeft
  <2>. QED  BY <2>1, MissInv, BackwardFoundInv, ForwardFoundInv DEF Next
<1>. QED  BY <1>1, SearchInit, PTL DEF Spec

-----------------------------------------------------------------------------
\* The loops of cfg_get_timestamps and cfg_next_timestamp compute the pair of
\* timestamps that RpkiValidate calls in one step (rpki_config.c:142-182).
THEOREM LoopsCompute == Spec => []LoopsAgree
<1>1. SInv => LoopsAgree
  <2>. SUFFICES ASSUME SInv, phase = "done"
                PROVE  [current |-> current, next |-> next] =
                         cfg_get_timestamps(keys, count, used, ts)
    BY DEF LoopsAgree
  <2>1. /\ current = FirstHit(keys, Backward(ts))
        /\ next = (IF MoreLeft THEN FirstHit(keys, Forward(current)) ELSE 0)
    BY DEF SInv, CurrentFound, NextFound
  <2>. QED  BY <2>1 DEF cfg_get_timestamps, cfg_next_timestamp, MoreLeft
<1>. QED  BY <1>1, SearchInvariance, PTL

\* The dump found is the newest one not newer than the timestamp; without one
\* the search goes around the clock and ends at the newest of all
\* (rpki_config.c:148-157).
THEOREM CurrentIsNewest == Spec => []CurrentCovers
<1>1. SInv => CurrentCovers
  <2>. SUFFICES ASSUME SInv PROVE CurrentCovers
    OBVIOUS
  <2>1. ts \in Timestamp /\ keys \in SUBSET Timestamp /\ OnGrid(keys)
    BY SearchAssumption DEF SInv, SearchType
  <2>2. phase \in {"forward", "done"} =>
          Hits(keys, Backward(ts)) # {} /\ current = FirstHit(keys, Backward(ts))
    BY DEF SInv, CurrentFound
  <2>. QED  BY <2>1, <2>2, BackwardEnds DEF CurrentCovers
<1>. QED  BY <1>1, SearchInvariance, PTL

\* If the counters fit the table and the current dump, the second loop ends at
\* its successor and never goes around the clock (rpki_config.c:166-182).
THEOREM NextIsNextDump == Spec => []NextSucceeds
<1>1. SInv => NextSucceeds
  <2>. SUFFICES ASSUME SInv, phase = "done",
                       used = Cardinality({k \in keys : k < current}),
                       count = Cardinality(keys)
                PROVE  NextSucceeds
    BY DEF NextSucceeds, UsedIsRank
  <2>1. keys \in SUBSET Timestamp /\ OnGrid(keys)
    BY SearchAssumption DEF SInv, SearchType
  <2>2. current \in keys
    BY FirstHitIsKey DEF SInv, CurrentFound
  <2>3. next = (IF MoreLeft THEN FirstHit(keys, Forward(current)) ELSE 0)
    BY DEF SInv, NextFound
  <2>4. Cardinality(keys) \in Nat /\ used \in Nat
    BY <2>1, KeysCount, SearchAssumption DEF SInv, SearchType
  <2>5. next = cfg_next_timestamp(keys, Cardinality(keys), used, current)
    BY <2>3, <2>4 DEF MoreLeft, cfg_next_timestamp
  <2>6. SuccessorIn(keys, current, next)
    BY <2>1, <2>2, <2>5, NextIsSuccessor
  <2>. QED  BY <2>6 DEF SuccessorIn, NextSucceeds, UsedIsRank
<1>. QED  BY <1>1, SearchInvariance, PTL
=============================================================================

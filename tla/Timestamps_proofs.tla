-------------------------- MODULE Timestamps_proofs --------------------------
(***************************************************************************)
(* Facts about the searches of module Timestamps, for every width of the   *)
(* clock and every interval.                                               *)
(***************************************************************************)
EXTENDS Timestamps, FiniteSetTheorems, WellFoundedInduction, TLAPS

\* A set of natural numbers has a least element.
LEMMA LeastExists ==
  ASSUME NEW S, S \subseteq Nat, S # {}
  PROVE  \E m \in S : \A n \in S : m <= n
<1>1. PICK m \in S : \A n \in S : ~(<<n, m>> \in OpToRel(<, Nat))
  BY NatLessThanWellFounded, WFMin
<1>2. \A n \in S : ~(n < m)
  BY <1>1, Zenon DEF OpToRel
<1>. QED  BY <1>2

\* A non-empty set of timestamps has a greatest element.
LEMMA GreatestExists ==
  ASSUME NEW S, S \subseteq Timestamp, S # {}
  PROVE  \E m \in S : \A n \in S : n <= m
<1>. DEFINE T == {Width - n : n \in S}
<1>1. Width \in Int /\ \A n \in S : n \in Int /\ n < Width
  BY WidthAssumption DEF Timestamp
<1>2. T \subseteq Nat
  BY <1>1
<1>3. T # {}
  OBVIOUS
<1>4. PICK d \in T : \A e \in T : d <= e
  BY <1>2, <1>3, LeastExists
<1>5. PICK m \in S : d = Width - m
  BY <1>4
<1>6. ASSUME NEW n \in S PROVE n <= m
  <2>1. d <= Width - n
    BY <1>4
  <2>. QED  BY <1>1, <1>5, <2>1
<1>. QED  BY <1>6

\* A loop that has a key to stop at stops at a key.
LEMMA FirstHitIsKey ==
  ASSUME NEW keys, NEW walk, Hits(keys, walk) # {}
  PROVE  FirstHit(keys, walk) \in keys
<1>. DEFINE first == CHOOSE n \in Hits(keys, walk) :
                       \A m \in Hits(keys, walk) : n <= m
<1>1. Hits(keys, walk) \subseteq Nat
  BY WidthAssumption DEF Hits, Timestamp
<1>2. first \in Hits(keys, walk)
  BY <1>1, LeastExists
<1>. QED  BY <1>2 DEF FirstHit, Hits

\* Adding a multiple of the width changes nothing on the wrapping clock.
LEMMA FullTurn ==
  ASSUME NEW k \in Timestamp
  PROVE  (k + Width * Interval) % Width = k
<1>. DEFINE a == k + Width * Interval
            q == a \div Width
            r == a % Width
<1>1. k \in Int /\ Width \in Int /\ Width > 0 /\ Interval \in Int /\ 0 <= k /\ k < Width
  BY WidthAssumption DEF Timestamp
<1>2. a \in Int /\ q \in Int /\ r \in Int
  BY <1>1
<1>3. a = Width * q + r /\ 0 <= r /\ r < Width
  BY <1>1, <1>2
<1>4. r - k = Width * (Interval - q)
  BY <1>1, <1>2, <1>3
<1>5. Interval - q = 0
  <2>. DEFINE d == Interval - q
  <2>1. d \in Int
    BY <1>1, <1>2
  <2>2. d >= 1 => Width * d >= Width
    BY <1>1, <2>1
  <2>3. d <= -1 => Width * d <= -Width
    BY <1>1, <2>1
  <2>. QED  BY <1>1, <1>2, <1>3, <1>4, <2>1, <2>2, <2>3
<1>. QED  BY <1>1, <1>2, <1>4, <1>5

\* The forward search from a key always ends: after Width steps it would be
\* back at that key.
LEMMA ForwardReturns ==
  ASSUME NEW keys, NEW k \in Timestamp, k \in keys
  PROVE  Hits(keys, Forward(k)) # {}
<1>1. Width - 1 \in Timestamp
  BY WidthAssumption DEF Timestamp
<1>2. (Width - 1) + 1 = Width
  BY WidthAssumption
<1>3. Forward(k)[Width - 1] = (k + Width * Interval) % Width
  BY <1>1, <1>2 DEF Forward
<1>. QED  BY <1>1, <1>3, FullTurn DEF Hits

\* What cfg_next_timestamp returns, called with a key, is a key or 0.
LEMMA NextIsKey ==
  ASSUME NEW keys, NEW count \in Int, NEW used \in Int,
         NEW k \in Timestamp, k \in keys
  PROVE  cfg_next_timestamp(keys, count, used, k) \in keys \cup {0}
BY ForwardReturns, FirstHitIsKey DEF cfg_next_timestamp

-----------------------------------------------------------------------------
(* Division with remainder.                                                 *)

\* Quotient and remainder of an integer.
LEMMA Division ==
  ASSUME NEW a \in Int, NEW d \in Nat \ {0}
  PROVE  /\ a \div d \in Int /\ a % d \in Int
         /\ a = d * (a \div d) + (a % d)
         /\ 0 <= a % d /\ a % d < d
<1>1. d \in Int /\ d > 0
  OBVIOUS
<1>2. a \div d \in Int /\ a % d \in Int
  BY <1>1
<1>3. a = d * (a \div d) + (a % d) /\ 0 <= a % d /\ a % d < d
  BY <1>1
<1>. QED  BY <1>2, <1>3

\* The remainder is what is left below the divisor.
LEMMA Remainder ==
  ASSUME NEW d \in Nat \ {0}, NEW q \in Int, NEW r \in Int, 0 <= r, r < d
  PROVE  (d * q + r) % d = r
<1>. DEFINE a == d * q + r
            p == a \div d
            s == a % d
            e == q - p
<1>1. a \in Int
  OBVIOUS
<1>2. p \in Int /\ s \in Int /\ a = d * p + s /\ 0 <= s /\ s < d
  BY <1>1, Division
<1>3. e \in Int /\ s - r = d * e
  BY <1>1, <1>2
<1>4. e >= 1 => d * e >= d
  BY <1>3
<1>5. e <= -1 => d * e <= -d
  BY <1>3
<1>. HIDE DEF e, p
<1>6. e = 0
  BY <1>2, <1>3, <1>4, <1>5
<1>7. s = r
  BY <1>2, <1>3, <1>6
<1>. QED  BY <1>7

\* Multiples of the divisor.
LEMMA Multiple ==
  ASSUME NEW a \in Int, NEW d \in Nat \ {0}, a % d = 0
  PROVE  \E m \in Int : a = d * m
<1>1. a \div d \in Int /\ a = d * (a \div d)
  BY Division
<1>. QED  BY <1>1

-----------------------------------------------------------------------------
(* Where the searches end on a table whose keys lie on the grid.            *)

\* The probe a loop stops at is the first one that finds a key.
LEMMA FirstHitIsFirst ==
  ASSUME NEW keys, NEW walk, Hits(keys, walk) # {}
  PROVE  \E n \in Timestamp : /\ walk[n] \in keys /\ FirstHit(keys, walk) = walk[n]
                              /\ \A m \in Timestamp : walk[m] \in keys => n <= m
<1>. DEFINE first == CHOOSE n \in Hits(keys, walk) :
                       \A m \in Hits(keys, walk) : n <= m
<1>1. Hits(keys, walk) \subseteq Nat
  BY WidthAssumption DEF Hits, Timestamp
<1>2. first \in Hits(keys, walk) /\ \A m \in Hits(keys, walk) : first <= m
  BY <1>1, LeastExists
<1>3. FirstHit(keys, walk) = walk[first]
  BY DEF FirstHit
<1>. HIDE DEF first
<1>. QED  BY <1>2, <1>3 DEF Hits

\* The start of the backward search: the last full minute.
LEMMA FloorIsMinute ==
  ASSUME NEW t \in Timestamp
  PROVE  \E a \in Nat : /\ Floor(t) = Minute * a
                        /\ Floor(t) <= t /\ t < Minute * a + Minute
<1>1. t \in Int /\ 0 <= t /\ Minute \in Nat \ {0}
  BY WidthAssumption DEF Timestamp
<1>2. /\ t \div Minute \in Int /\ t % Minute \in Int
      /\ t = Minute * (t \div Minute) + (t % Minute)
      /\ 0 <= t % Minute /\ t % Minute < Minute
  BY <1>1, Division
<1>3. t \div Minute >= 0
  <2>. DEFINE q == t \div Minute
  <2>1. q <= -1 => Minute * q <= -Minute
    BY <1>1, <1>2
  <2>. HIDE DEF q
  <2>2. ~(q <= -1)
    BY <1>1, <1>2, <2>1 DEF q
  <2>. QED  BY <1>2, <2>2 DEF q
<1>4. Floor(t) = Minute * (t \div Minute)
  BY <1>1, <1>2 DEF Floor
<1>. QED  BY <1>1, <1>2, <1>3, <1>4

\* As long as it has not come to 0 the backward search does not wrap around, the
\* forward search not before Width.
LEMMA NoWrap ==
  ASSUME NEW a \in Timestamp
  PROVE  a % Width = a
<1>1. a \in Int /\ 0 <= a /\ a < Width /\ Width \in Nat \ {0}
  BY WidthAssumption DEF Timestamp
<1>2. (Width * 0 + a) % Width = a
  BY <1>1, Remainder
<1>3. Width * 0 + a = a
  BY <1>1
<1>. QED  BY <1>2, <1>3

\* The backward search finds the newest key that is not newer than t.
LEMMA BackwardCovers ==
  ASSUME NEW keys \in SUBSET Timestamp, OnGrid(keys), NEW t \in Timestamp,
         NEW k \in keys, k <= t, \A j \in keys : j <= t => j <= k
  PROVE  FirstHit(keys, Backward(t)) = k
<1>1. PICK a \in Nat : /\ Floor(t) = Minute * a
                       /\ Floor(t) <= t /\ t < Minute * a + Minute
  BY FloorIsMinute
<1>2. /\ Minute \in Nat \ {0} /\ Width \in Nat \ {0}
      /\ k \in Nat /\ t \in Nat /\ t < Width /\ k < Width
  BY WidthAssumption DEF Timestamp
<1>3. PICK b \in Int : k = Minute * b
  <2>1. k % Minute = 0
    BY DEF OnGrid
  <2>2. k \in Int /\ Minute \in Nat \ {0}
    BY <1>2
  <2>3. \E b \in Int : k = Minute * b
    BY <2>1, <2>2, Multiple
  <2>. QED  BY <2>3
<1>4. b <= a
  <2>. SUFFICES ASSUME b >= a + 1 PROVE FALSE
    BY <1>1, <1>3
  <2>1. Minute * (b - a - 1) >= 0
    BY <1>1, <1>2, <1>3
  <2>2. Minute * (b - a - 1) = k - Minute * a - Minute
    BY <1>1, <1>2, <1>3
  <2>. QED  BY <1>1, <1>2, <2>1, <2>2
<1>. DEFINE n == a - b
<1>5. n \in Nat /\ n * Minute = Floor(t) - k
  BY <1>1, <1>2, <1>3, <1>4
<1>6. n <= n * Minute
  BY <1>2, <1>5
<1>. HIDE DEF n
<1>7. n \in Timestamp
  BY <1>1, <1>2, <1>5, <1>6 DEF Timestamp
<1>8. Backward(t)[n] = k
  <2>1. Floor(t) - n * Minute = k
    BY <1>1, <1>2, <1>5
  <2>. QED  BY <1>7, <2>1, NoWrap DEF Backward
<1>9. PICK m \in Timestamp :
        /\ Backward(t)[m] \in keys
        /\ FirstHit(keys, Backward(t)) = Backward(t)[m]
        /\ m <= n
  BY <1>7, <1>8, FirstHitIsFirst DEF Hits
<1>10. m \in Nat /\ n \in Nat
  BY <1>5, <1>9, WidthAssumption DEF Timestamp
<1>11. m * Minute <= n * Minute /\ m * Minute >= 0 /\ m * Minute \in Int
  <2>1. (n - m) * Minute >= 0
    BY <1>2, <1>9, <1>10
  <2>2. (n - m) * Minute = n * Minute - m * Minute
    BY <1>2, <1>10
  <2>. QED  BY <1>2, <1>5, <1>10, <2>1, <2>2
<1>12. Floor(t) \in Int
  BY <1>1, <1>2
<1>13. Floor(t) - m * Minute \in Timestamp /\ Floor(t) - m * Minute >= k
  BY <1>1, <1>2, <1>5, <1>11, <1>12 DEF Timestamp
<1>14. Backward(t)[m] = Floor(t) - m * Minute
  BY <1>9, <1>13, NoWrap DEF Backward
<1>15. Backward(t)[m] <= t /\ Backward(t)[m] >= k
  BY <1>1, <1>2, <1>11, <1>12, <1>13, <1>14
<1>16. Backward(t)[m] <= k
  BY <1>9, <1>15
<1>. QED  BY <1>2, <1>9, <1>12, <1>11, <1>14, <1>15, <1>16

\* If every key is newer than t the backward search wraps around the clock and
\* finds the newest key of all.
LEMMA BackwardWraps ==
  ASSUME NEW keys \in SUBSET Timestamp, OnGrid(keys), NEW t \in Timestamp,
         \A j \in keys : j > t, Hits(keys, Backward(t)) # {}
  PROVE  /\ FirstHit(keys, Backward(t)) \in keys
         /\ \A j \in keys : j <= FirstHit(keys, Backward(t))
<1>1. PICK m \in Timestamp :
        /\ Backward(t)[m] \in keys
        /\ FirstHit(keys, Backward(t)) = Backward(t)[m]
        /\ \A n \in Timestamp : Backward(t)[n] \in keys => m <= n
  BY FirstHitIsFirst
<1>. DEFINE v == Backward(t)[m]
            s == Floor(t) - m * Minute
            q == s \div Width
<1>2. PICK a \in Nat : Floor(t) = Minute * a /\ Floor(t) <= t
  BY FloorIsMinute
<1>3. /\ Minute \in Nat \ {0} /\ Width \in Nat \ {0}
      /\ t \in Nat /\ m \in Nat /\ m < Width /\ Floor(t) \in Nat
  BY <1>2, WidthAssumption DEF Timestamp
<1>4. m * Minute \in Nat
  BY <1>3
<1>5. s \in Int
  BY <1>3, <1>4
<1>6. v = s % Width
  BY <1>1 DEF Backward
<1>. HIDE DEF s
<1>7. q \in Int /\ s = Width * q + v /\ v \in Int
  BY <1>3, <1>5, <1>6, Division
<1>. HIDE DEF v, q
<1>8. s = Floor(t) - m * Minute
  BY DEF s
<1>9. v \in keys /\ v > t
  BY <1>1 DEF v
<1>10. Width * q \in Int /\ Width * q < 0
  BY <1>2, <1>3, <1>4, <1>7, <1>8, <1>9
<1>11. Width * q <= -Width
  <2>1. q >= 0 => Width * q >= 0
    BY <1>3, <1>7
  <2>2. q <= -1 => Width * q <= -Width
    BY <1>3, <1>7
  <2>. QED  BY <1>3, <1>7, <1>10, <2>1, <2>2
<1>12. ASSUME NEW g \in keys, g > v PROVE FALSE
  <2>1. g \in Nat /\ g < Width
    BY <1>3 DEF Timestamp
  <2>2. PICK b \in Int : g = Minute * b
    <3>1. g % Minute = 0
      BY DEF OnGrid
    <3>2. g \in Int /\ Minute \in Nat \ {0}
      BY <1>3, <2>1
    <3>3. \E b \in Int : g = Minute * b
      BY <3>1, <3>2, Multiple
    <3>. QED  BY <3>3
  <2>3. PICK c \in Int : v = Minute * c
    <3>1. v % Minute = 0
      BY <1>9 DEF OnGrid
    <3>2. v \in Int /\ Minute \in Nat \ {0}
      BY <1>3, <1>7
    <3>3. \E c \in Int : v = Minute * c
      BY <3>1, <3>2, Multiple
    <3>. QED  BY <3>3
  <2>. DEFINE n == m - (b - c)
  <2>4. n \in Int /\ n * Minute = m * Minute - (g - v)
    BY <1>3, <2>2, <2>3
  <2>5. b - c >= 1
    <3>1. Minute * (b - c) = g - v
      BY <1>3, <2>2, <2>3
    <3>2. b - c <= 0 => Minute * (b - c) <= 0
      BY <1>3, <2>2, <2>3
    <3>. QED  BY <1>3, <1>7, <1>12, <2>1, <2>2, <2>3, <3>1, <3>2
  <2>6. n < m
    BY <1>3, <2>5
  <2>. HIDE DEF n
  <2>7. n * Minute \in Int /\ n * Minute > 0
    BY <1>3, <1>4, <1>7, <1>8, <1>10, <1>11, <2>1, <2>4
  <2>8. n >= 0
    <3>1. n <= -1 => n * Minute <= 0
      BY <1>3, <2>4
    <3>. QED  BY <2>4, <2>7, <3>1
  <2>9. n \in Timestamp
    BY <1>3, <2>4, <2>6, <2>8 DEF Timestamp
  <2>10. Floor(t) - n * Minute = Width * q + g
    BY <1>3, <1>4, <1>7, <1>8, <1>10, <2>1, <2>4, <2>7
  <2>11. Backward(t)[n] = g
    <3>1. (Width * q + g) % Width = g
      BY <1>3, <1>7, <2>1, Remainder
    <3>2. Backward(t)[n] = (Floor(t) - n * Minute) % Width
      BY <2>9 DEF Backward
    <3>. QED  BY <2>10, <3>1, <3>2
  <2>12. m <= n
    BY <1>1, <2>9, <2>11
  <2>. QED  BY <1>3, <2>4, <2>6, <2>12
<1>13. \A j \in keys : j <= v
  BY <1>7, <1>12 DEF Timestamp
<1>. QED  BY <1>1, <1>13 DEF v

\* The forward search from a key finds the next one.
LEMMA ForwardSuccessor ==
  ASSUME NEW keys \in SUBSET Timestamp, OnGrid(keys),
         NEW k \in keys, NEW j \in keys, j > k,
         \A i \in keys : i > k => j <= i
  PROVE  FirstHit(keys, Forward(k)) = j
<1>1. /\ Interval \in Nat \ {0} /\ Width \in Nat \ {0}
      /\ k \in Nat /\ j \in Nat /\ j < Width
  BY WidthAssumption DEF Timestamp
<1>2. PICK c \in Int : j - k = Interval * c
  <2>1. (j - k) % Interval = 0
    BY DEF OnGrid
  <2>2. j - k \in Int
    BY <1>1
  <2>. QED  BY <1>1, <2>1, <2>2, Multiple
<1>3. c >= 1
  <2>1. c <= 0 => Interval * c <= 0
    BY <1>1, <1>2
  <2>. QED  BY <1>1, <1>2, <2>1
<1>. DEFINE n == c - 1
<1>4. n \in Nat /\ (n + 1) * Interval = j - k
  BY <1>1, <1>2, <1>3
<1>5. n + 1 <= (n + 1) * Interval
  BY <1>1, <1>4
<1>. HIDE DEF n
<1>6. n \in Timestamp
  BY <1>1, <1>4, <1>5 DEF Timestamp
<1>7. Forward(k)[n] = j
  <2>1. k + (n + 1) * Interval = j
    BY <1>1, <1>4
  <2>. QED  BY <1>6, <2>1, NoWrap DEF Forward
<1>8. PICK m \in Timestamp :
        /\ Forward(k)[m] \in keys
        /\ FirstHit(keys, Forward(k)) = Forward(k)[m]
        /\ m <= n
  BY <1>6, <1>7, FirstHitIsFirst DEF Hits
<1>9. m \in Nat
  BY WidthAssumption DEF Timestamp
<1>10. /\ (m + 1) * Interval \in Int
       /\ (m + 1) * Interval <= (n + 1) * Interval /\ (m + 1) * Interval > 0
  <2>1. (n - m) * Interval >= 0 /\ m * Interval >= 0
    BY <1>1, <1>4, <1>8, <1>9
  <2>2. /\ (n - m) * Interval = (n + 1) * Interval - (m + 1) * Interval
        /\ (m + 1) * Interval = m * Interval + Interval
    BY <1>1, <1>4, <1>9
  <2>. QED  BY <1>1, <1>4, <1>9, <2>1, <2>2
<1>11. k + (m + 1) * Interval \in Timestamp
  BY <1>1, <1>4, <1>10 DEF Timestamp
<1>12. Forward(k)[m] = k + (m + 1) * Interval
  BY <1>8, <1>11, NoWrap DEF Forward
<1>13. Forward(k)[m] > k /\ Forward(k)[m] <= j
  BY <1>1, <1>4, <1>10, <1>12
<1>14. j <= Forward(k)[m]
  BY <1>8, <1>13
<1>. QED  BY <1>1, <1>8, <1>10, <1>12, <1>13, <1>14

-----------------------------------------------------------------------------
(* Counting the keys: how many are used, and whether one is left.            *)

\* n is the successor of k in the table, 0 if there is none.
SuccessorIn(keys, k, n) ==
  IF \E j \in keys : j > k
  THEN n \in keys /\ n > k /\ \A j \in keys : j > k => n <= j
  ELSE n = 0

\* Sets of timestamps can be counted.
LEMMA KeysCount ==
  ASSUME NEW keys \in SUBSET Timestamp
  PROVE  IsFiniteSet(keys) /\ Cardinality(keys) \in Nat
<1>1. IsFiniteSet(Timestamp)
  BY WidthAssumption, FS_Interval DEF Timestamp
<1>2. IsFiniteSet(keys)
  BY <1>1, FS_Subset
<1>. QED  BY <1>2, FS_CardinalityType

\* The rank of a key tells whether a later one exists.
LEMMA RankTellsLast ==
  ASSUME NEW keys \in SUBSET Timestamp, NEW k \in keys
  PROVE  /\ Cardinality(keys) \in Nat
         /\ Cardinality({j \in keys : j < k}) \in Nat
         /\ (\E j \in keys : j > k) <=>
              Cardinality(keys) - Cardinality({j \in keys : j < k}) > 1
<1>. DEFINE lower == {j \in keys : j < k}
            upto == lower \cup {k}
<1>1. lower \in SUBSET Timestamp /\ upto \in SUBSET Timestamp
  OBVIOUS
<1>2. /\ IsFiniteSet(keys) /\ Cardinality(keys) \in Nat
      /\ IsFiniteSet(lower) /\ Cardinality(lower) \in Nat
  BY <1>1, KeysCount
<1>3. k \in Int /\ \A j \in keys : j \in Int
  BY WidthAssumption DEF Timestamp
<1>4. k \notin lower
  BY <1>3
<1>5. Cardinality(upto) = Cardinality(lower) + 1
  BY <1>2, <1>4, FS_AddElement
<1>6. ASSUME NEW j \in keys, j > k
      PROVE  Cardinality(keys) - Cardinality(lower) > 1
  <2>1. j \notin upto
    BY <1>3, <1>6
  <2>2. IsFiniteSet(upto)
    BY <1>1, KeysCount
  <2>3. Cardinality(upto \cup {j}) = Cardinality(upto) + 1
    BY <2>1, <2>2, FS_AddElement
  <2>4. upto \cup {j} \subseteq keys
    OBVIOUS
  <2>5. Cardinality(upto \cup {j}) <= Cardinality(keys)
    BY <1>2, <2>4, FS_Subset
  <2>. HIDE DEF lower, upto
  <2>. QED  BY <1>2, <1>5, <2>3, <2>5
<1>7. ASSUME ~ \E j \in keys : j > k
      PROVE  Cardinality(keys) - Cardinality(lower) = 1
  <2>1. \A j \in keys : j \in upto
    BY <1>3, <1>7
  <2>2. keys = upto
    BY <2>1
  <2>. HIDE DEF lower
  <2>. QED  BY <1>2, <1>5, <2>2
<1>. HIDE DEF lower
<1>8. (\E j \in keys : j > k) <=> Cardinality(keys) - Cardinality(lower) > 1
  BY <1>2, <1>6, <1>7
<1>. QED  BY <1>2, <1>8 DEF lower

\* The successor of a key has the next rank.
LEMMA RankOfSuccessor ==
  ASSUME NEW keys \in SUBSET Timestamp, NEW k \in keys, NEW j \in keys,
         SuccessorIn(keys, k, j), j > k
  PROVE  Cardinality({i \in keys : i < j}) = Cardinality({i \in keys : i < k}) + 1
<1>. DEFINE lower == {i \in keys : i < k}
<1>1. \A i \in keys : i \in Int
  BY WidthAssumption DEF Timestamp
<1>2. {i \in keys : i < j} = lower \cup {k}
  BY <1>1 DEF SuccessorIn
<1>3. IsFiniteSet(lower) /\ k \notin lower
  BY <1>1, KeysCount
<1>4. Cardinality(lower \cup {k}) = Cardinality(lower) + 1
  BY <1>3, FS_AddElement
<1>. QED  BY <1>2, <1>4

\* With the counters of a table in order cfg_next_timestamp returns the
\* successor of a key, 0 if there is none.
LEMMA NextIsSuccessor ==
  ASSUME NEW keys \in SUBSET Timestamp, OnGrid(keys), NEW k \in keys
  PROVE  SuccessorIn(keys, k,
           cfg_next_timestamp(keys, Cardinality(keys),
                              Cardinality({j \in keys : j < k}), k))
<1>. DEFINE rank == Cardinality({j \in keys : j < k})
            found == cfg_next_timestamp(keys, Cardinality(keys), rank, k)
<1>1. (\E j \in keys : j > k) <=> Cardinality(keys) - rank > 1
  BY RankTellsLast
<1>2. CASE \E j \in keys : j > k
  <2>. DEFINE later == {j \in keys : j > k}
  <2>1. later \subseteq Nat /\ later # {}
    <3>1. \A j \in keys : j \in Nat
      BY WidthAssumption DEF Timestamp
    <3>. QED  BY <1>2, <3>1
  <2>2. PICK j \in later : \A i \in later : j <= i
    BY <2>1, LeastExists
  <2>3. j \in keys /\ j > k /\ \A i \in keys : i > k => j <= i
    BY <2>2
  <2>4. FirstHit(keys, Forward(k)) = j
    BY <2>3, ForwardSuccessor
  <2>5. found = j
    BY <1>1, <1>2, <2>4 DEF cfg_next_timestamp
  <2>. HIDE DEF found
  <2>. QED  BY <2>3, <2>5 DEF SuccessorIn, found
<1>3. CASE ~ \E j \in keys : j > k
  <2>1. found = 0
    BY <1>1, <1>3 DEF cfg_next_timestamp
  <2>. HIDE DEF found
  <2>. QED  BY <1>3, <2>1 DEF SuccessorIn, found
<1>. QED  BY <1>2, <1>3

\* Where the backward search ends: at the newest key not newer than t, and if
\* there is none at the newest of all.
LEMMA BackwardEnds ==
  ASSUME NEW keys \in SUBSET Timestamp, OnGrid(keys), NEW t \in Timestamp,
         Hits(keys, Backward(t)) # {}
  PROVE  LET found == FirstHit(keys, Backward(t))
             older == {k \in keys : k <= t}
         IN  /\ found \in keys
             /\ \A k \in (IF older # {} THEN older ELSE keys) : k <= found
             /\ older # {} => found <= t
<1>. DEFINE older == {k \in keys : k <= t}
<1>1. CASE older # {}
  <2>1. older \subseteq Timestamp
    OBVIOUS
  <2>2. PICK k \in older : \A j \in older : j <= k
    BY <1>1, <2>1, GreatestExists
  <2>3. FirstHit(keys, Backward(t)) = k
    BY <2>2, BackwardCovers
  <2>. QED  BY <1>1, <2>2, <2>3
<1>2. CASE older = {}
  <2>1. \A j \in keys : j > t
    BY <1>2, WidthAssumption DEF Timestamp
  <2>. QED  BY <1>2, <2>1, BackwardWraps
<1>. QED  BY <1>1, <1>2
=============================================================================

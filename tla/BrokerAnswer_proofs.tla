------------------------- MODULE BrokerAnswer_proofs -------------------------
(***************************************************************************)
(* A configuration that makes any number of broker calls, whatever texts   *)
(* the broker sends.  Its hash table, of any size: the probes of a search  *)
(* visit every bucket, so that a search in a table that is never full      *)
(* ends, each entry is found where its search ends, and resizing in place  *)
(* loses nothing.  Its tokens fit their array, and its URLs their rows.    *)
(***************************************************************************)
EXTENDS BrokerAnswer, FiniteSetTheorems, SequenceTheorems, NaturalsInduction, TLAPS

-----------------------------------------------------------------------------
(* Arithmetic                                                               *)

\* A set of natural numbers has a least element.
LEMMA LeastExists ==
  ASSUME NEW S, S \subseteq Nat, S # {}
  PROVE  \E m \in S : \A n \in S : m <= n
<1>1. PICK m \in S : \A n \in S : ~(<<n, m>> \in OpToRel(<, Nat))
  BY NatLessThanWellFounded, WFMin
<1>2. \A n \in S : ~(n < m)
  BY <1>1, Zenon DEF OpToRel
<1>. QED  BY <1>2

\* Quotient and remainder of an integer.
LEMMA Division ==
  ASSUME NEW a \in Int, NEW d \in Nat \ {0}
  PROVE  /\ a \div d \in Int /\ a % d \in Int
         /\ a = d * (a \div d) + (a % d)
         /\ 0 <= a % d /\ a % d < d
<1>1. d \in Int /\ d > 0
  OBVIOUS
<1>2. a \div d \in Int /\ a % d \in Int
  BY <1>1
<1>3. a = d * (a \div d) + (a % d) /\ 0 <= a % d /\ a % d < d
  BY <1>1
<1>. QED  BY <1>2, <1>3

\* Equal products with the same factor.
LEMMA CancelFactor ==
  ASSUME NEW n \in Nat \ {0}, NEW x \in Int, NEW y \in Int, n * x = n * y
  PROVE  x = y
<1>. DEFINE e == x - y
<1>1. e \in Int /\ n * e = 0
  OBVIOUS
<1>2. e >= 1 => n * e >= n
  BY <1>1
<1>3. e <= -1 => n * e <= -n
  BY <1>1
<1>4. e = 0
  <2>. HIDE DEF e
  <2>. QED  BY <1>1, <1>2, <1>3
<1>. QED  BY <1>4

\* An odd factor of a multiple of n can be cancelled.  It is true of powers of
\* two.
Cancels(n) == \A a, b, q \in Int : (2 * a + 1) * b = n * q => \E c \in Int : b = n * c

LEMMA Cancelled ==
  ASSUME NEW n, Cancels(n), NEW a \in Int, NEW b \in Int, NEW q \in Int,
         (2 * a + 1) * b = n * q
  PROVE  \E c \in Int : b = n * c
BY ZenonT(30) DEF Cancels

LEMMA CancelsOne == Cancels(1)
BY DEF Cancels

LEMMA CancelsDouble ==
  ASSUME NEW n \in Nat \ {0}, Cancels(n)
  PROVE  Cancels(2 * n)
<1>. SUFFICES ASSUME NEW a \in Int, NEW b \in Int, NEW q \in Int,
                     (2 * a + 1) * b = (2 * n) * q
              PROVE  \E c \in Int : b = (2 * n) * c
  BY Zenon DEF Cancels
<1>. DEFINE y == 2 * q
<1>1. y \in Int /\ (2 * a + 1) * b = n * y
  OBVIOUS
<1>2. PICK d \in Int : b = n * d
  <2>. HIDE DEF y
  <2>. QED  BY <1>1, Cancelled, ZenonT(40)
<1>. DEFINE x == (2 * a + 1) * d
<1>3. x \in Int /\ n * x = n * y
  <2>1. n * ((2 * a + 1) * d) = (2 * a + 1) * (n * d)
    OBVIOUS
  <2>. QED  BY <1>1, <1>2, <2>1
<1>4. x = y
  <2>. HIDE DEF x, y
  <2>. QED  BY <1>1, <1>3, CancelFactor
<1>5. PICK e \in Int : d = 2 * e
  <2>1. (2 * a + 1) * d = 2 * (a * d) + d
    OBVIOUS
  <2>2. d = 2 * (q - a * d) /\ q - a * d \in Int
    BY <1>4, <2>1
  <2>. QED  BY <2>2
<1>6. n * (2 * e) = (2 * n) * e
  OBVIOUS
<1>. QED  BY <1>2, <1>5, <1>6

-----------------------------------------------------------------------------
(* The probes                                                               *)

\* The steps of the probes add up to triangular numbers.
Sum(m) == (m * (m + 1)) \div 2

LEMMA TwiceSum ==
  ASSUME NEW m \in Nat
  PROVE  Sum(m) \in Int /\ 2 * Sum(m) = m * (m + 1)
<1>. DEFINE h == m \div 2
<1>1. h \in Int /\ (m = 2 * h \/ m = 2 * h + 1)
  BY Division
<1>. HIDE DEF h
<1>2. CASE m = 2 * h
  <2>1. m * (m + 1) = 2 * (h * (m + 1))
    BY <1>1, <1>2
  <2>2. h * (m + 1) \in Int
    BY <1>1
  <2>3. (2 * (h * (m + 1))) \div 2 = h * (m + 1)
    BY <2>2
  <2>. QED  BY <2>1, <2>2, <2>3 DEF Sum
<1>3. CASE m = 2 * h + 1
  <2>1. m * (m + 1) = 2 * (m * (h + 1))
    BY <1>1, <1>3
  <2>2. m * (h + 1) \in Int
    BY <1>1
  <2>3. (2 * (m * (h + 1))) \div 2 = m * (h + 1)
    BY <2>2
  <2>. QED  BY <2>1, <2>2, <2>3 DEF Sum
<1>. QED  BY <1>1, <1>2, <1>3

\* Two numbers with the same remainder.
LEMMA SameRemainder ==
  ASSUME NEW a \in Int, NEW b \in Int, NEW n \in Nat \ {0}, a % n = b % n
  PROVE  \E q \in Int : a - b = n * q
<1>. DEFINE c == a \div n
            d == b \div n
<1>1. c \in Int /\ a = n * c + (a % n)
  BY Division
<1>2. d \in Int /\ b = n * d + (b % n)
  BY Division
<1>3. a % n \in Int
  BY Division
<1>. HIDE DEF c, d
<1>. DEFINE e == c - d
<1>4. e \in Int /\ a - b = n * e
  BY <1>1, <1>2, <1>3
<1>. HIDE DEF e
<1>. QED  BY <1>4

\* A positive number below n is no multiple of n.
LEMMA NoMultiple ==
  ASSUME NEW n \in Nat \ {0}, NEW x \in Int, 0 < x, x < n, NEW c \in Int, x = n * c
  PROVE  FALSE
<1>1. c >= 1 => n * c >= n
  OBVIOUS
<1>2. c <= 0 => n * c <= 0
  OBVIOUS
<1>. QED  BY <1>1, <1>2

\* The sizes of tables: n is a power of two, as far as the probes need it.
LikePowerOfTwo(n) == n \in Nat /\ n >= 4 /\ Cancels(2 * n)

LEMMA ProbeType ==
  ASSUME NEW n \in Nat \ {0}, NEW k \in Int, NEW m \in Nat
  PROVE  Probe(k, m, n) = (k + Sum(m)) % n /\ Probe(k, m, n) \in 0 .. n - 1
<1>1. Probe(k, m, n) = (k + Sum(m)) % n
  BY DEF Probe, Sum
<1>2. k + Sum(m) \in Int
  BY TwiceSum
<1>3. (k + Sum(m)) % n \in Int /\ 0 <= (k + Sum(m)) % n /\ (k + Sum(m)) % n < n
  BY <1>2, Division
<1>. QED  BY <1>1, <1>3

\* Two probes of a search never meet.
LEMMA ProbesDiffer ==
  ASSUME NEW n, LikePowerOfTwo(n), NEW k \in Int,
         NEW l \in 0 .. n - 1, NEW m \in 0 .. n - 1, l < m
  PROVE  Probe(k, l, n) # Probe(k, m, n)
<1>. SUFFICES ASSUME Probe(k, l, n) = Probe(k, m, n) PROVE FALSE
  OBVIOUS
<1>1. /\ n \in Nat \ {0} /\ 2 * n \in Nat \ {0} /\ Cancels(2 * n)
      /\ l \in Nat /\ m \in Nat /\ m < n
  BY DEF LikePowerOfTwo
<1>2. /\ Sum(m) \in Int /\ 2 * Sum(m) = m * (m + 1)
      /\ Sum(l) \in Int /\ 2 * Sum(l) = l * (l + 1)
  BY <1>1, TwiceSum
<1>3. PICK q \in Int : Sum(m) - Sum(l) = n * q
  <2>1. (k + Sum(m)) % n = (k + Sum(l)) % n
    BY <1>1, ProbeType
  <2>2. k + Sum(m) \in Int /\ k + Sum(l) \in Int
    BY <1>2
  <2>3. \E q \in Int : (k + Sum(m)) - (k + Sum(l)) = n * q
    BY <1>1, <2>1, <2>2, SameRemainder
  <2>4. (k + Sum(m)) - (k + Sum(l)) = Sum(m) - Sum(l)
    BY <1>2
  <2>. QED  BY <2>3, <2>4
<1>4. (m - l) * (m + l + 1) = (2 * n) * q
  <2>1. (m - l) * (m + l + 1) = m * (m + 1) - l * (l + 1)
    BY <1>1
  <2>2. 2 * (n * q) = (2 * n) * q
    BY <1>1
  <2>. QED  BY <1>2, <1>3, <2>1, <2>2
<1>5. PICK a \in Int : m - l = 2 * a \/ m - l = 2 * a + 1
  <2>1. m - l \in Int
    BY <1>1
  <2>2. /\ (m - l) \div 2 \in Int
        /\ m - l = 2 * ((m - l) \div 2) \/ m - l = 2 * ((m - l) \div 2) + 1
    BY <2>1, Division
  <2>. QED  BY <2>2
<1>6. CASE m - l = 2 * a + 1
  <2>. DEFINE b == m + l + 1
  <2>1. b \in Int /\ 0 < b /\ b < 2 * n /\ (2 * a + 1) * b = (2 * n) * q
    BY <1>1, <1>4, <1>6
  <2>. HIDE DEF b
  <2>2. \E c \in Int : b = (2 * n) * c
    <3>. DEFINE w == 2 * n
    <3>1. Cancels(w) /\ (2 * a + 1) * b = w * q
      BY <1>1, <2>1
    <3>. HIDE DEF w
    <3>2. \E c \in Int : b = w * c
      BY ONLY <2>1, <3>1, q \in Int, a \in Int, Cancelled
    <3>. QED  BY <3>2 DEF w
  <2>. QED  BY <1>1, <2>1, <2>2, NoMultiple
<1>7. CASE m - l = 2 * a
  <2>. DEFINE b == m - l
              o == a + l
  <2>1. b \in Int /\ o \in Int /\ 0 < b /\ b < 2 * n
    BY <1>1
  <2>2. (2 * o + 1) * b = (2 * n) * q
    <3>1. m + l + 1 = 2 * o + 1
      BY <1>1, <1>7
    <3>2. (m - l) * (m + l + 1) = (m + l + 1) * (m - l)
      BY <1>1
    <3>. QED  BY <1>4, <3>1, <3>2
  <2>. HIDE DEF b, o
  <2>3. \E c \in Int : b = (2 * n) * c
    <3>. DEFINE w == 2 * n
    <3>1. Cancels(w) /\ (2 * o + 1) * b = w * q
      BY <1>1, <2>2
    <3>. HIDE DEF w
    <3>2. \E c \in Int : b = w * c
      BY ONLY <2>1, <3>1, q \in Int, Cancelled
    <3>. QED  BY <3>2 DEF w
  <2>. QED  BY <1>1, <2>1, <2>3, NoMultiple
<1>. QED  BY <1>5, <1>6, <1>7

\* A search that does not stop visits every bucket.
LEMMA EveryBucketProbed ==
  ASSUME NEW n, LikePowerOfTwo(n), NEW k \in Int, NEW b \in 0 .. n - 1
  PROVE  \E m \in 0 .. n - 1 : Probe(k, m, n) = b
<1>. DEFINE B == 0 .. n - 1
            walk == [m \in B |-> Probe(k, m, n)]
<1>1. n \in Nat \ {0} /\ B \subseteq Nat
  BY DEF LikePowerOfTwo
<1>2. walk \in [B -> B]
  BY <1>1, ProbeType
<1>3. \A l, m \in B : walk[l] = walk[m] => l = m
  <2>1. \A l, m \in B : l < m => Probe(k, l, n) # Probe(k, m, n)
    BY ProbesDiffer
  <2>2. \A l, m \in B : l < m \/ m < l \/ l = m
    BY <1>1
  <2>. QED  BY <2>1, <2>2
<1>4. walk \in Injection(B, B)
  BY <1>2, <1>3 DEF Injection, IsInjective
<1>5. IsFiniteSet(B)
  BY <1>1, FS_Interval
<1>6. walk \in Surjection(B, B)
  BY <1>4, <1>5, FS_Injection
<1>. QED  BY <1>6 DEF Surjection

\* Where a search that has a bucket to stop at stops.
LEMMA FirstProbeIs ==
  ASSUME NEW n, LikePowerOfTwo(n), NEW k \in Int,
         NEW buckets, buckets \subseteq 0 .. n - 1, buckets # {}
  PROVE  \E m \in 0 .. n - 1 :
           /\ FirstProbe(k, n, buckets) = Probe(k, m, n)
           /\ Probe(k, m, n) \in buckets
           /\ \A l \in 0 .. m - 1 : Probe(k, l, n) \notin buckets
<1>. DEFINE Hits == {m \in 0 .. n - 1 : Probe(k, m, n) \in buckets}
<1>1. n \in Nat /\ Hits \subseteq Nat
  BY DEF LikePowerOfTwo
<1>2. Hits # {}
  <2>1. PICK b \in buckets : b \in 0 .. n - 1
    OBVIOUS
  <2>2. PICK m \in 0 .. n - 1 : Probe(k, m, n) = b
    BY <2>1, EveryBucketProbed
  <2>3. m \in Hits
    BY <2>2
  <2>. QED  BY <2>3
<1>3. PICK m \in Hits : m = Min(Hits) /\ \A l \in Hits : m <= l
  BY <1>1, <1>2, LeastExists DEF Min
<1>4. FirstProbe(k, n, buckets) = Probe(k, m, n)
  BY <1>3 DEF FirstProbe
<1>5. ASSUME NEW l \in 0 .. m - 1 PROVE Probe(k, l, n) \notin buckets
  BY <1>1, <1>3
<1>. QED  BY <1>3, <1>4, <1>5

\* There is only one such place.
LEMMA FirstProbeAt ==
  ASSUME NEW n, LikePowerOfTwo(n), NEW k \in Int,
         NEW buckets, buckets \subseteq 0 .. n - 1, NEW m \in 0 .. n - 1,
         Probe(k, m, n) \in buckets,
         \A l \in 0 .. m - 1 : Probe(k, l, n) \notin buckets
  PROVE  FirstProbe(k, n, buckets) = Probe(k, m, n)
<1>1. PICK f \in 0 .. n - 1 :
           /\ FirstProbe(k, n, buckets) = Probe(k, f, n)
           /\ Probe(k, f, n) \in buckets
           /\ \A l \in 0 .. f - 1 : Probe(k, l, n) \notin buckets
  BY FirstProbeIs
<1>2. n \in Nat
  BY DEF LikePowerOfTwo
<1>3. ~(f < m) /\ ~(m < f)
  BY <1>1, <1>2
<1>. QED  BY <1>1, <1>2, <1>3

-----------------------------------------------------------------------------
(* A table in which every entry is found                                    *)

\* A search for k comes to b over buckets that are taken.
OnPath(k, b, n, taken) ==
  \E m \in 0 .. n - 1 : /\ Probe(k, m, n) = b
                        /\ \A l \in 0 .. m - 1 : Probe(k, l, n) \in taken

\* The keys of these buckets are different.
KeysDiffer(buckets, held) ==
  \A b, c \in buckets : held[b].key = held[c].key => b = c

\* The taken ones of n buckets hold entries that are found.
Sound(n, taken, held) ==
  /\ taken \subseteq 0 .. n - 1 /\ taken \subseteq DOMAIN held
  /\ \A b \in taken : /\ held[b].key \in Int
                      /\ OnPath(held[b].key, b, n, taken)
  /\ KeysDiffer(taken, held)

\* What Put and kh_put make of the entries.
With(held, b, e) == [c \in DOMAIN held \cup {b} |-> IF c = b THEN e ELSE held[c]]

\* Taken buckets are finitely many, and if there are less than n one is free.
LEMMA OneIsFree ==
  ASSUME NEW n \in Nat \ {0}, NEW taken, taken \subseteq 0 .. n - 1
  PROVE  /\ IsFiniteSet(taken) /\ Cardinality(taken) \in Nat
         /\ Cardinality(taken) < n => (0 .. n - 1) \ taken # {}
<1>1. IsFiniteSet(0 .. n - 1) /\ Cardinality(0 .. n - 1) = n
  <2>1. 0 \in Int /\ n - 1 \in Int /\ ~(0 > n - 1) /\ (n - 1) - 0 + 1 = n
    OBVIOUS
  <2>. QED  BY <2>1, FS_Interval
<1>2. IsFiniteSet(taken)
  BY <1>1, FS_Subset
<1>3. Cardinality(taken) \in Nat
  BY <1>2, FS_CardinalityType
<1>4. (0 .. n - 1) \ taken = {} => taken = 0 .. n - 1
  OBVIOUS
<1>. QED  BY <1>1, <1>2, <1>3, <1>4

\* A key that is not in the table gets the first free bucket of its search.
LEMMA Inserted ==
  ASSUME NEW n, LikePowerOfTwo(n), NEW taken, NEW held, Sound(n, taken, held),
         Cardinality(taken) < n,
         NEW e, e.key \in Int, \A b \in taken : held[b].key # e.key
  PROVE  LET b == FirstProbe(e.key, n, (0 .. n - 1) \ taken)
         IN  /\ b \in (0 .. n - 1) \ taken
             /\ Sound(n, taken \cup {b}, With(held, b, e))
<1>. DEFINE free == (0 .. n - 1) \ taken
            b == FirstProbe(e.key, n, free)
            new == With(held, b, e)
<1>1. n \in Nat \ {0} /\ taken \subseteq 0 .. n - 1 /\ taken \subseteq DOMAIN held
  BY DEF LikePowerOfTwo, Sound
<1>2. free # {}
  BY <1>1, OneIsFree
<1>3. PICK m \in 0 .. n - 1 :
           /\ b = Probe(e.key, m, n) /\ b \in free
           /\ \A l \in 0 .. m - 1 : Probe(e.key, l, n) \notin free
  <2>. DEFINE k == e.key
  <2>1. free \subseteq 0 .. n - 1 /\ k \in Int
    OBVIOUS
  <2>. HIDE DEF free, k
  <2>2. \E m \in 0 .. n - 1 :
          /\ FirstProbe(k, n, free) = Probe(k, m, n) /\ Probe(k, m, n) \in free
          /\ \A l \in 0 .. m - 1 : Probe(k, l, n) \notin free
    BY ONLY LikePowerOfTwo(n), <1>2, <2>1, FirstProbeIs
  <2>. QED  BY <2>2 DEF k
<1>. HIDE DEF b
<1>4. \A l \in 0 .. m - 1 : Probe(e.key, l, n) \in taken
  <2>. TAKE l \in 0 .. m - 1
  <2>1. Probe(e.key, l, n) \in 0 .. n - 1
    BY <1>1, ProbeType
  <2>. QED  BY <1>3, <2>1
<1>5. OnPath(e.key, b, n, taken \cup {b})
  BY <1>3, <1>4 DEF OnPath
<1>6. \A c \in taken : held[c].key \in Int /\ OnPath(held[c].key, c, n, taken \cup {b})
  <2>. TAKE c \in taken
  <2>1. held[c].key \in Int /\ OnPath(held[c].key, c, n, taken)
    BY DEF Sound
  <2>. QED  BY <2>1 DEF OnPath
<1>7. /\ DOMAIN new = DOMAIN held \cup {b} /\ new[b] = e
      /\ \A c \in taken : new[c] = held[c]
  <2>1. /\ DOMAIN new = DOMAIN held \cup {b} /\ new[b] = e
        /\ \A c \in DOMAIN held : c # b => new[c] = held[c]
    BY DEF With
  <2>. HIDE DEF new
  <2>2. b \notin taken
    BY <1>3
  <2>. QED  BY <1>1, <2>1, <2>2
<1>. HIDE DEF new
<1>8. /\ taken \cup {b} \subseteq 0 .. n - 1 /\ taken \cup {b} \subseteq DOMAIN new
  BY <1>1, <1>3, <1>7
<1>9. \A c \in taken \cup {b} :
        new[c].key \in Int /\ OnPath(new[c].key, c, n, taken \cup {b})
  BY <1>5, <1>6, <1>7
<1>10. KeysDiffer(taken \cup {b}, new)
  <2>1. \A c, d \in taken : held[c].key = held[d].key => c = d
    BY DEF Sound, KeysDiffer
  <2>2. \A c, d \in taken \cup {b} : new[c].key = new[d].key => c = d
    BY <1>7, <2>1
  <2>. QED  BY <2>2 DEF KeysDiffer
<1>11. Sound(n, taken \cup {b}, new)
  BY <1>8, <1>9, <1>10 DEF Sound
<1>. QED  BY <1>3, <1>11 DEF b, new

\* A search for a key of the table ends at its bucket.
LEMMA SearchEndsAt ==
  ASSUME NEW n, LikePowerOfTwo(n), NEW taken, NEW held, Sound(n, taken, held),
         NEW b \in taken, NEW k, k = held[b].key, NEW stops,
         stops = ((0 .. n - 1) \ taken) \cup {c \in taken : held[c].key = k}
  PROVE  FirstProbe(k, n, stops) = b
<1>1. taken \subseteq 0 .. n - 1 /\ k \in Int
  BY DEF Sound
<1>2. PICK m \in 0 .. n - 1 : /\ Probe(k, m, n) = b
                              /\ \A l \in 0 .. m - 1 : Probe(k, l, n) \in taken
  BY DEF Sound, OnPath
<1>3. \A c \in taken : held[c].key = k => c = b
  BY DEF Sound, KeysDiffer
<1>4. n \in Nat
  BY DEF LikePowerOfTwo
<1>5. ASSUME NEW l \in 0 .. m - 1 PROVE Probe(k, l, n) \notin stops
  <2>1. l \in 0 .. n - 1 /\ l < m
    BY <1>4
  <2>2. Probe(k, l, n) # b
    BY <1>1, <1>2, <2>1, ProbesDiffer
  <2>. QED  BY <1>2, <1>3, <2>2
<1>6. b \in stops /\ stops \subseteq 0 .. n - 1
  BY <1>1
<1>7. FirstProbe(k, n, stops) = Probe(k, m, n)
  BY <1>1, <1>2, <1>5, <1>6, FirstProbeAt
<1>. QED  BY <1>2, <1>7

-----------------------------------------------------------------------------
(* The invariant                                                            *)

\* A table of n buckets, or the one without any; never more entries than khash.h
\* allows.
Sized == /\ n_buckets = 0 \/ LikePowerOfTwo(n_buckets)
         /\ size \in Nat /\ size <= Upper(n_buckets)

\* What holds of the buckets that are live, at rest and during a resize.
Buckets ==
  /\ live \subseteq 0 .. n_buckets - 1 /\ live \subseteq DOMAIN entries
  /\ \A b \in live : entries[b].key \in Int
  /\ new_n_buckets \in Nat /\ new_flags \subseteq DOMAIN entries /\ j \in Nat
  /\ kpc \in {"rest", "rehash", "kick"}

AtRest == Sound(n_buckets, live, entries) /\ size = Cardinality(live)

\* The new table is sound, the entries not moved yet are behind j, and they, those
\* of the new table and the one in hand are those there were.
Resizing ==
  /\ new_n_buckets = Expanded
  /\ Sound(new_n_buckets, new_flags, entries)
  /\ live \cap new_flags = {}
  /\ KeysDiffer(live \cup new_flags, entries)
  /\ j <= n_buckets /\ \A b \in live : j <= b
  /\ size = Cardinality(live) + Cardinality(new_flags) + (IF kpc = "kick" THEN 1 ELSE 0)
  /\ kpc = "kick" => /\ j < n_buckets /\ j \notin live
                     /\ hand.key \in Int
                     /\ \A b \in live \cup new_flags : entries[b].key # hand.key

HInv == /\ Sized /\ Buckets
        /\ kpc = "rest" => AtRest
        /\ kpc # "rest" => Resizing

\* A table is never full.
LEMMA UpperBound ==
  /\ Upper(0) = 0
  /\ \A n \in Nat : n >= 4 => Upper(n) \in Nat /\ Upper(n) < n
  /\ \A n \in Nat : Upper(n) <= Upper(2 * n) /\ Upper(n) \in Nat
<1>1. Upper(0) = 0
  BY DEF Upper
<1>2. ASSUME NEW n \in Nat
      PROVE  /\ Upper(n) \in Nat /\ Upper(n) <= Upper(2 * n)
             /\ n >= 4 => Upper(n) < n
  <2>. DEFINE a == 77 * n + 50
              b == 77 * (2 * n) + 50
              d == 100
              r == a % d
              s == b % d
  <2>1. a \in Int /\ b \in Int /\ d \in Nat \ {0}
    OBVIOUS
  <2>2. Upper(n) = a \div d /\ Upper(2 * n) = b \div d
    BY DEF Upper
  <2>. HIDE DEF a, b, d
  <2>3. /\ Upper(n) \in Int /\ r \in Int /\ a = d * Upper(n) + r /\ 0 <= r /\ r < d
    BY <2>1, <2>2, Division
  <2>4. /\ Upper(2 * n) \in Int /\ s \in Int /\ b = d * Upper(2 * n) + s
        /\ 0 <= s /\ s < d
    BY <2>1, <2>2, Division
  <2>. HIDE DEF r, s
  <2>. QED  BY <2>3, <2>4 DEF a, b, d
<1>. QED  BY <1>1, <1>2

\* The next size is a power of two, and has room for all that is there.
LEMMA ExpandedSize ==
  ASSUME Sized
  PROVE  /\ LikePowerOfTwo(Expanded) /\ size <= Upper(Expanded)
         /\ n_buckets \in Nat /\ n_buckets <= Expanded
         /\ size < Expanded /\ size <= n_buckets
<1>1. CASE n_buckets = 0
  <2>1. Cancels(2 * 4)
    <3>1. Cancels(2 * 1)
      BY CancelsOne, CancelsDouble
    <3>2. Cancels(2 * 2)
      BY <3>1, CancelsDouble
    <3>3. Cancels(4)
      BY <3>2
    <3>. QED  BY <3>3, CancelsDouble
  <2>2. size = 0 /\ Expanded = 4
    BY <1>1, UpperBound DEF Sized, Expanded
  <2>3. Upper(4) \in Nat
    BY UpperBound
  <2>. QED  BY <1>1, <2>1, <2>2, <2>3 DEF LikePowerOfTwo
<1>2. CASE n_buckets # 0
  <2>1. /\ n_buckets \in Nat /\ n_buckets >= 4 /\ Cancels(2 * n_buckets)
        /\ Expanded = 2 * n_buckets
    BY <1>2 DEF Sized, LikePowerOfTwo, Expanded
  <2>2. Cancels(2 * (2 * n_buckets))
    BY <2>1, CancelsDouble
  <2>3. Upper(n_buckets) \in Nat /\ Upper(n_buckets) < n_buckets
    BY <2>1, UpperBound
  <2>4. Upper(n_buckets) <= Upper(2 * n_buckets) /\ Upper(2 * n_buckets) \in Nat
    BY <2>1, UpperBound
  <2>. QED  BY <2>1, <2>2, <2>3, <2>4 DEF LikePowerOfTwo, Sized
<1>. QED  BY <1>1, <1>2

\* The invariant says what the properties are about.
LEMMA InvFinds == HInv => LookupFinds /\ KHashTypeOK
<1>. SUFFICES ASSUME HInv PROVE LookupFinds /\ KHashTypeOK
  OBVIOUS
<1>1. KHashTypeOK
  BY ExpandedSize DEF HInv, Buckets, Sized, KHashTypeOK
<1>2. ASSUME kpc = "rest", NEW b \in live PROVE kh_get(entries[b].key) = b
  <2>1. n_buckets # 0 /\ LikePowerOfTwo(n_buckets) /\ Sound(n_buckets, live, entries)
    BY <1>2 DEF HInv, Sized, Buckets, AtRest
  <2>2. FirstProbe(entries[b].key, n_buckets, Stops(entries[b].key)) = b
    <3>. DEFINE k == entries[b].key
    <3>1. Stops(k) = ((0 .. n_buckets - 1) \ live) \cup {c \in live : entries[c].key = k}
      BY DEF Stops
    <3>. HIDE DEF k
    <3>2. k = entries[b].key
      BY DEF k
    <3>3. FirstProbe(k, n_buckets, Stops(k)) = b
      BY <2>1, <3>1, <3>2, SearchEndsAt
    <3>. QED  BY <3>2, <3>3
  <2>. QED  BY <1>2, <2>1, <2>2 DEF kh_get
<1>. QED  BY <1>1, <1>2 DEF LookupFinds, HInv, AtRest

LEMMA InitHInv == KHashInit => HInv
<1>. SUFFICES ASSUME KHashInit PROVE HInv
  OBVIOUS
<1>1. Sized
  BY UpperBound DEF KHashInit, Sized
<1>2. Buckets
  BY DEF KHashInit, Buckets
<1>3. AtRest
  BY FS_EmptySet DEF KHashInit, AtRest, Sound, KeysDiffer
<1>. QED  BY <1>1, <1>2, <1>3 DEF HInv, KHashInit

LEMMA ClearHInv == HInv /\ kpc = "rest" /\ kh_clear => HInv'
<1>. SUFFICES ASSUME HInv, kpc = "rest", kh_clear PROVE HInv'
  OBVIOUS
<1>1. /\ live' = {} /\ size' = 0 /\ n_buckets' = n_buckets /\ entries' = entries
      /\ kpc' = kpc /\ new_n_buckets' = new_n_buckets /\ new_flags' = new_flags
      /\ j' = j /\ hand' = hand
  BY DEF kh_clear, rehash
<1>2. Sized'
  <2>1. Upper(n_buckets) \in Nat
    BY ExpandedSize, UpperBound DEF HInv
  <2>. QED  BY <1>1, <2>1 DEF HInv, Sized
<1>3. Buckets'
  BY <1>1 DEF HInv, Buckets
<1>4. AtRest'
  BY <1>1, FS_EmptySet DEF AtRest, Sound, KeysDiffer
<1>. QED  BY <1>1, <1>2, <1>3, <1>4 DEF HInv

\* The number of live buckets, which are finitely many.
LEMMA LiveFinite ==
  ASSUME HInv
  PROVE  /\ IsFiniteSet(live) /\ Cardinality(live) \in Nat
         /\ kpc # "rest" => /\ IsFiniteSet(new_flags) /\ Cardinality(new_flags) \in Nat
                           /\ new_flags \subseteq 0 .. new_n_buckets - 1
<1>1. live \subseteq 0 .. Expanded - 1 /\ Expanded \in Nat \ {0}
  BY ExpandedSize DEF HInv, Buckets, LikePowerOfTwo
<1>2. kpc # "rest" => /\ new_flags \subseteq 0 .. Expanded - 1
                      /\ new_n_buckets = Expanded
  BY DEF HInv, Resizing, Sound
<1>. QED  BY <1>1, <1>2, OneIsFree

LEMMA ResizeHInv == HInv /\ Resize => HInv'
<1>. SUFFICES ASSUME HInv, Resize PROVE HInv'
  OBVIOUS
<1>1. /\ kpc = "rest" /\ new_n_buckets' = Expanded /\ new_flags' = {} /\ j' = 0
      /\ kpc' = "rehash" /\ n_buckets' = n_buckets /\ size' = size
      /\ live' = live /\ entries' = entries /\ hand' = hand
  BY DEF Resize, table
<1>2. Sized'
  BY <1>1 DEF HInv, Sized
<1>3. Expanded' = Expanded /\ Expanded \in Nat /\ n_buckets \in Nat
  BY <1>1, ExpandedSize DEF HInv, Expanded, LikePowerOfTwo
<1>4. Buckets'
  BY <1>1, <1>3 DEF HInv, Buckets
<1>5. Resizing'
  <2>1. Sound(Expanded, {}, entries) /\ KeysDiffer(live, entries)
    BY <1>1 DEF HInv, AtRest, Sound, KeysDiffer
  <2>2. size = Cardinality(live) + 0 /\ Cardinality({}) = 0
    BY <1>1, LiveFinite, FS_EmptySet DEF HInv, AtRest
  <2>3. \A b \in live : 0 <= b
    BY DEF HInv, Buckets
  <2>4. live \cup {} = live /\ live \cap {} = {}
    OBVIOUS
  <2>. QED  BY <1>1, <1>3, <2>1, <2>2, <2>3, <2>4, LiveFinite DEF Resizing
<1>. QED  BY <1>1, <1>2, <1>4, <1>5 DEF HInv

LEMMA PutHInv ==
  ASSUME HInv, NEW k \in Int, NEW v, kh_put(k, v)
  PROVE  HInv'
<1>. DEFINE n == n_buckets
            e == [key |-> k, val |-> v]
            b == FirstProbe(k, n, Stops(k))
<1>1. /\ kpc = "rest" /\ kpc' = "rest" /\ size < Upper(n)
      /\ entries' = With(entries, b, e) /\ live' = live \cup {b}
      /\ size' = size + (IF b \in live THEN 0 ELSE 1)
      /\ n_buckets' = n /\ new_n_buckets' = new_n_buckets
      /\ new_flags' = new_flags /\ j' = j
  <2>1. n \in Nat /\ size \in Nat /\ Upper(n) \in Nat
    BY ExpandedSize, UpperBound DEF HInv, Sized
  <2>. QED  BY <2>1 DEF kh_put, Full, With, rehash
<1>2. LikePowerOfTwo(n) /\ n \in Nat /\ Upper(n) \in Nat /\ Upper(n) < n
  <2>1. n # 0
    BY <1>1, UpperBound DEF HInv, Sized
  <2>2. LikePowerOfTwo(n)
    BY <2>1 DEF HInv, Sized
  <2>. QED  BY <2>2, UpperBound DEF LikePowerOfTwo
<1>3. /\ Sound(n, live, entries) /\ size = Cardinality(live) /\ size \in Nat
      /\ IsFiniteSet(live) /\ live \subseteq 0 .. n - 1 /\ live \subseteq DOMAIN entries
  BY <1>1, LiveFinite DEF HInv, AtRest, Buckets, Sized
<1>4. e.key = k
  OBVIOUS
<1>. HIDE DEF e
<1>5. /\ b \in 0 .. n - 1
      /\ Sound(n, live \cup {b}, With(entries, b, e))
      /\ size' = Cardinality(live \cup {b})
  <2>1. CASE \A c \in live : entries[c].key # k
    <3>1. Stops(k) = (0 .. n - 1) \ live
      BY <2>1 DEF Stops
    <3>2. Cardinality(live) < n
      BY <1>1, <1>2, <1>3
    <3>3. b \in (0 .. n - 1) \ live /\ Sound(n, live \cup {b}, With(entries, b, e))
      BY <1>2, <1>3, <1>4, <2>1, <3>1, <3>2, Inserted
    <3>4. Cardinality(live \cup {b}) = Cardinality(live) + 1
      BY <1>3, <3>3, FS_AddElement
    <3>. QED  BY <1>1, <1>3, <3>3, <3>4
  <2>2. ASSUME NEW c \in live, entries[c].key = k
        PROVE  /\ b \in 0 .. n - 1
               /\ Sound(n, live \cup {b}, With(entries, b, e))
               /\ size' = Cardinality(live \cup {b})
    <3>1. b = c
      BY <1>2, <1>3, <2>2, SearchEndsAt DEF Stops
    <3>. HIDE DEF b
    <3>2. live \cup {b} = live
      BY <2>2, <3>1
    <3>3. /\ DOMAIN With(entries, b, e) = DOMAIN entries
          /\ \A d \in live : With(entries, b, e)[d].key = entries[d].key
      BY <1>3, <1>4, <2>2, <3>1 DEF With
    <3>4. Sound(n, live, With(entries, b, e))
      BY <1>3, <3>3 DEF Sound, KeysDiffer
    <3>. QED  BY <1>1, <1>3, <2>2, <3>1, <3>2, <3>4
  <2>. QED  BY <2>1, <2>2
<1>. HIDE DEF b
<1>6. Sized'
  BY <1>1, <1>2, <1>3 DEF Sized
<1>7. Buckets'
  <2>1. new_flags \subseteq DOMAIN With(entries, b, e)
    BY DEF HInv, Buckets, With
  <2>2. \A c \in live \cup {b} : With(entries, b, e)[c].key \in Int
    BY <1>5 DEF Sound
  <2>3. live \cup {b} \subseteq DOMAIN With(entries, b, e)
    BY <1>5 DEF Sound
  <2>4. new_n_buckets \in Nat /\ j \in Nat
    BY DEF HInv, Buckets
  <2>. QED  BY <1>1, <1>3, <1>5, <2>1, <2>2, <2>3, <2>4 DEF Buckets
<1>8. AtRest'
  BY <1>1, <1>5 DEF AtRest
<1>. QED  BY <1>1, <1>6, <1>7, <1>8 DEF HInv

\* An empty bucket of the old table.
LEMMA SkipHInv == HInv /\ Skip => HInv'
<1>. SUFFICES ASSUME HInv, Skip PROVE HInv'
  OBVIOUS
<1>1. /\ kpc = "rehash" /\ j < n_buckets /\ j \notin live /\ j' = j + 1
      /\ n_buckets' = n_buckets /\ size' = size /\ live' = live
      /\ entries' = entries /\ kpc' = kpc /\ new_n_buckets' = new_n_buckets
      /\ new_flags' = new_flags /\ hand' = hand
  BY DEF Skip, table
<1>2. Sized' /\ Buckets'
  BY <1>1 DEF HInv, Sized, Buckets
<1>3. j \in Nat /\ n_buckets \in Nat /\ live \subseteq Int
  BY ExpandedSize DEF HInv, Buckets
<1>4. j + 1 <= n_buckets /\ \A b \in live : j + 1 <= b
  BY <1>1, <1>3 DEF HInv, Resizing
<1>5. Resizing'
  BY <1>1, <1>4 DEF HInv, Resizing, Expanded
<1>. QED  BY <1>1, <1>2, <1>5 DEF HInv

\* An entry of the old table is taken up.
LEMMA TakeHInv == HInv /\ Take => HInv' /\ Held' = Held
<1>. SUFFICES ASSUME HInv, Take PROVE HInv' /\ Held' = Held
  OBVIOUS
<1>1. /\ kpc = "rehash" /\ j \in live /\ hand' = entries[j] /\ live' = live \ {j}
      /\ kpc' = "kick" /\ n_buckets' = n_buckets /\ size' = size
      /\ entries' = entries /\ new_n_buckets' = new_n_buckets
      /\ new_flags' = new_flags /\ j' = j
  BY DEF Take
<1>2. Sized' /\ Buckets'
  BY <1>1 DEF HInv, Sized, Buckets
<1>3. Resizing
  BY <1>1 DEF HInv
<1>4. entries[j].key \in Int /\ j < n_buckets
  <2>1. j \in 0 .. n_buckets - 1 /\ n_buckets \in Nat
    BY <1>1, ExpandedSize DEF HInv, Buckets
  <2>. QED  BY <1>1, <2>1 DEF HInv, Buckets
<1>5. \A b \in (live \ {j}) \cup new_flags : entries[b].key # entries[j].key
  BY <1>1, <1>3 DEF Resizing, KeysDiffer
<1>6. size = Cardinality(live \ {j}) + Cardinality(new_flags) + 1
  <2>1. Cardinality(live \ {j}) = Cardinality(live) - 1
    BY <1>1, LiveFinite, FS_RemoveElement
  <2>2. size = Cardinality(live) + Cardinality(new_flags) + 0
    BY <1>1, <1>3 DEF Resizing
  <2>. QED  BY <1>1, <2>1, <2>2, LiveFinite
<1>7. Resizing'
  <2>1. /\ (live \ {j}) \cap new_flags = {}
        /\ KeysDiffer((live \ {j}) \cup new_flags, entries)
        /\ j \notin live \ {j} /\ \A b \in live \ {j} : j <= b
    BY <1>3 DEF Resizing, KeysDiffer
  <2>2. Expanded' = Expanded
    BY <1>1 DEF Expanded
  <2>3. /\ new_n_buckets = Expanded /\ Sound(new_n_buckets, new_flags, entries)
        /\ j <= n_buckets
    BY <1>3 DEF Resizing
  <2>. QED  BY <1>1, <1>4, <1>5, <1>6, <2>1, <2>2, <2>3 DEF Resizing
<1>8. Held' = Held
  BY <1>1 DEF Held
<1>. QED  BY <1>1, <1>2, <1>7, <1>8 DEF HInv

\* The entry in hand is put down at a bucket that is free in the new table.
LEMMA PutDown ==
  ASSUME HInv, kpc = "kick", Put(Target)
  PROVE  /\ Target \in Nat /\ Target \notin new_flags
         /\ entries' = With(entries, Target, hand)
         /\ new_flags' = new_flags \cup {Target}
         /\ Sound(new_n_buckets, new_flags', entries')
         /\ Cardinality(new_flags') = Cardinality(new_flags) + 1
         /\ DOMAIN entries \subseteq DOMAIN entries'
         /\ \A b \in DOMAIN entries : b # Target => entries'[b] = entries[b]
         /\ Target \in DOMAIN entries' /\ entries'[Target] = hand
<1>1. /\ Resizing /\ LikePowerOfTwo(new_n_buckets)
      /\ Sound(new_n_buckets, new_flags, entries)
      /\ hand.key \in Int /\ \A b \in new_flags : entries[b].key # hand.key
  BY ExpandedSize DEF HInv, Resizing
<1>2. Cardinality(new_flags) < new_n_buckets
  <2>1. size = Cardinality(live) + Cardinality(new_flags) + 1
    BY <1>1 DEF Resizing
  <2>2. size < new_n_buckets /\ new_n_buckets \in Nat /\ size \in Nat
    BY <1>1, ExpandedSize DEF HInv, Sized, Resizing, LikePowerOfTwo
  <2>. QED  BY <2>1, <2>2, LiveFinite
<1>3. /\ entries' = With(entries, Target, hand)
      /\ new_flags' = new_flags \cup {Target}
  BY DEF Put, With
<1>4. /\ Target \in (0 .. new_n_buckets - 1) \ new_flags
      /\ Sound(new_n_buckets, new_flags \cup {Target}, With(entries, Target, hand))
  BY <1>1, <1>2, Inserted DEF Target
<1>5. Cardinality(new_flags \cup {Target}) = Cardinality(new_flags) + 1
  BY <1>4, LiveFinite, FS_AddElement
<1>. HIDE DEF Target
<1>6. /\ DOMAIN entries \subseteq DOMAIN entries'
      /\ \A b \in DOMAIN entries : b # Target => entries'[b] = entries[b]
      /\ Target \in DOMAIN entries' /\ entries'[Target] = hand
  BY <1>3 DEF With
<1>7. Target \in Nat
  BY <1>1, <1>4 DEF LikePowerOfTwo
<1>. QED  BY <1>3, <1>4, <1>5, <1>6, <1>7

\* It is put down at a bucket that holds an old entry, which is taken in hand.
LEMMA KickHInv == HInv /\ Kick => HInv' /\ Held' = Held
<1>. SUFFICES ASSUME HInv, Kick PROVE HInv' /\ Held' = Held
  OBVIOUS
<1>. DEFINE t == Target
<1>1. /\ kpc = "kick" /\ t \in live /\ Put(Target)
      /\ hand' = entries[t] /\ live' = live \ {t} /\ kpc' = kpc
      /\ n_buckets' = n_buckets /\ size' = size
      /\ new_n_buckets' = new_n_buckets /\ j' = j
  BY DEF Kick
<1>2. /\ t \in Nat /\ t \notin new_flags
      /\ new_flags' = new_flags \cup {t}
      /\ Sound(new_n_buckets, new_flags', entries')
      /\ Cardinality(new_flags') = Cardinality(new_flags) + 1
      /\ DOMAIN entries \subseteq DOMAIN entries'
      /\ \A b \in DOMAIN entries : b # t => entries'[b] = entries[b]
      /\ t \in DOMAIN entries' /\ entries'[t] = hand
  BY <1>1, PutDown
<1>. HIDE DEF t
<1>3. Resizing /\ Buckets
  BY <1>1 DEF HInv
<1>4. /\ live \subseteq DOMAIN entries /\ new_flags \subseteq DOMAIN entries
      /\ live \cap new_flags = {}
      /\ \A b \in live \cup new_flags : entries[b].key # hand.key
      /\ \A b, c \in live \cup new_flags : entries[b].key = entries[c].key => b = c
  BY <1>1, <1>3 DEF Resizing, Buckets, KeysDiffer
<1>5. \A b \in (live \ {t}) \cup new_flags : entries'[b] = entries[b]
  BY <1>2, <1>4
<1>6. Sized'
  BY <1>1 DEF HInv, Sized
<1>7. Buckets'
  <2>1. \A b \in live \ {t} : entries'[b].key \in Int
    BY <1>3, <1>5 DEF Buckets
  <2>2. /\ live \ {t} \subseteq DOMAIN entries'
        /\ new_flags \cup {t} \subseteq DOMAIN entries'
    BY <1>2, <1>4
  <2>. QED  BY <1>1, <1>2, <1>3, <2>1, <2>2 DEF Buckets
<1>8. Resizing'
  <2>1. (live \ {t}) \cap (new_flags \cup {t}) = {}
    BY <1>4
  <2>2. KeysDiffer((live \ {t}) \cup (new_flags \cup {t}), entries')
    <3>1. ASSUME NEW b \in (live \ {t}) \cup (new_flags \cup {t})
          PROVE  \/ b = t /\ entries'[b] = hand
                 \/ b \in live \cup new_flags /\ b # t /\ entries'[b] = entries[b]
      BY <1>2, <1>5
    <3>2. \A b, c \in (live \ {t}) \cup (new_flags \cup {t}) :
            entries'[b].key = entries'[c].key => b = c
      BY ONLY <3>1, <1>4
    <3>. QED  BY <3>2 DEF KeysDiffer
  <2>3. entries[t].key \in Int
    BY <1>1, <1>3 DEF Buckets
  <2>4. \A b \in (live \ {t}) \cup (new_flags \cup {t}) : entries'[b].key # entries[t].key
    <3>1. \A b \in (live \ {t}) \cup new_flags : entries[b].key # entries[t].key
      BY <1>1, <1>2, <1>4
    <3>2. hand.key # entries[t].key
      BY <1>1, <1>4
    <3>. QED  BY <1>2, <1>5, <3>1, <3>2
  <2>5. size = Cardinality(live \ {t}) + Cardinality(new_flags \cup {t}) + 1
    <3>1. Cardinality(live \ {t}) = Cardinality(live) - 1
      BY <1>1, LiveFinite, FS_RemoveElement
    <3>2. size = Cardinality(live) + Cardinality(new_flags) + 1
      BY <1>1, <1>3 DEF Resizing
    <3>. QED  BY <1>1, <1>2, <3>1, <3>2, LiveFinite
  <2>6. Expanded' = Expanded /\ new_n_buckets = Expanded
    BY <1>1, <1>3 DEF Expanded, Resizing
  <2>7. /\ j <= n_buckets /\ \A b \in live \ {t} : j <= b
        /\ j < n_buckets /\ j \notin live \ {t}
    BY <1>1, <1>3 DEF Resizing
  <2>. QED  BY <1>1, <1>2, <2>1, <2>2, <2>3, <2>4, <2>5, <2>6, <2>7 DEF Resizing
<1>9. Held' = Held
  <2>1. Held = {entries[b] : b \in live \cup new_flags} \cup {hand}
    BY <1>1 DEF Held
  <2>2. Held' = {entries'[b] : b \in (live \ {t}) \cup (new_flags \cup {t})}
                \cup {entries[t]}
    BY <1>1, <1>2 DEF Held
  <2>3. {entries'[b] : b \in (live \ {t}) \cup (new_flags \cup {t})} =
          {entries[b] : b \in (live \ {t}) \cup new_flags} \cup {hand}
    BY <1>2, <1>5
  <2>4. {entries[b] : b \in live \cup new_flags} =
          {entries[b] : b \in (live \ {t}) \cup new_flags} \cup {entries[t]}
    BY <1>1, <1>2
  <2>. QED  BY <2>1, <2>2, <2>3, <2>4
<1>. QED  BY <1>1, <1>6, <1>7, <1>8, <1>9 DEF HInv

\* It is put down at a bucket that is free in both tables.
LEMMA PlaceHInv == HInv /\ Place => HInv' /\ Held' = Held
<1>. SUFFICES ASSUME HInv, Place PROVE HInv' /\ Held' = Held
  OBVIOUS
<1>. DEFINE t == Target
<1>1. /\ kpc = "kick" /\ t \notin live /\ Put(Target)
      /\ kpc' = "rehash" /\ j' = j + 1 /\ live' = live /\ hand' = hand
      /\ n_buckets' = n_buckets /\ size' = size /\ new_n_buckets' = new_n_buckets
  BY DEF Place
<1>2. /\ t \in Nat /\ t \notin new_flags
      /\ new_flags' = new_flags \cup {t}
      /\ Sound(new_n_buckets, new_flags', entries')
      /\ Cardinality(new_flags') = Cardinality(new_flags) + 1
      /\ DOMAIN entries \subseteq DOMAIN entries'
      /\ \A b \in DOMAIN entries : b # t => entries'[b] = entries[b]
      /\ t \in DOMAIN entries' /\ entries'[t] = hand
  BY <1>1, PutDown
<1>. HIDE DEF t
<1>3. Resizing /\ Buckets
  BY <1>1 DEF HInv
<1>4. /\ live \subseteq DOMAIN entries /\ new_flags \subseteq DOMAIN entries
      /\ live \cap new_flags = {}
      /\ \A b \in live \cup new_flags : entries[b].key # hand.key
      /\ \A b, c \in live \cup new_flags : entries[b].key = entries[c].key => b = c
  BY <1>1, <1>3 DEF Resizing, Buckets, KeysDiffer
<1>5. \A b \in live \cup new_flags : b # t /\ entries'[b] = entries[b]
  BY <1>1, <1>2, <1>4
<1>6. Sized'
  BY <1>1 DEF HInv, Sized
<1>7. Buckets'
  <2>1. \A b \in live : entries'[b].key \in Int
    BY <1>3, <1>5 DEF Buckets
  <2>2. live \subseteq DOMAIN entries' /\ new_flags \cup {t} \subseteq DOMAIN entries'
    BY <1>2, <1>4
  <2>. QED  BY <1>1, <1>2, <1>3, <2>1, <2>2 DEF Buckets
<1>8. Resizing'
  <2>1. live \cap (new_flags \cup {t}) = {}
    BY <1>1, <1>4
  <2>2. KeysDiffer(live \cup (new_flags \cup {t}), entries')
    <3>1. ASSUME NEW b \in live \cup (new_flags \cup {t})
          PROVE  \/ b = t /\ entries'[b] = hand
                 \/ b \in live \cup new_flags /\ entries'[b] = entries[b]
      BY <1>2, <1>5
    <3>2. \A b, c \in live \cup (new_flags \cup {t}) :
            entries'[b].key = entries'[c].key => b = c
      BY ONLY <3>1, <1>4
    <3>. QED  BY <3>2 DEF KeysDiffer
  <2>3. size = Cardinality(live) + Cardinality(new_flags \cup {t}) + 0
    <3>1. size = Cardinality(live) + Cardinality(new_flags) + 1
      BY <1>1, <1>3 DEF Resizing
    <3>. QED  BY <1>1, <1>2, <3>1, LiveFinite
  <2>4. Expanded' = Expanded /\ new_n_buckets = Expanded
    BY <1>1, <1>3 DEF Expanded, Resizing
  <2>5. j + 1 <= n_buckets /\ \A b \in live : j + 1 <= b
    <3>1. j < n_buckets /\ j \notin live /\ \A b \in live : j <= b
      BY <1>1, <1>3 DEF Resizing
    <3>2. j \in Nat /\ n_buckets \in Nat /\ live \subseteq Int
      BY <1>3, ExpandedSize DEF HInv, Buckets
    <3>. QED  BY <3>1, <3>2
  <2>. QED  BY <1>1, <1>2, <2>1, <2>2, <2>3, <2>4, <2>5 DEF Resizing
<1>9. Held' = Held
  <2>1. Held = {entries[b] : b \in live \cup new_flags} \cup {hand}
    BY <1>1 DEF Held
  <2>2. Held' = {entries'[b] : b \in live \cup (new_flags \cup {t})}
    BY <1>1, <1>2 DEF Held
  <2>. QED  BY <1>2, <1>5, <2>1, <2>2
<1>. QED  BY <1>1, <1>6, <1>7, <1>8, <1>9 DEF HInv

\* All entries have moved: the old table is empty and the new one sound.
LEMMA ResizedHInv == HInv /\ Resized => HInv' /\ Held' = Held
<1>. SUFFICES ASSUME HInv, Resized PROVE HInv' /\ Held' = Held
  OBVIOUS
<1>1. /\ kpc = "rehash" /\ j = n_buckets /\ n_buckets' = new_n_buckets
      /\ live' = new_flags /\ kpc' = "rest" /\ size' = size /\ entries' = entries
      /\ new_n_buckets' = new_n_buckets /\ new_flags' = new_flags /\ j' = j
      /\ hand' = hand
  BY DEF Resized
<1>2. Resizing /\ Buckets /\ Sized
  BY <1>1 DEF HInv
<1>3. live = {}
  <2>1. \A b \in live : b \in 0 .. n_buckets - 1 /\ n_buckets <= b
    BY <1>1, <1>2 DEF Resizing, Buckets
  <2>2. n_buckets \in Nat
    BY <1>2, ExpandedSize
  <2>. QED  BY <2>1, <2>2
<1>4. new_n_buckets = Expanded /\ Sound(new_n_buckets, new_flags, entries)
  BY <1>2 DEF Resizing
<1>5. size = Cardinality(new_flags)
  <2>1. size = Cardinality(live) + Cardinality(new_flags) + 0
    BY <1>1, <1>2 DEF Resizing
  <2>. QED  BY <1>1, <1>3, <2>1, LiveFinite, FS_EmptySet
<1>6. Sized'
  BY <1>1, <1>2, <1>4, ExpandedSize DEF Sized
<1>7. Buckets'
  BY <1>1, <1>2, <1>4 DEF Buckets, Sound
<1>8. AtRest'
  BY <1>1, <1>4, <1>5 DEF AtRest
<1>9. Held' = Held
  <2>1. Held = {entries[b] : b \in new_flags}
    BY <1>1, <1>3 DEF Held
  <2>2. Held' = {entries[b] : b \in new_flags}
    BY <1>1 DEF Held
  <2>. QED  BY <2>1, <2>2
<1>. QED  BY <1>1, <1>6, <1>7, <1>8, <1>9 DEF HInv

\* A resize under way loses nothing and makes nothing up.
LEMMA RehashHInv == HInv /\ Rehash => HInv' /\ Held' = Held
<1>. SUFFICES ASSUME HInv, Rehash PROVE HInv' /\ Held' = Held
  OBVIOUS
<1>1. Skip => Held' = Held
  BY DEF Skip, table, Held
<1>. QED
  BY <1>1, SkipHInv, TakeHInv, KickHInv, PlaceHInv, ResizedHInv DEF Rehash

-----------------------------------------------------------------------------
(* The tokenizer                                                            *)

Token == [type : {"object", "array", "str", "prim"}, start : Nat, end : Nat, size : Nat]
Parser == [pos : Nat \ {0}, tokens : Seq(Token), toksuper : Nat, count : Nat,
           ret : {"go", "nomem", "inval", "part", "done"}]

\* The tokens fit the array and start in a text of n lexemes.
Fits(p, n, num_tokens) ==
  /\ p \in Parser
  /\ Len(p.tokens) <= num_tokens
  /\ p.toksuper <= Len(p.tokens)
  /\ \A t \in 1 .. Len(p.tokens) : p.tokens[t].start \in 1 .. n

\* And the parser counts them.
Tokens(p, n, num_tokens) ==
  /\ Fits(p, n, num_tokens)
  /\ p.ret # "nomem" => p.count = Len(p.tokens)

\* A token for the lexeme at pos is added, the others keep type and place.
Added(old, new, sym, pos, end) ==
  /\ Len(new) = Len(old) + 1
  /\ \A t \in 1 .. Len(old) : /\ new[t].type = old[t].type
                               /\ new[t].start = old[t].start
                               /\ new[t].end = old[t].end
  /\ LET t == Len(old) + 1
     IN  new[t].type = Type(sym) /\ new[t].start = pos /\ new[t].end = end

\* The token is a part of the token super.
Parted(old, new, super) ==
  /\ new[Len(old) + 1].size = 0
  /\ \A t \in 1 .. Len(old) :
       new[t].size = IF t = super THEN old[t].size + 1 ELSE old[t].size

\* The innermost open token ends.
Ended(old, new, sym, end) ==
  LET k == LastOpen(old, Len(old))
  IN  /\ k # 0 /\ old[k].type = Type(sym)
      /\ Len(new) = Len(old)
      /\ \A t \in 1 .. Len(old) :
            /\ new[t].type = old[t].type /\ new[t].start = old[t].start
            /\ new[t].end = IF t = k THEN end ELSE old[t].end
            /\ new[t].size = old[t].size

\* What reading a lexeme makes of the tokens, p before and q after it.
Read(p, q, sym) ==
  /\ q.pos = p.pos
  /\ \/ q.ret \in {"inval", "part"}
     \/ q.ret = "nomem" /\ q.tokens = p.tokens /\ q.toksuper = p.toksuper
     \/ /\ q.ret = "go"
        /\ \/ /\ sym \in Opening /\ Added(p.tokens, q.tokens, sym, p.pos, 0)
              /\ Parted(p.tokens, q.tokens, p.toksuper)
              /\ q.toksuper = Len(q.tokens)
           \/ /\ sym \in Values /\ Added(p.tokens, q.tokens, sym, p.pos, p.pos + 1)
              /\ Parted(p.tokens, q.tokens, p.toksuper)
              /\ q.toksuper = p.toksuper
           \/ /\ sym \in Closing /\ Ended(p.tokens, q.tokens, sym, p.pos + 1)
              /\ q.toksuper = LastOpen(p.tokens, LastOpen(p.tokens, Len(p.tokens)) - 1)
           \/ /\ sym \in {":", ","} /\ q.tokens = p.tokens
              /\ q.toksuper = IF sym = ":" THEN Len(p.tokens) ELSE Comma(p).toksuper

\* The innermost open token is one of those looked at, and none behind it is open.
LEMMA LastOpenIn ==
  ASSUME NEW tokens, NEW k \in Nat
  PROVE  LET m == LastOpen(tokens, k)
         IN  /\ m \in 0 .. k
             /\ m # 0 => tokens[m].end = 0
             /\ \A t \in 1 .. k : t > m => tokens[t].end # 0
<1>. DEFINE S == {0} \cup {t \in 1 .. k : tokens[t].end = 0}
            D == {k - t : t \in S}
<1>1. S \subseteq 0 .. k /\ D \subseteq Nat /\ D # {}
  OBVIOUS
<1>2. PICK d \in D : \A f \in D : d <= f
  BY <1>1, LeastExists
<1>3. PICK m \in S : d = k - m
  OBVIOUS
<1>4. \A t \in S : m >= t
  <2>. TAKE t \in S
  <2>1. d <= k - t /\ t \in 0 .. k /\ m \in 0 .. k
    BY <1>1, <1>2
  <2>. QED  BY <1>3, <2>1
<1>. HIDE DEF S
<1>5. Max(S) \in S /\ \A t \in S : Max(S) >= t
  BY <1>4 DEF Max
<1>6. LastOpen(tokens, k) = Max(S)
  BY DEF LastOpen, S
<1>7. \A t \in 1 .. k : t > Max(S) => t \notin S
  <2>. DEFINE last == Max(S)
  <2>1. last \in S /\ \A t \in S : last >= t
    BY <1>5
  <2>. HIDE DEF last
  <2>2. last \in Int
    BY <1>1, <2>1
  <2>3. \A t \in 1 .. k : t > last => t \notin S
    BY <2>1, <2>2
  <2>. QED  BY <2>3 DEF last
<1>. QED  BY <1>1, <1>5, <1>6, <1>7 DEF S

\* A token grows by one part.
LEMMA TokenGrows ==
  ASSUME NEW token \in Token
  PROVE  /\ [token EXCEPT !.size = @ + 1] \in Token
         /\ [token EXCEPT !.size = @ + 1].type = token.type
         /\ [token EXCEPT !.size = @ + 1].start = token.start
         /\ [token EXCEPT !.size = @ + 1].end = token.end
         /\ [token EXCEPT !.size = @ + 1].size = token.size + 1
BY DEF Token

\* A token ends.
LEMMA TokenEnds ==
  ASSUME NEW token \in Token, NEW pos \in Nat
  PROVE  /\ [token EXCEPT !.end = pos + 1] \in Token
         /\ [token EXCEPT !.end = pos + 1].type = token.type
         /\ [token EXCEPT !.end = pos + 1].start = token.start
         /\ [token EXCEPT !.end = pos + 1].end = pos + 1
         /\ [token EXCEPT !.end = pos + 1].size = token.size
BY DEF Token

LEMMA GrownIs ==
  ASSUME NEW tokens \in Seq(Token), NEW super \in 0 .. Len(tokens)
  PROVE  /\ Grown(tokens, super) \in Seq(Token)
         /\ Len(Grown(tokens, super)) = Len(tokens)
         /\ \A t \in 1 .. Len(tokens) :
              /\ Grown(tokens, super)[t].type = tokens[t].type
              /\ Grown(tokens, super)[t].start = tokens[t].start
              /\ Grown(tokens, super)[t].end = tokens[t].end
              /\ Grown(tokens, super)[t].size =
                   IF t = super THEN tokens[t].size + 1 ELSE tokens[t].size
<1>1. CASE super = 0
  BY <1>1 DEF Grown
<1>2. CASE super # 0
  <2>. DEFINE grown == [tokens[super] EXCEPT !.size = @ + 1]
  <2>1. super \in 1 .. Len(tokens) /\ tokens[super] \in Token
    BY <1>2, ElementOfSeq
  <2>2. /\ grown \in Token /\ grown.type = tokens[super].type
        /\ grown.start = tokens[super].start /\ grown.end = tokens[super].end
        /\ grown.size = tokens[super].size + 1
    BY ONLY <2>1, TokenGrows
  <2>3. Grown(tokens, super) = [tokens EXCEPT ![super] = grown]
    BY <1>2 DEF Grown
  <2>. HIDE DEF grown
  <2>4. /\ [tokens EXCEPT ![super] = grown] \in Seq(Token)
        /\ Len([tokens EXCEPT ![super] = grown]) = Len(tokens)
        /\ \A t \in 1 .. Len(tokens) :
             [tokens EXCEPT ![super] = grown][t] =
               IF t = super THEN grown ELSE tokens[t]
    BY <2>1, <2>2, ExceptSeq
  <2>. QED  BY <2>2, <2>3, <2>4
<1>. QED  BY <1>1, <1>2

\* Updates of the parser.
LEMMA With_ret ==
  ASSUME NEW p \in Parser, NEW v \in {"go", "nomem", "inval", "part", "done"}
  PROVE  /\ [p EXCEPT !.ret = v] \in Parser
         /\ [p EXCEPT !.ret = v].tokens = p.tokens
         /\ [p EXCEPT !.ret = v].toksuper = p.toksuper
         /\ [p EXCEPT !.ret = v].count = p.count
         /\ [p EXCEPT !.ret = v].pos = p.pos
         /\ [p EXCEPT !.ret = v].ret = v
BY DEF Parser

LEMMA With_tokens ==
  ASSUME NEW p \in Parser, NEW v \in Seq(Token)
  PROVE  /\ [p EXCEPT !.tokens = v] \in Parser
         /\ [p EXCEPT !.tokens = v].tokens = v
         /\ [p EXCEPT !.tokens = v].toksuper = p.toksuper
         /\ [p EXCEPT !.tokens = v].count = p.count
         /\ [p EXCEPT !.tokens = v].pos = p.pos
         /\ [p EXCEPT !.tokens = v].ret = p.ret
BY DEF Parser

LEMMA With_toksuper ==
  ASSUME NEW p \in Parser, NEW v \in Nat
  PROVE  /\ [p EXCEPT !.toksuper = v] \in Parser
         /\ [p EXCEPT !.toksuper = v].tokens = p.tokens
         /\ [p EXCEPT !.toksuper = v].toksuper = v
         /\ [p EXCEPT !.toksuper = v].count = p.count
         /\ [p EXCEPT !.toksuper = v].pos = p.pos
         /\ [p EXCEPT !.toksuper = v].ret = p.ret
BY DEF Parser

LEMMA With_count ==
  ASSUME NEW p \in Parser, NEW v \in Nat
  PROVE  /\ [p EXCEPT !.count = v] \in Parser
         /\ [p EXCEPT !.count = v].tokens = p.tokens
         /\ [p EXCEPT !.count = v].toksuper = p.toksuper
         /\ [p EXCEPT !.count = v].count = v
         /\ [p EXCEPT !.count = v].pos = p.pos
         /\ [p EXCEPT !.count = v].ret = p.ret
BY DEF Parser

LEMMA Counted ==
  ASSUME NEW p \in Parser
  PROVE  /\ [p EXCEPT !.count = @ + 1] \in Parser
         /\ [p EXCEPT !.count = @ + 1].tokens = p.tokens
         /\ [p EXCEPT !.count = @ + 1].toksuper = p.toksuper
         /\ [p EXCEPT !.count = @ + 1].count = p.count + 1
         /\ [p EXCEPT !.count = @ + 1].pos = p.pos
         /\ [p EXCEPT !.count = @ + 1].ret = p.ret
BY DEF Parser

LEMMA With_pos ==
  ASSUME NEW p \in Parser, NEW v \in Nat \ {0}
  PROVE  /\ [p EXCEPT !.pos = v] \in Parser
         /\ [p EXCEPT !.pos = v].tokens = p.tokens
         /\ [p EXCEPT !.pos = v].toksuper = p.toksuper
         /\ [p EXCEPT !.pos = v].count = p.count
         /\ [p EXCEPT !.pos = v].pos = v
         /\ [p EXCEPT !.pos = v].ret = p.ret
BY DEF Parser

LEMMA ParserTypes ==
  ASSUME NEW p \in Parser
  PROVE  /\ p.pos \in Nat \ {0} /\ p.tokens \in Seq(Token) /\ p.toksuper \in Nat
         /\ p.count \in Nat /\ p.ret \in {"go", "nomem", "inval", "part", "done"}
         /\ Len(p.tokens) \in Nat
BY LenProperties DEF Parser

\* A token is allocated, if there is a free one.
LEMMA AllocatedIs ==
  ASSUME NEW n \in Nat, NEW num_tokens \in Nat, NEW p, Fits(p, n, num_tokens),
         p.pos \in 1 .. n, p.ret = "go", NEW end \in Nat,
         NEW sym, Type(sym) \in {"object", "array", "str", "prim"}
  PROVE  LET q == Allocated(p, sym, end, num_tokens)
         IN  /\ Fits(q, n, num_tokens)
             /\ q.count = p.count /\ q.pos = p.pos /\ q.toksuper = p.toksuper
             /\ \/ /\ q.ret = "go" /\ Added(p.tokens, q.tokens, sym, p.pos, end)
                   /\ Parted(p.tokens, q.tokens, p.toksuper)
                \/ q.ret = "nomem" /\ q.tokens = p.tokens
<1>. DEFINE q == Allocated(p, sym, end, num_tokens)
            token == [type |-> Type(sym), start |-> p.pos, end |-> end, size |-> 0]
            grown == Grown(p.tokens, p.toksuper)
            more == Append(grown, token)
<1>1. /\ p \in Parser /\ p.tokens \in Seq(Token) /\ Len(p.tokens) \in Nat
      /\ p.toksuper \in 0 .. Len(p.tokens) /\ p.pos \in Nat
  BY ParserTypes DEF Fits
<1>2. CASE Len(p.tokens) >= num_tokens
  <2>1. q = [p EXCEPT !.ret = "nomem"]
    BY <1>2 DEF Allocated
  <2>. HIDE DEF q
  <2>2. /\ q \in Parser /\ q.pos = p.pos /\ q.count = p.count
        /\ q.toksuper = p.toksuper /\ q.ret = "nomem" /\ q.tokens = p.tokens
    BY <1>1, <2>1, With_ret
  <2>3. Fits(q, n, num_tokens)
    BY <2>2 DEF Fits
  <2>. QED  BY <2>2, <2>3 DEF q
<1>3. CASE ~(Len(p.tokens) >= num_tokens)
  <2>1. q = [p EXCEPT !.tokens = more]
    BY <1>3 DEF Allocated
  <2>2. /\ token \in Token /\ token.type = Type(sym) /\ token.start = p.pos
        /\ token.end = end /\ token.size = 0
    BY <1>1 DEF Token
  <2>3. /\ grown \in Seq(Token) /\ Len(grown) = Len(p.tokens)
        /\ \A t \in 1 .. Len(p.tokens) : /\ grown[t].type = p.tokens[t].type
                                         /\ grown[t].start = p.tokens[t].start
                                         /\ grown[t].end = p.tokens[t].end
                                         /\ grown[t].size = IF t = p.toksuper
                                                            THEN p.tokens[t].size + 1
                                                            ELSE p.tokens[t].size
    BY <1>1, GrownIs
  <2>. HIDE DEF q, token, grown
  <2>4. /\ more \in Seq(Token) /\ Len(more) = Len(p.tokens) + 1
        /\ \A t \in 1 .. Len(p.tokens) : more[t] = grown[t]
        /\ more[Len(p.tokens) + 1] = token
    BY <2>2, <2>3, AppendProperties
  <2>. HIDE DEF more
  <2>5. \A t \in 1 .. Len(p.tokens) + 1 : more[t].start \in 1 .. n
    <3>. TAKE t \in 1 .. Len(p.tokens) + 1
    <3>1. t \in 1 .. Len(p.tokens) \/ t = Len(p.tokens) + 1
      BY <1>1
    <3>2. p.tokens[t].start \in 1 .. n \/ t = Len(p.tokens) + 1
      BY <3>1 DEF Fits
    <3>. QED  BY <2>2, <2>3, <2>4, <3>1, <3>2
  <2>6. Len(p.tokens) + 1 <= num_tokens
    BY <1>1, <1>3
  <2>7. /\ q \in Parser /\ q.pos = p.pos /\ q.count = p.count
        /\ q.toksuper = p.toksuper /\ q.ret = p.ret /\ q.tokens = more
    BY <1>1, <2>1, <2>4, With_tokens
  <2>8. Fits(q, n, num_tokens)
    BY <1>1, <2>4, <2>5, <2>6, <2>7 DEF Fits
  <2>9. Added(p.tokens, more, sym, p.pos, end)
    BY <2>2, <2>3, <2>4 DEF Added
  <2>10. Parted(p.tokens, more, p.toksuper)
    BY <2>2, <2>3, <2>4 DEF Parted
  <2>. QED  BY <2>7, <2>8, <2>9, <2>10 DEF q
<1>. QED  BY <1>2, <1>3

LEMMA TypeIs ==
  ASSUME NEW sym \in Opening \cup Closing \cup Values
  PROVE  Type(sym) \in {"object", "array", "str", "prim"}
BY DEF Type, Opening, Closing, Values

\* An error or the end of the text.
LEMMA RetKeeps ==
  ASSUME NEW n \in Nat, NEW num_tokens \in Nat, NEW p, Tokens(p, n, num_tokens),
         p.ret = "go", NEW v \in {"inval", "part", "done"},
         NEW q, q = [p EXCEPT !.ret = v]
  PROVE  /\ Tokens(q, n, num_tokens)
         /\ q.ret = v /\ q.pos = p.pos /\ q.tokens = p.tokens
<1>1. p \in Parser /\ p.count = Len(p.tokens)
  BY DEF Tokens, Fits
<1>2. v \in {"go", "nomem", "inval", "part", "done"}
  OBVIOUS
<1>3. /\ q \in Parser /\ q.tokens = p.tokens /\ q.toksuper = p.toksuper
      /\ q.count = p.count /\ q.ret = v /\ q.pos = p.pos
  <2>. DEFINE o == [p EXCEPT !.ret = v]
  <2>1. /\ o \in Parser /\ o.tokens = p.tokens /\ o.toksuper = p.toksuper
        /\ o.count = p.count /\ o.ret = v /\ o.pos = p.pos
    BY <1>1, <1>2, With_ret, ZenonT(40)
  <2>2. q = o
    OBVIOUS
  <2>. HIDE DEF o
  <2>. QED  BY <2>1, <2>2
<1>4. Tokens(q, n, num_tokens)
  BY <1>1, <1>3 DEF Tokens, Fits
<1>. QED  BY <1>3, <1>4

LEMMA OpenKeeps ==
  ASSUME NEW n \in Nat, NEW num_tokens \in Nat, NEW p, Tokens(p, n, num_tokens),
         p.ret = "go", p.pos \in 1 .. n, NEW sym \in Opening
  PROVE  LET o == Open(p, sym, num_tokens)
         IN  Tokens(o, n, num_tokens) /\ Read(p, o, sym)
<1>. DEFINE counted == [p EXCEPT !.count = @ + 1]
            q == Allocated(counted, sym, 0, num_tokens)
<1>1. p \in Parser /\ Len(p.tokens) \in Nat /\ p.count = Len(p.tokens)
  BY ParserTypes DEF Tokens, Fits
<1>2. /\ counted \in Parser /\ counted.tokens = p.tokens
      /\ counted.toksuper = p.toksuper /\ counted.count = p.count + 1
      /\ counted.pos = p.pos /\ counted.ret = p.ret
  BY <1>1, Counted
<1>3. Type(sym) \in {"object", "array", "str", "prim"}
  BY TypeIs
<1>. HIDE DEF counted
<1>4. /\ Fits(q, n, num_tokens) /\ q.count = p.count + 1 /\ q.pos = p.pos
      /\ q.toksuper = p.toksuper
      /\ \/ /\ q.ret = "go" /\ Added(p.tokens, q.tokens, sym, p.pos, 0)
            /\ Parted(p.tokens, q.tokens, p.toksuper)
         \/ q.ret = "nomem" /\ q.tokens = p.tokens
  <2>1. Fits(counted, n, num_tokens)
    BY <1>2 DEF Tokens, Fits
  <2>2. counted.pos \in 1 .. n /\ counted.ret = "go" /\ 0 \in Nat
    BY <1>2
  <2>. QED  BY <1>2, <1>3, <2>1, <2>2, AllocatedIs
<1>5. Open(p, sym, num_tokens) =
        IF q.ret = "go" THEN [q EXCEPT !.toksuper = Len(q.tokens)] ELSE q
  BY DEF Open, counted
<1>. HIDE DEF q
<1>6. CASE q.ret = "go"
  <2>. DEFINE o == [q EXCEPT !.toksuper = Len(q.tokens)]
  <2>1. q \in Parser /\ Len(q.tokens) \in Nat
    BY <1>4, ParserTypes DEF Fits
  <2>2. /\ o \in Parser /\ o.tokens = q.tokens /\ o.toksuper = Len(q.tokens)
        /\ o.count = q.count /\ o.ret = q.ret /\ o.pos = q.pos
    BY <2>1, With_toksuper
  <2>3. Open(p, sym, num_tokens) = o
    BY <1>5, <1>6
  <2>. HIDE DEF o
  <2>4. Read(p, o, sym)
    BY <1>4, <1>6, <2>2 DEF Read
  <2>. QED  BY <1>1, <1>4, <1>6, <2>1, <2>2, <2>3, <2>4 DEF Tokens, Fits, Added
<1>7. CASE q.ret # "go"
  <2>1. Open(p, sym, num_tokens) = q /\ q.ret = "nomem"
    BY <1>4, <1>5, <1>7
  <2>2. Read(p, q, sym)
    BY <1>4, <2>1 DEF Read
  <2>. QED  BY <1>1, <1>4, <2>1, <2>2 DEF Tokens
<1>. QED  BY <1>6, <1>7

LEMMA CloseKeeps ==
  ASSUME NEW n \in Nat, NEW num_tokens \in Nat, NEW p, Tokens(p, n, num_tokens),
         p.ret = "go", NEW sym \in Closing
  PROVE  Tokens(Close(p, sym), n, num_tokens) /\ Read(p, Close(p, sym), sym)
<1>. DEFINE k == LastOpen(p.tokens, Len(p.tokens))
            super == LastOpen(p.tokens, k - 1)
            ended == [p.tokens[k] EXCEPT !.end = p.pos + 1]
            tokens == [p.tokens EXCEPT ![k] = ended]
            q == [p EXCEPT !.tokens = tokens]
            r == [q EXCEPT !.toksuper = super]
<1>1. /\ p \in Parser /\ p.tokens \in Seq(Token) /\ Len(p.tokens) \in Nat
      /\ p.count = Len(p.tokens) /\ p.pos \in Nat
  BY ParserTypes DEF Tokens, Fits
<1>2. k \in 0 .. Len(p.tokens)
  BY <1>1, LastOpenIn
<1>. HIDE DEF k
<1>3. CASE k = 0 \/ p.tokens[k].type # Type(sym)
  <2>1. Close(p, sym) = [p EXCEPT !.ret = "inval"]
    BY <1>3 DEF Close, k
  <2>2. /\ Tokens(Close(p, sym), n, num_tokens)
        /\ Close(p, sym).ret = "inval" /\ Close(p, sym).pos = p.pos
    BY <2>1, RetKeeps
  <2>. QED  BY <2>2 DEF Read
<1>4. CASE ~(k = 0 \/ p.tokens[k].type # Type(sym))
  <2>1. k \in 1 .. Len(p.tokens) /\ k - 1 \in Nat
    BY <1>1, <1>2, <1>4
  <2>2. super \in 0 .. k - 1
    BY <2>1, LastOpenIn
  <2>3. super \in Nat /\ super <= Len(p.tokens)
    BY <1>1, <2>1, <2>2
  <2>4. p.tokens[k] \in Token
    BY <1>1, <2>1, ElementOfSeq
  <2>5. /\ ended \in Token /\ ended.type = p.tokens[k].type
        /\ ended.start = p.tokens[k].start /\ ended.end = p.pos + 1
        /\ ended.size = p.tokens[k].size
    BY <1>1, <2>4, TokenEnds
  <2>. HIDE DEF super, ended
  <2>6. /\ tokens \in Seq(Token) /\ Len(tokens) = Len(p.tokens)
        /\ \A t \in 1 .. Len(p.tokens) :
             tokens[t] = IF t = k THEN ended ELSE p.tokens[t]
    BY <1>1, <2>1, <2>5, ExceptSeq
  <2>7. Close(p, sym) = [p EXCEPT !.tokens[k].end = p.pos + 1, !.toksuper = super]
    BY <1>4 DEF Close, k, super
  <2>8. [p EXCEPT !.tokens[k].end = p.pos + 1, !.toksuper = super] = r
    BY <1>1 DEF Parser, ended
  <2>. HIDE DEF tokens
  <2>9. /\ q \in Parser /\ q.tokens = tokens /\ q.count = p.count /\ q.ret = p.ret
        /\ q.pos = p.pos
    BY <1>1, <2>6, With_tokens
  <2>. HIDE DEF q
  <2>10. /\ r \in Parser /\ r.tokens = q.tokens /\ r.toksuper = super
         /\ r.count = q.count /\ r.ret = q.ret /\ r.pos = q.pos
    BY <2>3, <2>9, With_toksuper
  <2>11. \A t \in 1 .. Len(tokens) : tokens[t].start \in 1 .. n
    BY <2>5, <2>6 DEF Tokens, Fits
  <2>12. Tokens(r, n, num_tokens)
    <3>. HIDE DEF r
    <3>. QED  BY <1>1, <2>3, <2>6, <2>9, <2>10, <2>11 DEF Tokens, Fits
  <2>13. Ended(p.tokens, tokens, sym, p.pos + 1)
    BY <1>4, <2>1, <2>5, <2>6 DEF Ended, k
  <2>14. Read(p, r, sym)
    <3>. HIDE DEF r
    <3>1. r.toksuper = LastOpen(p.tokens, LastOpen(p.tokens, Len(p.tokens)) - 1)
      BY <2>10 DEF super, k
    <3>. QED  BY <2>9, <2>10, <2>13, <3>1 DEF Read
  <2>. QED  BY <2>7, <2>8, <2>12, <2>14
<1>. QED  BY <1>3, <1>4

LEMMA CommaKeeps ==
  ASSUME NEW n \in Nat, NEW num_tokens \in Nat, NEW p, Tokens(p, n, num_tokens),
         p.ret = "go"
  PROVE  Tokens(Comma(p), n, num_tokens) /\ Read(p, Comma(p), ",")
<1>. DEFINE k == LastOpen(p.tokens, Len(p.tokens))
            q == [p EXCEPT !.toksuper = k]
<1>1. p \in Parser /\ Len(p.tokens) \in Nat
  BY ParserTypes DEF Tokens, Fits
<1>2. k \in 0 .. Len(p.tokens)
  BY <1>1, LastOpenIn
<1>3. Comma(p) = q \/ Comma(p) = p
  BY DEF Comma
<1>. DEFINE c == Comma(p)
<1>. HIDE DEF k, c
<1>4. /\ q \in Parser /\ q.tokens = p.tokens /\ q.toksuper = k
      /\ q.count = p.count /\ q.ret = p.ret /\ q.pos = p.pos
  BY <1>1, <1>2, With_toksuper
<1>. HIDE DEF q
<1>5. Tokens(q, n, num_tokens)
  BY <1>1, <1>2, <1>4 DEF Tokens, Fits
<1>6. /\ Tokens(c, n, num_tokens) /\ c.tokens = p.tokens
      /\ c.pos = p.pos /\ c.ret = "go"
  BY <1>3, <1>4, <1>5 DEF c
<1>7. Read(p, c, ",")
  BY <1>6, Zenon DEF Read, c
<1>. QED  BY <1>6, <1>7 DEF c

LEMMA ColonKeeps ==
  ASSUME NEW n \in Nat, NEW num_tokens \in Nat, NEW p, Tokens(p, n, num_tokens),
         p.ret = "go"
  PROVE  LET q == [p EXCEPT !.toksuper = Len(p.tokens)]
         IN  Tokens(q, n, num_tokens) /\ Read(p, q, ":")
<1>. DEFINE q == [p EXCEPT !.toksuper = Len(p.tokens)]
<1>1. p \in Parser /\ Len(p.tokens) \in Nat
  BY ParserTypes DEF Tokens, Fits
<1>2. /\ q \in Parser /\ q.tokens = p.tokens /\ q.toksuper = Len(p.tokens)
      /\ q.count = p.count /\ q.ret = p.ret /\ q.pos = p.pos
  BY <1>1, With_toksuper
<1>. HIDE DEF q
<1>3. Tokens(q, n, num_tokens) /\ Read(p, q, ":")
  BY <1>1, <1>2 DEF Tokens, Fits, Read
<1>. QED  BY <1>3 DEF q

LEMMA ValueKeeps ==
  ASSUME NEW n \in Nat, NEW num_tokens \in Nat, NEW p, Tokens(p, n, num_tokens),
         p.ret = "go", p.pos \in 1 .. n, NEW sym \in Values \cup {"bad", "cut"}
  PROVE  LET o == Value(p, sym, num_tokens)
         IN  Tokens(o, n, num_tokens) /\ Read(p, o, sym)
<1>. DEFINE q == Allocated(p, sym, p.pos + 1, num_tokens)
            c == [q EXCEPT !.count = @ + 1]
<1>1. /\ p \in Parser /\ Len(p.tokens) \in Nat
      /\ p.count = Len(p.tokens) /\ p.pos + 1 \in Nat
  BY ParserTypes DEF Tokens, Fits
<1>2. CASE sym \in {"bad", "cut"}
  <2>1. PICK v \in {"inval", "part"} : Value(p, sym, num_tokens) = [p EXCEPT !.ret = v]
    BY <1>2 DEF Value
  <2>. DEFINE o == Value(p, sym, num_tokens)
  <2>2. Tokens(o, n, num_tokens) /\ o.ret = v /\ o.pos = p.pos
    BY <2>1, RetKeeps
  <2>. HIDE DEF o
  <2>3. Read(p, o, sym)
    BY <2>2 DEF Read
  <2>. QED  BY <2>2, <2>3 DEF o
<1>3. CASE sym \in Values
  <2>1. Type(sym) \in {"object", "array", "str", "prim"}
    BY <1>3, TypeIs
  <2>2. /\ Fits(q, n, num_tokens) /\ q.count = p.count /\ q.pos = p.pos
        /\ q.toksuper = p.toksuper
        /\ \/ /\ q.ret = "go" /\ Added(p.tokens, q.tokens, sym, p.pos, p.pos + 1)
              /\ Parted(p.tokens, q.tokens, p.toksuper)
           \/ q.ret = "nomem" /\ q.tokens = p.tokens
    <3>1. Fits(p, n, num_tokens)
      BY DEF Tokens
    <3>2. PICK end \in Nat : end = p.pos + 1
      BY <1>1
    <3>3. q = Allocated(p, sym, end, num_tokens)
      BY <3>2
    <3>. HIDE DEF q
    <3>. QED  BY <2>1, <3>1, <3>2, <3>3, AllocatedIs
  <2>3. Value(p, sym, num_tokens) = IF q.ret = "go" THEN c ELSE q
    BY <1>3 DEF Value, Values
  <2>. HIDE DEF q
  <2>4. q \in Parser
    BY <2>2 DEF Fits
  <2>5. /\ c \in Parser /\ c.tokens = q.tokens /\ c.toksuper = q.toksuper
        /\ c.count = q.count + 1 /\ c.ret = q.ret /\ c.pos = q.pos
    BY <2>4, Counted
  <2>. HIDE DEF c
  <2>6. CASE q.ret = "go"
    <3>1. Read(p, c, sym)
      BY <1>3, <2>2, <2>5, <2>6 DEF Read
    <3>. QED  BY <1>1, <2>2, <2>3, <2>5, <2>6, <3>1 DEF Tokens, Fits, Added
  <2>7. CASE q.ret # "go"
    <3>1. Read(p, q, sym)
      BY <2>2, <2>7 DEF Read
    <3>. QED  BY <1>1, <2>2, <2>3, <2>7, <3>1 DEF Tokens
  <2>. QED  BY <2>6, <2>7
<1>. QED  BY <1>2, <1>3

\* One turn of the loop of jsmn_parse.
LEMMA LexemeKeeps ==
  ASSUME NEW n \in Nat, NEW num_tokens \in Nat, NEW p, Tokens(p, n, num_tokens),
         p.ret = "go", p.pos \in 1 .. n, NEW sym \in Symbols
  PROVE  \E q : /\ Read(p, q, sym)
                /\ LET o == Lexeme(p, sym, num_tokens)
                   IN  /\ Tokens(o, n, num_tokens)
                       /\ o.ret = q.ret /\ o.tokens = q.tokens
                       /\ o.toksuper = q.toksuper
                       /\ o.pos = IF q.ret = "go" THEN p.pos + 1 ELSE p.pos
<1>. DEFINE q == CASE sym \in Opening -> Open(p, sym, num_tokens)
                   [] sym \in Closing -> Close(p, sym)
                   [] sym = ":" -> [p EXCEPT !.toksuper = Len(p.tokens)]
                   [] sym = "," -> Comma(p)
                   [] OTHER -> Value(p, sym, num_tokens)
            m == [q EXCEPT !.pos = @ + 1]
<1>1. Tokens(q, n, num_tokens) /\ Read(p, q, sym)
  <2>1. CASE sym \in Opening
    <3>1. q = Open(p, sym, num_tokens)
      BY <2>1 DEF Opening, Closing
    <3>. QED  BY <2>1, <3>1, OpenKeeps
  <2>2. CASE sym \in Closing
    BY <2>2, CloseKeeps DEF Opening, Closing
  <2>3. CASE sym = ":"
    BY <2>3, ColonKeeps DEF Opening, Closing
  <2>4. CASE sym = ","
    BY <2>4, CommaKeeps DEF Opening, Closing
  <2>5. CASE sym \in Values \cup {"bad", "cut"}
    BY <2>5, ValueKeeps DEF Opening, Closing, Values
  <2>. QED  BY <2>1, <2>2, <2>3, <2>4, <2>5 DEF Symbols
<1>2. Lexeme(p, sym, num_tokens) = IF q.ret = "go" THEN m ELSE q
  BY DEF Lexeme
<1>. HIDE DEF q
<1>3. q \in Parser /\ q.pos + 1 \in Nat \ {0}
  BY <1>1, ParserTypes DEF Tokens, Fits
<1>4. /\ m \in Parser /\ m.tokens = q.tokens /\ m.toksuper = q.toksuper
      /\ m.count = q.count /\ m.ret = q.ret /\ m.pos = q.pos + 1
  BY <1>3, With_pos
<1>. HIDE DEF m
<1>5. q.pos = p.pos
  BY <1>1 DEF Read
<1>. QED  BY <1>1, <1>2, <1>4, <1>5 DEF Tokens, Fits

\* The end of the text, and a further call of jsmn_parse.
LEMMA AtEndKeeps ==
  ASSUME NEW n \in Nat, NEW num_tokens \in Nat, NEW p, Tokens(p, n, num_tokens),
         p.ret = "go"
  PROVE  /\ Tokens(AtEnd(p), n, num_tokens)
         /\ AtEnd(p).pos = p.pos /\ AtEnd(p).tokens = p.tokens
         /\ AtEnd(p).ret =
              IF LastOpen(p.tokens, Len(p.tokens)) = 0 THEN "done" ELSE "part"
<1>. DEFINE v == IF LastOpen(p.tokens, Len(p.tokens)) = 0 THEN "done" ELSE "part"
<1>1. v \in {"inval", "part", "done"} /\ AtEnd(p) = [p EXCEPT !.ret = v]
  BY DEF AtEnd
<1>. HIDE DEF v
<1>2. /\ Tokens(AtEnd(p), n, num_tokens)
      /\ AtEnd(p).pos = p.pos /\ AtEnd(p).tokens = p.tokens /\ AtEnd(p).ret = v
  BY <1>1, RetKeeps
<1>. QED  BY <1>2 DEF v

LEMMA CalledKeeps ==
  ASSUME NEW n \in Nat, NEW num_tokens \in Nat, NEW more \in Nat, num_tokens <= more,
         NEW p, Tokens(p, n, num_tokens)
  PROVE  /\ Tokens(Called(p), n, more)
         /\ Called(p).pos = p.pos /\ Called(p).tokens = p.tokens
         /\ Called(p).ret = "go" /\ Called(p).toksuper = p.toksuper
<1>. DEFINE q == [p EXCEPT !.ret = "go"]
            c == [q EXCEPT !.count = Len(p.tokens)]
<1>1. p \in Parser /\ Len(p.tokens) \in Nat
  BY ParserTypes DEF Tokens, Fits
<1>2. /\ q \in Parser /\ q.tokens = p.tokens /\ q.toksuper = p.toksuper
      /\ q.pos = p.pos /\ q.ret = "go"
  BY <1>1, With_ret
<1>3. Called(p) = c
  BY <1>1 DEF Called, Parser
<1>. HIDE DEF q
<1>4. /\ c \in Parser /\ c.tokens = q.tokens /\ c.toksuper = q.toksuper
      /\ c.count = Len(p.tokens) /\ c.pos = q.pos /\ c.ret = q.ret
  BY <1>1, <1>2, With_count
<1>. HIDE DEF c
<1>. QED  BY <1>1, <1>2, <1>3, <1>4 DEF Tokens, Fits

\* Before the first lexeme there is no token.
LEMMA InitTokens ==
  ASSUME NEW n \in Nat, NEW num_tokens \in Nat
  PROVE  Tokens(jsmn_init, n, num_tokens)
<1>1. jsmn_init.tokens \in Seq(Token) /\ Len(jsmn_init.tokens) = 0
  BY EmptySeq DEF jsmn_init
<1>. QED  BY <1>1 DEF jsmn_init, Tokens, Fits, Parser

-----------------------------------------------------------------------------
(* What the tokenizer has seen of the brackets                              *)

\* What Depth(text) is at n, from what it is before.
DeeperAfter(text, d, n) ==
  IF n = 1 THEN 0 ELSE d[n - 1] + Deeper(text[n - 1].sym)

\* The recursion of Depth ends.
LEMMA DepthEnds ==
  ASSUME NEW text, Len(text) \in Nat
  PROVE  Depth(text) = [n \in 1 .. Len(text) + 1 |-> DeeperAfter(text, Depth(text), n)]
<1>. DEFINE Good(k) == \E d : d = [n \in 1 .. k + 1 |-> DeeperAfter(text, d, n)]
            Bad == {k \in Nat : ~Good(k)}
<1>1. Good(0)
  <2>. DEFINE d == [n \in 1 .. 0 + 1 |-> 0]
  <2>1. d = [n \in 1 .. 0 + 1 |-> DeeperAfter(text, d, n)]
    BY DEF DeeperAfter
  <2>. QED  BY <2>1
<1>2. ASSUME NEW k \in Nat, Good(k) PROVE Good(k + 1)
  <2>1. PICK d : d = [n \in 1 .. k + 1 |-> DeeperAfter(text, d, n)]
    BY <1>2
  <2>. DEFINE g == [n \in 1 .. k + 1 + 1 |-> DeeperAfter(text, d, n)]
  <2>2. ASSUME NEW n \in 1 .. k + 1 PROVE g[n] = d[n]
    <3>1. n \in 1 .. k + 1 + 1
      OBVIOUS
    <3>2. g[n] = DeeperAfter(text, d, n)
      BY <3>1
    <3>3. d[n] = DeeperAfter(text, d, n)
      BY <2>1
    <3>. QED  BY <3>2, <3>3
  <2>3. ASSUME NEW n \in 1 .. k + 1 + 1
        PROVE  DeeperAfter(text, d, n) = DeeperAfter(text, g, n)
    <3>. HIDE DEF g
    <3>1. CASE n = 1
      BY <3>1 DEF DeeperAfter
    <3>2. CASE n # 1
      <4>1. n - 1 \in 1 .. k + 1
        BY <3>2
      <4>2. g[n - 1] = d[n - 1]
        BY <4>1, <2>2
      <4>. QED  BY <4>2 DEF DeeperAfter
    <3>. QED  BY <3>1, <3>2
  <2>4. g = [n \in 1 .. k + 1 + 1 |-> DeeperAfter(text, g, n)]
    <3>1. [n \in 1 .. k + 1 + 1 |-> DeeperAfter(text, d, n)] =
          [n \in 1 .. k + 1 + 1 |-> DeeperAfter(text, g, n)]
      <4>. HIDE DEF g
      <4>. QED  BY <2>3, Zenon
    <3>. QED  BY <3>1, Zenon
  <2>. QED  BY <2>4, Zenon
<1>3. Bad = {}
  <2>. SUFFICES ASSUME Bad # {} PROVE FALSE
    OBVIOUS
  <2>1. PICK k \in Bad : \A m \in Bad : k <= m
    <3>1. Bad \in SUBSET Nat
      OBVIOUS
    <3>. HIDE DEF Bad
    <3>. QED  BY <3>1, LeastExists
  <2>. HIDE DEF Good
  <2>2. k # 0
    BY <1>1
  <2>3. k - 1 \in Nat /\ Good(k - 1)
    BY <2>1, <2>2
  <2>4. Good(k - 1 + 1)
    BY <2>3, <1>2
  <2>. QED  BY <2>1, <2>4
<1>4. Good(Len(text))
  <2>. HIDE DEF Good
  <2>. QED  BY <1>3
<1>. DEFINE depth == CHOOSE d : d = [n \in 1 .. Len(text) + 1 |->
                                       DeeperAfter(text, d, n)]
<1>5. Depth(text) = depth
  BY DEF Depth, DeeperAfter
<1>6. depth = [n \in 1 .. Len(text) + 1 |-> DeeperAfter(text, depth, n)]
  BY <1>4, Zenon
<1>. QED  BY <1>5, <1>6

\* The depth at the start is 0, and each lexeme adds what it does to it.
LEMMA DepthSteps ==
  ASSUME NEW text, Len(text) \in Nat
  PROVE  /\ DOMAIN Depth(text) = 1 .. Len(text) + 1
         /\ Depth(text)[1] = 0
         /\ \A n \in 1 .. Len(text) :
              Depth(text)[n + 1] = Depth(text)[n] + Deeper(text[n].sym)
         /\ \A n \in 1 .. Len(text) + 1 : Depth(text)[n] \in Int
<1>. DEFINE d == Depth(text)
<1>1. d = [n \in 1 .. Len(text) + 1 |-> DeeperAfter(text, d, n)]
  BY DepthEnds
<1>. HIDE DEF d
<1>2. \A n \in 1 .. Len(text) + 1 : d[n] = DeeperAfter(text, d, n)
  BY <1>1
<1>3. DOMAIN d = 1 .. Len(text) + 1
  BY <1>1
<1>4. d[1] = 0
  BY <1>2 DEF DeeperAfter
<1>5. ASSUME NEW n \in 1 .. Len(text)
      PROVE  d[n + 1] = d[n] + Deeper(text[n].sym)
  <2>1. n + 1 \in 1 .. Len(text) + 1 /\ n + 1 # 1 /\ n + 1 - 1 = n
    OBVIOUS
  <2>. QED  BY <1>2, <2>1 DEF DeeperAfter
<1>6. \A n \in 1 .. Len(text) + 1 : d[n] \in Int
  <2>. DEFINE Bad == {n \in Nat : n \in 1 .. Len(text) + 1 /\ d[n] \notin Int}
  <2>. SUFFICES ASSUME Bad # {} PROVE FALSE
    OBVIOUS
  <2>1. PICK n \in Bad : \A m \in Bad : n <= m
    <3>1. Bad \in SUBSET Nat
      OBVIOUS
    <3>. HIDE DEF Bad
    <3>. QED  BY <3>1, LeastExists
  <2>2. n \in 1 .. Len(text) + 1 /\ d[n] \notin Int /\ n # 1
    BY <1>4, <2>1
  <2>3. n - 1 \in 1 .. Len(text) /\ n - 1 + 1 = n
    BY <2>2
  <2>4. d[n - 1] \in Int
    BY <2>1, <2>3
  <2>5. Deeper(text[n - 1].sym) \in Int
    BY DEF Deeper
  <2>. QED  BY <1>5, <2>2, <2>3, <2>4, <2>5
<1>. QED  BY <1>3, <1>4, <1>5, <1>6 DEF d

\* Where the first k tokens leave the text at depth v: inside of the last of them
\* that is open.
Level(tokens, d, k, v) ==
  \/ v = 0 /\ \A t \in 1 .. k : tokens[t].end # 0
  \/ \E u \in 1 .. k : /\ tokens[u].end = 0 /\ v = d[tokens[u].start] + 1
                       /\ \A t \in u + 1 .. k : tokens[t].end # 0

\* A token ends behind the bracket k; between the brackets the text is deeper than
\* in front of the first one, and behind the second one it is where it was.
Closed(token, d, k, text) ==
  /\ token.end = k + 1
  /\ Type(text[k].sym) = token.type
  /\ d[k + 1] = d[token.start]
  /\ \A l \in token.start .. k - 1 : d[l + 1] > d[token.start]

\* A token that starts before pos; behind an open bracket the text is deeper than in
\* front of it.
Placed(token, d, pos, text) ==
  /\ token.start \in 1 .. pos - 1
  /\ IsToken(text[token.start])
  /\ token.type = Type(text[token.start].sym)
  /\ text[token.start].sym \in Values => token.end = token.start + 1
  /\ token.end = 0 => /\ text[token.start].sym \in Opening
                      /\ \A l \in token.start .. pos - 1 : d[l + 1] > d[token.start]
  /\ token.end # 0 /\ text[token.start].sym \in Opening =>
       \E k \in token.start .. pos - 1 : Closed(token, d, k, text)

\* What tokens say of the text before pos.
Scanned(tokens, d, pos, text) ==
  /\ pos \in 1 .. Len(text) + 1
  /\ \A n \in 1 .. pos - 1 : text[n].sym \notin {"bad", "cut"}
  /\ \A n \in 1 .. pos : d[n] >= 0
  /\ \A t \in 1 .. Len(tokens) : Placed(tokens[t], d, pos, text)
  /\ \A s, t \in 1 .. Len(tokens) : s < t => tokens[s].start < tokens[t].start
  /\ \A n \in 1 .. pos - 1 :
       text[n].sym \in Opening => \E t \in 1 .. Len(tokens) : tokens[t].start = n
  /\ Level(tokens, d, Len(tokens), d[pos])
  /\ \A t \in 1 .. Len(tokens) :
       tokens[t].end = 0 => Level(tokens, d, t - 1, d[tokens[t].start])

\* The first k tokens start at the same places and the same of them are open.
SamePlaces(old, new, k) ==
  \A t \in 1 .. k : /\ new[t].start = old[t].start
                    /\ new[t].end = 0 <=> old[t].end = 0

LEMMA LevelSame ==
  ASSUME NEW k \in Int, NEW d, NEW v, NEW old, NEW new, Level(old, d, k, v),
         SamePlaces(old, new, k)
  PROVE  Level(new, d, k, v)
<1>. USE DEF SamePlaces
<1>1. CASE v = 0 /\ \A t \in 1 .. k : old[t].end # 0
  BY <1>1 DEF Level
<1>2. ASSUME NEW u \in 1 .. k, old[u].end = 0, v = d[old[u].start] + 1,
             \A t \in u + 1 .. k : old[t].end # 0
      PROVE  Level(new, d, k, v)
  <2>1. new[u].end = 0 /\ v = d[new[u].start] + 1
    BY <1>2
  <2>2. \A t \in u + 1 .. k : new[t].end # 0
    BY <1>2
  <2>. QED  BY <2>1, <2>2 DEF Level
<1>. QED  BY <1>1, <1>2 DEF Level

LEMMA LevelOn ==
  ASSUME NEW k \in Int, NEW m \in Int, k <= m, NEW d, NEW v, NEW tokens,
         Level(tokens, d, k, v), \A t \in k + 1 .. m : tokens[t].end # 0
  PROVE  Level(tokens, d, m, v)
<1>1. CASE v = 0 /\ \A t \in 1 .. k : tokens[t].end # 0
  <2>1. \A t \in 1 .. m : tokens[t].end # 0
    BY <1>1
  <2>. QED  BY <1>1, <2>1 DEF Level
<1>2. ASSUME NEW u \in 1 .. k, tokens[u].end = 0, v = d[tokens[u].start] + 1,
             \A t \in u + 1 .. k : tokens[t].end # 0
      PROVE  Level(tokens, d, m, v)
  <2>1. u \in 1 .. m /\ \A t \in u + 1 .. m : tokens[t].end # 0
    BY <1>2
  <2>. QED  BY <1>2, <2>1 DEF Level
<1>. QED  BY <1>1, <1>2 DEF Level

\* Nothing is read yet.
LEMMA InitScanned ==
  ASSUME NEW text, Len(text) \in Nat
  PROVE  Scanned(<< >>, Depth(text), 1, text)
<1>1. Len(<< >>) = 0
  BY EmptySeq
<1>2. Depth(text)[1] = 0
  BY DepthSteps
<1>3. Level(<< >>, Depth(text), 0, 0)
  BY DEF Level
<1>. QED  BY <1>1, <1>2, <1>3 DEF Scanned

\* The text is deeper than an open bracket.
LEMMA DeeperThan ==
  ASSUME NEW token, NEW d, NEW text, NEW pos \in Nat \ {0},
         Placed(token, d, pos, text), token.end = 0
  PROVE  d[pos] > d[token.start]
<1>1. pos - 1 \in token.start .. pos - 1 /\ pos - 1 + 1 = pos
  BY DEF Placed
<1>. QED  BY <1>1 DEF Placed

\* The text goes on without getting less deep than the token's bracket.
LEMMA PlacedOn ==
  ASSUME NEW token, NEW d, NEW text, NEW pos \in Nat \ {0},
         Placed(token, d, pos, text),
         token.end = 0 => d[pos + 1] > d[token.start]
  PROVE  Placed(token, d, pos + 1, text)
<1>1. token.start \in 1 .. pos - 1 /\ pos + 1 - 1 = pos
  BY DEF Placed
<1>2. token.start \in 1 .. pos
  BY <1>1
<1>3. token.end = 0 => \A l \in token.start .. pos : d[l + 1] > d[token.start]
  <2>1. \A l \in token.start .. pos : l \in token.start .. pos - 1 \/ l = pos
    BY <1>1
  <2>. QED  BY <2>1 DEF Placed
<1>4. token.end # 0 /\ text[token.start].sym \in Opening =>
        \E k \in token.start .. pos : Closed(token, d, k, text)
  <2>1. \A k \in token.start .. pos - 1 : k \in token.start .. pos
    BY <1>1
  <2>. QED  BY <2>1 DEF Placed
<1>. QED  BY <1>1, <1>2, <1>3, <1>4 DEF Placed

\* A lexeme that changes no token.
LEMMA PassedScanned ==
  ASSUME NEW text, Len(text) \in Nat, NEW old, Len(old) \in Nat, NEW d, NEW pos \in Int,
         NEW sym,
         d = Depth(text), Scanned(old, d, pos, text), pos <= Len(text),
         sym = text[pos].sym, Deeper(sym) = 0, sym \notin Opening \cup {"bad", "cut"}
  PROVE  Scanned(old, d, pos + 1, text)
<1>1. pos \in 1 .. Len(text) /\ pos + 1 \in 1 .. Len(text) + 1 /\ pos + 1 - 1 = pos
  BY DEF Scanned
<1>2. d[pos + 1] = d[pos]
  <2>1. d[pos + 1] = d[pos] + Deeper(sym) /\ d[pos] \in Int
    BY <1>1, DepthSteps
  <2>. QED  BY <2>1
<1>3. \A t \in 1 .. Len(old) : Placed(old[t], d, pos + 1, text)
  <2>. TAKE t \in 1 .. Len(old)
  <2>1. Placed(old[t], d, pos, text)
    BY DEF Scanned
  <2>2. old[t].end = 0 => d[pos + 1] > d[old[t].start]
    BY <1>1, <1>2, <2>1, DeeperThan
  <2>. QED  BY <1>1, <2>1, <2>2, PlacedOn
<1>4. \A n \in 1 .. pos : text[n].sym \notin {"bad", "cut"}
  <2>1. \A n \in 1 .. pos : n \in 1 .. pos - 1 \/ n = pos
    BY <1>1
  <2>. QED  BY <2>1 DEF Scanned
<1>5. \A n \in 1 .. pos + 1 : d[n] >= 0
  <2>1. \A n \in 1 .. pos + 1 : n \in 1 .. pos \/ n = pos + 1
    BY <1>1
  <2>. QED  BY <1>1, <1>2, <2>1 DEF Scanned
<1>6. \A n \in 1 .. pos :
        text[n].sym \in Opening => \E t \in 1 .. Len(old) : old[t].start = n
  <2>1. \A n \in 1 .. pos : n \in 1 .. pos - 1 \/ n = pos
    BY <1>1
  <2>. QED  BY <2>1 DEF Scanned
<1>. QED  BY <1>1, <1>2, <1>3, <1>4, <1>5, <1>6 DEF Scanned

\* A token for the lexeme.
LEMMA AddedScanned ==
  ASSUME NEW text, Len(text) \in Nat, NEW old, Len(old) \in Nat, NEW d, NEW pos,
         NEW new, NEW sym, NEW end,
         d = Depth(text), Scanned(old, d, pos, text), pos <= Len(text),
         sym = text[pos].sym, Added(old, new, sym, pos, end),
         \/ sym \in Opening /\ end = 0
         \/ sym \in Values /\ end = pos + 1
  PROVE  Scanned(new, d, pos + 1, text)
<1>. DEFINE n == Len(old)
<1>1. pos \in 1 .. Len(text) /\ pos + 1 \in 1 .. Len(text) + 1 /\ pos + 1 - 1 = pos
  BY DEF Scanned
<1>2. /\ Len(new) = n + 1
      /\ \A t \in 1 .. n : /\ new[t].type = old[t].type /\ new[t].start = old[t].start
                           /\ new[t].end = old[t].end
      /\ new[n + 1].type = Type(sym) /\ new[n + 1].start = pos /\ new[n + 1].end = end
  BY DEF Added
<1>3. /\ \A t \in 1 .. n + 1 : t \in 1 .. n \/ t = n + 1
      /\ \A t \in 1 .. n : t - 1 \in Int /\ \A s \in 1 .. t - 1 : s \in 1 .. n
  OBVIOUS
<1>4. /\ sym \in Opening => d[pos + 1] = d[pos] + 1
      /\ sym \in Values => d[pos + 1] = d[pos] /\ sym \notin Opening
      /\ d[pos] \in Int
  <2>1. /\ sym \in Opening => Deeper(sym) = 1
        /\ sym \in Values => Deeper(sym) = 0 /\ sym \notin Opening
    BY DEF Deeper, Opening, Closing, Values
  <2>2. d[pos + 1] = d[pos] + Deeper(sym) /\ d[pos] \in Int
    BY <1>1, DepthSteps
  <2>. QED  BY <2>1, <2>2
<1>5. /\ d[pos + 1] >= d[pos] /\ d[pos + 1] \in Int
      /\ \A m \in 1 .. Len(text) : d[m] \in Int
  <2>1. \A m \in 1 .. Len(text) : m \in 1 .. Len(text) + 1
    OBVIOUS
  <2>2. \A m \in 1 .. Len(text) : d[m] \in Int
    BY <2>1, DepthSteps
  <2>. QED  BY <1>4, <2>2
<1>6. \A t \in 1 .. n + 1 : Placed(new[t], d, pos + 1, text)
  <2>1. ASSUME NEW t \in 1 .. n PROVE Placed(new[t], d, pos + 1, text)
    <3>1. Placed(old[t], d, pos, text)
      BY DEF Scanned
    <3>2. old[t].end = 0 => d[pos + 1] > d[old[t].start]
      <4>. SUFFICES ASSUME old[t].end = 0 PROVE d[pos + 1] > d[old[t].start]
        OBVIOUS
      <4>1. d[pos] > d[old[t].start]
        BY <1>1, <3>1, DeeperThan
      <4>2. old[t].start \in 1 .. Len(text)
        BY <1>1, <3>1 DEF Placed
      <4>3. d[old[t].start] \in Int
        BY <1>5, <4>2
      <4>. QED  BY <1>4, <1>5, <4>1, <4>3
    <3>3. Placed(old[t], d, pos + 1, text)
      BY <1>1, <3>1, <3>2, PlacedOn
    <3>4. /\ new[t].type = old[t].type /\ new[t].start = old[t].start
          /\ new[t].end = old[t].end
      BY <1>2
    <3>. QED  BY <3>3, <3>4 DEF Placed, Closed
  <2>2. Placed(new[n + 1], d, pos + 1, text)
    <3>. USE DEF IsToken
    <3>1. CASE sym \in Opening /\ end = 0
      <4>1. \A l \in pos .. pos : d[l + 1] > d[pos]
        BY <1>1, <1>4, <3>1
      <4>2. sym \notin Values
        BY <3>1 DEF Opening, Values
      <4>. QED  BY <1>1, <1>2, <3>1, <4>1, <4>2 DEF Placed
    <3>2. CASE sym \in Values /\ end = pos + 1
      BY <1>1, <1>2, <1>4, <3>2 DEF Placed
    <3>. QED  BY <3>1, <3>2
  <2>. QED  BY <1>3, <2>1, <2>2
<1>7. \A m \in 1 .. pos : text[m].sym \notin {"bad", "cut"}
  <2>1. \A m \in 1 .. pos : m \in 1 .. pos - 1 \/ m = pos
    BY <1>1
  <2>2. sym \notin {"bad", "cut"}
    BY DEF Opening, Values
  <2>. QED  BY <2>1, <2>2 DEF Scanned
<1>8. \A m \in 1 .. pos + 1 : d[m] >= 0
  <2>1. \A m \in 1 .. pos + 1 : m \in 1 .. pos \/ m = pos + 1
    BY <1>1
  <2>2. d[pos] >= 0 /\ \A m \in 1 .. pos : d[m] >= 0
    BY <1>1 DEF Scanned
  <2>3. d[pos + 1] >= 0
    BY <1>4, <2>2
  <2>. QED  BY <2>1, <2>2, <2>3
<1>9. \A s, t \in 1 .. n + 1 : s < t => new[s].start < new[t].start
  <2>. SUFFICES ASSUME NEW s \in 1 .. n + 1, NEW t \in 1 .. n + 1, s < t
                PROVE  new[s].start < new[t].start
    OBVIOUS
  <2>1. s \in 1 .. n
    OBVIOUS
  <2>2. CASE t \in 1 .. n
    BY <1>2, <2>1, <2>2 DEF Scanned
  <2>3. CASE t = n + 1
    <3>1. old[s].start \in 1 .. pos - 1
      BY <2>1 DEF Scanned, Placed
    <3>. QED  BY <1>1, <1>2, <2>1, <2>3, <3>1
  <2>. QED  BY <1>3, <2>2, <2>3
<1>10. \A m \in 1 .. pos :
         text[m].sym \in Opening => \E t \in 1 .. n + 1 : new[t].start = m
  <2>. SUFFICES ASSUME NEW m \in 1 .. pos, text[m].sym \in Opening
                PROVE  \E t \in 1 .. n + 1 : new[t].start = m
    OBVIOUS
  <2>1. CASE m = pos
    BY <1>2, <2>1
  <2>2. CASE m # pos
    <3>1. m \in 1 .. pos - 1
      BY <1>1, <2>2
    <3>2. PICK t \in 1 .. n : old[t].start = m
      BY <3>1 DEF Scanned
    <3>3. t \in 1 .. n + 1 /\ new[t].start = m
      BY <1>2, <3>2
    <3>. QED  BY <3>3
  <2>. QED  BY <2>1, <2>2
<1>11. Level(new, d, n, d[pos])
  <2>1. Level(old, d, n, d[pos])
    BY DEF Scanned
  <2>2. n \in Int /\ SamePlaces(old, new, n)
    BY <1>2 DEF SamePlaces
  <2>. HIDE DEF n
  <2>. QED  BY <2>1, <2>2, LevelSame
<1>12. Level(new, d, n + 1, d[pos + 1])
  <2>1. CASE sym \in Opening /\ end = 0
    <3>1. n + 1 \in 1 .. n + 1 /\ \A t \in n + 1 + 1 .. n + 1 : new[t].end # 0
      OBVIOUS
    <3>. QED  BY <1>2, <1>4, <2>1, <3>1 DEF Level
  <2>2. CASE sym \in Values /\ end = pos + 1
    <3>1. \A t \in n + 1 .. n + 1 : new[t].end # 0
      BY <1>1, <1>2, <2>2
    <3>. QED  BY <1>4, <1>11, <2>2, <3>1, LevelOn
  <2>. QED  BY <2>1, <2>2
<1>13. \A t \in 1 .. n + 1 : new[t].end = 0 => Level(new, d, t - 1, d[new[t].start])
  <2>1. ASSUME NEW t \in 1 .. n, new[t].end = 0
        PROVE  Level(new, d, t - 1, d[new[t].start])
    <3>1. Level(old, d, t - 1, d[old[t].start])
      BY <1>2, <2>1 DEF Scanned
    <3>2. SamePlaces(old, new, t - 1)
      BY <1>2, <1>3 DEF SamePlaces
    <3>3. Level(new, d, t - 1, d[old[t].start])
      BY <1>3, <3>1, <3>2, LevelSame
    <3>. QED  BY <1>2, <3>3
  <2>2. Level(new, d, n + 1 - 1, d[new[n + 1].start])
    BY <1>2, <1>11
  <2>. QED  BY <1>3, <2>1, <2>2
<1>. QED  BY <1>1, <1>2, <1>6, <1>7, <1>8, <1>9, <1>10, <1>12, <1>13 DEF Scanned

\* A bracket that closes the innermost open one.
LEMMA EndedScanned ==
  ASSUME NEW text, Len(text) \in Nat, NEW old, Len(old) \in Nat, NEW d, NEW pos,
         NEW new, NEW sym,
         d = Depth(text), Scanned(old, d, pos, text), pos <= Len(text),
         sym = text[pos].sym, sym \in Closing, Ended(old, new, sym, pos + 1)
  PROVE  Scanned(new, d, pos + 1, text)
<1>. DEFINE n == Len(old)
            k == LastOpen(old, n)
<1>1. pos \in 1 .. Len(text) /\ pos + 1 \in 1 .. Len(text) + 1 /\ pos + 1 - 1 = pos
  BY DEF Scanned
<1>2. /\ k \in 1 .. n /\ old[k].end = 0 /\ \A t \in 1 .. n : t > k => old[t].end # 0
  BY LastOpenIn DEF Ended
<1>3. /\ Len(new) = n /\ old[k].type = Type(sym)
      /\ \A t \in 1 .. n : /\ new[t].type = old[t].type /\ new[t].start = old[t].start
                           /\ new[t].end = IF t = k THEN pos + 1 ELSE old[t].end
  BY DEF Ended
<1>. HIDE DEF k
<1>. DEFINE b == old[k].start
<1>4. Placed(old[k], d, pos, text) /\ b \in 1 .. pos - 1 /\ text[b].sym \in Opening
  BY <1>2 DEF Scanned, Placed
<1>5. /\ d[pos + 1] = d[pos] - 1 /\ d[pos] \in Int /\ d[b] \in Int
      /\ \A m \in 1 .. pos : d[m] \in Int
  <2>1. Deeper(sym) = -1
    BY DEF Deeper, Opening, Closing
  <2>2. d[pos + 1] = d[pos] + Deeper(sym)
    BY <1>1, DepthSteps
  <2>3. \A m \in 1 .. pos : m \in 1 .. Len(text) + 1
    BY <1>1
  <2>4. \A m \in 1 .. pos : d[m] \in Int
    BY <2>3, DepthSteps
  <2>5. pos \in 1 .. pos /\ b \in 1 .. pos
    BY <1>1, <1>4
  <2>. HIDE DEF b
  <2>. QED  BY <2>1, <2>2, <2>4, <2>5
<1>6. d[pos] = d[b] + 1
  <2>1. Level(old, d, n, d[pos])
    BY DEF Scanned
  <2>2. PICK u \in 1 .. n : /\ old[u].end = 0 /\ d[pos] = d[old[u].start] + 1
                            /\ \A t \in u + 1 .. n : old[t].end # 0
    BY <1>2, <2>1 DEF Level
  <2>3. ~(u < k) /\ ~(u > k)
    BY <1>2, <2>2
  <2>4. u = k
    BY <1>2, <2>3
  <2>. QED  BY <2>2, <2>4
<1>7. d[pos + 1] = d[b]
  BY <1>5, <1>6
<1>8. \A t \in 1 .. n : new[t].end = 0 => t < k /\ old[t].end = 0
  BY <1>1, <1>2, <1>3
<1>9. \A t \in 1 .. n : Placed(new[t], d, pos + 1, text)
  <2>. TAKE t \in 1 .. n
  <2>1. CASE t = k
    <3>1. \A l \in b .. pos - 1 : d[l + 1] > d[b]
      BY <1>2, <1>4 DEF Placed
    <3>2. pos \in b .. pos /\ b \in 1 .. pos /\ pos + 1 # 0
      BY <1>1, <1>4
    <3>3. old[k].type = Type(text[b].sym)
      BY <1>4 DEF Placed
    <3>4. new[k].start = b /\ new[k].end = pos + 1 /\ new[k].type = old[k].type
      BY <1>2, <1>3
    <3>5. text[b].sym \in Opening /\ Type(text[pos].sym) = new[k].type
      BY <1>3, <1>4, <3>4
    <3>. HIDE DEF b
    <3>6. /\ new[k].start \in 1 .. pos /\ text[new[k].start].sym \in Opening
          /\ new[k].type = Type(text[new[k].start].sym) /\ new[k].end # 0
          /\ text[new[k].start].sym \notin Values /\ IsToken(text[new[k].start])
      <4>1. \A s \in Opening : s \notin Values
        BY DEF Opening, Values
      <4>. QED  BY <1>1, <3>2, <3>3, <3>4, <3>5, <4>1 DEF IsToken
    <3>7. Closed(new[k], d, pos, text)
      BY <1>7, <3>1, <3>2, <3>4, <3>5 DEF Closed
    <3>8. Placed(new[k], d, pos + 1, text)
      BY <1>1, <3>2, <3>4, <3>6, <3>7 DEF Placed
    <3>. QED  BY <2>1, <3>8
  <2>2. CASE t # k
    <3>1. Placed(old[t], d, pos, text)
      BY DEF Scanned
    <3>2. old[t].end = 0 => d[pos + 1] > d[old[t].start]
      <4>. SUFFICES ASSUME old[t].end = 0 PROVE d[b] > d[old[t].start]
        BY <1>7
      <4>1. t < k
        BY <1>2, <2>2
      <4>2. old[t].start < b
        BY <1>2, <4>1 DEF Scanned
      <4>3. old[t].start \in 1 .. pos - 1
        BY <3>1 DEF Placed
      <4>4. \A l \in old[t].start .. pos - 1 : d[l + 1] > d[old[t].start]
        BY <3>1 DEF Placed
      <4>5. b \in 1 .. pos - 1
        BY <1>4
      <4>. HIDE DEF b
      <4>6. b - 1 \in old[t].start .. pos - 1 /\ b - 1 + 1 = b
        BY <1>1, <4>2, <4>3, <4>5
      <4>. QED  BY <4>4, <4>6
    <3>3. Placed(old[t], d, pos + 1, text)
      BY <1>1, <3>1, <3>2, PlacedOn
    <3>. QED  BY <1>3, <2>2, <3>3 DEF Placed, Closed
  <2>. QED  BY <2>1, <2>2
<1>10. \A m \in 1 .. pos : text[m].sym \notin {"bad", "cut"}
  <2>1. \A m \in 1 .. pos : m \in 1 .. pos - 1 \/ m = pos
    BY <1>1
  <2>2. sym \notin {"bad", "cut"}
    BY DEF Closing
  <2>. QED  BY <2>1, <2>2 DEF Scanned
<1>11. \A m \in 1 .. pos + 1 : d[m] >= 0
  <2>1. \A m \in 1 .. pos + 1 : m \in 1 .. pos \/ m = pos + 1
    BY <1>1
  <2>2. \A m \in 1 .. pos : d[m] >= 0
    BY DEF Scanned
  <2>3. b \in 1 .. pos
    BY <1>1, <1>4
  <2>. QED  BY <1>7, <2>1, <2>2, <2>3
<1>12. \A s, t \in 1 .. n : s < t => new[s].start < new[t].start
  BY <1>3 DEF Scanned
<1>13. \A m \in 1 .. pos :
         text[m].sym \in Opening => \E t \in 1 .. n : new[t].start = m
  <2>. SUFFICES ASSUME NEW m \in 1 .. pos, text[m].sym \in Opening
                PROVE  \E t \in 1 .. n : new[t].start = m
    OBVIOUS
  <2>1. m # pos
    BY DEF Opening, Closing
  <2>2. m \in 1 .. pos - 1
    BY <1>1, <2>1
  <2>3. PICK t \in 1 .. n : old[t].start = m
    BY <2>2 DEF Scanned
  <2>. QED  BY <1>3, <2>3
<1>14. ASSUME NEW t \in 1 .. k, old[t].end = 0
       PROVE  Level(new, d, t - 1, d[old[t].start])
  <2>1. t \in 1 .. n /\ t - 1 \in Int
    BY <1>2
  <2>2. Level(old, d, t - 1, d[old[t].start])
    BY <1>14, <2>1 DEF Scanned
  <2>3. SamePlaces(old, new, t - 1)
    BY <1>2, <1>3 DEF SamePlaces
  <2>. QED  BY <2>1, <2>2, <2>3, LevelSame
<1>15. Level(new, d, n, d[pos + 1])
  <2>1. Level(new, d, k - 1, d[b])
    BY <1>2, <1>14
  <2>2. \A t \in k - 1 + 1 .. n : new[t].end # 0
    BY <1>2, <1>8
  <2>3. k - 1 \in Int /\ n \in Int /\ k - 1 <= n
    BY <1>2
  <2>4. Level(new, d, n, d[b])
    BY <2>1, <2>2, <2>3, LevelOn
  <2>. QED  BY <1>7, <2>4
<1>16. \A t \in 1 .. n : new[t].end = 0 => Level(new, d, t - 1, d[new[t].start])
  <2>. SUFFICES ASSUME NEW t \in 1 .. n, new[t].end = 0
                PROVE  Level(new, d, t - 1, d[new[t].start])
    OBVIOUS
  <2>1. t \in 1 .. k /\ old[t].end = 0 /\ new[t].start = old[t].start
    BY <1>2, <1>3, <1>8
  <2>. QED  BY <1>14, <2>1
<1>. QED  BY <1>1, <1>3, <1>9, <1>10, <1>11, <1>12, <1>13, <1>15, <1>16 DEF Scanned

\* Whatever the lexeme does.
LEMMA ReadScanned ==
  ASSUME NEW text, IsText(text), NEW p, NEW q, NEW num_tokens,
         Tokens(p, Len(text), num_tokens), p.pos <= Len(text),
         Scanned(p.tokens, Depth(text), p.pos, text),
         Read(p, q, text[p.pos].sym), q.ret = "go"
  PROVE  Scanned(q.tokens, Depth(text), p.pos + 1, text)
<1>. DEFINE sym == text[p.pos].sym
            d == Depth(text)
<1>1. Len(text) \in Nat /\ Len(p.tokens) \in Nat /\ p.pos \in Int
  BY ParserTypes DEF IsText, Tokens, Fits
<1>. HIDE DEF d
<1>2. CASE sym \in Opening /\ Added(p.tokens, q.tokens, sym, p.pos, 0)
  BY <1>1, <1>2, AddedScanned DEF d
<1>3. CASE sym \in Values /\ Added(p.tokens, q.tokens, sym, p.pos, p.pos + 1)
  BY <1>1, <1>3, AddedScanned DEF d
<1>4. CASE sym \in Closing /\ Ended(p.tokens, q.tokens, sym, p.pos + 1)
  BY <1>1, <1>4, EndedScanned DEF d
<1>5. CASE sym \in {":", ","} /\ q.tokens = p.tokens
  <2>1. sym \notin Opening \cup {"bad", "cut"} /\ sym \notin Closing
    <3>1. CASE sym = ":"
      BY <3>1 DEF Opening, Closing
    <3>2. CASE sym = ","
      BY <3>2 DEF Opening, Closing
    <3>. QED  BY <1>5, <3>1, <3>2
  <2>2. Deeper(sym) = 0
    BY <2>1 DEF Deeper
  <2>. HIDE DEF sym
  <2>. QED  BY <1>1, <1>5, <2>1, <2>2, PassedScanned DEF d, sym
<1>. QED  BY <1>2, <1>3, <1>4, <1>5 DEF Read

\* The place where a token ends is that of the closing bracket.
LEMMA MatchIs ==
  ASSUME NEW text, IsText(text), NEW token,
         Placed(token, Depth(text), Len(text) + 1, text),
         token.end # 0, text[token.start].sym \in Opening
  PROVE  /\ token.start \in DOMAIN Match(text)
         /\ Match(text)[token.start] \in token.start .. Len(text)
         /\ token.end = Match(text)[token.start] + 1
         /\ token.type = Type(text[Match(text)[token.start]].sym)
<1>. DEFINE d == Depth(text)
            match == Match(text)
            ends(n) == {k \in n .. Len(text) : d[k + 1] = d[n]}
            b == token.start
<1>1. /\ Len(text) \in Nat /\ Len(text) + 1 - 1 = Len(text)
      /\ b \in 1 .. Len(text) /\ text[b].sym \in Opening
  BY DEF IsText, Placed
<1>2. match = [n \in {m \in 1 .. Len(text) : text[m].sym \in Opening} |->
                 IF ends(n) = {} THEN 0 ELSE Min(ends(n))]
  BY DEF Match
<1>3. Placed(token, d, Len(text) + 1, text)
  OBVIOUS
<1>. HIDE DEF d, match
<1>4. PICK k \in b .. Len(text) : Closed(token, d, k, text)
  BY <1>1, <1>3 DEF Placed
<1>. HIDE DEF b
<1>5. /\ token.end = k + 1 /\ Type(text[k].sym) = token.type /\ d[k + 1] = d[b]
      /\ \A l \in b .. k - 1 : d[l + 1] > d[b]
  BY <1>4 DEF Closed, b
<1>6. k \in ends(b) /\ \A l \in ends(b) : k <= l
  <2>1. d[b] \in Int
    BY <1>1, DepthSteps DEF d
  <2>2. \A l \in ends(b) : ~(l \in b .. k - 1)
    BY <1>5, <2>1
  <2>. QED  BY <1>1, <1>5, <2>2
<1>7. Min(ends(b)) = k
  <2>. DEFINE S == ends(b)
  <2>1. S \subseteq Int /\ k \in Int
    BY <1>1
  <2>. HIDE DEF S
  <2>2. Min(S) \in S /\ \A l \in S : Min(S) <= l
    BY <1>6 DEF Min, S
  <2>. DEFINE m == Min(S)
  <2>3. m \in S /\ m <= k /\ k <= m
    BY <1>6, <2>2 DEF S
  <2>4. m \in Int
    BY <2>1, <2>3
  <2>. HIDE DEF m
  <2>5. m = k
    BY <2>1, <2>3, <2>4
  <2>. QED  BY <2>5 DEF m, S
<1>8. b \in DOMAIN match /\ match[b] = k
  <2>. HIDE DEF ends
  <2>1. b \in DOMAIN match /\ match[b] = IF ends(b) = {} THEN 0 ELSE Min(ends(b))
    BY <1>1, <1>2
  <2>2. ends(b) # {}
    BY <1>6
  <2>. QED  BY <1>7, <2>1, <2>2
<1>. QED  BY <1>5, <1>8 DEF b, match

\* A text that has been read to its end without a bracket left open is well-formed.
LEMMA ScannedIsWellFormed ==
  ASSUME NEW text, IsText(text), NEW tokens, Len(tokens) \in Nat,
         Scanned(tokens, Depth(text), Len(text) + 1, text),
         LastOpen(tokens, Len(tokens)) = 0
  PROVE  WellFormed(text)
<1>. DEFINE d == Depth(text)
            match == Match(text)
<1>1. /\ Len(text) \in Nat /\ DOMAIN text = 1 .. Len(text) /\ Len(text) + 1 - 1 = Len(text)
      /\ DOMAIN d = 1 .. Len(text) + 1
  BY DepthSteps DEF IsText
<1>2. DOMAIN match = {n \in 1 .. Len(text) : text[n].sym \in Opening}
  BY DEF Match
<1>. HIDE DEF d, match
<1>3. ASSUME NEW b \in DOMAIN match
      PROVE  match[b] # 0 /\ Type(text[match[b]].sym) = Type(text[b].sym)
  <2>1. b \in 1 .. Len(text) /\ text[b].sym \in Opening
    BY <1>2
  <2>2. PICK t \in 1 .. Len(tokens) : tokens[t].start = b
    BY <1>1, <2>1 DEF Scanned
  <2>3. tokens[t].end # 0
    BY LastOpenIn
  <2>4. Placed(tokens[t], Depth(text), Len(text) + 1, text)
    BY DEF Scanned
  <2>5. /\ match[b] \in b .. Len(text)
        /\ tokens[t].type = Type(text[match[b]].sym)
    BY <2>1, <2>2, <2>3, <2>4, MatchIs DEF match
  <2>6. tokens[t].type = Type(text[b].sym)
    BY <2>2, <2>4 DEF Placed
  <2>. QED  BY <2>1, <2>5, <2>6
<1>4. \A n \in DOMAIN d : d[n] >= 0
  BY <1>1 DEF Scanned, d
<1>5. \A n \in DOMAIN text : text[n].sym \notin {"bad", "cut"}
  BY <1>1 DEF Scanned
<1>. QED  BY <1>3, <1>4, <1>5 DEF WellFormed, match, d

-----------------------------------------------------------------------------
(* The invariant of the calls                                               *)

\* The tokens of a call.
Parsing ==
  /\ IsText(js) /\ parser \in Parser /\ tok_nr \in Nat
  /\ parser.toksuper <= Len(parser.tokens) /\ Len(parser.tokens) <= tok_nr
  /\ bpc \in {"tokenise", "store", "entries"} => Tokens(parser, Len(js), tok_nr)
  /\ bpc \in {"store", "entries"} => parser.ret = "done" /\ parser.count >= 12

\* There are rows for all tokens, and the key of the next URL is behind them.
Rows ==
  /\ \E n \in Nat : /\ DOMAIN roa_urls = 0 .. n - 1 /\ RoaUrlsCount <= n
                    /\ khash_count \in 0 .. n
                    /\ bpc = "entries" => parser.count <= n
  /\ bpc = "entries" => i \in Nat /\ khash_count + 13 <= i

\* What is stored of the numbers of an answer.
Numbers ==
  /\ intervals \in [Window -> 0 .. Width - 1] /\ intervals_count \in -1 .. MaxCount
  /\ start \in 0 .. Width - 1 /\ max_end \in 0 .. Width - 1

\* The table is resized only for an entry that is to be put.
BInv ==
  /\ HInv
  /\ kpc # "rest" => bpc = "entries" /\ i < parser.count
  /\ bpc \in {"idle", "check", "fetch", "tokenise", "store", "entries", "crashed",
              "overflow"}
  /\ ret \in {0, -1}
  /\ Parsing /\ Rows /\ Numbers

\* Numbers are stored modulo 2^32.
LEMMA StoredVal ==
  ASSUME NEW num \in Nat \cup {Malformed}, NEW old \in 0 .. Width - 1
  PROVE  utils_cfg_validity_check_val(num, old).val \in 0 .. Width - 1
<1>1. CASE num = Malformed
  BY <1>1 DEF utils_cfg_validity_check_val
<1>2. CASE num # Malformed
  <2>1. num \in Int /\ Width \in Nat \ {0}
    BY <1>2, InputAssumption
  <2>2. num % Width \in 0 .. Width - 1
    BY <2>1, Division
  <2>. QED  BY <1>2, <2>2 DEF utils_cfg_validity_check_val
<1>. QED  BY <1>1, <1>2

LEMMA StoredIntervals ==
  ASSUME NEW nums \in Seq(Nat \cup {Malformed}), NEW old \in [Window -> 0 .. Width - 1]
  PROVE  LET r == utils_cfg_add_intervals(nums, old)
         IN  /\ r.intervals \in [Window -> 0 .. Width - 1]
             /\ r.count \in -1 .. MaxCount
<1>. DEFINE r == utils_cfg_add_intervals(nums, old)
<1>1. Len(nums) \in Nat /\ MaxCount \in Nat
  BY InputAssumption, LenProperties
<1>2. CASE ~utils_cfg_check_input(nums)
  <2>1. r = [count |-> -1, intervals |-> old]
    BY <1>2 DEF utils_cfg_add_intervals
  <2>. QED  BY <1>1, <2>1
<1>3. CASE utils_cfg_check_input(nums)
  <2>. DEFINE new == [w \in Window |->
                IF w < Stop(nums) /\ w < Len(nums)
                THEN utils_cfg_validity_check_val(nums[w + 1], old[w]).val
                ELSE old[w]]
  <2>1. r = [count |-> IF Stop(nums) > Len(nums) THEN Len(nums) ELSE -1,
             intervals |-> new]
    BY <1>3 DEF utils_cfg_add_intervals
  <2>2. Len(nums) \in 1 .. MaxCount
    BY <1>3 DEF utils_cfg_check_input
  <2>3. ASSUME NEW w \in Window
        PROVE  new[w] \in 0 .. Width - 1
    <3>1. old[w] \in 0 .. Width - 1
      OBVIOUS
    <3>2. CASE w < Stop(nums) /\ w < Len(nums)
      <4>1. w \in Nat
        BY InputAssumption DEF Window
      <4>2. nums[w + 1] \in Nat \cup {Malformed}
        BY <1>1, <3>2, <4>1, ElementOfSeq
      <4>. QED  BY <3>1, <3>2, <4>2, StoredVal
    <3>3. CASE ~(w < Stop(nums) /\ w < Len(nums))
      BY <3>1, <3>3
    <3>. QED  BY <3>2, <3>3
  <2>4. new \in [Window -> 0 .. Width - 1]
    <3>1. DOMAIN new = Window
      OBVIOUS
    <3>. QED  BY <2>3
  <2>. HIDE DEF new
  <2>5. r.intervals = new /\ r.count \in {Len(nums), -1}
    BY <2>1
  <2>. QED  BY <1>1, <2>2, <2>4, <2>5
<1>. QED  BY <1>2, <1>3

\* What the n-th token says is read in the text.
LEMMA TextIs ==
  ASSUME Parsing, bpc \in {"store", "entries"}, NEW n \in Nat, n < parser.count
  PROVE  /\ Text(n).nums \in Seq(Nat \cup {Malformed})
         /\ Num(Text(n)) \in Nat \cup {Malformed} /\ Atoi(Text(n)) \in Int
<1>1. parser.count = Len(parser.tokens) /\ Len(parser.tokens) \in Nat
  BY ParserTypes DEF Parsing, Tokens, Fits
<1>2. n + 1 \in 1 .. Len(parser.tokens)
  BY <1>1
<1>3. parser.tokens[n + 1].start \in 1 .. Len(js)
  BY <1>2 DEF Parsing, Tokens, Fits
<1>4. Text(n).nums \in Seq(Nat \cup {Malformed})
  BY <1>3 DEF Text, Parsing, IsText
<1>5. Num(Text(n)) \in Nat \cup {Malformed}
  <2>. DEFINE nums == Text(n).nums
  <2>1. nums \in Seq(Nat \cup {Malformed})
    BY <1>4
  <2>2. Len(nums) = 1 => nums[1] \in Nat \cup {Malformed}
    BY <2>1, ElementOfSeq
  <2>. QED  BY <2>2 DEF Num
<1>. QED  BY <1>4, <1>5 DEF Atoi, Malformed

LEMMA InitBInv == BInit => BInv
<1>. SUFFICES ASSUME BInit PROVE BInv
  OBVIOUS
<1>1. HInv /\ kpc = "rest"
  BY InitHInv DEF BInit, KHashInit
<1>2. Parsing
  <2>1. IsText(js)
    <3>1. js = <<>>
      BY DEF BInit, js
    <3>. QED  BY <3>1, EmptySeq DEF IsText
  <2>2. Tokens(jsmn_init, 0, 0)
    BY InitTokens
  <2>. QED  BY <2>1, <2>2 DEF BInit, Parsing, Tokens, Fits
<1>3. Rows
  <2>1. RoaUrlsCount \in Nat /\ DOMAIN roa_urls = 0 .. RoaUrlsCount - 1
    BY ReplyAssumption DEF BInit
  <2>. QED  BY <2>1 DEF BInit, Rows
<1>4. Numbers
  <2>1. Width \in Nat \ {0} /\ MaxCount \in Nat
    BY InputAssumption
  <2>. QED  BY <2>1 DEF BInit, Numbers
<1>. QED  BY <1>1, <1>2, <1>3, <1>4 DEF BInit, BInv

LEMMA SameHInv == HInv /\ UNCHANGED <<table, rehash>> => HInv'
BY DEF HInv, Sized, Buckets, AtRest, Resizing, Upper, Expanded, table, rehash

\* A step that touches neither the configuration nor the tokens, between two calls
\* or before the answer is read.
LEMMA QuietBInv ==
  ASSUME BInv, UNCHANGED <<config, rehash, parse, i>>, IsText(js'), kpc = "rest",
         bpc' \in {"idle", "check", "fetch", "crashed", "overflow"}, ret' \in {0, -1}
  PROVE  BInv'
<1>1. HInv' /\ kpc' = "rest"
  BY SameHInv DEF BInv, config, rehash
<1>2. Parsing'
  BY DEF BInv, Parsing, parse
<1>3. Rows'
  BY DEF BInv, Rows, config
<1>4. Numbers'
  BY DEF BInv, Numbers, config, windows, limits
<1>. QED  BY <1>1, <1>2, <1>3, <1>4 DEF BInv

\* A step of the tokenizer.
LEMMA ParsingBInv ==
  ASSUME BInv, UNCHANGED <<config, rehash, js, i, ret>>, Parsing', kpc = "rest",
         bpc' \in {"tokenise", "store"}
  PROVE  BInv'
<1>1. HInv' /\ kpc' = "rest"
  BY SameHInv DEF BInv, config, rehash
<1>2. Rows'
  BY DEF BInv, Rows, config
<1>3. Numbers'
  BY DEF BInv, Numbers, config, windows, limits
<1>. QED  BY <1>1, <1>2, <1>3 DEF BInv

LEMMA FetchBInv == BInv /\ Fetch => BInv'
<1>. SUFFICES ASSUME BInv, Fetch PROVE BInv'
  OBVIOUS
<1>1. js' = js /\ kpc = "rest"
  BY DEF Fetch, js, request, BInv
<1>2. TokNr \in Nat /\ IsText(js) /\ Len(js) \in Nat
  BY ReplyAssumption DEF BInv, Parsing, IsText
<1>3. Tokens(Called(jsmn_init), Len(js), TokNr)
  BY <1>2, InitTokens, CalledKeeps
<1>4. Parsing'
  BY <1>1, <1>2, <1>3 DEF Fetch, Parsing, Tokens, Fits
<1>. QED  BY <1>1, <1>4, ParsingBInv DEF Fetch

LEMMA TokeniseBInv == BInv /\ Tokenise => BInv'
<1>. SUFFICES ASSUME BInv, Tokenise PROVE BInv'
  OBVIOUS
<1>1. js' = js /\ kpc = "rest"
  BY DEF Tokenise, js, request, BInv
<1>2. /\ tok_nr \in Nat /\ IsText(js) /\ Len(js) \in Nat
      /\ Tokens(parser, Len(js), tok_nr)
  BY DEF Tokenise, BInv, Parsing, IsText
<1>3. Tokens(parser', Len(js), tok_nr)
  <2>1. parser.pos \in Nat \ {0}
    BY <1>2, ParserTypes DEF Tokens, Fits
  <2>2. CASE parser.pos <= Len(js)
    <3>1. parser.pos \in 1 .. Len(js)
      BY <1>2, <2>1, <2>2
    <3>2. js[parser.pos].sym \in Symbols
      BY <1>2, <3>1 DEF IsText
    <3>3. Tokens(Lexeme(parser, js[parser.pos].sym, tok_nr), Len(js), tok_nr)
      BY <1>2, <3>1, <3>2, LexemeKeeps DEF Tokenise
    <3>. QED  BY <2>2, <3>3 DEF Tokenise
  <2>3. CASE ~(parser.pos <= Len(js))
    <3>1. Tokens(AtEnd(parser), Len(js), tok_nr)
      BY <1>2, AtEndKeeps DEF Tokenise
    <3>. QED  BY <2>3, <3>1 DEF Tokenise
  <2>. QED  BY <2>2, <2>3
<1>4. Parsing'
  BY <1>1, <1>2, <1>3 DEF Tokenise, Parsing, Tokens, Fits
<1>. QED  BY <1>1, <1>4, ParsingBInv DEF Tokenise

LEMMA GrowBInv == BInv /\ Grow => BInv'
<1>. SUFFICES ASSUME BInv, Grow PROVE BInv'
  OBVIOUS
<1>1. js' = js /\ kpc = "rest"
  BY DEF Grow, js, request, BInv
<1>2. /\ tok_nr \in Nat /\ IsText(js) /\ Len(js) \in Nat
      /\ Tokens(parser, Len(js), tok_nr)
  BY DEF Grow, BInv, Parsing, IsText
<1>3. 2 * tok_nr \in Nat /\ tok_nr <= 2 * tok_nr
  BY <1>2
<1>4. Tokens(Called(parser), Len(js), 2 * tok_nr)
  BY <1>2, <1>3, CalledKeeps
<1>5. parser' = Called(parser) /\ tok_nr' = 2 * tok_nr /\ bpc' = "tokenise"
  BY DEF Grow, Doubled
<1>6. Parsing'
  BY <1>1, <1>2, <1>3, <1>4, <1>5 DEF Parsing, Tokens, Fits
<1>. QED  BY <1>1, <1>5, <1>6, ParsingBInv DEF Grow

LEMMA TokenisedBInv == BInv /\ Tokenised => BInv'
<1>. SUFFICES ASSUME BInv, Tokenised PROVE BInv'
  OBVIOUS
<1>1. js' = js /\ kpc = "rest"
  BY DEF Tokenised, js, request, BInv
<1>2. Parsing'
  BY <1>1 DEF Tokenised, BInv, Parsing, parse
<1>. QED  BY <1>1, <1>2, ParsingBInv DEF Tokenised

LEMMA StoreBInv == BInv /\ Store => BInv'
<1>. SUFFICES ASSUME BInv, Store PROVE BInv'
  OBVIOUS
<1>1. /\ kpc = "rest" /\ parser' = parser /\ tok_nr' = tok_nr /\ js' = js
      /\ bpc = "store" /\ bpc' \in {"entries", "idle"} /\ ret' \in {0, -1}
  BY DEF Store, BInv, parse, request, js, Return
<1>2. HInv' /\ kpc' = "rest"
  BY <1>1, ClearHInv DEF Store, BInv, kh_clear, rehash
<1>3. Parsing'
  BY <1>1 DEF BInv, Parsing
<1>4. parser.count \in Nat /\ parser.count >= 12
  BY <1>1, ParserTypes DEF BInv, Parsing
<1>5. Rows'
  <2>1. \E n \in Nat : /\ DOMAIN roa_urls' = 0 .. n - 1
                       /\ RoaUrlsCount <= n /\ parser.count <= n
    <3>1. CASE parser.count > RoaUrlsCount
      <4>1. DOMAIN roa_urls' = 0 .. parser.count - 1
        BY <3>1 DEF Store, MoreRows
      <4>. QED  BY <1>4, <3>1, <4>1, ReplyAssumption
    <3>2. CASE ~(parser.count > RoaUrlsCount)
      <4>1. PICK n \in Nat : DOMAIN roa_urls = 0 .. n - 1 /\ RoaUrlsCount <= n
        BY DEF BInv, Rows
      <4>2. roa_urls' = roa_urls /\ parser.count <= n
        BY <1>4, <3>2, <4>1, ReplyAssumption DEF Store, MoreRows
      <4>. QED  BY <4>1, <4>2
    <3>. QED  BY <3>1, <3>2
  <2>2. khash_count' = 0
    BY DEF Store, ResetCount
  <2>3. bpc' = "entries" => i' = 13
    BY DEF Store, Return
  <2>. QED  BY <1>1, <2>1, <2>2, <2>3 DEF Rows
<1>6. Numbers'
  <2>1. /\ intervals \in [Window -> 0 .. Width - 1]
        /\ start \in 0 .. Width - 1 /\ max_end \in 0 .. Width - 1
    BY DEF BInv, Numbers
  <2>2. /\ Text(6).nums \in Seq(Nat \cup {Malformed})
        /\ Num(Text(8)) \in Nat \cup {Malformed}
        /\ Num(Text(10)) \in Nat \cup {Malformed}
    BY <1>1, <1>4, TextIs DEF BInv
  <2>3. /\ Interval.intervals \in [Window -> 0 .. Width - 1]
        /\ Interval.count \in -1 .. MaxCount
    BY <2>1, <2>2, StoredIntervals DEF Interval
  <2>4. Start.val \in 0 .. Width - 1
    BY <2>1, <2>2, StoredVal DEF Start
  <2>5. MaxEnd.val \in 0 .. Width - 1
    BY <2>1, <2>2, StoredVal DEF MaxEnd
  <2>6. /\ intervals' = Interval.intervals /\ intervals_count' = Interval.count
        /\ start' \in {start, Start.val} /\ max_end' \in {max_end, MaxEnd.val}
    BY DEF Store
  <2>. QED  BY <2>1, <2>3, <2>4, <2>5, <2>6 DEF Numbers
<1>. QED  BY <1>1, <1>2, <1>3, <1>5, <1>6 DEF BInv

LEMMA GrowTableBInv == BInv /\ GrowTable => BInv' /\ (kpc # "rest" => Held' = Held)
<1>. SUFFICES ASSUME BInv, GrowTable PROVE BInv' /\ (kpc # "rest" => Held' = Held)
  OBVIOUS
<1>1. /\ bpc = "entries" /\ i < parser.count
      /\ UNCHANGED <<khash_count, roa_urls, intervals, intervals_count, start, max_end,
                     bpc, reply, parser, tok_nr, i, ret>>
  <2>1. Rehash => kpc # "rest"
    BY DEF Rehash, Skip, Take, Kick, Place, Resized
  <2>. QED  BY <2>1 DEF GrowTable, BInv, More, windows, limits, request, parse
<1>2. HInv' /\ (kpc # "rest" => Held' = Held)
  <2>1. CASE More /\ Resize
    BY <2>1, ResizeHInv DEF BInv, Resize
  <2>2. CASE Rehash
    BY <2>2, RehashHInv DEF BInv
  <2>. QED  BY <2>1, <2>2 DEF GrowTable
<1>3. Parsing'
  BY <1>1 DEF BInv, Parsing, js
<1>4. Rows'
  BY <1>1 DEF BInv, Rows
<1>5. Numbers'
  BY <1>1 DEF BInv, Numbers
<1>. QED  BY <1>1, <1>2, <1>3, <1>4, <1>5 DEF BInv

LEMMA PutEntryBInv == BInv /\ PutEntry => BInv'
<1>. SUFFICES ASSUME BInv, PutEntry PROVE BInv'
  OBVIOUS
<1>1. /\ bpc = "entries" /\ i < parser.count /\ kpc = "rest" /\ kpc' = "rest"
      /\ UNCHANGED <<intervals, intervals_count, start, max_end, bpc, reply, parser,
                     tok_nr, ret>>
  BY DEF PutEntry, More, kh_put, rehash, windows, limits, request, parse
<1>2. i \in Nat /\ khash_count + 13 <= i
  BY <1>1 DEF BInv, Rows
<1>3. HInv'
  <2>1. Atoi(Text(i)) \in Int
    BY <1>1, <1>2, TextIs DEF BInv
  <2>. QED  BY <2>1, PutHInv DEF BInv, PutEntry
<1>4. Parsing'
  BY <1>1 DEF BInv, Parsing, js
<1>5. Rows'
  <2>1. PICK n \in Nat : /\ DOMAIN roa_urls = 0 .. n - 1 /\ RoaUrlsCount <= n
                         /\ khash_count \in 0 .. n /\ parser.count <= n
    BY <1>1 DEF BInv, Rows
  <2>2. parser.count \in Nat
    BY ParserTypes DEF BInv, Parsing
  <2>3. khash_count + 1 \in 0 .. n /\ khash_count + 1 + 13 <= i + 2 /\ i + 2 \in Nat
    BY <1>1, <1>2, <2>1, <2>2
  <2>4. DOMAIN roa_urls' = 0 .. n - 1
    BY <2>1 DEF PutEntry
  <2>5. khash_count' = khash_count + 1 /\ i' = i + 2
    BY DEF PutEntry
  <2>. QED  BY <1>1, <2>1, <2>3, <2>4, <2>5 DEF Rows
<1>6. Numbers'
  BY <1>1 DEF BInv, Numbers
<1>. QED  BY <1>1, <1>3, <1>4, <1>5, <1>6 DEF BInv

LEMMA StepBInv == BInv /\ [BNext]_bvars => BInv'
<1>. SUFFICES ASSUME BInv, [BNext]_bvars PROVE BInv'
  OBVIOUS
<1>1. CASE Connect
  <2>1. kpc = "rest" /\ IsText(js')
    BY <1>1, ReplyAssumption DEF Connect, BInv, js
  <2>. QED  BY <1>1, <2>1, QuietBInv DEF Connect, BInv
<1>2. CASE CheckRefuses \/ CheckPasses \/ FetchCrashes \/ FetchFails \/ Refuse
  <2>1. kpc = "rest" /\ IsText(js')
    BY <1>2 DEF CheckRefuses, CheckPasses, FetchCrashes, FetchFails, Refuse, BInv,
                Parsing, js, request
  <2>. QED
    BY <1>2, <2>1, QuietBInv
    DEF CheckRefuses, CheckPasses, FetchCrashes, FetchFails, Refuse, Return, BInv
<1>3. CASE Finish
  <2>1. kpc = "rest" /\ IsText(js')
    BY <1>3 DEF Finish, More, BInv, Parsing, js, request
  <2>. QED  BY <1>3, <2>1, QuietBInv DEF Finish, Return, BInv
<1>4. CASE Fetch \/ Tokenise \/ Grow \/ Tokenised \/ Store \/ GrowTable \/ PutEntry
  BY <1>4, FetchBInv, TokeniseBInv, GrowBInv, TokenisedBInv, StoreBInv, GrowTableBInv,
     PutEntryBInv
<1>5. CASE EndOverflows
  <2>1. kpc = "rest" /\ IsText(js')
    BY <1>5 DEF EndOverflows, BInv, Parsing, js, request
  <2>. QED  BY <1>5, <2>1, QuietBInv DEF EndOverflows, BInv
<1>6. CASE UNCHANGED bvars
  <2>1. HInv'
    BY <1>6, SameHInv DEF bvars, config, BInv
  <2>2. Parsing'
    BY <1>6 DEF bvars, parse, request, js, BInv, Parsing
  <2>3. Rows' /\ Numbers'
    BY <1>6 DEF bvars, config, windows, limits, parse, BInv, Rows, Numbers
  <2>. QED  BY <1>6, <2>1, <2>2, <2>3 DEF bvars, rehash, parse, BInv
<1>. QED  BY <1>1, <1>2, <1>3, <1>4, <1>5, <1>6 DEF BNext, Library

LEMMA BInvTypes == BInv => BTypeOK /\ LookupFinds
<1>. SUFFICES ASSUME BInv PROVE BTypeOK /\ LookupFinds
  OBVIOUS
<1>1. KHashTypeOK /\ LookupFinds
  BY InvFinds DEF BInv
<1>2. khash_count \in 0 .. Cardinality(DOMAIN roa_urls)
  <2>1. PICK n \in Nat : DOMAIN roa_urls = 0 .. n - 1 /\ khash_count \in 0 .. n
    BY DEF BInv, Rows
  <2>2. Cardinality(0 .. n - 1) = n
    BY <2>1, FS_Interval
  <2>. QED  BY <2>1, <2>2
<1>3. parser.toksuper \in 0 .. Len(parser.tokens) /\ Len(parser.tokens) <= tok_nr
  BY ParserTypes DEF BInv, Parsing
<1>. QED  BY <1>1, <1>2, <1>3 DEF BInv, Numbers, BTypeOK

-----------------------------------------------------------------------------
(* An answer that broke off is refused                                      *)

\* What the tokenizer has passed is described by the tokens, and a call goes on only
\* with a text that has been read to its end.
Covered ==
  /\ bpc = "tokenise" /\ parser.ret \in {"go", "nomem", "done"} =>
       Scanned(parser.tokens, Depth(js), parser.pos, js)
  /\ bpc = "tokenise" /\ parser.ret = "done" =>
       /\ parser.pos = Len(js) + 1
       /\ LastOpen(parser.tokens, Len(parser.tokens)) = 0
  /\ bpc \in {"store", "entries"} \/ (bpc = "idle" /\ ret = 0) => WellFormed(js)

\* A lexeme, or the end of the text.
LEMMA TokeniseCovered == BInv /\ Covered /\ Tokenise => Covered'
<1>. SUFFICES ASSUME BInv, Covered, Tokenise PROVE Covered'
  OBVIOUS
<1>1. js' = js /\ bpc = "tokenise" /\ bpc' = "tokenise" /\ parser.ret = "go"
  BY DEF Tokenise, js, request
<1>2. /\ tok_nr \in Nat /\ IsText(js) /\ Len(js) \in Nat
      /\ Tokens(parser, Len(js), tok_nr)
  BY <1>1 DEF BInv, Parsing, IsText
<1>3. Scanned(parser.tokens, Depth(js), parser.pos, js)
  BY <1>1 DEF Covered
<1>4. parser.pos \in 1 .. Len(js) + 1
  BY <1>3 DEF Scanned
<1>5. CASE parser.pos <= Len(js)
  <2>. DEFINE sym == js[parser.pos].sym
  <2>1. parser.pos \in 1 .. Len(js)
    BY <1>2, <1>4, <1>5
  <2>2. sym \in Symbols
    BY <1>2, <2>1 DEF IsText
  <2>3. parser' = Lexeme(parser, sym, tok_nr)
    BY <1>5 DEF Tokenise
  <2>4. PICK q : /\ Read(parser, q, sym)
                 /\ parser'.ret = q.ret /\ parser'.tokens = q.tokens
                 /\ parser'.pos = IF q.ret = "go" THEN parser.pos + 1 ELSE parser.pos
    <3>. HIDE DEF sym
    <3>. QED  BY <1>1, <1>2, <2>1, <2>2, <2>3, LexemeKeeps
  <2>5. \/ q.ret \in {"inval", "part"}
        \/ q.ret = "nomem" /\ q.tokens = parser.tokens
        \/ q.ret = "go"
    <3>. HIDE DEF sym
    <3>1. Read(parser, q, sym)
      BY <2>4
    <3>. QED  BY <3>1 DEF Read
  <2>6. parser'.ret # "done"
    BY <2>4, <2>5
  <2>7. parser'.ret \in {"go", "nomem"} =>
          Scanned(parser'.tokens, Depth(js), parser'.pos, js)
    <3>1. CASE q.ret = "go"
      <4>1. Scanned(q.tokens, Depth(js), parser.pos + 1, js)
        BY <1>2, <1>3, <1>5, <2>4, <3>1, ReadScanned
      <4>. QED  BY <2>4, <3>1, <4>1
    <3>2. CASE q.ret = "nomem" /\ q.tokens = parser.tokens
      BY <1>3, <2>4, <3>2
    <3>. QED  BY <2>4, <2>5, <3>1, <3>2
  <2>. HIDE DEF sym
  <2>. QED  BY <1>1, <2>6, <2>7 DEF Covered
<1>6. CASE ~(parser.pos <= Len(js))
  <2>1. parser' = AtEnd(parser)
    BY <1>6 DEF Tokenise
  <2>2. /\ parser'.pos = parser.pos /\ parser'.tokens = parser.tokens
        /\ parser'.ret =
             IF LastOpen(parser.tokens, Len(parser.tokens)) = 0 THEN "done" ELSE "part"
    BY <1>1, <1>2, <2>1, AtEndKeeps
  <2>3. parser.pos = Len(js) + 1
    BY <1>2, <1>4, <1>6
  <2>. QED  BY <1>1, <1>3, <2>2, <2>3 DEF Covered
<1>. QED  BY <1>5, <1>6

LEMMA StepCovered == BInv /\ Covered /\ [BNext]_bvars => Covered'
<1>. SUFFICES ASSUME BInv, Covered, [BNext]_bvars PROVE Covered'
  OBVIOUS
<1>1. CASE Connect
  BY <1>1 DEF Connect, Covered
<1>2. CASE CheckRefuses \/ FetchFails \/ Refuse
  <2>1. bpc' = "idle" /\ ret' = -1
    BY <1>2 DEF CheckRefuses, FetchFails, Refuse, Return
  <2>. QED  BY <2>1 DEF Covered
<1>3. CASE CheckPasses \/ FetchCrashes \/ EndOverflows
  BY <1>3 DEF CheckPasses, FetchCrashes, EndOverflows, Covered
<1>4. CASE Fetch
  <2>1. js' = js /\ bpc' = "tokenise" /\ parser' = Called(jsmn_init)
    BY <1>4 DEF Fetch, js, request
  <2>2. TokNr \in Nat /\ IsText(js) /\ Len(js) \in Nat
    BY ReplyAssumption DEF BInv, Parsing, IsText
  <2>3. parser'.tokens = << >> /\ parser'.pos = 1 /\ parser'.ret = "go"
    <3>1. jsmn_init.tokens = << >> /\ jsmn_init.pos = 1
      BY DEF jsmn_init
    <3>2. Tokens(jsmn_init, Len(js), TokNr)
      BY <2>2, InitTokens
    <3>. QED  BY <2>1, <2>2, <3>1, <3>2, CalledKeeps
  <2>. QED  BY <2>1, <2>2, <2>3, InitScanned DEF Covered
<1>5. CASE Tokenise
  BY <1>5, TokeniseCovered
<1>6. CASE Grow
  <2>1. js' = js /\ bpc = "tokenise" /\ bpc' = "tokenise" /\ parser.ret = "nomem"
        /\ parser' = Called(parser)
    BY <1>6 DEF Grow, js, request
  <2>2. tok_nr \in Nat /\ Len(js) \in Nat /\ Tokens(parser, Len(js), tok_nr)
    BY <2>1 DEF BInv, Parsing, IsText
  <2>3. parser'.tokens = parser.tokens /\ parser'.pos = parser.pos /\ parser'.ret = "go"
    BY <2>1, <2>2, CalledKeeps
  <2>. QED  BY <2>1, <2>3 DEF Covered
<1>7. CASE Tokenised
  <2>1. js' = js /\ bpc = "tokenise" /\ bpc' = "store" /\ parser.ret = "done"
    BY <1>7 DEF Tokenised, js, request
  <2>2. Len(parser.tokens) \in Nat /\ IsText(js)
    BY ParserTypes DEF BInv, Parsing
  <2>3. WellFormed(js)
    BY <2>1, <2>2, ScannedIsWellFormed DEF Covered
  <2>. QED  BY <2>1, <2>3 DEF Covered
<1>8. CASE Store \/ GrowTable \/ PutEntry \/ Finish
  <2>1. js' = js /\ bpc \in {"store", "entries"} /\ bpc' \in {"entries", "idle"}
    <3>1. Rehash => kpc # "rest"
      BY DEF Rehash, Skip, Take, Kick, Place, Resized
    <3>. QED
      BY <1>8, <3>1
      DEF Store, GrowTable, PutEntry, Finish, More, BInv, Return, js, request
  <2>. QED  BY <2>1 DEF Covered
<1>9. CASE UNCHANGED bvars
  BY <1>9 DEF bvars, parse, request, js, Covered
<1>. QED
  BY <1>1, <1>2, <1>3, <1>4, <1>5, <1>6, <1>7, <1>8, <1>9 DEF BNext, Library

-----------------------------------------------------------------------------
(* The theorems                                                             *)

LEMMA CallInvariant == BSpec => []BInv
BY InitBInv, StepBInv, PTL DEF BSpec

\* For any number of calls and any texts: the variables of a call and of the
\* configuration stay in their ranges; in particular the tokens fit their array and
\* every URL has a row of its own (broker.c:110-148, 224-240).
THEOREM BrokerTypeCorrect == BSpec => []BTypeOK
BY CallInvariant, BInvTypes, PTL

\* For any texts: one that broke off, or in which the brackets do not match, is never
\* taken for an answer (jsmn.c:158-333, broker.c:110-120).
THEOREM CutOffNeverTaken == BSpec => []CutOffRefused
<1>1. BInit => Covered
  BY DEF BInit, Covered
<1>2. BInv /\ Covered => CutOffRefused
  BY DEF Covered, CutOffRefused
<1>. QED  BY <1>1, <1>2, CallInvariant, StepCovered, PTL DEF BSpec

\* In a table of any size, whatever was put in it, cleared and resized before, each
\* entry is found by its key and counted once (khash.h:224-349).
THEOREM EntriesFound == BSpec => []LookupFinds
BY CallInvariant, BInvTypes, PTL

\* Resizing the table in place neither loses an entry nor makes one up, however the
\* entries kick each other out (khash.h:266-297).
THEOREM ResizeLosesNothing == BSpec => NothingLost
<1>1. BInv /\ [BNext]_bvars => [kpc # "rest" => Held' = Held]_khash
  <2>. SUFFICES ASSUME BInv, BNext, kpc # "rest"
                PROVE  Held' = Held
    BY DEF bvars, config, khash
  <2>1. bpc = "entries" /\ More
    BY DEF BInv, More
  <2>2. CASE GrowTable
    BY <2>2, GrowTableBInv
  <2>3. CASE ~GrowTable
    BY <2>1, <2>3
    DEF BNext, Library, Connect, CheckRefuses, CheckPasses, FetchCrashes, FetchFails,
        Fetch, Tokenise, Grow, Refuse, Tokenised, EndOverflows, Store, PutEntry, kh_put,
        Finish
  <2>. QED  BY <2>2, <2>3
<1>. QED  BY <1>1, CallInvariant, PTL DEF BSpec, NothingLost
=============================================================================

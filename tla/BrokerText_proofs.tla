-------------------------- MODULE BrokerText_proofs --------------------------
(***************************************************************************)
(* What the library makes of a text, compared with what the text says.     *)
(* The tokens of a text with the punctuation of JSON are its values, each  *)
(* counted to the one it belongs to.  If the broker keeps to the scheme of *)
(* its answers, a call that is accepted leaves the configuration that of   *)
(* its answer, and each call is a step of BrokerContract.                  *)
(***************************************************************************)
EXTENDS BrokerAnswer_proofs

-----------------------------------------------------------------------------
(* Greatest elements                                                        *)

LEMMA MaxIs ==
  ASSUME NEW S, S \subseteq Int, NEW m \in S, \A n \in S : n <= m
  PROVE  Max(S) = m
<1>1. Max(S) \in S /\ \A n \in S : Max(S) >= n
  BY DEF Max
<1>. DEFINE max == Max(S)
<1>2. max \in S /\ max >= m /\ max <= m
  BY <1>1
<1>. HIDE DEF max
<1>3. max = m
  BY <1>2
<1>. QED  BY <1>3 DEF max

LEMMA MaxExists ==
  ASSUME NEW k \in Nat, NEW S, S \subseteq 0 .. k, S # {}
  PROVE  Max(S) \in S /\ \A n \in S : n <= Max(S)
<1>. DEFINE D == {k - n : n \in S}
<1>1. D \subseteq Nat /\ D # {}
  <2>1. \A n \in S : n \in 0 .. k
    OBVIOUS
  <2>2. \A n \in S : k - n \in Nat
    BY <2>1
  <2>. QED  BY <2>2
<1>2. PICK d \in D : \A f \in D : d <= f
  BY <1>1, LeastExists
<1>3. PICK m \in S : d = k - m
  OBVIOUS
<1>4. \A n \in S : n <= m
  <2>. TAKE n \in S
  <2>1. k - m <= k - n /\ n \in 0 .. k /\ m \in 0 .. k
    BY <1>2, <1>3
  <2>. QED  BY <2>1
<1>5. S \subseteq Int
  OBVIOUS
<1>6. Max(S) = m
  BY <1>4, <1>5, MaxIs
<1>. QED  BY <1>4, <1>6

\* The innermost open token is known by what lies behind it.
LEMMA LastOpenAt ==
  ASSUME NEW tokens, NEW k \in Nat, NEW m \in 0 .. k, m # 0 => tokens[m].end = 0,
         \A t \in 1 .. k : t > m => tokens[t].end # 0
  PROVE  LastOpen(tokens, k) = m
<1>. DEFINE last == LastOpen(tokens, k)
<1>1. /\ last \in 0 .. k
      /\ last # 0 => tokens[last].end = 0
      /\ \A t \in 1 .. k : t > last => tokens[t].end # 0
  BY LastOpenIn
<1>. HIDE DEF last
<1>2. ~(last < m)
  BY <1>1
<1>3. ~(last > m)
  BY <1>1
<1>4. last = m
  BY <1>1, <1>2, <1>3
<1>. QED  BY <1>4 DEF last

-----------------------------------------------------------------------------
(* The values of a text                                                     *)

\* What StartsBefore(text) is at n, from what it is before.
StartsAfter(text, s, n) ==
  IF n = 1 THEN <<>>
  ELSE IF IsToken(text[n - 1]) THEN Append(s[n - 1], n - 1) ELSE s[n - 1]

\* The recursion of StartsBefore ends.
LEMMA StartsEnd ==
  ASSUME NEW text, Len(text) \in Nat
  PROVE  StartsBefore(text) =
           [n \in 1 .. Len(text) + 1 |-> StartsAfter(text, StartsBefore(text), n)]
<1>. DEFINE Good(k) == \E s : s = [n \in 1 .. k + 1 |-> StartsAfter(text, s, n)]
            Bad == {k \in Nat : ~Good(k)}
<1>1. Good(0)
  <2>. DEFINE s == [n \in 1 .. 0 + 1 |-> <<>>]
  <2>1. s = [n \in 1 .. 0 + 1 |-> StartsAfter(text, s, n)]
    BY DEF StartsAfter
  <2>. QED  BY <2>1
<1>2. ASSUME NEW k \in Nat, Good(k) PROVE Good(k + 1)
  <2>1. PICK s : s = [n \in 1 .. k + 1 |-> StartsAfter(text, s, n)]
    BY <1>2
  <2>. DEFINE g == [n \in 1 .. k + 1 + 1 |-> StartsAfter(text, s, n)]
  <2>2. ASSUME NEW n \in 1 .. k + 1 PROVE g[n] = s[n]
    <3>1. n \in 1 .. k + 1 + 1
      OBVIOUS
    <3>2. g[n] = StartsAfter(text, s, n)
      BY <3>1
    <3>3. s[n] = StartsAfter(text, s, n)
      BY <2>1
    <3>. QED  BY <3>2, <3>3
  <2>3. ASSUME NEW n \in 1 .. k + 1 + 1
        PROVE  StartsAfter(text, s, n) = StartsAfter(text, g, n)
    <3>. HIDE DEF g
    <3>1. CASE n = 1
      BY <3>1 DEF StartsAfter
    <3>2. CASE n # 1
      <4>1. n - 1 \in 1 .. k + 1
        BY <3>2
      <4>2. g[n - 1] = s[n - 1]
        BY <4>1, <2>2
      <4>. QED  BY <4>2 DEF StartsAfter
    <3>. QED  BY <3>1, <3>2
  <2>4. g = [n \in 1 .. k + 1 + 1 |-> StartsAfter(text, g, n)]
    <3>1. [n \in 1 .. k + 1 + 1 |-> StartsAfter(text, s, n)] =
          [n \in 1 .. k + 1 + 1 |-> StartsAfter(text, g, n)]
      <4>. HIDE DEF g
      <4>. QED  BY <2>3, Zenon
    <3>. QED  BY <3>1, Zenon
  <2>. QED  BY <2>4, Zenon
<1>3. Bad = {}
  <2>. SUFFICES ASSUME Bad # {} PROVE FALSE
    OBVIOUS
  <2>1. PICK k \in Bad : \A m \in Bad : k <= m
    <3>1. Bad \subseteq Nat
      OBVIOUS
    <3>. HIDE DEF Bad
    <3>. QED  BY <3>1, LeastExists
  <2>. HIDE DEF Good
  <2>2. k # 0
    BY <1>1
  <2>3. k - 1 \in Nat /\ Good(k - 1)
    BY <2>1, <2>2
  <2>4. Good(k - 1 + 1)
    BY <2>3, <1>2
  <2>. QED  BY <2>1, <2>4
<1>4. Good(Len(text))
  <2>. HIDE DEF Good
  <2>. QED  BY <1>3
<1>. DEFINE starts == CHOOSE s : s = [n \in 1 .. Len(text) + 1 |->
                                        StartsAfter(text, s, n)]
<1>5. StartsBefore(text) = starts
  BY DEF StartsBefore, StartsAfter
<1>6. starts = [n \in 1 .. Len(text) + 1 |-> StartsAfter(text, starts, n)]
  BY <1>4, Zenon
<1>. QED  BY <1>5, <1>6

\* Each lexeme that is a token adds its place.
LEMMA StartsSteps ==
  ASSUME NEW text, Len(text) \in Nat
  PROVE  /\ StartsBefore(text)[1] = <<>>
         /\ \A n \in 1 .. Len(text) :
              StartsBefore(text)[n + 1] =
                IF IsToken(text[n]) THEN Append(StartsBefore(text)[n], n)
                ELSE StartsBefore(text)[n]
         /\ \A n \in 1 .. Len(text) + 1 : StartsBefore(text)[n] \in Seq(Nat)
<1>. DEFINE s == StartsBefore(text)
<1>1. s = [n \in 1 .. Len(text) + 1 |-> StartsAfter(text, s, n)]
  BY StartsEnd
<1>. HIDE DEF s
<1>2. \A n \in 1 .. Len(text) + 1 : s[n] = StartsAfter(text, s, n)
  BY <1>1
<1>3. s[1] = <<>>
  BY <1>2 DEF StartsAfter
<1>4. ASSUME NEW n \in 1 .. Len(text)
      PROVE  s[n + 1] = IF IsToken(text[n]) THEN Append(s[n], n) ELSE s[n]
  <2>1. n + 1 \in 1 .. Len(text) + 1 /\ n + 1 # 1 /\ n + 1 - 1 = n
    OBVIOUS
  <2>. QED  BY <1>2, <2>1 DEF StartsAfter
<1>5. \A n \in 1 .. Len(text) + 1 : s[n] \in Seq(Nat)
  <2>. DEFINE Bad == {n \in Nat : n \in 1 .. Len(text) + 1 /\ s[n] \notin Seq(Nat)}
  <2>. SUFFICES ASSUME Bad # {} PROVE FALSE
    OBVIOUS
  <2>1. PICK n \in Bad : \A m \in Bad : n <= m
    <3>1. Bad \subseteq Nat
      OBVIOUS
    <3>. HIDE DEF Bad
    <3>. QED  BY <3>1, LeastExists
  <2>2. n \in 1 .. Len(text) + 1 /\ s[n] \notin Seq(Nat) /\ n # 1
    BY <1>3, <2>1, EmptySeq
  <2>3. n - 1 \in 1 .. Len(text) /\ n - 1 + 1 = n
    BY <2>2
  <2>4. s[n - 1] \in Seq(Nat) /\ n - 1 \in Nat
    BY <2>1, <2>3
  <2>5. Append(s[n - 1], n - 1) \in Seq(Nat)
    BY <2>4, AppendProperties
  <2>. QED  BY <1>4, <2>2, <2>3, <2>4, <2>5
<1>. QED  BY <1>3, <1>4, <1>5 DEF s

-----------------------------------------------------------------------------
(* What the tokenizer has counted                                           *)

\* What the value at n belongs to.
OwnerAt(text, d, n) ==
  IF n > 1 /\ text[n - 1].sym = ":" THEN n - 2
  ELSE Max({0} \cup {b \in 1 .. n - 1 : /\ text[b].sym \in Opening
                                        /\ \A k \in b .. n : d[k + 1] # d[b]})

\* The parts of the value at s that are before pos.
PartsBefore(text, d, pos, s) ==
  {m \in 1 .. pos - 1 : IsToken(text[m]) /\ OwnerAt(text, d, m) = s}

\* What the next token will be a part of: behind a ":" the key; behind the value of
\* a key still the key, which a "," or a bracket changes; else the innermost bracket.
Super(tokens, super, pos, text) ==
  LET last == LastOpen(tokens, Len(tokens))
  IN  IF pos > 1 /\ text[pos - 1].sym = ":"
      THEN super # 0 /\ super = Len(tokens) /\ tokens[super].start = pos - 2
      ELSE IF pos > 2 /\ text[pos - 2].sym = ":" /\ text[pos - 1].sym \in Values
      THEN super # 0 /\ tokens[super].type = "str" /\ last # 0
      ELSE super = last

\* The tokens are the values of the text before pos, with the number of their parts.
Tallied(tokens, d, pos, text) ==
  /\ Len(StartsBefore(text)[pos]) = Len(tokens)
  /\ \A t \in 1 .. Len(tokens) :
       /\ StartsBefore(text)[pos][t] = tokens[t].start
       /\ tokens[t].size = Cardinality(PartsBefore(text, d, pos, tokens[t].start))

Owned(tokens, super, d, pos, text) ==
  Tallied(tokens, d, pos, text) /\ Super(tokens, super, pos, text)

\* What the value at n belongs to is in front of it.
LEMMA OwnerBelow ==
  ASSUME NEW text, NEW d, NEW n \in Nat \ {0}
  PROVE  OwnerAt(text, d, n) \in Int /\ OwnerAt(text, d, n) < n
<1>. DEFINE S == {0} \cup {b \in 1 .. n - 1 : /\ text[b].sym \in Opening
                                              /\ \A k \in b .. n : d[k + 1] # d[b]}
<1>1. n - 1 \in Nat /\ S \subseteq 0 .. n - 1 /\ S # {}
  OBVIOUS
<1>2. OwnerAt(text, d, n) \in {n - 2, Max(S)}
  BY DEF OwnerAt
<1>. HIDE DEF S
<1>3. Max(S) \in S
  BY <1>1, MaxExists
<1>4. Max(S) \in 0 .. n - 1
  BY <1>1, <1>3
<1>. DEFINE max == Max(S)
<1>5. max \in 0 .. n - 1 /\ OwnerAt(text, d, n) \in {n - 2, max}
  BY <1>2, <1>4
<1>. HIDE DEF max
<1>. QED  BY <1>5

\* Without a ":" in front of it a value belongs to the innermost open bracket.
LEMMA OwnerIs ==
  ASSUME NEW text, IsText(text), NEW tokens, Len(tokens) \in Nat, NEW pos,
         Scanned(tokens, Depth(text), pos, text), pos <= Len(text),
         IsToken(text[pos]), pos > 1 => text[pos - 1].sym # ":"
  PROVE  LET last == LastOpen(tokens, Len(tokens))
         IN  OwnerAt(text, Depth(text), pos) =
               IF last = 0 THEN 0 ELSE tokens[last].start
<1>. DEFINE d == Depth(text)
            last == LastOpen(tokens, Len(tokens))
            inner == IF last = 0 THEN 0 ELSE tokens[last].start
            S == {0} \cup {b \in 1 .. pos - 1 : /\ text[b].sym \in Opening
                                                /\ \A k \in b .. pos : d[k + 1] # d[b]}
<1>1. pos \in 1 .. Len(text) /\ Len(text) \in Nat
  BY DEF Scanned, IsText
<1>2. /\ last \in 0 .. Len(tokens)
      /\ last # 0 => tokens[last].end = 0
      /\ \A t \in 1 .. Len(tokens) : t > last => tokens[t].end # 0
  BY LastOpenIn
<1>3. OwnerAt(text, d, pos) = Max(S)
  BY DEF OwnerAt
<1>4. /\ \A n \in 1 .. Len(text) + 1 : d[n] \in Int
      /\ d[pos + 1] >= d[pos]
  <2>1. Deeper(text[pos].sym) >= 0 /\ Deeper(text[pos].sym) \in Int
    <3>1. ASSUME NEW sym PROVE /\ sym \in Opening => Deeper(sym) = 1
                               /\ sym \in Values => Deeper(sym) = 0
      BY DEF Deeper, Opening, Closing, Values
    <3>. QED  BY <3>1 DEF IsToken
  <2>2. /\ \A n \in 1 .. Len(text) + 1 : d[n] \in Int
        /\ d[pos + 1] = d[pos] + Deeper(text[pos].sym)
    BY <1>1, DepthSteps
  <2>3. d[pos] \in Int
    BY <1>1, <2>2
  <2>. QED  BY <2>1, <2>2, <2>3
<1>5. \A t \in 1 .. Len(tokens) : Placed(tokens[t], d, pos, text)
  BY DEF Scanned
<1>6. /\ \A n \in 1 .. pos - 1 :
           text[n].sym \in Opening => \E t \in 1 .. Len(tokens) : tokens[t].start = n
      /\ \A s, t \in 1 .. Len(tokens) : s < t => tokens[s].start < tokens[t].start
  BY DEF Scanned
<1>. HIDE DEF last, d
<1>7. ASSUME last # 0
      PROVE  /\ tokens[last].start \in 1 .. pos - 1
             /\ text[tokens[last].start].sym \in Opening
             /\ \A k \in tokens[last].start .. pos : d[k + 1] # d[tokens[last].start]
  <2>. DEFINE b == tokens[last].start
  <2>1. /\ b \in 1 .. pos - 1 /\ text[b].sym \in Opening
        /\ \A k \in b .. pos - 1 : d[k + 1] > d[b]
    BY <1>2, <1>5, <1>7 DEF Placed
  <2>. HIDE DEF b
  <2>2. d[b] \in Int /\ d[pos] \in Int /\ d[pos + 1] \in Int
    BY <1>1, <1>4, <2>1
  <2>3. d[pos] > d[b]
    <3>1. pos - 1 \in b .. pos - 1 /\ pos - 1 + 1 = pos
      BY <1>1, <2>1
    <3>. QED  BY <2>1, <3>1
  <2>4. d[pos + 1] # d[b]
    BY <1>4, <2>2, <2>3
  <2>5. \A k \in b .. pos : d[k + 1] # d[b]
    <3>. TAKE k \in b .. pos
    <3>1. CASE k = pos
      BY <2>4, <3>1
    <3>2. CASE k # pos
      <4>1. k \in b .. pos - 1
        BY <1>1, <2>1, <3>2
      <4>2. k + 1 \in 1 .. Len(text) + 1
        BY <1>1, <2>1, <4>1
      <4>3. d[k + 1] > d[b] /\ d[k + 1] \in Int
        BY <1>4, <2>1, <4>1, <4>2
      <4>. QED  BY <2>2, <4>3
    <3>. QED  BY <3>1, <3>2
  <2>. QED  BY <2>1, <2>5 DEF b
<1>8. ASSUME NEW b \in 1 .. pos - 1, text[b].sym \in Opening,
             \A k \in b .. pos : d[k + 1] # d[b]
      PROVE  last # 0 /\ b <= tokens[last].start
  <2>1. PICK t \in 1 .. Len(tokens) : tokens[t].start = b
    BY <1>6, <1>8
  <2>2. tokens[t].end = 0
    <3>. SUFFICES ASSUME tokens[t].end # 0 PROVE FALSE
      OBVIOUS
    <3>1. PICK k \in b .. pos - 1 : Closed(tokens[t], d, k, text)
      BY <1>5, <1>8, <2>1 DEF Placed
    <3>2. k \in b .. pos /\ d[k + 1] = d[b]
      BY <1>1, <2>1, <3>1 DEF Closed
    <3>. QED  BY <1>8, <3>2
  <2>3. t <= last
    BY <1>2, <2>2
  <2>4. t < last => b < tokens[last].start
    BY <1>2, <1>6, <2>1
  <2>5. last # 0 /\ (t < last \/ t = last)
    BY <1>2, <2>3
  <2>6. tokens[last].start \in Int
    BY <1>7, <2>5
  <2>. QED  BY <2>1, <2>4, <2>5, <2>6
<1>9. inner \in S /\ \A b \in S : b <= inner
  <2>1. CASE last = 0
    BY <1>8, <2>1
  <2>2. CASE last # 0
    <3>1. inner = tokens[last].start /\ inner \in 1 .. pos - 1
      BY <1>7, <2>2
    <3>2. inner \in S
      BY <1>7, <2>2, <3>1
    <3>3. \A b \in S : b = 0 \/ b <= tokens[last].start
      BY <1>8
    <3>. QED  BY <1>1, <3>1, <3>2, <3>3
  <2>. QED  BY <2>1, <2>2
<1>10. S \subseteq Int
  BY <1>1
<1>. HIDE DEF S, inner
<1>11. Max(S) = inner
  BY <1>9, <1>10, MaxIs
<1>. QED  BY <1>3, <1>11 DEF inner, last, d

\* A value adds a part to the one it belongs to.
LEMMA PartsGrow ==
  ASSUME NEW text, NEW d, NEW pos \in Nat \ {0}, NEW s
  PROVE  LET before == Cardinality(PartsBefore(text, d, pos, s))
         IN  /\ before \in Nat
             /\ Cardinality(PartsBefore(text, d, pos + 1, s)) =
                  IF IsToken(text[pos]) /\ OwnerAt(text, d, pos) = s
                  THEN before + 1 ELSE before
<1>. DEFINE old == PartsBefore(text, d, pos, s)
            new == PartsBefore(text, d, pos + 1, s)
<1>1. IsFiniteSet(old) /\ pos \notin old
  <2>1. old \subseteq 1 .. pos - 1
    BY DEF PartsBefore
  <2>2. IsFiniteSet(1 .. pos - 1)
    BY FS_Interval
  <2>. QED  BY <2>1, <2>2, FS_Subset
<1>2. Cardinality(old) \in Nat /\ Cardinality(old \cup {pos}) = Cardinality(old) + 1
  <2>. HIDE DEF old
  <2>. QED  BY <1>1, FS_CardinalityType, FS_AddElement
<1>3. \A m \in 1 .. pos + 1 - 1 : m \in 1 .. pos - 1 \/ m = pos
  OBVIOUS
<1>4. CASE IsToken(text[pos]) /\ OwnerAt(text, d, pos) = s
  <2>1. new = old \cup {pos}
    BY <1>3, <1>4 DEF PartsBefore
  <2>. QED  BY <1>2, <1>4, <2>1
<1>5. CASE ~(IsToken(text[pos]) /\ OwnerAt(text, d, pos) = s)
  <2>1. new = old
    BY <1>3, <1>5 DEF PartsBefore
  <2>. QED  BY <1>2, <1>5, <2>1
<1>. QED  BY <1>4, <1>5

\* A value has no part in front of it.
LEMMA NoPartsYet ==
  ASSUME NEW text, NEW d, NEW pos \in Nat \ {0}
  PROVE  Cardinality(PartsBefore(text, d, pos + 1, pos)) = 0
<1>1. PartsBefore(text, d, pos + 1, pos) = {}
  <2>. SUFFICES ASSUME NEW m \in 1 .. pos, OwnerAt(text, d, m) = pos PROVE FALSE
    BY DEF PartsBefore
  <2>1. OwnerAt(text, d, m) < m
    BY OwnerBelow
  <2>. QED  BY <2>1
<1>. QED  BY <1>1, FS_EmptySet

\* Inside of a bracket there is an open token.
LEMMA OpenInside ==
  ASSUME NEW text, IsText(text), NEW tokens, Len(tokens) \in Nat, NEW d, NEW pos,
         Scanned(tokens, d, pos, text), d[pos] > 0
  PROVE  LastOpen(tokens, Len(tokens)) # 0
<1>1. \A t \in 1 .. Len(tokens) : t > LastOpen(tokens, Len(tokens)) => tokens[t].end # 0
  BY LastOpenIn
<1>2. Level(tokens, d, Len(tokens), d[pos])
  BY DEF Scanned
<1>3. \E t \in 1 .. Len(tokens) : tokens[t].end = 0
  BY <1>2 DEF Level
<1>. QED  BY <1>1, <1>3

\* Behind a ":" the depth is what it is in front of it.
LEMMA ColonDepth ==
  ASSUME NEW text, IsText(text), NEW n \in 1 .. Len(text), text[n].sym = ":"
  PROVE  Depth(text)[n + 1] = Depth(text)[n] /\ Depth(text)[n] \in Int
<1>1. Deeper(":") = 0
  BY DEF Deeper, Opening, Closing
<1>2. Len(text) \in Nat /\ n \in 1 .. Len(text) + 1
  BY DEF IsText
<1>3. Depth(text)[n + 1] = Depth(text)[n] + Deeper(":") /\ Depth(text)[n] \in Int
  BY <1>2, DepthSteps
<1>. QED  BY <1>1, <1>3

\* The key in front of a ":".
LEMMA KeyIs ==
  ASSUME NEW text, Punctuated(text), NEW n \in 1 .. Len(text), text[n].sym = ":"
  PROVE  n > 1 /\ text[n - 1].sym = "str" /\ Depth(text)[n] > 0
BY DEF Punctuated

\* The next token becomes a part of a key or of the innermost open bracket.
LEMMA KeyOrBracket ==
  ASSUME NEW text, IsText(text), Punctuated(text), NEW tokens, Len(tokens) \in Nat, NEW pos,
         Scanned(tokens, Depth(text), pos, text),
         NEW super \in 0 .. Len(tokens), Super(tokens, super, pos, text)
  PROVE  LET last == LastOpen(tokens, Len(tokens))
         IN  \/ super = last
             \/ super # 0 /\ tokens[super].type = "str" /\ last # 0
<1>1. CASE pos > 1 /\ text[pos - 1].sym = ":"
  <2>1. pos - 1 \in 1 .. Len(text) /\ pos - 1 + 1 = pos
    BY <1>1 DEF Scanned, IsText
  <2>2. text[pos - 2].sym = "str" /\ Depth(text)[pos - 1] > 0
    <3>1. pos - 1 - 1 = pos - 2
      BY <2>1
    <3>. QED  BY <1>1, <2>1, <3>1, KeyIs
  <2>3. Depth(text)[pos] > 0
    BY <1>1, <2>1, <2>2, ColonDepth
  <2>4. super # 0 /\ tokens[super].start = pos - 2
    BY <1>1 DEF Super
  <2>5. Placed(tokens[super], Depth(text), pos, text)
    BY <2>4 DEF Scanned
  <2>6. tokens[super].type = "str"
    <3>1. Type("str") = "str"
      BY DEF Type
    <3>. QED  BY <2>2, <2>4, <2>5, <3>1 DEF Placed
  <2>. QED  BY <2>3, <2>4, <2>6, OpenInside
<1>2. CASE ~(pos > 1 /\ text[pos - 1].sym = ":")
  BY <1>2, Zenon DEF Super
<1>. QED  BY <1>1, <1>2

\* And this is what it belongs to.
LEMMA OwnerIsSuper ==
  ASSUME NEW text, IsText(text), Punctuated(text), NEW tokens, Len(tokens) \in Nat, NEW pos,
         Scanned(tokens, Depth(text), pos, text), pos <= Len(text), IsToken(text[pos]),
         NEW super, Super(tokens, super, pos, text)
  PROVE  OwnerAt(text, Depth(text), pos) = IF super = 0 THEN 0 ELSE tokens[super].start
<1>1. CASE pos > 1 /\ text[pos - 1].sym = ":"
  BY <1>1 DEF Super, OwnerAt
<1>2. CASE ~(pos > 1 /\ text[pos - 1].sym = ":")
  <2>1. OwnerAt(text, Depth(text), pos) =
          IF LastOpen(tokens, Len(tokens)) = 0 THEN 0
          ELSE tokens[LastOpen(tokens, Len(tokens))].start
    BY <1>2, OwnerIs
  <2>2. ~(pos > 2 /\ text[pos - 2].sym = ":" /\ text[pos - 1].sym \in Values)
    <3>1. pos \in 1 .. Len(text)
      BY DEF Scanned, IsText
    <3>. QED  BY <3>1 DEF Punctuated
  <2>3. super = LastOpen(tokens, Len(tokens))
    BY <1>2, <2>2, Zenon DEF Super
  <2>. QED  BY <2>1, <2>3
<1>. QED  BY <1>1, <1>2

\* A token is added for the lexeme.
LEMMA AddedTallied ==
  ASSUME NEW text, IsText(text), Punctuated(text), NEW old, Len(old) \in Nat,
         NEW pos, NEW new, NEW sym, NEW end, NEW super \in 0 .. Len(old),
         Scanned(old, Depth(text), pos, text), pos <= Len(text), IsToken(text[pos]),
         Owned(old, super, Depth(text), pos, text),
         Added(old, new, sym, pos, end), Parted(old, new, super)
  PROVE  Tallied(new, Depth(text), pos + 1, text)
<1>. DEFINE n == Len(old)
            d == Depth(text)
            before == StartsBefore(text)[pos]
            after == StartsBefore(text)[pos + 1]
<1>1. Len(text) \in Nat /\ pos \in 1 .. Len(text) /\ pos \in Nat \ {0} /\ n \in Nat
  BY DEF Scanned, IsText
<1>2. /\ Len(new) = n + 1 /\ new[n + 1].start = pos /\ new[n + 1].size = 0
      /\ \A t \in 1 .. n :
           /\ new[t].start = old[t].start
           /\ new[t].size = IF t = super THEN old[t].size + 1 ELSE old[t].size
  BY DEF Added, Parted
<1>3. /\ Len(before) = n
      /\ \A t \in 1 .. n : /\ before[t] = old[t].start
                           /\ old[t].size = Cardinality(PartsBefore(text, d, pos, old[t].start))
  BY DEF Owned, Tallied
<1>4. before \in Seq(Nat) /\ after = Append(before, pos)
  <2>1. pos \in 1 .. Len(text) + 1
    BY <1>1
  <2>. QED  BY <1>1, <2>1, StartsSteps
<1>5. OwnerAt(text, d, pos) = IF super = 0 THEN 0 ELSE old[super].start
  BY OwnerIsSuper DEF Owned
<1>6. /\ \A t \in 1 .. n : old[t].start \in 1 .. pos - 1
      /\ \A s, t \in 1 .. n : s < t => old[s].start < old[t].start
  BY DEF Scanned, Placed
<1>. HIDE DEF before, after, d, n
<1>7. /\ Len(after) = n + 1 /\ after[n + 1] = pos
      /\ \A t \in 1 .. n : after[t] = before[t]
  BY <1>1, <1>3, <1>4, AppendProperties
<1>8. ASSUME NEW t \in 1 .. n
      PROVE  new[t].size = Cardinality(PartsBefore(text, d, pos + 1, new[t].start))
  <2>. DEFINE s == old[t].start
              card == Cardinality(PartsBefore(text, d, pos, s))
              more == Cardinality(PartsBefore(text, d, pos + 1, s))
  <2>1. /\ card \in Nat /\ old[t].size = card /\ new[t].start = s
        /\ more = IF OwnerAt(text, d, pos) = s THEN card + 1 ELSE card
    BY <1>1, <1>2, <1>3, PartsGrow
  <2>. HIDE DEF card, more
  <2>2. OwnerAt(text, d, pos) = s <=> t = super
    <3>1. CASE super = 0
      BY <1>1, <1>5, <1>6, <3>1
    <3>2. CASE super # 0
      <4>1. super \in 1 .. n /\ OwnerAt(text, d, pos) = old[super].start
        BY <1>5, <3>2 DEF n
      <4>2. t < super \/ super < t \/ t = super
        BY <1>1, <4>1
      <4>3. old[super].start \in Int /\ old[t].start \in Int
        BY <1>6, <4>1
      <4>4. t < super => old[t].start < old[super].start
        BY <1>6, <4>1
      <4>5. super < t => old[super].start < old[t].start
        BY <1>6, <4>1
      <4>. QED  BY <4>1, <4>2, <4>3, <4>4, <4>5
    <3>. QED  BY <3>1, <3>2
  <2>. QED  BY <1>2, <2>1, <2>2 DEF more
<1>9. new[n + 1].size = Cardinality(PartsBefore(text, d, pos + 1, new[n + 1].start))
  BY <1>1, <1>2, NoPartsYet
<1>10. \A t \in 1 .. n + 1 : t \in 1 .. n \/ t = n + 1
  BY <1>1
<1>11. /\ Len(after) = Len(new)
       /\ \A t \in 1 .. Len(new) :
            /\ after[t] = new[t].start
            /\ new[t].size = Cardinality(PartsBefore(text, d, pos + 1, new[t].start))
  BY <1>2, <1>3, <1>7, <1>8, <1>9, <1>10
<1>. QED  BY <1>11 DEF Tallied, after, d

\* No token is added.
LEMMA PassedTallied ==
  ASSUME NEW text, IsText(text), NEW old, NEW new, NEW d, NEW pos \in 1 .. Len(text),
         ~IsToken(text[pos]), Tallied(old, d, pos, text), Len(new) = Len(old),
         \A t \in 1 .. Len(old) : /\ new[t].start = old[t].start
                                  /\ new[t].size = old[t].size
  PROVE  Tallied(new, d, pos + 1, text)
<1>1. Len(text) \in Nat /\ pos \in Nat \ {0}
  BY DEF IsText
<1>2. StartsBefore(text)[pos + 1] = StartsBefore(text)[pos]
  BY <1>1, StartsSteps
<1>3. \A s : Cardinality(PartsBefore(text, d, pos + 1, s)) =
               Cardinality(PartsBefore(text, d, pos, s))
  BY <1>1, PartsGrow
<1>. QED  BY <1>2, <1>3 DEF Tallied

\* The innermost bracket is the parent behind anything but a ":" and the value of a key.
LEMMA BracketIsSuper ==
  ASSUME NEW text, NEW tokens, NEW pos \in Int, NEW super,
         text[pos].sym # ":",
         pos > 1 /\ text[pos - 1].sym = ":" => text[pos].sym \notin Values,
         super = LastOpen(tokens, Len(tokens))
  PROVE  Super(tokens, super, pos + 1, text)
<1>1. pos + 1 - 1 = pos /\ pos + 1 - 2 = pos - 1 /\ (pos + 1 > 2 <=> pos > 1)
  OBVIOUS
<1>2. ~(pos + 1 > 1 /\ text[pos + 1 - 1].sym = ":")
  BY <1>1
<1>3. ~(pos + 1 > 2 /\ text[pos + 1 - 2].sym = ":" /\ text[pos + 1 - 1].sym \in Values)
  BY <1>1
<1>. QED  BY <1>2, <1>3 DEF Super

\* Of the first m tokens those are open that are open among the first k of others.
SameOpen(old, k, new, m) ==
  /\ \A t \in 1 .. k : new[t].end = 0 <=> old[t].end = 0
  /\ \A t \in k + 1 .. m : new[t].end # 0

\* The innermost open token is the same if the same tokens are open.
LEMMA LastOpenSame ==
  ASSUME NEW k \in Nat, NEW m \in Nat, k <= m, NEW old, NEW new,
         SameOpen(old, k, new, m)
  PROVE  LastOpen(new, m) = LastOpen(old, k)
<1>. USE DEF SameOpen
<1>. DEFINE last == LastOpen(old, k)
<1>1. /\ last \in 0 .. k
      /\ last # 0 => old[last].end = 0
      /\ \A t \in 1 .. k : t > last => old[t].end # 0
  BY LastOpenIn
<1>. HIDE DEF last
<1>2. last \in 0 .. m
  BY <1>1
<1>3. last # 0 => new[last].end = 0
  BY <1>1
<1>4. \A t \in 1 .. m : t > last => new[t].end # 0
  <2>1. \A t \in 1 .. m : t \in 1 .. k \/ t \in k + 1 .. m
    OBVIOUS
  <2>. QED  BY <1>1, <2>1
<1>5. LastOpen(new, m) = last
  BY <1>2, <1>3, <1>4, LastOpenAt
<1>. QED  BY <1>5 DEF last

\* Behind an opening bracket.
LEMMA OpenedSuper ==
  ASSUME NEW text, NEW old, Len(old) \in Nat, NEW new, NEW pos \in Int,
         text[pos].sym \in Opening, Added(old, new, text[pos].sym, pos, 0)
  PROVE  Super(new, Len(new), pos + 1, text)
<1>1. Len(new) \in Nat /\ Len(new) # 0 /\ new[Len(new)].end = 0
  BY DEF Added
<1>2. LastOpen(new, Len(new)) = Len(new)
  <2>. DEFINE n == Len(new)
  <2>1. n \in Nat /\ n \in 0 .. n /\ new[n].end = 0 /\ \A t \in 1 .. n : ~(t > n)
    BY <1>1
  <2>. HIDE DEF n
  <2>2. LastOpen(new, n) = n
    BY <2>1, LastOpenAt
  <2>. QED  BY <2>2 DEF n
<1>3. text[pos].sym # ":" /\ text[pos].sym \notin Values
  BY DEF Opening, Values
<1>. QED  BY <1>2, <1>3, BracketIsSuper

\* Behind a value.
LEMMA ValueSuper ==
  ASSUME NEW text, IsText(text), Punctuated(text), NEW old, Len(old) \in Nat,
         NEW new, NEW pos, NEW sym, NEW super \in 0 .. Len(old),
         Scanned(old, Depth(text), pos, text), pos <= Len(text),
         Super(old, super, pos, text),
         sym = text[pos].sym, sym \in Values, Added(old, new, sym, pos, pos + 1)
  PROVE  Super(new, super, pos + 1, text)
<1>1. pos \in 1 .. Len(text) /\ pos \in Nat /\ IsToken(text[pos])
  BY DEF Scanned, IsText, IsToken
<1>2. /\ Len(new) = Len(old) + 1 /\ new[Len(old) + 1].end = pos + 1
      /\ \A t \in 1 .. Len(old) : new[t].end = old[t].end /\ new[t].type = old[t].type
  BY DEF Added
<1>3. LastOpen(new, Len(new)) = LastOpen(old, Len(old))
  <2>1. \A t \in Len(old) + 1 .. Len(new) : new[t].end # 0
    BY <1>1, <1>2
  <2>2. SameOpen(old, Len(old), new, Len(new))
    BY <1>2, <2>1 DEF SameOpen
  <2>3. Len(new) \in Nat /\ Len(old) <= Len(new)
    BY <1>2
  <2>. QED  BY <2>2, <2>3, LastOpenSame
<1>4. sym # ":"
  BY DEF Values
<1>5. CASE pos > 1 /\ text[pos - 1].sym = ":"
  <2>1. super # 0 /\ old[super].type = "str" /\ LastOpen(old, Len(old)) # 0
    <3>1. pos - 1 \in 1 .. Len(text) /\ pos - 1 + 1 = pos /\ pos - 1 - 1 = pos - 2
      BY <1>1, <1>5
    <3>2. text[pos - 2].sym = "str" /\ Depth(text)[pos - 1] > 0
      BY <1>5, <3>1, KeyIs
    <3>3. Depth(text)[pos] > 0
      BY <1>5, <3>1, <3>2, ColonDepth
    <3>4. super # 0 /\ old[super].start = pos - 2
      BY <1>5 DEF Super
    <3>5. Placed(old[super], Depth(text), pos, text)
      BY <3>4 DEF Scanned
    <3>6. old[super].type = "str"
      <4>1. Type("str") = "str"
        BY DEF Type
      <4>. QED  BY <3>2, <3>4, <3>5, <4>1 DEF Placed
    <3>. QED  BY <3>3, <3>4, <3>6, OpenInside
  <2>2. new[super].type = "str"
    BY <1>2, <2>1
  <2>3. super # 0 /\ new[super].type = "str" /\ LastOpen(new, Len(new)) # 0
    BY <1>3, <2>1, <2>2
  <2>. DEFINE next == pos + 1
  <2>4. /\ ~(next > 1 /\ text[next - 1].sym = ":")
        /\ next > 2 /\ text[next - 2].sym = ":" /\ text[next - 1].sym \in Values
    <3>1. next - 1 = pos /\ next - 2 = pos - 1 /\ next > 2
      BY <1>1, <1>5
    <3>. HIDE DEF next
    <3>. QED  BY <1>1, <1>4, <1>5, <3>1
  <2>. HIDE DEF next
  <2>5. Super(new, super, next, text)
    BY <2>3, <2>4, Zenon DEF Super
  <2>. QED  BY <2>5 DEF next
<1>6. CASE ~(pos > 1 /\ text[pos - 1].sym = ":")
  <2>1. ~(pos > 2 /\ text[pos - 2].sym = ":" /\ text[pos - 1].sym \in Values)
    BY <1>1 DEF Punctuated
  <2>2. super = LastOpen(old, Len(old))
    BY <1>6, <2>1, Zenon DEF Super
  <2>. QED  BY <1>1, <1>3, <1>4, <1>6, <2>2, BracketIsSuper
<1>. QED  BY <1>5, <1>6

\* Behind a closing bracket.
LEMMA ClosedSuper ==
  ASSUME NEW text, NEW old, Len(old) \in Nat, NEW new, NEW pos \in Nat, NEW sym,
         sym = text[pos].sym, sym \in Closing, Ended(old, new, sym, pos + 1)
  PROVE  Super(new, LastOpen(old, LastOpen(old, Len(old)) - 1), pos + 1, text)
<1>. DEFINE n == Len(old)
            k == LastOpen(old, n)
<1>1. /\ k \in 1 .. n
      /\ \A t \in 1 .. n : t > k => old[t].end # 0
  BY LastOpenIn DEF Ended
<1>2. /\ Len(new) = n
      /\ \A t \in 1 .. n : new[t].end = IF t = k THEN pos + 1 ELSE old[t].end
  BY DEF Ended
<1>. HIDE DEF k, n
<1>3. n \in Nat /\ k - 1 \in Nat /\ k - 1 <= n
  BY <1>1 DEF n
<1>4. \A t \in 1 .. k - 1 : new[t].end = 0 <=> old[t].end = 0
  BY <1>1, <1>2, <1>3
<1>5. \A t \in k - 1 + 1 .. n : new[t].end # 0
  <2>. TAKE t \in k - 1 + 1 .. n
  <2>1. t \in 1 .. n /\ (t = k \/ t > k) /\ pos + 1 # 0
    BY <1>1, <1>3
  <2>. QED  BY <1>1, <1>2, <2>1
<1>6. LastOpen(new, n) = LastOpen(old, k - 1)
  <2>1. SameOpen(old, k - 1, new, n)
    BY <1>4, <1>5 DEF SameOpen
  <2>. QED  BY <1>3, <2>1, LastOpenSame
<1>7. sym # ":" /\ sym \notin Values
  BY DEF Closing, Values
<1>8. LastOpen(old, k - 1) = LastOpen(new, Len(new))
  BY <1>2, <1>6
<1>9. Super(new, LastOpen(old, k - 1), pos + 1, text)
  <2>. DEFINE super == LastOpen(old, k - 1)
  <2>1. super = LastOpen(new, Len(new)) /\ pos \in Int
    BY <1>8
  <2>. HIDE DEF super
  <2>2. Super(new, super, pos + 1, text)
    BY <1>7, <2>1, BracketIsSuper
  <2>. QED  BY <2>2 DEF super
<1>. QED  BY <1>9 DEF k, n

\* Behind a ":".
LEMMA ColonSuper ==
  ASSUME NEW text, IsText(text), Punctuated(text), NEW tokens, Len(tokens) \in Nat,
         NEW pos \in 1 .. Len(text), text[pos].sym = ":",
         Tallied(tokens, Depth(text), pos, text)
  PROVE  Super(tokens, Len(tokens), pos + 1, text)
<1>. DEFINE before == StartsBefore(text)[pos - 1]
            after == StartsBefore(text)[pos]
<1>1. Len(text) \in Nat /\ pos - 1 \in Nat /\ pos - 1 + 1 = pos
  BY DEF IsText
<1>2. pos > 1 /\ text[pos - 1].sym = "str"
  BY KeyIs
<1>3. IsToken(text[pos - 1])
  BY <1>2 DEF IsToken, Values
<1>4. before \in Seq(Nat) /\ after = Append(before, pos - 1)
  <2>1. pos - 1 \in 1 .. Len(text) /\ pos - 1 \in 1 .. Len(text) + 1
    BY <1>1, <1>2
  <2>. QED  BY <1>1, <1>3, <2>1, StartsSteps
<1>5. Len(after) = Len(tokens) /\ \A t \in 1 .. Len(tokens) : after[t] = tokens[t].start
  BY DEF Tallied
<1>. HIDE DEF before, after
<1>6. Len(tokens) # 0 /\ tokens[Len(tokens)].start = pos - 1
  <2>1. /\ Len(before) \in Nat /\ Len(after) = Len(before) + 1
        /\ after[Len(before) + 1] = pos - 1
    BY <1>1, <1>4, AppendProperties, LenProperties
  <2>2. Len(tokens) \in 1 .. Len(tokens) /\ after[Len(tokens)] = pos - 1
    BY <1>5, <2>1
  <2>. QED  BY <1>5, <2>2
<1>7. pos + 1 - 2 = pos - 1 /\ pos + 1 - 1 = pos /\ pos + 1 > 1
  BY <1>1
<1>. QED  BY <1>6, <1>7 DEF Super

\* Behind a comma.
LEMMA CommaSuper ==
  ASSUME NEW text, IsText(text), Punctuated(text), NEW num_tokens \in Nat,
         NEW p, Tokens(p, Len(text), num_tokens), p.pos <= Len(text), p.ret = "go",
         text[p.pos].sym # ":", text[p.pos].sym \notin Values,
         Scanned(p.tokens, Depth(text), p.pos, text),
         Super(p.tokens, p.toksuper, p.pos, text)
  PROVE  Super(p.tokens, Comma(p).toksuper, p.pos + 1, text)
<1>. DEFINE last == LastOpen(p.tokens, Len(p.tokens))
<1>1. /\ p \in Parser /\ Len(p.tokens) \in Nat /\ p.pos \in Int
      /\ p.toksuper \in 0 .. Len(p.tokens)
  BY ParserTypes DEF Tokens, Fits
<1>2. \/ p.toksuper = last
      \/ p.toksuper # 0 /\ p.tokens[p.toksuper].type = "str" /\ last # 0
  BY <1>1, KeyOrBracket
<1>3. last \in Nat
  BY <1>1, LastOpenIn
<1>4. [p EXCEPT !.toksuper = last].toksuper = last
  BY <1>1, <1>3, With_toksuper
<1>5. Comma(p) = IF /\ p.toksuper # 0 /\ last # 0
                    /\ p.tokens[p.toksuper].type \notin {"object", "array"}
                 THEN [p EXCEPT !.toksuper = last] ELSE p
  BY DEF Comma
<1>. HIDE DEF last
<1>6. Comma(p).toksuper = last
  BY <1>2, <1>4, <1>5
<1>. QED  BY <1>1, <1>6, BracketIsSuper DEF last

\* Nothing is read yet.
LEMMA InitOwned ==
  ASSUME NEW text, Len(text) \in Nat
  PROVE  Owned(<< >>, 0, Depth(text), 1, text)
<1>1. Len(<< >>) = 0 /\ StartsBefore(text)[1] = << >>
  BY EmptySeq, StartsSteps
<1>2. LastOpen(<< >>, 0) = 0
  <2>. DEFINE empty == << >>
  <2>1. 0 \in 0 .. 0 /\ \A t \in 1 .. 0 : empty[t].end # 0
    OBVIOUS
  <2>. HIDE DEF empty
  <2>2. LastOpen(empty, 0) = 0
    BY <2>1, LastOpenAt
  <2>. QED  BY <2>2 DEF empty
<1>3. Super(<< >>, 0, 1, text)
  BY <1>1, <1>2 DEF Super
<1>. QED  BY <1>1, <1>3 DEF Owned, Tallied

\* Whatever the lexeme does.
LEMMA ReadOwned ==
  ASSUME NEW text, IsText(text), Punctuated(text), NEW p, NEW q, NEW num_tokens \in Nat,
         Tokens(p, Len(text), num_tokens), p.pos <= Len(text), p.ret = "go",
         Scanned(p.tokens, Depth(text), p.pos, text),
         Owned(p.tokens, p.toksuper, Depth(text), p.pos, text),
         Read(p, q, text[p.pos].sym), q.ret = "go"
  PROVE  Owned(q.tokens, q.toksuper, Depth(text), p.pos + 1, text)
<1>. DEFINE sym == text[p.pos].sym
            d == Depth(text)
            pos == p.pos
<1>1. /\ p \in Parser /\ p.tokens \in Seq(Token) /\ Len(p.tokens) \in Nat
      /\ p.toksuper \in 0 .. Len(p.tokens)
      /\ pos \in 1 .. Len(text) /\ pos \in Nat
  BY ParserTypes DEF Tokens, Fits, Scanned, IsText
<1>2. Tallied(p.tokens, d, pos, text) /\ Super(p.tokens, p.toksuper, pos, text)
  BY DEF Owned
<1>3. CASE /\ sym \in Opening /\ Added(p.tokens, q.tokens, sym, pos, 0)
           /\ Parted(p.tokens, q.tokens, p.toksuper)
           /\ q.toksuper = Len(q.tokens)
  <2>1. IsToken(text[pos])
    BY <1>3 DEF IsToken
  <2>2. Tallied(q.tokens, Depth(text), pos + 1, text)
    BY <1>1, <1>3, <2>1, AddedTallied
  <2>3. Super(q.tokens, q.toksuper, pos + 1, text)
    <3>1. sym \in Opening /\ Added(p.tokens, q.tokens, sym, pos, 0)
      BY <1>3
    <3>2. Super(q.tokens, Len(q.tokens), pos + 1, text)
      BY <1>1, <3>1, OpenedSuper
    <3>. QED  BY <1>3, <3>2
  <2>. QED  BY <2>2, <2>3 DEF Owned
<1>4. CASE /\ sym \in Values /\ Added(p.tokens, q.tokens, sym, pos, pos + 1)
           /\ Parted(p.tokens, q.tokens, p.toksuper)
           /\ q.toksuper = p.toksuper
  <2>1. IsToken(text[pos])
    BY <1>4 DEF IsToken
  <2>2. Tallied(q.tokens, Depth(text), pos + 1, text)
    BY <1>1, <1>4, <2>1, AddedTallied
  <2>3. Super(q.tokens, q.toksuper, pos + 1, text)
    BY <1>1, <1>2, <1>4, ValueSuper
  <2>. QED  BY <2>2, <2>3 DEF Owned
<1>5. CASE /\ sym \in Closing /\ Ended(p.tokens, q.tokens, sym, pos + 1)
           /\ q.toksuper = LastOpen(p.tokens, LastOpen(p.tokens, Len(p.tokens)) - 1)
  <2>1. ~IsToken(text[pos])
    BY <1>5 DEF IsToken, Opening, Closing, Values
  <2>2. /\ Len(q.tokens) = Len(p.tokens)
        /\ \A t \in 1 .. Len(p.tokens) : /\ q.tokens[t].start = p.tokens[t].start
                                         /\ q.tokens[t].size = p.tokens[t].size
    BY <1>5 DEF Ended
  <2>3. Tallied(q.tokens, d, pos + 1, text)
    BY <1>1, <1>2, <2>1, <2>2, PassedTallied
  <2>4. Super(q.tokens, q.toksuper, pos + 1, text)
    BY <1>1, <1>5, ClosedSuper
  <2>. QED  BY <2>3, <2>4 DEF Owned
<1>6. CASE /\ sym \in {":", ","} /\ q.tokens = p.tokens
           /\ q.toksuper = IF sym = ":" THEN Len(p.tokens) ELSE Comma(p).toksuper
  <2>1. ~IsToken(text[pos]) /\ sym \notin Values
    <3>1. CASE sym = ":"
      BY <3>1 DEF IsToken, Opening, Values
    <3>2. CASE sym = ","
      BY <3>2 DEF IsToken, Opening, Values
    <3>. QED  BY <1>6, <3>1, <3>2
  <2>2. Tallied(q.tokens, d, pos + 1, text)
    BY <1>1, <1>2, <1>6, <2>1, PassedTallied
  <2>3. q.tokens = p.tokens
    BY <1>6, Zenon
  <2>4. Super(q.tokens, q.toksuper, pos + 1, text)
    <3>1. CASE sym = ":"
      <4>1. q.toksuper = Len(p.tokens)
        BY <1>6, <3>1, Zenon
      <4>. QED  BY <1>1, <1>2, <2>3, <3>1, <4>1, ColonSuper
    <3>2. CASE sym # ":"
      <4>1. q.toksuper = Comma(p).toksuper
        BY <1>6, <3>2, Zenon
      <4>. QED  BY <1>2, <2>1, <2>3, <3>2, <4>1, CommaSuper
    <3>. QED  BY <3>1, <3>2
  <2>. QED  BY <2>2, <2>4 DEF Owned
<1>. QED  BY <1>3, <1>4, <1>5, <1>6, Zenon DEF Read

\* The tokens of a text that has been read to its end are those it should have.
LEMMA OwnedAreTokens ==
  ASSUME NEW text, IsText(text), NEW tokens \in Seq(Token), NEW super,
         Scanned(tokens, Depth(text), Len(text) + 1, text),
         Owned(tokens, super, Depth(text), Len(text) + 1, text),
         LastOpen(tokens, Len(tokens)) = 0
  PROVE  tokens = TokensOf(text)
<1>. DEFINE starts == Starts(text)
            match == Match(text)
            owner == Owner(text)
            d == Depth(text)
            Tok(t) == [type  |-> Type(text[starts[t]].sym), start |-> starts[t],
                       end   |-> (IF starts[t] \in DOMAIN match THEN match[starts[t]]
                                  ELSE starts[t]) + 1,
                       size  |-> Cardinality({m \in DOMAIN owner : owner[m] = starts[t]})]
<1>1. TokensOf(text) = [t \in 1 .. Len(starts) |-> Tok(t)]
  BY DEF TokensOf
<1>2. Len(text) \in Nat /\ Len(text) + 1 - 1 = Len(text) /\ Len(tokens) \in Nat
  BY LenProperties DEF IsText
<1>3. /\ Len(starts) = Len(tokens)
      /\ \A t \in 1 .. Len(tokens) :
           /\ starts[t] = tokens[t].start
           /\ tokens[t].size =
                Cardinality(PartsBefore(text, d, Len(text) + 1, tokens[t].start))
  BY DEF Owned, Tallied, Starts
<1>4. owner = [n \in {m \in 1 .. Len(text) : IsToken(text[m])} |-> OwnerAt(text, d, n)]
  BY DEF Owner, OwnerAt
<1>5. DOMAIN match = {n \in 1 .. Len(text) : text[n].sym \in Opening}
  BY DEF Match
<1>. HIDE DEF starts, match, owner
<1>6. \A s : {m \in DOMAIN owner : owner[m] = s} = PartsBefore(text, d, Len(text) + 1, s)
  BY <1>2, <1>4 DEF PartsBefore
<1>7. ASSUME NEW t \in 1 .. Len(tokens)
      PROVE  tokens[t] = Tok(t)
  <2>1. tokens[t] \in Token
    BY ElementOfSeq
  <2>2. tokens[t] = [type |-> tokens[t].type, start |-> tokens[t].start,
                     end |-> tokens[t].end, size |-> tokens[t].size]
    BY <2>1 DEF Token
  <2>3. Placed(tokens[t], Depth(text), Len(text) + 1, text) /\ tokens[t].end # 0
    <3>1. Placed(tokens[t], Depth(text), Len(text) + 1, text)
      BY DEF Scanned
    <3>2. \A u \in 1 .. Len(tokens) : u > 0 => tokens[u].end # 0
      BY <1>2, LastOpenIn
    <3>3. t > 0
      BY <1>2
    <3>. QED  BY <3>1, <3>2, <3>3
  <2>4. /\ tokens[t].start \in 1 .. Len(text)
        /\ tokens[t].type = Type(text[tokens[t].start].sym)
        /\ IsToken(text[tokens[t].start])
        /\ text[tokens[t].start].sym \in Values => tokens[t].end = tokens[t].start + 1
    BY <1>2, <2>3 DEF Placed
  <2>5. tokens[t].end = (IF tokens[t].start \in DOMAIN match THEN match[tokens[t].start]
                         ELSE tokens[t].start) + 1
    <3>1. CASE text[tokens[t].start].sym \in Opening
      BY <2>3, <3>1, MatchIs DEF match
    <3>2. CASE text[tokens[t].start].sym \notin Opening
      BY <1>5, <2>4, <3>2 DEF IsToken
    <3>. QED  BY <3>1, <3>2
  <2>6. tokens[t].size = Cardinality({m \in DOMAIN owner : owner[m] = tokens[t].start})
    BY <1>3, <1>6
  <2>. QED  BY <1>3, <2>2, <2>4, <2>5, <2>6
<1>8. tokens = [t \in 1 .. Len(tokens) |-> tokens[t]]
  BY LenProperties
<1>. HIDE DEF Tok
<1>. QED  BY <1>1, <1>3, <1>7, <1>8

-----------------------------------------------------------------------------
(* The tokens of a call                                                     *)

\* The tokens made so far are those of the part that has been read, and in the end
\* those of the text.
Matched ==
  Punctuated(js) =>
    /\ bpc = "tokenise" /\ parser.ret \in {"go", "nomem"} =>
         Owned(parser.tokens, parser.toksuper, Depth(js), parser.pos, js)
    /\ (bpc = "tokenise" /\ parser.ret = "done") \/ bpc \in {"store", "entries"} =>
         parser.tokens = TokensOf(js)

\* A lexeme, or the end of the text.
LEMMA TokeniseMatched == BInv /\ Covered /\ Matched /\ Tokenise => Matched'
<1>. SUFFICES ASSUME BInv, Covered, Matched, Tokenise, Punctuated(js) PROVE Matched'
  BY DEF Matched, Tokenise, js, request
<1>1. js' = js /\ bpc = "tokenise" /\ bpc' = "tokenise" /\ parser.ret = "go"
  BY DEF Tokenise, js, request
<1>2. /\ tok_nr \in Nat /\ IsText(js) /\ Len(js) \in Nat
      /\ Tokens(parser, Len(js), tok_nr)
  BY <1>1 DEF BInv, Parsing, IsText
<1>3. /\ Scanned(parser.tokens, Depth(js), parser.pos, js)
      /\ Owned(parser.tokens, parser.toksuper, Depth(js), parser.pos, js)
  BY <1>1 DEF Covered, Matched
<1>4. parser.pos \in 1 .. Len(js) + 1
  BY <1>3 DEF Scanned
<1>5. CASE parser.pos <= Len(js)
  <2>. DEFINE sym == js[parser.pos].sym
  <2>1. parser.pos \in 1 .. Len(js)
    BY <1>2, <1>4, <1>5
  <2>2. sym \in Symbols
    BY <1>2, <2>1 DEF IsText
  <2>3. parser' = Lexeme(parser, sym, tok_nr)
    BY <1>5 DEF Tokenise
  <2>4. PICK q : /\ Read(parser, q, sym)
                 /\ parser'.ret = q.ret /\ parser'.tokens = q.tokens
                 /\ parser'.toksuper = q.toksuper
                 /\ parser'.pos = IF q.ret = "go" THEN parser.pos + 1 ELSE parser.pos
    <3>. HIDE DEF sym
    <3>. QED  BY <1>1, <1>2, <2>1, <2>2, <2>3, LexemeKeeps
  <2>5. \/ q.ret \in {"inval", "part"}
        \/ q.ret = "nomem" /\ q.tokens = parser.tokens /\ q.toksuper = parser.toksuper
        \/ q.ret = "go"
    <3>. HIDE DEF sym
    <3>1. Read(parser, q, sym)
      BY <2>4
    <3>. QED  BY <3>1 DEF Read
  <2>6. parser'.ret # "done"
    BY <2>4, <2>5
  <2>7. parser'.ret \in {"go", "nomem"} =>
          Owned(parser'.tokens, parser'.toksuper, Depth(js), parser'.pos, js)
    <3>1. CASE q.ret = "go"
      <4>1. Owned(q.tokens, q.toksuper, Depth(js), parser.pos + 1, js)
        BY <1>1, <1>2, <1>3, <1>5, <2>4, <3>1, ReadOwned
      <4>. QED  BY <2>4, <3>1, <4>1
    <3>2. CASE q.ret = "nomem" /\ q.tokens = parser.tokens /\ q.toksuper = parser.toksuper
      BY <1>3, <2>4, <3>2
    <3>. QED  BY <2>4, <2>5, <3>1, <3>2
  <2>. HIDE DEF sym
  <2>. QED  BY <1>1, <2>6, <2>7 DEF Matched
<1>6. CASE ~(parser.pos <= Len(js))
  <2>1. parser' = AtEnd(parser)
    BY <1>6 DEF Tokenise
  <2>2. /\ parser'.tokens = parser.tokens
        /\ parser'.ret =
             IF LastOpen(parser.tokens, Len(parser.tokens)) = 0 THEN "done" ELSE "part"
    BY <1>1, <1>2, <2>1, AtEndKeeps
  <2>3. parser.pos = Len(js) + 1
    BY <1>2, <1>4, <1>6
  <2>4. parser'.ret = "done" => parser.tokens = TokensOf(js)
    <3>1. parser.tokens \in Seq(Token)
      BY <1>2, ParserTypes DEF Tokens, Fits
    <3>. QED  BY <1>2, <1>3, <2>2, <2>3, <3>1, OwnedAreTokens
  <2>. QED  BY <1>1, <2>2, <2>4 DEF Matched
<1>. QED  BY <1>5, <1>6

LEMMA StepMatched == BInv /\ Covered /\ Matched /\ [BNext]_bvars => Matched'
<1>. SUFFICES ASSUME BInv, Covered, Matched, [BNext]_bvars PROVE Matched'
  OBVIOUS
<1>1. CASE bpc' \notin {"tokenise", "store", "entries"}
  BY <1>1 DEF Matched
<1>2. CASE Fetch
  <2>1. js' = js /\ bpc' = "tokenise" /\ parser' = Called(jsmn_init)
    BY <1>2 DEF Fetch, js, request
  <2>2. TokNr \in Nat /\ IsText(js) /\ Len(js) \in Nat
    BY ReplyAssumption DEF BInv, Parsing, IsText
  <2>3. /\ parser'.tokens = << >> /\ parser'.toksuper = 0 /\ parser'.pos = 1
        /\ parser'.ret = "go"
    <3>1. jsmn_init.tokens = << >> /\ jsmn_init.pos = 1 /\ jsmn_init.toksuper = 0
      BY DEF jsmn_init
    <3>2. Tokens(jsmn_init, Len(js), TokNr)
      BY <2>2, InitTokens
    <3>. QED  BY <2>1, <2>2, <3>1, <3>2, CalledKeeps
  <2>. QED  BY <2>1, <2>2, <2>3, InitOwned DEF Matched
<1>3. CASE Tokenise
  BY <1>3, TokeniseMatched
<1>4. CASE Grow
  <2>1. js' = js /\ bpc = "tokenise" /\ bpc' = "tokenise" /\ parser.ret = "nomem"
        /\ parser' = Called(parser)
    BY <1>4 DEF Grow, js, request
  <2>2. tok_nr \in Nat /\ Len(js) \in Nat /\ Tokens(parser, Len(js), tok_nr)
    BY <2>1 DEF BInv, Parsing, IsText
  <2>3. /\ parser'.tokens = parser.tokens /\ parser'.toksuper = parser.toksuper
        /\ parser'.pos = parser.pos /\ parser'.ret = "go"
    BY <2>1, <2>2, CalledKeeps
  <2>. QED  BY <2>1, <2>3 DEF Matched
<1>5. CASE Tokenised
  <2>1. /\ js' = js /\ bpc = "tokenise" /\ bpc' = "store" /\ parser.ret = "done"
        /\ parser' = parser
    BY <1>5 DEF Tokenised, js, request, parse
  <2>. QED  BY <2>1 DEF Matched
<1>6. CASE Store \/ GrowTable \/ PutEntry \/ UNCHANGED bvars
  <2>1. js' = js /\ parser' = parser
    BY <1>6 DEF Store, GrowTable, PutEntry, bvars, js, request, parse
  <2>2. \/ bpc \in {"store", "entries"} /\ bpc' \in {"entries", "idle"}
        \/ bpc' = bpc
    <3>1. CASE Store
      BY <3>1 DEF Store, Return
    <3>2. CASE GrowTable \/ PutEntry \/ UNCHANGED bvars
      BY <3>2 DEF GrowTable, PutEntry, bvars
    <3>. QED  BY <1>6, <3>1, <3>2
  <2>. QED  BY <2>1, <2>2 DEF Matched
<1>7. \/ bpc' \notin {"tokenise", "store", "entries"}
      \/ Fetch \/ Tokenise \/ Grow \/ Tokenised \/ Store \/ GrowTable \/ PutEntry
      \/ UNCHANGED bvars
  BY DEF BNext, Library, Connect, CheckRefuses, CheckPasses, FetchCrashes, FetchFails,
         Refuse, EndOverflows, Finish, Return
<1>. QED  BY <1>1, <1>2, <1>3, <1>4, <1>5, <1>6, <1>7

LEMMA TokensInvariant == BSpec => [](BInv /\ Covered /\ Matched)
<1>1. BInit => Covered /\ Matched
  BY DEF BInit, Covered, Matched
<1>. QED  BY <1>1, InitBInv, StepBInv, StepCovered, StepMatched, PTL DEF BSpec

\* For any text in which ":" stands where it does in JSON, and with a token array of
\* any size to begin with: when the text has been read, the tokens are its values, with
\* their places and the number of their parts (jsmn.c:158-333, broker.c:110-118).
THEOREM TokensOfEachText == BSpec => [](Punctuated(js) => TokensMatch)
<1>1. BInv /\ Covered /\ Matched => (Punctuated(js) => TokensMatch)
  BY DEF BInv, Parsing, Tokens, Matched, TokensMatch
<1>. QED  BY <1>1, TokensInvariant, PTL

-----------------------------------------------------------------------------
(* The entries of the table                                                 *)

\* Those that are in the table, also while it is resized.
InTable == IF kpc = "rest" THEN {entries[b] : b \in live} ELSE Held

\* An entry takes the place of the one with its key.
LEMMA PutInTable ==
  ASSUME HInv, NEW k \in Int, NEW v, kh_put(k, v)
  PROVE  InTable' = {e \in InTable : e.key # k} \cup {[key |-> k, val |-> v]}
<1>. DEFINE n == n_buckets
            new == [key |-> k, val |-> v]
            b == FirstProbe(k, n, Stops(k))
<1>1. /\ kpc = "rest" /\ kpc' = "rest" /\ size < Upper(n)
      /\ entries' = With(entries, b, new) /\ live' = live \cup {b}
  <2>1. n \in Nat /\ size \in Nat /\ Upper(n) \in Nat
    BY ExpandedSize, UpperBound DEF HInv, Sized
  <2>. QED  BY <2>1 DEF kh_put, Full, With, rehash
<1>2. LikePowerOfTwo(n) /\ n \in Nat /\ Upper(n) \in Nat /\ Upper(n) < n
  <2>1. n # 0
    BY <1>1, UpperBound DEF HInv, Sized
  <2>2. LikePowerOfTwo(n)
    BY <2>1 DEF HInv, Sized
  <2>. QED  BY <2>2, UpperBound DEF LikePowerOfTwo
<1>3. /\ Sound(n, live, entries) /\ size = Cardinality(live) /\ size \in Nat
      /\ live \subseteq DOMAIN entries
  BY <1>1, LiveFinite DEF HInv, AtRest, Buckets, Sized
<1>4. new.key = k
  OBVIOUS
<1>5. \A c \in live : entries[c].key = k <=> c = b
  <2>1. CASE \A c \in live : entries[c].key # k
    <3>1. Stops(k) = (0 .. n - 1) \ live
      BY <2>1 DEF Stops
    <3>2. Cardinality(live) < n
      BY <1>1, <1>2, <1>3
    <3>3. b \in (0 .. n - 1) \ live
      <4>1. b = FirstProbe(new.key, n, (0 .. n - 1) \ live)
        BY <1>4, <3>1
      <4>2. new.key \in Int /\ \A c \in live : entries[c].key # new.key
        BY <1>4, <2>1
      <4>. HIDE DEF b, new
      <4>. QED  BY <1>2, <1>3, <3>2, <4>1, <4>2, Inserted
    <3>. QED  BY <2>1, <3>3
  <2>2. ASSUME NEW c \in live, entries[c].key = k
        PROVE  \A d \in live : entries[d].key = k <=> d = b
    <3>1. b = c
      BY <1>2, <1>3, <2>2, SearchEndsAt DEF Stops
    <3>2. \A d \in live : entries[d].key = k => d = c
      BY <1>3, <2>2 DEF Sound, KeysDiffer
    <3>. HIDE DEF b
    <3>. QED  BY <2>2, <3>1, <3>2
  <2>. QED  BY <2>1, <2>2
<1>. HIDE DEF b, new
<1>6. /\ entries'[b] = new
      /\ \A c \in live : c # b => entries'[c] = entries[c]
  BY <1>1, <1>3 DEF With
<1>7. /\ InTable = {entries[c] : c \in live}
      /\ InTable' = {entries'[c] : c \in live \cup {b}}
  BY <1>1 DEF InTable
<1>8. InTable' \subseteq {e \in InTable : e.key # k} \cup {new}
  BY <1>5, <1>6, <1>7
<1>9. {e \in InTable : e.key # k} \cup {new} \subseteq InTable'
  BY <1>5, <1>6, <1>7
<1>. QED  BY <1>8, <1>9 DEF new

\* Growing the table changes none.
LEMMA GrowInTable == BInv /\ GrowTable => InTable' = InTable
<1>. SUFFICES ASSUME BInv, GrowTable PROVE InTable' = InTable
  OBVIOUS
<1>1. HInv
  BY DEF BInv
<1>2. CASE Resize
  <2>1. /\ kpc = "rest" /\ kpc' = "rehash" /\ new_flags' = {}
        /\ entries' = entries /\ live' = live
    BY <1>2 DEF Resize, table
  <2>2. Held' = {entries[b] : b \in live}
    BY <2>1 DEF Held
  <2>. QED  BY <2>1, <2>2 DEF InTable
<1>3. CASE Resized
  <2>1. Held' = Held /\ HInv'
    BY <1>1, <1>3, ResizedHInv
  <2>2. /\ kpc = "rehash" /\ kpc' = "rest" /\ live' = new_flags /\ new_flags' = new_flags
    BY <1>3 DEF Resized
  <2>3. Held' = {entries'[b] : b \in live'}
    BY <2>2 DEF Held
  <2>. QED  BY <2>1, <2>2, <2>3 DEF InTable
<1>4. CASE Skip \/ Take \/ Kick \/ Place
  <2>1. Held' = Held
    BY <1>1, <1>4, RehashHInv DEF Rehash
  <2>2. kpc # "rest" /\ kpc' # "rest"
    BY <1>4 DEF Skip, Take, Kick, Place
  <2>. QED  BY <2>1, <2>2 DEF InTable
<1>. QED  BY <1>2, <1>3, <1>4 DEF GrowTable, Rehash

-----------------------------------------------------------------------------
(* The order of the values                                                  *)

\* The places are those of the text before n, in ascending order.
Ascending(s, n) ==
  /\ s \in Seq(Nat)
  /\ \A t \in 1 .. Len(s) : /\ s[t] \in 1 .. n
                            /\ \A u \in 1 .. Len(s) : u < t => s[u] < s[t]

LEMMA StartsAscend ==
  ASSUME NEW text, Len(text) \in Nat
  PROVE  Ascending(Starts(text), Len(text))
<1>. DEFINE s == StartsBefore(text)
            Bad == {n \in Nat : n <= Len(text) /\ ~Ascending(s[n + 1], n)}
<1>1. Ascending(s[1], 0)
  <2>1. s[1] = << >>
    BY StartsSteps
  <2>. HIDE DEF s
  <2>. QED  BY <2>1, EmptySeq DEF Ascending
<1>2. ASSUME NEW n \in 1 .. Len(text), Ascending(s[n], n - 1)
      PROVE  Ascending(s[n + 1], n)
  <2>1. s[n + 1] = IF IsToken(text[n]) THEN Append(s[n], n) ELSE s[n]
    BY StartsSteps
  <2>. DEFINE old == s[n]
  <2>2. /\ n \in Nat /\ old \in Seq(Nat) /\ Len(old) \in Nat
        /\ \A t \in 1 .. Len(old) : /\ old[t] \in 1 .. n - 1
                                    /\ \A u \in 1 .. Len(old) : u < t => old[u] < old[t]
    BY <1>2, LenProperties DEF Ascending
  <2>. HIDE DEF old, s
  <2>3. CASE IsToken(text[n])
    <3>. DEFINE new == Append(old, n)
    <3>1. /\ new \in Seq(Nat) /\ Len(new) = Len(old) + 1
          /\ \A t \in 1 .. Len(old) : new[t] = old[t]
          /\ new[Len(old) + 1] = n
      BY <2>2, AppendProperties
    <3>. HIDE DEF new
    <3>2. ASSUME NEW t \in 1 .. Len(new)
          PROVE  /\ new[t] \in 1 .. n
                 /\ \A u \in 1 .. Len(new) : u < t => new[u] < new[t]
      <4>1. CASE t \in 1 .. Len(old)
        <5>1. new[t] = old[t] /\ old[t] \in 1 .. n - 1
          BY <2>2, <3>1, <4>1
        <5>2. ASSUME NEW u \in 1 .. Len(new), u < t PROVE new[u] < new[t]
          <6>1. u \in 1 .. Len(old)
            BY <2>2, <3>1, <4>1, <5>2
          <6>. QED  BY <2>2, <3>1, <4>1, <5>2, <6>1
        <5>. QED  BY <2>2, <5>1, <5>2
      <4>2. CASE t = Len(old) + 1
        <5>1. new[t] = n
          BY <3>1, <4>2
        <5>2. ASSUME NEW u \in 1 .. Len(new), u < t PROVE new[u] < new[t]
          <6>1. u \in 1 .. Len(old)
            BY <2>2, <3>1, <4>2, <5>2
          <6>2. new[u] = old[u] /\ old[u] \in 1 .. n - 1
            BY <2>2, <3>1, <6>1
          <6>. QED  BY <2>2, <5>1, <6>2
        <5>. QED  BY <5>1, <5>2
      <4>. QED  BY <2>2, <3>1, <4>1, <4>2
    <3>3. s[n + 1] = new
      BY <2>1, <2>3 DEF new, old
    <3>. QED  BY <3>1, <3>2, <3>3 DEF Ascending
  <2>4. CASE ~IsToken(text[n])
    <3>1. s[n + 1] = old
      BY <2>1, <2>4 DEF old
    <3>2. \A t \in 1 .. Len(old) : old[t] \in 1 .. n
      BY <2>2
    <3>. QED  BY <2>2, <3>1, <3>2 DEF Ascending
  <2>. QED  BY <2>3, <2>4
<1>. HIDE DEF s
<1>3. Bad = {}
  <2>. SUFFICES ASSUME Bad # {} PROVE FALSE
    OBVIOUS
  <2>1. PICK n \in Bad : \A m \in Bad : n <= m
    <3>1. Bad \subseteq Nat
      OBVIOUS
    <3>. HIDE DEF Bad
    <3>. QED  BY <3>1, LeastExists
  <2>2. n \in Nat /\ n <= Len(text) /\ ~Ascending(s[n + 1], n) /\ n # 0
    BY <1>1, <2>1
  <2>3. n - 1 \in Nat /\ n - 1 + 1 = n /\ n \in 1 .. Len(text)
    BY <2>2
  <2>4. Ascending(s[n - 1 + 1], n - 1)
    BY <2>1, <2>2, <2>3
  <2>. QED  BY <1>2, <2>2, <2>3, <2>4
<1>4. Len(text) \notin Bad
  BY <1>3
<1>. QED  BY <1>4 DEF Starts, s

\* The n-th token says what the n-th value of the text says.
LEMMA FieldIs ==
  ASSUME BInv, Matched, Punctuated(js), bpc \in {"store", "entries"}
  PROVE  /\ parser.count = Len(Starts(js)) /\ Len(Starts(js)) \in Nat
         /\ \A n \in 0 .. Len(Starts(js)) - 1 : Text(n) = Field(js, n)
<1>. DEFINE starts == Starts(js)
            tokens == TokensOf(js)
<1>1. parser.tokens = tokens /\ parser.count = Len(parser.tokens)
  BY DEF Matched, BInv, Parsing, Tokens
<1>2. /\ DOMAIN tokens = 1 .. Len(starts)
      /\ \A t \in 1 .. Len(starts) : tokens[t].start = starts[t]
  BY DEF TokensOf
<1>3. Len(js) \in Nat
  BY DEF BInv, Parsing, IsText
<1>4. starts \in Seq(Nat) /\ Len(starts) \in Nat
  BY <1>3, StartsAscend, LenProperties DEF Ascending
<1>. HIDE DEF starts, tokens
<1>5. Len(tokens) = Len(starts)
  <2>1. parser.tokens \in Seq(Token)
    BY ParserTypes DEF BInv, Parsing
  <2>2. DOMAIN tokens = 1 .. Len(tokens) /\ Len(tokens) \in Nat
    BY <1>1, <2>1, LenProperties
  <2>. QED  BY <1>2, <1>4, <2>2
<1>6. ASSUME NEW n \in 0 .. Len(starts) - 1 PROVE Text(n) = Field(js, n)
  <2>1. n + 1 \in 1 .. Len(starts)
    BY <1>4
  <2>2. parser.tokens[n + 1].start = starts[n + 1]
    BY <1>1, <1>2, <2>1
  <2>. QED  BY <2>2 DEF Text, Field, starts
<1>. QED  BY <1>1, <1>4, <1>5, <1>6 DEF starts

-----------------------------------------------------------------------------
(* The fields                                                               *)

\* A number in the range is stored as it is.
LEMMA Reduced ==
  ASSUME NEW a \in 0 .. Width - 1
  PROVE  a % Width = a
<1>1. Width \in Nat \ {0} /\ a \in Int
  BY InputAssumption
<1>2. /\ a \div Width \in Int /\ a % Width \in Int
      /\ a = Width * (a \div Width) + (a % Width)
      /\ 0 <= a % Width /\ a % Width < Width
  BY <1>1, Division
<1>. DEFINE q == a \div Width
            r == a % Width
<1>3. q \in Int /\ r \in Int /\ a = Width * q + r /\ 0 <= r /\ r < Width
  BY <1>2
<1>. HIDE DEF q, r
<1>4. q >= 1 => Width * q >= Width
  BY <1>1, <1>3
<1>5. q <= -1 => Width * q <= -Width
  BY <1>1, <1>3
<1>6. q = 0
  BY <1>1, <1>3, <1>4, <1>5
<1>7. r = a
  BY <1>1, <1>3, <1>6
<1>. QED  BY <1>7 DEF r

LEMMA ValidVal ==
  ASSUME NEW num, NEW old, utils_cfg_validity_check_val(num, old).ok
  PROVE  num \in 0 .. Width - 1 /\ utils_cfg_validity_check_val(num, old).val = num
<1>1. num \in 0 .. Width - 1
  BY DEF utils_cfg_validity_check_val
<1>2. num # Malformed
  BY <1>1, InputAssumption DEF Malformed
<1>3. num % Width = num
  BY <1>1, Reduced
<1>. QED  BY <1>1, <1>2, <1>3 DEF utils_cfg_validity_check_val

\* Stop is the place of the first number that is refused.
LEMMA StopIs ==
  ASSUME NEW nums, Len(nums) \in Nat
  PROVE  /\ Stop(nums) \in 1 .. Len(nums) + 1
         /\ \A l \in 1 .. Stop(nums) - 1 : utils_cfg_validity_check_val(nums[l], 0).ok
<1>. DEFINE Ok(l) == utils_cfg_validity_check_val(nums[l], 0).ok
            S == {k \in Nat : k \in 1 .. Len(nums) + 1 /\ (k <= Len(nums) => ~Ok(k))}
            First(k) == /\ k <= Len(nums) => ~Ok(k)
                        /\ \A l \in 1 .. k - 1 : Ok(l)
<1>. HIDE DEF Ok
<1>1. Len(nums) + 1 \in S
  OBVIOUS
<1>2. PICK k \in S : \A m \in S : k <= m
  <2>1. S \subseteq Nat /\ S # {}
    BY <1>1
  <2>. HIDE DEF S
  <2>. QED  BY <2>1, LeastExists
<1>3. \A l \in 1 .. k - 1 : Ok(l)
  <2>. TAKE l \in 1 .. k - 1
  <2>1. l \notin S
    BY <1>2
  <2>. QED  BY <1>2, <2>1
<1>4. \E m \in 1 .. Len(nums) + 1 : First(m)
  BY <1>2, <1>3
<1>5. Stop(nums) = CHOOSE m \in 1 .. Len(nums) + 1 : First(m)
  BY DEF Stop, Ok
<1>. HIDE DEF First
<1>6. Stop(nums) \in 1 .. Len(nums) + 1 /\ First(Stop(nums))
  BY <1>4, <1>5, Zenon
<1>. QED  BY <1>6 DEF First, Ok

\* The slots hold the numbers of a list, and behind them what they held.
Overlaid(new, nums, old) ==
  \A w \in Window : new[w] = IF w < Len(nums) THEN nums[w + 1] ELSE old[w]

\* What is stored of a list of intervals.
LEMMA IntervalsAre ==
  ASSUME NEW nums \in Seq(Nat \cup {Malformed}), NEW old,
         utils_cfg_add_intervals(nums, old).count # -1
  PROVE  /\ utils_cfg_check_input(nums)
         /\ \A n \in 1 .. Len(nums) : nums[n] \in 0 .. Width - 1
         /\ utils_cfg_add_intervals(nums, old).count = Len(nums)
         /\ Overlaid(utils_cfg_add_intervals(nums, old).intervals, nums, old)
<1>. DEFINE r == utils_cfg_add_intervals(nums, old)
            new == [w \in Window |->
                IF w < Stop(nums) /\ w < Len(nums)
                THEN utils_cfg_validity_check_val(nums[w + 1], old[w]).val
                ELSE old[w]]
<1>1. utils_cfg_check_input(nums)
  <2>1. ~utils_cfg_check_input(nums) => r = [count |-> -1, intervals |-> old]
    BY DEF utils_cfg_add_intervals
  <2>. HIDE DEF r
  <2>2. ~utils_cfg_check_input(nums) => r.count = -1
    BY <2>1
  <2>. QED  BY <2>2 DEF r
<1>2. r = [count |-> IF Stop(nums) > Len(nums) THEN Len(nums) ELSE -1,
           intervals |-> new]
  BY <1>1 DEF utils_cfg_add_intervals
<1>3. Len(nums) \in Nat
  BY LenProperties
<1>. HIDE DEF new
<1>4. Stop(nums) > Len(nums) /\ r.count = Len(nums) /\ r.intervals = new
  BY <1>2
<1>. HIDE DEF r
<1>5. Stop(nums) = Len(nums) + 1
      /\ \A l \in 1 .. Len(nums) : utils_cfg_validity_check_val(nums[l], 0).ok
  <2>. DEFINE s == Stop(nums)
  <2>1. s \in 1 .. Len(nums) + 1 /\ s > Len(nums)
        /\ \A l \in 1 .. s - 1 : utils_cfg_validity_check_val(nums[l], 0).ok
    BY <1>3, <1>4, StopIs
  <2>. HIDE DEF s
  <2>2. s = Len(nums) + 1 /\ s - 1 = Len(nums)
    BY <1>3, <2>1
  <2>. QED  BY <2>1, <2>2 DEF s
<1>6. \A n \in 1 .. Len(nums) : nums[n] \in 0 .. Width - 1
  BY <1>5, ValidVal
<1>7. ASSUME NEW w \in Window
      PROVE  new[w] = IF w < Len(nums) THEN nums[w + 1] ELSE old[w]
  <2>1. w \in Nat
    BY InputAssumption DEF Window
  <2>2. CASE w < Len(nums)
    <3>1. w + 1 \in 1 .. Len(nums) /\ w < Stop(nums)
      BY <1>3, <1>5, <2>1, <2>2
    <3>2. nums[w + 1] \in 0 .. Width - 1
      BY <1>6, <3>1
    <3>. DEFINE val == utils_cfg_validity_check_val(nums[w + 1], old[w])
    <3>3. val.ok
      BY <3>2 DEF utils_cfg_validity_check_val
    <3>4. val.val = nums[w + 1]
      BY <3>3, ValidVal
    <3>5. new[w] = val.val
      BY <2>2, <3>1 DEF new
    <3>. QED  BY <2>2, <3>4, <3>5
  <2>3. CASE ~(w < Len(nums))
    BY <2>3 DEF new
  <2>. QED  BY <2>2, <2>3
<1>8. Overlaid(new, nums, old)
  <2>. HIDE DEF new
  <2>. QED  BY <1>7 DEF Overlaid
<1>. HIDE DEF new
<1>. QED  BY <1>1, <1>4, <1>6, <1>8 DEF r

\* The intervals of the configuration are those of the list.
LEMMA PairsAre ==
  ASSUME NEW nums, Len(nums) \in 1 .. MaxCount, NEW old, NEW new,
         Overlaid(new, nums, old)
  PROVE  Pairs(new, Len(nums)) =
           LET given == Append(nums, old[Len(nums)])
           IN  {<<given[n], given[n + 1]>> : n \in {m \in 1 .. Len(nums) : m % 2 = 1}}
<1>. DEFINE len == Len(nums)
            given == Append(nums, old[len])
            W == {v \in Window : v % 2 = 0 /\ v < len}
            N == {m \in 1 .. len : m % 2 = 1}
<1>1. len \in Nat /\ len < MaxWindows /\ Window = 0 .. MaxWindows - 1
      /\ MaxWindows \in Nat
  BY InputAssumption DEF Window
<1>2. given[len + 1] = old[len] /\ \A n \in 1 .. len : given[n] = nums[n]
  BY <1>1
<1>3. Pairs(new, len) = {<<new[w], new[w + 1]>> : w \in W}
  BY DEF Pairs
<1>. HIDE DEF given, len
<1>4. \A w \in Window : new[w] = IF w < len THEN nums[w + 1] ELSE old[w]
  BY DEF len, Overlaid
<1>5. \A w \in 0 .. len : new[w] = given[w + 1]
  <2>. TAKE w \in 0 .. len
  <2>1. w \in Window /\ new[w] = IF w < len THEN nums[w + 1] ELSE old[w]
    BY <1>1, <1>4
  <2>2. CASE w < len
    <3>1. w + 1 \in 1 .. len
      BY <1>1, <2>2
    <3>. QED  BY <1>2, <2>1, <2>2, <3>1
  <2>3. CASE w = len
    BY <1>1, <1>2, <2>1, <2>3
  <2>. QED  BY <1>1, <2>2, <2>3
<1>6. \A w \in W : /\ w + 1 \in N
                   /\ <<new[w], new[w + 1]>> = <<given[w + 1], given[w + 1 + 1]>>
  <2>. TAKE w \in W
  <2>1. w \in 0 .. len /\ w + 1 \in 0 .. len /\ w + 1 \in N
    BY <1>1
  <2>. QED  BY <1>5, <2>1
<1>7. \A n \in N : /\ n - 1 \in W
                   /\ <<given[n], given[n + 1]>> = <<new[n - 1], new[n - 1 + 1]>>
  <2>. TAKE n \in N
  <2>1. n - 1 \in 0 .. len /\ n \in 0 .. len /\ n - 1 \in W /\ n - 1 + 1 = n
    BY <1>1
  <2>2. new[n - 1] = given[n - 1 + 1] /\ new[n] = given[n + 1]
    BY <1>5, <2>1
  <2>. QED  BY <2>1, <2>2
<1>. HIDE DEF W, N
<1>8. {<<new[w], new[w + 1]>> : w \in W} = {<<given[n], given[n + 1]>> : n \in N}
  BY <1>6, <1>7
<1>. QED  BY <1>3, <1>8 DEF given, len, N

-----------------------------------------------------------------------------
(* What is stored of an answer                                              *)

\* The broker keeps to the scheme of its answers.
KeepsScheme == \A r \in Replies : InScheme(r.js)

\* Where the timestamp of a row is, counted from 0.
Stamp(text, r) == Starts(text)[14 + 2 * r]

\* The n rows hold URLs in the order of the text, and the entries lead to the last
\* one of each timestamp.
Listed(held, n, rows, text) ==
  /\ \A e \in held : /\ e.val \in 0 .. n - 1 /\ e.key = Atoi(text[Stamp(text, e.val)])
                     /\ \A r \in 0 .. n - 1 :
                          Atoi(text[Stamp(text, r)]) = e.key => r <= e.val
  /\ \A r \in 0 .. n - 1 : \E e \in held : e.key = Atoi(text[Stamp(text, r)])
  /\ \A r \in 0 .. n - 1 : rows[r] = text[Stamp(text, r) + 2].names

\* The pairs that are stored of a list of intervals: behind an odd one, what an
\* earlier list left in the next slot.
StoredPairs(text) ==
  LET given == Field(text, 6).nums
      nums == Append(given, intervals[Len(given)])
  IN  {<<nums[n], nums[n + 1]>> : n \in {m \in 1 .. Len(given) : m % 2 = 1}}

Fields(text) ==
  /\ projects = Field(text, 2).names /\ collectors = Field(text, 4).names
  /\ start = Num(Field(text, 8)) /\ max_end = Num(Field(text, 10))
  /\ Pairs(intervals, intervals_count) = StoredPairs(text)

\* Up to the tokens the callers see the configuration as it is; then it becomes that
\* of the answer, row by row.
Stored ==
  /\ bpc # "idle" => reply \in Replies
  /\ bpc \in {"idle", "check", "fetch", "tokenise"} => shown = View
  /\ bpc = "entries" \/ (bpc = "idle" /\ ret = 0) =>
       /\ Scheme(js) /\ Fields(js)
       /\ Listed(InTable, khash_count, roa_urls, js)
  /\ bpc = "entries" => i = 13 + 2 * khash_count /\ i <= parser.count
  /\ bpc = "idle" /\ ret = 0 => Len(Starts(js)) = 13 + 2 * khash_count

\* The intervals of a configuration while they are stored.
LEMMA StoreIntervals ==
  ASSUME BInv, Matched, Punctuated(js), Store
  PROVE  /\ Interval.count = -1 => Pairs(intervals, intervals_count)' = {}
         /\ Interval.count # -1 =>
              LET nums == Field(js, 6).nums
              IN  /\ utils_cfg_check_input(nums)
                  /\ \A n \in 1 .. Len(nums) : nums[n] \in 0 .. Width - 1
                  /\ Pairs(intervals, intervals_count)' = StoredPairs(js)
                  /\ StoredPairs(js)' = StoredPairs(js)
<1>. DEFINE nums == Field(js, 6).nums
<1>1. /\ bpc = "store" /\ js' = js
      /\ intervals' = Interval.intervals /\ intervals_count' = Interval.count
  BY DEF Store, request, js
<1>2. Text(6) = Field(js, 6) /\ nums \in Seq(Nat \cup {Malformed})
  <2>1. parser.count \in Nat /\ parser.count >= 12
    BY <1>1, ParserTypes DEF BInv, Parsing
  <2>2. 6 \in 0 .. Len(Starts(js)) - 1
    BY <1>1, <2>1, FieldIs
  <2>3. Text(6) = Field(js, 6)
    BY <1>1, <2>2, FieldIs
  <2>. QED  BY <1>1, <2>1, <2>3, TextIs DEF BInv
<1>3. Interval = utils_cfg_add_intervals(nums, intervals)
  BY <1>2 DEF Interval
<1>4. Pairs(intervals, intervals_count)' = Pairs(intervals', intervals_count')
  BY DEF Pairs, Window
<1>. HIDE DEF nums
<1>5. CASE Interval.count = -1
  <2>1. \A v \in Window : ~(v < -1)
    BY InputAssumption DEF Window
  <2>2. Pairs(intervals', -1) = {}
    BY <2>1 DEF Pairs
  <2>. QED  BY <1>1, <1>4, <1>5, <2>2
<1>6. CASE Interval.count # -1
  <2>1. /\ utils_cfg_check_input(nums)
        /\ \A n \in 1 .. Len(nums) : nums[n] \in 0 .. Width - 1
        /\ Interval.count = Len(nums)
        /\ Overlaid(intervals', nums, intervals)
    BY <1>1, <1>2, <1>3, <1>6, IntervalsAre
  <2>2. Len(nums) \in 1 .. MaxCount /\ Len(nums) \in Window /\ ~(Len(nums) < Len(nums))
    BY <2>1, InputAssumption DEF utils_cfg_check_input, Window
  <2>. DEFINE Made(given) ==
         {<<given[n], given[n + 1]>> : n \in {m \in 1 .. Len(nums) : m % 2 = 1}}
  <2>3. Pairs(intervals', Len(nums)) = Made(Append(nums, intervals[Len(nums)]))
    <3>1. Pairs(intervals', Len(nums)) =
            LET given == Append(nums, intervals[Len(nums)])
            IN  {<<given[n], given[n + 1]>> : n \in {m \in 1 .. Len(nums) : m % 2 = 1}}
      BY <2>1, <2>2, PairsAre
    <3>. QED  BY <3>1, Zenon
  <2>4. StoredPairs(js) = Made(Append(nums, intervals[Len(nums)]))
    BY DEF StoredPairs, nums
  <2>5. StoredPairs(js)' = Made(Append(nums, intervals'[Len(nums)]))
    BY <1>1 DEF StoredPairs, nums, Field
  <2>6. intervals'[Len(nums)] = intervals[Len(nums)]
    BY <2>1, <2>2 DEF Overlaid
  <2>. HIDE DEF Made
  <2>7. /\ Pairs(intervals, intervals_count)' = StoredPairs(js)
        /\ StoredPairs(js)' = StoredPairs(js)
    BY <1>1, <1>4, <2>1, <2>3, <2>4, <2>5, <2>6
  <2>. QED  BY <1>6, <2>1, <2>7 DEF nums
<1>. QED  BY <1>5, <1>6

LEMMA StoreStored ==
  ASSUME KeepsScheme, BInv, Covered, Matched, Stored, Store
  PROVE  Stored'
<1>1. /\ bpc = "store" /\ js' = js /\ reply' = reply /\ kpc = "rest" /\ kpc' = "rest"
      /\ live' = {} /\ khash_count' = 0 /\ parser' = parser
  BY DEF Store, request, parse, js, kh_clear, ResetCount, rehash, BInv
<1>2. reply \in Replies /\ Punctuated(js) /\ (WellFormed(js) /\ Usable(js) => Scheme(js))
  BY <1>1 DEF Stored, KeepsScheme, InScheme, js
<1>3. CASE bpc' = "idle"
  <2>1. ret' = -1 /\ shown' = View'
    BY <1>3 DEF Store, Return
  <2>. QED  BY <1>1, <1>2, <1>3, <2>1 DEF Stored
<1>4. CASE bpc' # "idle"
  <2>1. /\ bpc' = "entries" /\ i' = 13
        /\ Interval.count # -1 /\ Start.ok /\ MaxEnd.ok
        /\ projects' = Text(2).names /\ collectors' = Text(4).names
        /\ start' = Start.val /\ max_end' = MaxEnd.val
    BY <1>4 DEF Store, Return, Separated
  <2>2. /\ parser.count \in Nat /\ parser.count >= 12
        /\ parser.count = Len(Starts(js))
    BY <1>1, <1>2, FieldIs, ParserTypes DEF BInv, Parsing
  <2>3. \A n \in 0 .. 11 : Text(n) = Field(js, n)
    <3>1. \A n \in 0 .. 11 : n \in 0 .. Len(Starts(js)) - 1
      BY <2>2
    <3>. QED  BY <1>1, <1>2, <3>1, FieldIs
  <2>4. /\ Num(Field(js, 8)) \in 0 .. Width - 1 /\ start' = Num(Field(js, 8))
        /\ Num(Field(js, 10)) \in 0 .. Width - 1 /\ max_end' = Num(Field(js, 10))
    <3>1. 8 \in 0 .. 11 /\ 10 \in 0 .. 11
      OBVIOUS
    <3>2. Text(8) = Field(js, 8) /\ Text(10) = Field(js, 10)
      BY <2>3, <3>1
    <3>3. Num(Field(js, 8)) \in 0 .. Width - 1 /\ start' = Num(Field(js, 8))
      BY <2>1, <3>2, ValidVal DEF Start
    <3>4. Num(Field(js, 10)) \in 0 .. Width - 1 /\ max_end' = Num(Field(js, 10))
      BY <2>1, <3>2, ValidVal DEF MaxEnd
    <3>. QED  BY <3>3, <3>4
  <2>5. projects' = Field(js, 2).names /\ collectors' = Field(js, 4).names
    <3>1. 2 \in 0 .. 11 /\ 4 \in 0 .. 11
      OBVIOUS
    <3>. QED  BY <2>1, <2>3, <3>1
  <2>6. /\ LET nums == Field(js, 6).nums
           IN  /\ utils_cfg_check_input(nums)
               /\ \A n \in 1 .. Len(nums) : nums[n] \in 0 .. Width - 1
        /\ Pairs(intervals, intervals_count)' = StoredPairs(js)
        /\ StoredPairs(js)' = StoredPairs(js)
    BY <1>2, <2>1, StoreIntervals
  <2>7. Usable(js)
    BY <2>2, <2>4, <2>6 DEF Usable
  <2>8. Scheme(js)
    BY <1>1, <1>2, <2>7 DEF Covered
  <2>9. Fields(js)'
    BY <1>1, <2>4, <2>5, <2>6 DEF Fields, Field
  <2>10. InTable' = {}
    BY <1>1 DEF InTable
  <2>11. Listed({}, 0, roa_urls', js)
    BY DEF Listed
  <2>12. i' = 13 + 2 * khash_count' /\ i' <= parser'.count
    <3>1. Len(Starts(js)) >= 13
      BY <2>8 DEF Scheme
    <3>. QED  BY <1>1, <2>1, <2>2, <3>1
  <2>13. Scheme(js)' /\ Listed(InTable, khash_count, roa_urls, js)'
    BY <1>1, <2>8, <2>10, <2>11 DEF Scheme, Listed, Stamp, DataKeys, Starts
  <2>. QED  BY <1>1, <1>2, <2>1, <2>9, <2>12, <2>13 DEF Stored
<1>. QED  BY <1>3, <1>4
\* A row more.
LEMMA RowListed ==
  ASSUME NEW text, NEW n \in Nat, NEW held, NEW new, NEW rows, NEW more,
         Listed(held, n, rows, text), NEW k, k = Atoi(text[Stamp(text, n)]),
         new = {e \in held : e.key # k} \cup {[key |-> k, val |-> n]},
         \A r \in 0 .. n - 1 : more[r] = rows[r],
         more[n] = text[Stamp(text, n) + 2].names
  PROVE  Listed(new, n + 1, more, text)
<1>. DEFINE At(r) == Atoi(text[Stamp(text, r)])
            last == [key |-> k, val |-> n]
<1>1. /\ \A e \in held : /\ e.val \in 0 .. n - 1 /\ e.key = At(e.val)
                         /\ \A r \in 0 .. n - 1 : At(r) = e.key => r <= e.val
      /\ \A r \in 0 .. n - 1 : \E e \in held : e.key = At(r)
      /\ \A r \in 0 .. n - 1 : rows[r] = text[Stamp(text, r) + 2].names
  BY DEF Listed
<1>2. At(n) = k /\ last.key = k /\ last.val = n
  OBVIOUS
<1>3. new = {e \in held : e.key # k} \cup {last}
  OBVIOUS
<1>. HIDE DEF At, last
<1>4. \A r \in 0 .. n : r \in 0 .. n - 1 \/ r = n
  OBVIOUS
<1>5. ASSUME NEW e \in new
      PROVE  /\ e.val \in 0 .. n /\ e.key = At(e.val)
             /\ \A r \in 0 .. n : At(r) = e.key => r <= e.val
  <2>1. CASE e = last
    BY <1>2, <2>1
  <2>2. CASE e \in held /\ e.key # k
    <3>1. /\ e.val \in 0 .. n - 1 /\ e.key = At(e.val)
          /\ \A r \in 0 .. n - 1 : At(r) = e.key => r <= e.val
      BY <1>1, <2>2
    <3>. QED  BY <1>2, <1>4, <2>2, <3>1
  <2>. QED  BY <1>3, <2>1, <2>2
<1>6. ASSUME NEW r \in 0 .. n PROVE \E e \in new : e.key = At(r)
  <2>1. CASE At(r) = k
    BY <1>2, <1>3, <2>1
  <2>2. CASE At(r) # k
    <3>1. r \in 0 .. n - 1
      BY <1>2, <1>4, <2>2
    <3>2. PICK e \in held : e.key = At(r)
      BY <1>1, <3>1
    <3>. QED  BY <1>3, <2>2, <3>2
  <2>. QED  BY <2>1, <2>2
<1>7. ASSUME NEW r \in 0 .. n PROVE more[r] = text[Stamp(text, r) + 2].names
  BY <1>1, <1>4
<1>8. n + 1 - 1 = n
  OBVIOUS
<1>9. /\ \A e \in new : /\ e.val \in 0 .. n + 1 - 1 /\ e.key = At(e.val)
                        /\ \A r \in 0 .. n + 1 - 1 : At(r) = e.key => r <= e.val
      /\ \A r \in 0 .. n + 1 - 1 : \E e \in new : e.key = At(r)
      /\ \A r \in 0 .. n + 1 - 1 : more[r] = text[Stamp(text, r) + 2].names
  BY ONLY <1>5, <1>6, <1>7, <1>8
<1>. QED  BY <1>9 DEF Listed, At

LEMMA PutStored ==
  ASSUME KeepsScheme, BInv, Matched, Stored, PutEntry
  PROVE  Stored'
<1>. DEFINE n == khash_count
            starts == Starts(js)
<1>1. /\ bpc = "entries" /\ bpc' = "entries" /\ i < parser.count /\ i' = i + 2
      /\ khash_count' = n + 1 /\ js' = js /\ reply' = reply /\ parser' = parser
      /\ kh_put(Atoi(Text(i)), n)
      /\ roa_urls' = [roa_urls EXCEPT ![n] = Text(i + 1).names]
      /\ UNCHANGED <<projects, collectors, start, max_end, intervals, intervals_count>>
  BY DEF PutEntry, More, Row, request, parse, js, lists, windows, limits
<1>2. /\ reply \in Replies /\ Punctuated(js) /\ Scheme(js) /\ Fields(js)
      /\ Listed(InTable, n, roa_urls, js)
      /\ i = 13 + 2 * n
  BY <1>1 DEF Stored, KeepsScheme, InScheme, js
<1>3. /\ parser.count = Len(starts) /\ Len(starts) \in Nat
      /\ \A m \in 0 .. Len(starts) - 1 : Text(m) = Field(js, m)
  BY <1>1, <1>2, FieldIs
<1>4. PICK m \in Nat : /\ Len(starts) = 13 + 2 * m
                       /\ \A r \in 0 .. m - 1 : starts[15 + 2 * r] = starts[14 + 2 * r] + 2
  <2>1. \E m \in 0 .. Len(js) :
          /\ Len(starts) = 13 + 2 * m
          /\ \A r \in 0 .. m - 1 : starts[15 + 2 * r] = starts[14 + 2 * r] + 2
    BY <1>2, Zenon DEF Scheme
  <2>2. Len(js) \in Nat
    BY DEF BInv, Parsing, IsText
  <2>. HIDE DEF starts
  <2>. QED  BY <2>1, <2>2
<1>5. n \in Nat /\ n \in DOMAIN roa_urls
  <2>1. PICK c \in Nat : /\ DOMAIN roa_urls = 0 .. c - 1
                         /\ khash_count \in 0 .. c /\ parser.count <= c
    BY <1>1 DEF BInv, Rows
  <2>. QED  BY <1>1, <1>2, <1>3, <2>1
<1>. HIDE DEF n, starts
<1>6. n < m
  BY <1>1, <1>2, <1>3, <1>4, <1>5
<1>7. Text(i) = js[Stamp(js, n)]
  <2>1. i \in 0 .. Len(starts) - 1 /\ i + 1 = 14 + 2 * n
    BY <1>1, <1>2, <1>3, <1>5
  <2>2. Text(i) = Field(js, i)
    BY <1>3, <2>1
  <2>. QED  BY <2>1, <2>2 DEF Field, Stamp
<1>8. Text(i + 1) = js[Stamp(js, n) + 2]
  <2>1. i + 1 \in 0 .. Len(starts) - 1 /\ i + 1 + 1 = 15 + 2 * n
    BY <1>1, <1>2, <1>3, <1>4, <1>5
  <2>2. Text(i + 1) = Field(js, i + 1)
    BY <1>3, <2>1
  <2>3. n \in 0 .. m - 1
    BY <1>5, <1>6
  <2>4. Starts(js)[15 + 2 * n] = Stamp(js, n) + 2
    BY <1>4, <2>3 DEF Stamp, starts
  <2>. QED  BY <2>1, <2>2, <2>4 DEF Field
<1>9. Listed(InTable', n + 1, roa_urls', js)
  <2>. DEFINE k == Atoi(js[Stamp(js, n)])
  <2>1. k \in Int
    <3>1. i < parser.count /\ i \in Nat
      BY <1>1, <1>2, <1>5
    <3>2. Atoi(Text(i)) \in Int
      BY <1>1, <3>1, TextIs DEF BInv
    <3>. QED  BY <1>7, <3>2
  <2>2. kh_put(k, n)
    BY <1>1, <1>7
  <2>3. k = Atoi(js[Stamp(js, n)])
    OBVIOUS
  <2>. HIDE DEF k
  <2>4. InTable' = {e \in InTable : e.key # k} \cup {[key |-> k, val |-> n]}
    BY <2>1, <2>2, PutInTable DEF BInv
  <2>5. /\ \A r \in 0 .. n - 1 : roa_urls'[r] = roa_urls[r]
        /\ roa_urls'[n] = js[Stamp(js, n) + 2].names
    <3>1. /\ roa_urls'[n] = Text(i + 1).names
          /\ \A r \in DOMAIN roa_urls : r # n => roa_urls'[r] = roa_urls[r]
      BY <1>1, <1>5
    <3>2. \A r \in 0 .. n - 1 : r # n /\ r \in DOMAIN roa_urls
      <4>1. PICK c \in Nat : DOMAIN roa_urls = 0 .. c - 1
        BY DEF BInv, Rows
      <4>. QED  BY <1>5, <4>1
    <3>. QED  BY <1>8, <3>1, <3>2
  <2>. QED  BY <1>2, <1>5, <2>3, <2>4, <2>5, RowListed
<1>10. i' = 13 + 2 * khash_count' /\ i' <= parser'.count
  BY <1>1, <1>2, <1>3, <1>4, <1>5, <1>6
<1>11. Fields(js)' /\ Scheme(js)'
  <2>1. Scheme(js)'
    BY <1>1, <1>2 DEF Scheme, DataKeys, Starts
  <2>2. Pairs(intervals, intervals_count)' = Pairs(intervals, intervals_count)
    BY <1>1, Zenon DEF Pairs
  <2>3. StoredPairs(js)' = StoredPairs(js)
    BY <1>1, Zenon DEF StoredPairs, Field
  <2>. QED  BY <1>1, <1>2, <2>1, <2>2, <2>3 DEF Fields, Field
<1>12. Listed(InTable, khash_count, roa_urls, js)'
  BY <1>1, <1>9 DEF Listed, Stamp
<1>. QED  BY <1>1, <1>2, <1>10, <1>11, <1>12 DEF Stored
\* A step that changes neither what is stored of the answer nor the table.
LEMMA SameStored ==
  ASSUME Fields(js), Scheme(js), js' = js,
         UNCHANGED <<projects, collectors, start, max_end, intervals, intervals_count>>
  PROVE  Fields(js)' /\ Scheme(js)'
<1>1. Scheme(js)'
  BY DEF Scheme, DataKeys, Starts
<1>2. Pairs(intervals, intervals_count)' = Pairs(intervals, intervals_count)
  BY Zenon DEF Pairs
<1>3. StoredPairs(js)' = StoredPairs(js)
  BY Zenon DEF StoredPairs, Field
<1>. QED  BY <1>1, <1>2, <1>3 DEF Fields, Field

LEMMA SameTable ==
  ASSUME UNCHANGED <<table, rehash>>
  PROVE  InTable' = InTable /\ Keys' = Keys
BY DEF table, rehash, InTable, Held, Keys

LEMMA SameView ==
  ASSUME UNCHANGED <<config, rehash>>
  PROVE  View' = View /\ InTable' = InTable
BY SameTable DEF config, windows, limits, View, Pairs, Window

LEMMA GrowStored == BInv /\ Stored /\ GrowTable => Stored'
<1>. SUFFICES ASSUME BInv, Stored, GrowTable PROVE Stored'
  OBVIOUS
<1>1. /\ bpc = "entries" /\ bpc' = "entries" /\ js' = js
      /\ UNCHANGED <<khash_count, roa_urls, projects, collectors, start, max_end,
                     intervals, intervals_count, reply, parser, i>>
  <2>1. Rehash => kpc # "rest"
    BY DEF Rehash, Skip, Take, Kick, Place, Resized
  <2>. QED  BY <2>1 DEF GrowTable, BInv, More, lists, windows, limits, request, parse, js
<1>2. InTable' = InTable
  BY GrowInTable
<1>3. Fields(js)' /\ Scheme(js)'
  BY <1>1, SameStored DEF Stored
<1>4. Listed(InTable, khash_count, roa_urls, js)'
  BY <1>1, <1>2 DEF Stored, Listed, Stamp
<1>. QED  BY <1>1, <1>3, <1>4 DEF Stored

\* All dumps of the text are in the rows.
Complete ==
  /\ HInv /\ kpc = "rest" /\ Len(js) \in Nat /\ khash_count \in Nat
  /\ Scheme(js) /\ Fields(js) /\ Listed(InTable, khash_count, roa_urls, js)
  /\ Len(Starts(js)) = 13 + 2 * khash_count

LEMMA FinishComplete ==
  ASSUME KeepsScheme, BInv, Matched, Stored, Finish
  PROVE  Complete
<1>1. bpc = "entries" /\ ~(i < parser.count) /\ kpc = "rest"
  BY DEF Finish, More, BInv
<1>2. /\ Punctuated(js) /\ Scheme(js) /\ Fields(js)
      /\ Listed(InTable, khash_count, roa_urls, js)
      /\ i = 13 + 2 * khash_count /\ i <= parser.count
  BY <1>1 DEF Stored, KeepsScheme, InScheme, js
<1>3. khash_count \in Nat /\ Len(js) \in Nat
  BY DEF BInv, Rows, Parsing, IsText
<1>4. Len(Starts(js)) = 13 + 2 * khash_count
  <2>1. parser.count = Len(Starts(js)) /\ Len(Starts(js)) \in Nat
    BY <1>1, <1>2, FieldIs
  <2>2. i \in Nat
    BY <1>1 DEF BInv, Rows
  <2>. QED  BY <1>1, <1>2, <2>1, <2>2
<1>. QED  BY <1>1, <1>2, <1>3, <1>4 DEF Complete, BInv

LEMMA FinishStored ==
  ASSUME KeepsScheme, BInv, Matched, Stored, Finish
  PROVE  Stored'
<1>1. /\ bpc' = "idle" /\ ret' = 0 /\ shown' = View' /\ js' = js
      /\ UNCHANGED <<config, rehash, khash_count, roa_urls>>
  BY DEF Finish, Return, request, js, config
<1>2. Complete
  BY FinishComplete
<1>3. InTable' = InTable
  BY <1>1, SameView
<1>4. Fields(js)' /\ Scheme(js)'
  BY <1>1, <1>2, SameStored DEF Complete, config, lists, windows, limits
<1>5. Listed(InTable, khash_count, roa_urls, js)'
  BY <1>1, <1>2, <1>3 DEF Complete, Listed, Stamp
<1>6. Len(Starts(js))' = 13 + 2 * khash_count'
  BY <1>1, <1>2 DEF Complete
<1>. QED  BY <1>1, <1>4, <1>5, <1>6 DEF Stored

LEMMA StepStored ==
  ASSUME KeepsScheme, BInv, Covered, Matched, Stored, [BNext]_bvars
  PROVE  Stored'
<1>1. CASE Connect
  <2>1. /\ reply' \in Replies /\ bpc' = "check" /\ bpc = "idle" /\ shown' = shown
        /\ View' = View
    BY <1>1, SameView DEF Connect
  <2>. QED  BY <2>1 DEF Stored
<1>2. CASE CheckRefuses \/ FetchFails \/ Refuse
  <2>1. bpc' = "idle" /\ ret' = -1 /\ shown' = View'
    BY <1>2 DEF CheckRefuses, FetchFails, Refuse, Return
  <2>. QED  BY <2>1 DEF Stored
<1>3. CASE CheckPasses \/ FetchCrashes \/ Fetch \/ Tokenise \/ Grow \/ Tokenised
              \/ EndOverflows
  <2>1. /\ UNCHANGED <<config, rehash>> /\ shown' = shown /\ reply' = reply
        /\ \/ /\ bpc \in {"check", "fetch", "tokenise"}
              /\ bpc' \in {"check", "fetch", "tokenise", "store", "crashed"}
           \/ bpc = "store" /\ bpc' = "overflow"
    BY <1>3 DEF CheckPasses, FetchCrashes, Fetch, Tokenise, Grow, Tokenised, EndOverflows,
                request
  <2>2. View' = View
    BY <2>1, SameView
  <2>. QED  BY <2>1, <2>2 DEF Stored
<1>4. CASE Store
  BY <1>4, StoreStored
<1>5. CASE GrowTable
  BY <1>5, GrowStored
<1>6. CASE PutEntry
  BY <1>6, PutStored
<1>7. CASE Finish
  BY <1>7, FinishStored
<1>8. CASE UNCHANGED bvars
  <2>1. /\ UNCHANGED <<config, rehash, bpc, reply, parser, i, ret, shown, js>>
        /\ UNCHANGED <<projects, collectors, start, max_end, intervals, intervals_count>>
        /\ UNCHANGED <<khash_count, roa_urls>>
    BY <1>8 DEF bvars, config, lists, windows, limits, request, parse, js
  <2>2. View' = View /\ InTable' = InTable
    BY <2>1, SameView
  <2>3. CASE bpc = "entries" \/ (bpc = "idle" /\ ret = 0)
    <3>1. /\ Scheme(js) /\ Fields(js) /\ Listed(InTable, khash_count, roa_urls, js)
      BY <2>3 DEF Stored
    <3>2. Fields(js)' /\ Scheme(js)'
      BY <2>1, <3>1, SameStored
    <3>3. Listed(InTable, khash_count, roa_urls, js)'
      BY <2>1, <2>2, <3>1 DEF Listed, Stamp
    <3>4. Len(Starts(js))' = Len(Starts(js))
      BY <2>1
    <3>. QED  BY <2>1, <2>2, <3>2, <3>3, <3>4 DEF Stored
  <2>4. CASE ~(bpc = "entries" \/ (bpc = "idle" /\ ret = 0))
    BY <2>1, <2>2, <2>4 DEF Stored
  <2>. QED  BY <2>3, <2>4
<1>. QED
  BY <1>1, <1>2, <1>3, <1>4, <1>5, <1>6, <1>7, <1>8 DEF BNext, Library

LEMMA StoredInvariant ==
  ASSUME KeepsScheme
  PROVE  BSpec => [](BInv /\ Covered /\ Matched /\ Stored)
<1>1. BInit => Covered /\ Matched
  BY DEF BInit, Covered, Matched
<1>2. BInit => Stored
  <2>. SUFFICES ASSUME BInit PROVE Stored
    OBVIOUS
  <2>1. bpc = "idle" /\ ret = -1 /\ shown = View
    BY DEF BInit
  <2>. QED  BY <2>1 DEF Stored
<1>. QED
  BY <1>1, <1>2, InitBInv, StepBInv, StepCovered, StepMatched, StepStored, PTL DEF BSpec

-----------------------------------------------------------------------------
(* What the configuration is when all is stored                             *)

\* The timestamps in the order of the text.
LEMMA StampsAre ==
  ASSUME NEW text, Len(text) \in Nat, Scheme(text), NEW n \in Nat,
         Len(Starts(text)) = 13 + 2 * n
  PROVE  /\ DataKeys(text) = {Stamp(text, r) : r \in 0 .. n - 1}
         /\ \A r \in 0 .. n - 1 :
              /\ Stamp(text, r) \in Nat
              /\ \A q \in 0 .. n - 1 : q < r => Stamp(text, q) < Stamp(text, r)
         /\ Cardinality(DataKeys(text)) = n
<1>. DEFINE starts == Starts(text)
            data == DataKeys(text)
            R == 0 .. n - 1
<1>1. data = {Stamp(text, r) : r \in R}
  <2>1. \E m \in 0 .. Len(text) : /\ Len(starts) = 13 + 2 * m
                                  /\ data = {starts[14 + 2 * r] : r \in 0 .. m - 1}
    BY DEF Scheme
  <2>. HIDE DEF data, starts
  <2>2. PICK m \in 0 .. Len(text) : /\ Len(starts) = 13 + 2 * m
                                    /\ data = {starts[14 + 2 * r] : r \in 0 .. m - 1}
    BY <2>1, Zenon
  <2>3. m = n
    BY <2>2 DEF starts
  <2>. QED  BY <2>2, <2>3 DEF Stamp, starts
<1>2. Ascending(starts, Len(text))
  BY StartsAscend
<1>. HIDE DEF starts, data
<1>3. \A r \in R : 14 + 2 * r \in 1 .. Len(starts)
  BY DEF starts
<1>4. \A r \in R : /\ Stamp(text, r) \in Nat
                   /\ \A q \in R : q < r => Stamp(text, q) < Stamp(text, r)
  <2>. TAKE r \in R
  <2>1. Stamp(text, r) = starts[14 + 2 * r] /\ starts[14 + 2 * r] \in 1 .. Len(text)
    BY <1>2, <1>3 DEF Ascending, Stamp, starts
  <2>2. ASSUME NEW q \in R, q < r PROVE Stamp(text, q) < Stamp(text, r)
    <3>1. 14 + 2 * q < 14 + 2 * r
      BY <2>2
    <3>2. starts[14 + 2 * q] < starts[14 + 2 * r]
      BY <1>2, <1>3, <3>1 DEF Ascending
    <3>. QED  BY <3>2 DEF Stamp, starts
  <2>. QED  BY <2>1, <2>2
<1>5. Cardinality(data) = n
  <2>. DEFINE f == [r \in R |-> Stamp(text, r)]
  <2>1. f \in Surjection(R, data) /\ f \in Injection(R, data)
    <3>1. \A r \in R : f[r] \in data
      BY <1>1
    <3>2. \A m \in data : \E r \in R : f[r] = m
      BY <1>1
    <3>3. \A r, q \in R : f[r] = f[q] => r = q
      <4>. TAKE r, q \in R
      <4>1. r \in Nat /\ q \in Nat /\ Stamp(text, r) \in Nat /\ Stamp(text, q) \in Nat
        BY <1>4
      <4>2. r < q \/ q < r => Stamp(text, r) # Stamp(text, q)
        BY <1>4, <4>1
      <4>. QED  BY <4>1, <4>2
    <3>4. f \in [R -> data]
      BY <3>1
    <3>. HIDE DEF f
    <3>. QED  BY <3>2, <3>3, <3>4 DEF Surjection, Injection, IsInjective
  <2>. HIDE DEF f
  <2>2. IsFiniteSet(R) /\ Cardinality(R) = n
    <3>1. 0 \in Int /\ n - 1 \in Int
      OBVIOUS
    <3>2. IsFiniteSet(R)
      BY <3>1, FS_Interval
    <3>3. Cardinality(R) = IF 0 > n - 1 THEN 0 ELSE (n - 1) - 0 + 1
      BY <3>1, FS_Interval
    <3>. QED  BY <3>2, <3>3
  <2>. QED  BY <2>1, <2>2, FS_Surjection
<1>. QED  BY <1>1, <1>4, <1>5 DEF data

\* The entries are the timestamps of the text.
LEMMA KeysAre ==
  ASSUME Complete
  PROVE  Keys = {Atoi(js[m]) : m \in DataKeys(js)}
<1>. DEFINE R == 0 .. khash_count - 1
            At(r) == Atoi(js[Stamp(js, r)])
<1>1. InTable = {entries[b] : b \in live} /\ Keys = {entries[b].key : b \in live}
  BY DEF Complete, InTable, Keys
<1>2. /\ \A e \in InTable : e.val \in R /\ e.key = At(e.val)
      /\ \A r \in R : \E e \in InTable : e.key = At(r)
  BY DEF Complete, Listed
<1>3. DataKeys(js) = {Stamp(js, r) : r \in R}
  BY StampsAre DEF Complete
<1>4. {Atoi(js[m]) : m \in DataKeys(js)} = {At(r) : r \in R}
  BY <1>3
<1>. HIDE DEF R, At
<1>5. ASSUME NEW k \in Keys PROVE k \in {At(r) : r \in R}
  <2>1. PICK b \in live : k = entries[b].key
    BY <1>1
  <2>2. entries[b] \in InTable
    BY <1>1
  <2>. QED  BY <1>2, <2>1, <2>2
<1>6. ASSUME NEW r \in R PROVE At(r) \in Keys
  <2>1. PICK e \in InTable : e.key = At(r)
    BY <1>2
  <2>2. PICK b \in live : e = entries[b]
    BY <1>1
  <2>. QED  BY <1>1, <2>1, <2>2
<1>7. Keys = {At(r) : r \in R}
  BY <1>5, <1>6
<1>. QED  BY <1>4, <1>7

\* Of a list in which every value has its partner, nothing else is stored.
LEMMA EvenPairs ==
  ASSUME NEW text, IsText(text), Len(Starts(text)) \in Nat, Len(Starts(text)) >= 7,
         Regular(text)
  PROVE  StoredPairs(text) = PairsOf(text)
<1>. DEFINE given == Field(text, 6).nums
            k == Len(given)
            nums == Append(given, intervals[k])
            A == {m \in 1 .. k : m % 2 = 1}
            B == {m \in 1 .. k - 1 : m % 2 = 1}
<1>1. given \in Seq(Nat \cup {Malformed}) /\ k \in Nat
  <2>1. Ascending(Starts(text), Len(text)) /\ Len(text) \in Nat
    BY StartsAscend DEF IsText
  <2>2. Starts(text)[7] \in 1 .. Len(text)
    BY <2>1 DEF Ascending
  <2>3. text[Starts(text)[7]].nums \in Seq(Nat \cup {Malformed})
    BY <2>2 DEF IsText
  <2>4. 6 + 1 = 7
    OBVIOUS
  <2>. QED  BY <2>3, <2>4, LenProperties DEF Field
<1>2. k % 2 = 0
  BY DEF Regular
<1>3. StoredPairs(text) = {<<nums[n], nums[n + 1]>> : n \in A}
  BY DEF StoredPairs
<1>4. PairsOf(text) = {<<given[n], given[n + 1]>> : n \in B}
  BY DEF PairsOf
<1>. HIDE DEF given, k
<1>5. A = B
  BY <1>1, <1>2
<1>6. \A n \in B : nums[n] = given[n] /\ nums[n + 1] = given[n + 1]
  <2>. TAKE n \in B
  <2>1. n \in 1 .. k /\ n + 1 \in 1 .. k
    BY <1>1
  <2>. QED  BY <1>1, <2>1, AppendProperties DEF k
<1>. HIDE DEF nums, A, B
<1>. QED  BY <1>3, <1>4, <1>5, <1>6

LEMMA ViewIs ==
  ASSUME Complete, IsText(js), Regular(js)
  PROVE  View = ViewOf(js)
<1>. DEFINE data == DataKeys(js)
            keys == {Atoi(js[m]) : m \in data}
<1>1. Len(Starts(js)) \in Nat /\ Len(Starts(js)) >= 13
  BY DEF Complete
<1>2. Cardinality(data) = khash_count
  BY StampsAre DEF Complete
<1>3. Cardinality(keys) = khash_count
  BY <1>1, <1>2 DEF Regular
<1>4. Keys = keys
  BY KeysAre
<1>5. Pairs(intervals, intervals_count) = StoredPairs(js) /\ max_end = Num(Field(js, 10))
  BY DEF Complete, Fields
<1>6. Pairs(intervals, intervals_count) = PairsOf(js)
  BY <1>1, <1>5, EvenPairs
<1>7. ViewOf(js) = [keys |-> keys, count |-> Cardinality(keys),
                    intervals |-> PairsOf(js), max_end |-> Num(Field(js, 10))]
  BY DEF ViewOf
<1>. HIDE DEF keys
<1>. QED  BY <1>3, <1>4, <1>5, <1>6, <1>7 DEF View

\* Each timestamp leads to the last URL the text has for it.
LEMMA UrlsAre ==
  ASSUME Complete
  PROVE  [k \in Keys |-> roa_urls[entries[kh_get(k)].val]] = UrlsOf(js)
<1>. DEFINE n == khash_count
            data == DataKeys(js)
            All(k) == {m \in data : Atoi(js[m]) = k}
<1>1. Keys = {Atoi(js[m]) : m \in data}
  BY KeysAre
<1>2. UrlsOf(js) = [k \in {Atoi(js[m]) : m \in data} |-> js[Max(All(k)) + 2].names]
  BY DEF UrlsOf
<1>3. /\ n \in Nat /\ data = {Stamp(js, r) : r \in 0 .. n - 1}
      /\ \A r \in 0 .. n - 1 :
           /\ Stamp(js, r) \in Nat
           /\ \A q \in 0 .. n - 1 : q < r => Stamp(js, q) < Stamp(js, r)
  BY StampsAre DEF Complete
<1>4. ASSUME NEW k \in Keys
      PROVE  roa_urls[entries[kh_get(k)].val] = js[Max(All(k)) + 2].names
  <2>1. PICK b \in live : entries[b].key = k
    BY DEF Keys
  <2>2. kh_get(k) = b
    <3>1. LookupFinds
      BY InvFinds DEF Complete
    <3>. QED  BY <2>1, <3>1 DEF LookupFinds, Complete
  <2>. DEFINE r == entries[b].val
  <2>3. /\ r \in 0 .. n - 1 /\ k = Atoi(js[Stamp(js, r)])
        /\ \A q \in 0 .. n - 1 : Atoi(js[Stamp(js, q)]) = k => q <= r
        /\ roa_urls[r] = js[Stamp(js, r) + 2].names
    <3>1. entries[b] \in InTable
      BY DEF Complete, InTable
    <3>. QED  BY <2>1, <3>1 DEF Complete, Listed
  <2>. HIDE DEF r, n, data
  <2>4. Stamp(js, r) \in All(k)
    BY <1>3, <2>3
  <2>5. ASSUME NEW m \in All(k) PROVE m <= Stamp(js, r)
    <3>1. PICK q \in 0 .. n - 1 : m = Stamp(js, q)
      BY <1>3
    <3>2. q <= r
      BY <2>3, <2>5, <3>1
    <3>3. q < r \/ q = r
      BY <1>3, <2>3, <3>2
    <3>4. Stamp(js, q) \in Nat /\ Stamp(js, r) \in Nat
      BY <1>3, <2>3
    <3>. QED  BY <1>3, <2>3, <3>1, <3>3, <3>4
  <2>6. All(k) \subseteq Int
    BY <1>3
  <2>. HIDE DEF All
  <2>7. Max(All(k)) = Stamp(js, r)
    BY <2>4, <2>5, <2>6, MaxIs
  <2>. QED  BY <2>2, <2>3, <2>7 DEF r
<1>. HIDE DEF All, data
<1>. QED  BY <1>1, <1>2, <1>4

-----------------------------------------------------------------------------
(* The theorems                                                             *)

\* If the broker keeps to the scheme of its answers: a call that returns 0 leaves the
\* configuration that of its answer, whatever earlier calls left, and however often
\* table and token array had to grow; the intervals and the number of entries if the
\* answer has both ends of each interval and no timestamp twice (broker.c:110-245).
THEOREM AnswersAreWhole ==
  ASSUME KeepsScheme
  PROVE  BSpec => []AcceptedIsWhole
<1>1. BInv /\ Stored => AcceptedIsWhole
  <2>. SUFFICES ASSUME BInv, Stored, bpc = "idle", ret = 0
                PROVE  /\ Regular(js) => View = ViewOf(js)
                       /\ [k \in Keys |-> roa_urls[entries[kh_get(k)].val]] = UrlsOf(js)
                       /\ projects = Field(js, 2).names /\ collectors = Field(js, 4).names
                       /\ start = Num(Field(js, 8)) /\ max_end = Num(Field(js, 10))
    BY DEF AcceptedIsWhole
  <2>1. kpc = "rest" /\ HInv /\ khash_count \in Nat /\ Len(js) \in Nat /\ IsText(js)
    BY DEF BInv, Rows, Parsing, IsText
  <2>2. Complete
    BY <2>1 DEF Complete, Stored
  <2>3. Fields(js)
    BY <2>2 DEF Complete
  <2>. QED  BY <2>1, <2>2, <2>3, ViewIs, UrlsAre DEF Fields
<1>. QED  BY <1>1, StoredInvariant, PTL

\* If the broker keeps to the scheme of its answers: seen from rpki.c, each call that
\* gets both ends of each interval and no timestamp twice has the whole effect of its
\* answer, or leaves the table empty, or changes nothing (broker.c:52-245).
THEOREM CallsAreSteps ==
  ASSUME KeepsScheme
  PROVE  BSpec => EachCallIsOneStep
<1>1. BInit => Effect!Empty
  <2>. SUFFICES ASSUME BInit PROVE Effect!Empty
    OBVIOUS
  <2>1. /\ shown = View /\ Keys = {} /\ khash_count = 0 /\ max_end = 0
        /\ intervals_count = 0
    BY DEF BInit, KHashInit, Keys
  <2>2. Pairs(intervals, intervals_count) = {}
    <3>1. \A v \in Window : ~(v < 0)
      BY InputAssumption DEF Window
    <3>. QED  BY <2>1, <3>1 DEF Pairs
  <2>3. shown = [keys |-> {}, count |-> 0, intervals |-> {}, max_end |-> 0]
    BY <2>1, <2>2 DEF View
  <2>. QED  BY <2>3 DEF Effect!Empty
<1>2. BInv /\ Covered /\ Matched /\ Stored /\ [BNext]_bvars
        => [OneStep \/ ~Regular(js)]_shown
  <2>. SUFFICES ASSUME BInv, Covered, Matched, Stored, [BNext]_bvars, shown' # shown,
                       Regular(js)
                PROVE  OneStep
    OBVIOUS
  <2>1. \/ CheckRefuses \/ FetchFails \/ Refuse
        \/ Store /\ Return(-1)
        \/ Finish
    BY DEF BNext, Library, Connect, CheckPasses, FetchCrashes, Fetch, Tokenise, Grow,
           Tokenised, EndOverflows, Store, GrowTable, PutEntry, bvars
  <2>2. ~(CheckRefuses \/ FetchFails \/ Refuse)
    <3>. SUFFICES ASSUME CheckRefuses \/ FetchFails \/ Refuse PROVE FALSE
      OBVIOUS
    <3>1. /\ bpc \in {"check", "fetch", "tokenise"} /\ shown' = View'
          /\ UNCHANGED <<config, rehash>>
      BY DEF CheckRefuses, FetchFails, Refuse, Return
    <3>2. shown = View /\ View' = View
      BY <3>1, SameView DEF Stored
    <3>. QED  BY <3>1, <3>2
  <2>3. CASE Store /\ Return(-1)
    <3>1. bpc = "store" /\ shown' = View' /\ live' = {} /\ khash_count' = 0
      BY <2>3 DEF Store, Return, kh_clear, ResetCount
    <3>2. Punctuated(js)
      BY <3>1 DEF Stored, KeepsScheme, InScheme, js
    <3>3. Pairs(intervals, intervals_count)' \in {{}, PairsOf(js)}
      <4>1. /\ parser.count = Len(Starts(js)) /\ parser.count >= 12
            /\ Len(Starts(js)) \in Nat
        BY <3>1, <3>2, FieldIs DEF BInv, Parsing
      <4>2. StoredPairs(js) = PairsOf(js)
        BY <4>1, EvenPairs DEF BInv, Parsing
      <4>. QED  BY <2>3, <3>2, <4>2, StoreIntervals
    <3>4. /\ shown'.keys = {} /\ shown'.count = 0
          /\ shown'.intervals = Pairs(intervals, intervals_count)'
      <4>1. shown' = [keys |-> Keys', count |-> khash_count',
                      intervals |-> Pairs(intervals, intervals_count)',
                      max_end |-> max_end']
        BY <3>1 DEF View
      <4>2. Keys' = {}
        BY <3>1 DEF Keys
      <4>. QED  BY <3>1, <4>1, <4>2
    <3>. QED  BY <3>3, <3>4 DEF OneStep, Effect!Call, Effect!BrokenOff
  <2>4. CASE Finish
    <3>1. shown' = View' /\ UNCHANGED <<config, rehash>>
      BY <2>4 DEF Finish, Return
    <3>2. View = ViewOf(js)
      BY <2>4, FinishComplete, ViewIs DEF BInv, Parsing
    <3>3. shown' = ViewOf(js)
      BY <3>1, <3>2, SameView
    <3>. QED  BY <3>3 DEF OneStep, Effect!Call, Effect!Answered
  <2>. QED  BY <2>1, <2>2, <2>3, <2>4
<1>. QED  BY <1>1, <1>2, StoredInvariant, PTL DEF BSpec, EachCallIsOneStep
=============================================================================

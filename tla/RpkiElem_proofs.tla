-------------------------- MODULE RpkiElem_proofs --------------------------
(***************************************************************************)
(* One element of a call, for any number of tables, origins, prefixes,     *)
(* reasons, slots and characters: the entries of the hash table are what   *)
(* RTRlib named, the result is what it said as far as the values hold it,  *)
(* the only null pointer followed is the one RpkiValidate calls            *)
(* NullOutput, and the arrays overflow only when more was named than fits. *)
(***************************************************************************)
EXTENDS RpkiElem, SequenceTheorems, FiniteSetTheorems, WellFoundedInduction,
        TLAPS

\* The tables are validated one after the other, and exactly those that should.
AtReason == pc \in {"reason", "overflow"}
Reached(i) == i < table \/ (i = table /\ AtReason)
TablesInv ==
  /\ pfxt_active \subseteq 0 .. pfxt_count - 1
  /\ table <= LastTable + 1
  /\ AtReason => /\ table <= LastTable
                 /\ reason <= Len(outcome[table].reasons) + 1
  /\ pc \in {"done", "crashed"} => table = LastTable + 1
  /\ \A i \in Table :
       /\ status[i] = outcome[i].state
       /\ status[i] # "notvalidated" <=> Reached(i) /\ (i \in pfxt_active \/ live)
       /\ unified /\ status[i] \in {"valid", "invalid"} => i = 0
  /\ AtReason => status[table] \in {"valid", "invalid"}

\* The slots in use come before the free one, each taken by a reason, and the
\* arrays overflow behind the last one.
SlotsInv ==
  /\ slots = 0 .. khash_count - 1
  /\ khash_count <= table * MaxReasons + (IF AtReason THEN reason - 1 ELSE 0)
  /\ pc = "overflow" => /\ khash_count = ReasonsSize
                        /\ reason <= Len(outcome[table].reasons)

EInv == TypeOK /\ TablesInv /\ SlotsInv /\ EntriesMatchReasons

-----------------------------------------------------------------------------
(* The prefixes named for an origin, and what of them fits.                 *)

\* A set of natural numbers has a least element.
LEMMA LeastExists ==
  ASSUME NEW S, S \subseteq Nat, S # {}
  PROVE  \E m \in S : \A n \in S : m <= n
<1>1. PICK m \in S : \A n \in S : ~(<<n, m>> \in OpToRel(<, Nat))
  BY NatLessThanWellFounded, WFMin
<1>2. \A n \in S : ~(n < m)
  BY <1>1, Zenon DEF OpToRel
<1>. QED  BY <1>2

\* The texts of values, and the text of one more prefix.
Text == Seq(Characters \cup {Blank})
Joined(text, prefix) == IF text = << >> THEN prefix ELSE Listed(text, prefix)

\* What Named(reasons, asn) is at n, from what it is before.
After(reasons, asn, f, n) ==
  IF n = 0 THEN << >>
  ELSE IF reasons[n].asn # asn THEN f[n - 1]
  ELSE IF f[n - 1] = << >> THEN reasons[n].prefix
  ELSE Listed(f[n - 1], reasons[n].prefix)

\* The recursion of Named ends.
LEMMA NamedEnds ==
  ASSUME NEW reasons \in Seq(Reason), NEW asn
  PROVE  Named(reasons, asn) =
           [n \in 0 .. Len(reasons) |->
              After(reasons, asn, Named(reasons, asn), n)]
<1>. DEFINE Good(k) == \E f : f = [n \in 0 .. k |-> After(reasons, asn, f, n)]
            Bad == {k \in Nat : ~Good(k)}
<1>1. Good(0)
  <2>. DEFINE f == [n \in 0 .. 0 |-> << >>]
  <2>1. f = [n \in 0 .. 0 |-> After(reasons, asn, f, n)]
    BY DEF After
  <2>. QED  BY <2>1
<1>2. ASSUME NEW k \in Nat, Good(k) PROVE Good(k + 1)
  <2>1. PICK f : f = [n \in 0 .. k |-> After(reasons, asn, f, n)]
    BY <1>2
  <2>. DEFINE g == [n \in 0 .. k + 1 |-> After(reasons, asn, f, n)]
  <2>2. ASSUME NEW n \in 0 .. k PROVE g[n] = f[n]
    <3>1. n \in 0 .. k + 1
      OBVIOUS
    <3>2. g[n] = After(reasons, asn, f, n)
      BY <3>1
    <3>3. f[n] = After(reasons, asn, f, n)
      BY <2>1
    <3>. QED  BY <3>2, <3>3
  <2>3. ASSUME NEW n \in 0 .. k + 1
        PROVE  After(reasons, asn, f, n) = After(reasons, asn, g, n)
    <3>. HIDE DEF g
    <3>1. CASE n = 0
      BY <3>1 DEF After
    <3>2. CASE n # 0
      <4>1. n - 1 \in 0 .. k
        BY <3>2
      <4>2. g[n - 1] = f[n - 1]
        BY <4>1, <2>2
      <4>. QED  BY <4>2 DEF After
    <3>. QED  BY <3>1, <3>2
  <2>4. g = [n \in 0 .. k + 1 |-> After(reasons, asn, g, n)]
    <3>1. [n \in 0 .. k + 1 |-> After(reasons, asn, f, n)] =
          [n \in 0 .. k + 1 |-> After(reasons, asn, g, n)]
      <4>. HIDE DEF g
      <4>. QED  BY <2>3, Zenon
    <3>. QED  BY <3>1, Zenon
  <2>. QED  BY <2>4, Zenon
<1>3. Bad = {}
  <2>. SUFFICES ASSUME Bad # {} PROVE FALSE
    OBVIOUS
  <2>1. PICK k \in Bad : \A m \in Bad : k <= m
    <3>1. Bad \in SUBSET Nat
      OBVIOUS
    <3>. HIDE DEF Bad
    <3>. QED  BY <3>1, LeastExists
  <2>. HIDE DEF Good
  <2>2. k # 0
    BY <1>1
  <2>3. k - 1 \in Nat /\ Good(k - 1)
    BY <2>1, <2>2
  <2>4. Good(k - 1 + 1)
    BY <2>3, <1>2
  <2>. QED  BY <2>1, <2>4
<1>4. Good(Len(reasons))
  <2>. HIDE DEF Good
  <2>. QED  BY <1>3, LenProperties
<1>. DEFINE named == CHOOSE f : f = [n \in 0 .. Len(reasons) |->
                                       After(reasons, asn, f, n)]
<1>5. Named(reasons, asn) = named
  BY DEF Named, After
<1>6. named = [n \in 0 .. Len(reasons) |-> After(reasons, asn, named, n)]
  BY <1>4, Zenon
<1>. QED  BY <1>5, <1>6

\* The first value, and each value from the one before.
LEMMA NamedSteps ==
  ASSUME NEW reasons \in Seq(Reason), NEW asn
  PROVE  /\ Named(reasons, asn)[0] = << >>
         /\ \A n \in 1 .. Len(reasons) :
              Named(reasons, asn)[n] =
                IF reasons[n].asn = asn
                THEN Joined(Named(reasons, asn)[n - 1], reasons[n].prefix)
                ELSE Named(reasons, asn)[n - 1]
<1>. DEFINE f == Named(reasons, asn)
<1>1. f = [n \in 0 .. Len(reasons) |-> After(reasons, asn, f, n)]
  BY NamedEnds
<1>2. Len(reasons) \in Nat
  BY LenProperties
<1>. HIDE DEF f
<1>3. \A n \in 0 .. Len(reasons) : f[n] = After(reasons, asn, f, n)
  BY <1>1
<1>. QED  BY <1>2, <1>3 DEF After, Joined, f

\* Prefixes and what they are joined to are texts with something in them.
LEMMA JoinedIsText ==
  ASSUME NEW text \in Text, NEW prefix \in Prefixes
  PROVE  /\ prefix \in Text /\ << Blank >> \in Text
         /\ text \o << Blank >> \in Text
         /\ Listed(text, prefix) \in Text /\ Joined(text, prefix) \in Text
         /\ Joined(text, prefix) # << >>
<1>. DEFINE chars == Characters \cup {Blank}
<1>1. prefix \in Seq(Characters) /\ prefix # << >>
  BY ElemAssumption
<1>2. prefix \in Seq(chars)
  <2>1. \A k \in 1 .. Len(prefix) : prefix[k] \in chars
    BY <1>1, ElementOfSeq
  <2>2. prefix \in [1 .. Len(prefix) -> chars] /\ Len(prefix) \in Nat
    BY <1>1, <2>1, LenProperties
  <2>. QED  BY <2>2, SeqDef
<1>3. Blank \in chars
  OBVIOUS
<1>4. text \in Seq(chars)
  BY DEF Text
<1>. HIDE DEF chars
<1>5. << Blank >> \in Seq(chars) /\ Len(<< Blank >>) = 1
  BY <1>3
<1>6. text \o << Blank >> \in Seq(chars) /\ Len(text \o << Blank >>) = Len(text) + 1
  BY <1>4, <1>5, ConcatProperties
<1>7. /\ (text \o << Blank >>) \o prefix \in Seq(chars)
      /\ Len((text \o << Blank >>) \o prefix) = Len(text) + 1 + Len(prefix)
  BY <1>2, <1>6, ConcatProperties
<1>8. Len(text) \in Nat /\ Len(prefix) \in Nat
  BY <1>2, <1>4, LenProperties
<1>9. Listed(text, prefix) \in Seq(chars) /\ Listed(text, prefix) # << >>
  <2>1. Len(Listed(text, prefix)) > 0
    BY <1>7, <1>8 DEF Listed
  <2>2. Len(<< >>) = 0
    OBVIOUS
  <2>. QED  BY <1>7, <2>1, <2>2 DEF Listed
<1>10. Text = Seq(chars)
  BY DEF Text, chars
<1>. QED  BY <1>1, <1>2, <1>5, <1>6, <1>9, <1>10 DEF Joined

\* The values are texts, empty as long as the origin was not named.
LEMMA NamedWhat ==
  ASSUME NEW reasons \in Seq(Reason), NEW asn, NEW n \in 0 .. Len(reasons)
  PROVE  /\ Named(reasons, asn)[n] \in Text
         /\ Named(reasons, asn)[n] # << >> <=>
              \E m \in 1 .. n : reasons[m].asn = asn
<1>. DEFINE Right(k) == /\ Named(reasons, asn)[k] \in Text
                        /\ Named(reasons, asn)[k] # << >> <=>
                             \E m \in 1 .. k : reasons[m].asn = asn
            Wrong == {k \in 0 .. Len(reasons) : ~Right(k)}
<1>1. Len(reasons) \in Nat
  BY LenProperties
<1>2. Right(0)
  <2>1. Named(reasons, asn)[0] = << >>
    BY NamedSteps
  <2>2. << >> \in Text
    BY EmptySeq DEF Text
  <2>. QED  BY <2>1, <2>2
<1>3. ASSUME NEW k \in 1 .. Len(reasons), Right(k - 1) PROVE Right(k)
  <2>1. reasons[k] \in Reason
    BY <1>1, ElementOfSeq
  <2>2. CASE reasons[k].asn = asn
    <3>1. Named(reasons, asn)[k] =
            Joined(Named(reasons, asn)[k - 1], reasons[k].prefix)
      BY <2>2, NamedSteps
    <3>2. reasons[k].prefix \in Prefixes
      BY <2>1 DEF Reason
    <3>3. /\ Named(reasons, asn)[k] \in Text
          /\ Named(reasons, asn)[k] # << >>
      BY <3>1, <3>2, <1>3, JoinedIsText
    <3>4. k \in 1 .. k
      BY <1>1
    <3>. QED  BY <3>3, <3>4, <2>2
  <2>3. CASE reasons[k].asn # asn
    <3>1. Named(reasons, asn)[k] = Named(reasons, asn)[k - 1]
      BY <2>3, NamedSteps
    <3>2. \A m \in 1 .. k : m = k \/ m \in 1 .. k - 1
      BY <1>1
    <3>3. \A m \in 1 .. k - 1 : m \in 1 .. k
      BY <1>1
    <3>. QED  BY <3>1, <3>2, <3>3, <2>3, <1>3
  <2>. QED  BY <2>2, <2>3
<1>4. Wrong = {}
  <2>. SUFFICES ASSUME Wrong # {} PROVE FALSE
    OBVIOUS
  <2>1. Wrong \subseteq Nat
    BY <1>1
  <2>2. PICK k \in Wrong : \A m \in Wrong : k <= m
    <3>. HIDE DEF Wrong
    <3>. QED  BY <2>1, LeastExists
  <2>. HIDE DEF Right
  <2>3. k \in 1 .. Len(reasons) /\ k - 1 \in 0 .. Len(reasons)
    BY <1>1, <1>2, <2>2
  <2>4. Right(k - 1)
    BY <2>2, <2>3
  <2>. QED  BY <2>2, <2>3, <2>4, <1>3
<1>. HIDE DEF Right
<1>5. Right(n)
  BY <1>4
<1>. QED  BY <1>5 DEF Right

\* What is left of a text.
LEMMA CutIs ==
  ASSUME NEW text \in Text
  PROVE  /\ Cut(text) \in Text /\ Len(Cut(text)) \in Nat /\ Len(text) \in Nat
         /\ Len(Cut(text)) =
              IF Len(text) < PrefixLen THEN Len(text) ELSE PrefixLen - 1
         /\ \A k \in 1 .. Len(Cut(text)) : Cut(text)[k] = text[k]
<1>. DEFINE chars == Characters \cup {Blank}
            n == IF Len(text) < PrefixLen THEN Len(text) ELSE PrefixLen - 1
<1>1. text \in Seq(chars) /\ Len(text) \in Nat
  BY LenProperties DEF Text
<1>2. n \in Nat /\ n <= Len(text)
  BY <1>1, ElemAssumption
<1>3. Cut(text) = SubSeq(text, 1, n)
  BY DEF Cut
<1>. HIDE DEF chars, n
<1>4. \A k \in 1 .. n : text[k] \in chars
  BY <1>1, <1>2, ElementOfSeq
<1>5. /\ SubSeq(text, 1, n) \in Seq(chars)
      /\ Len(SubSeq(text, 1, n)) = IF 1 <= n THEN n - 1 + 1 ELSE 0
      /\ \A k \in 1 .. n - 1 + 1 : SubSeq(text, 1, n)[k] = text[1 + k - 1]
  BY <1>2, <1>4, SubSeqProperties
<1>6. Len(Cut(text)) = n
  BY <1>2, <1>3, <1>5
<1>7. \A k \in 1 .. n : Cut(text)[k] = text[k]
  <2>. TAKE k \in 1 .. n
  <2>1. k \in 1 .. n - 1 + 1 /\ 1 + k - 1 = k
    BY <1>2
  <2>. QED  BY <1>3, <1>5, <2>1
<1>. QED  BY <1>1, <1>2, <1>3, <1>5, <1>6, <1>7 DEF Text, chars, n

\* Cutting before something is appended changes nothing.
LEMMA CutConcat ==
  ASSUME NEW t \in Text, NEW u \in Text
  PROVE  Cut(Cut(t) \o u) = Cut(t \o u)
<1>. DEFINE chars == Characters \cup {Blank}
            c == Cut(t)
<1>1. /\ t \in Seq(chars) /\ u \in Seq(chars) /\ c \in Seq(chars)
      /\ PrefixLen \in Nat \ {0}
  BY CutIs, ElemAssumption DEF Text
<1>2. /\ Len(t) \in Nat /\ Len(c) \in Nat
      /\ Len(c) = IF Len(t) < PrefixLen THEN Len(t) ELSE PrefixLen - 1
      /\ \A k \in 1 .. Len(c) : c[k] = t[k]
  BY CutIs
<1>. HIDE DEF c, chars
<1>3. Len(u) \in Nat
  BY <1>1, LenProperties
<1>4. /\ c \o u \in Seq(chars) /\ Len(c \o u) = Len(c) + Len(u)
      /\ \A k \in 1 .. Len(c) + Len(u) :
           (c \o u)[k] = IF k <= Len(c) THEN c[k] ELSE u[k - Len(c)]
  BY <1>1, ConcatProperties
<1>5. /\ t \o u \in Seq(chars) /\ Len(t \o u) = Len(t) + Len(u)
      /\ \A k \in 1 .. Len(t) + Len(u) :
           (t \o u)[k] = IF k <= Len(t) THEN t[k] ELSE u[k - Len(t)]
  BY <1>1, ConcatProperties
<1>. DEFINE a == c \o u
            b == t \o u
<1>6. a \in Text /\ b \in Text
  BY <1>4, <1>5 DEF Text, chars
<1>7. Len(a) = Len(c) + Len(u) /\ Len(b) = Len(t) + Len(u)
  BY <1>4, <1>5
<1>8. \A k \in 1 .. Len(a) : k < PrefixLen => a[k] = b[k]
  <2>. SUFFICES ASSUME NEW k \in 1 .. Len(a), k < PrefixLen
                PROVE  a[k] = b[k]
    OBVIOUS
  <2>1. k \in 1 .. Len(c) + Len(u) /\ Len(c) <= Len(t)
    BY <1>1, <1>2, <1>7
  <2>2. CASE k <= Len(c)
    BY <1>2, <1>3, <1>4, <1>5, <2>1, <2>2
  <2>3. CASE k > Len(c)
    <3>1. Len(c) = Len(t)
      BY <1>1, <1>2, <2>1, <2>3
    <3>. QED  BY <1>2, <1>3, <1>4, <1>5, <2>1, <2>3, <3>1
  <2>. QED  BY <1>2, <2>1, <2>2, <2>3
<1>. HIDE DEF a, b
<1>9. /\ Cut(a) \in Text /\ Len(Cut(a)) \in Nat /\ Len(a) \in Nat
      /\ Len(Cut(a)) = IF Len(a) < PrefixLen THEN Len(a) ELSE PrefixLen - 1
      /\ \A k \in 1 .. Len(Cut(a)) : Cut(a)[k] = a[k]
  BY <1>6, CutIs
<1>10. /\ Cut(b) \in Text /\ Len(Cut(b)) \in Nat /\ Len(b) \in Nat
       /\ Len(Cut(b)) = IF Len(b) < PrefixLen THEN Len(b) ELSE PrefixLen - 1
       /\ \A k \in 1 .. Len(Cut(b)) : Cut(b)[k] = b[k]
  BY <1>6, CutIs
<1>11. Len(Cut(a)) = Len(Cut(b)) /\ Len(Cut(a)) <= Len(a) /\ Len(Cut(a)) < PrefixLen
  BY <1>1, <1>2, <1>3, <1>7, <1>9, <1>10
<1>12. \A k \in 1 .. Len(Cut(a)) : Cut(a)[k] = Cut(b)[k]
  <2>. TAKE k \in 1 .. Len(Cut(a))
  <2>1. k \in 1 .. Len(a) /\ k < PrefixLen /\ k \in 1 .. Len(Cut(b))
    BY <1>1, <1>9, <1>11
  <2>. QED  BY <1>8, <1>9, <1>10, <2>1
<1>13. Cut(a) = Cut(b)
  BY <1>9, <1>10, <1>11, <1>12, SeqEqual DEF Text
<1>. QED  BY <1>13 DEF a, b, c

\* A prefix may be listed behind what is left of the text.
LEMMA CutListed ==
  ASSUME NEW text \in Text, NEW prefix \in Prefixes
  PROVE  Cut(Listed(Cut(text), prefix)) = Cut(Listed(text, prefix))
<1>1. Cut(text) \in Text
  BY CutIs
<1>2. /\ prefix \in Text /\ << Blank >> \in Text
      /\ text \o << Blank >> \in Text /\ Cut(text) \o << Blank >> \in Text
  BY <1>1, JoinedIsText
<1>3. Cut(Cut(text) \o << Blank >>) = Cut(text \o << Blank >>)
  BY <1>2, CutConcat
<1>4. Cut((Cut(text) \o << Blank >>) \o prefix) =
      Cut(Cut(Cut(text) \o << Blank >>) \o prefix)
  BY <1>2, CutConcat
<1>5. Cut(Cut(text \o << Blank >>) \o prefix) = Cut((text \o << Blank >>) \o prefix)
  BY <1>2, CutConcat
<1>. QED  BY <1>3, <1>4, <1>5 DEF Listed

-----------------------------------------------------------------------------
(* The invariant.                                                           *)

\* What RTRlib says of a table: there are reasons exactly if the route is valid
\* or invalid.
LEMMA OutcomeFacts ==
  ASSUME NEW o \in Outcome \cup {NoOutcome}
  PROVE  /\ o.reasons \in Seq(Reason)
         /\ Len(o.reasons) \in 0 .. MaxReasons
         /\ o.state \in {"valid", "invalid"} => Len(o.reasons) > 0
         /\ o.state \notin {"valid", "invalid"} => o.reasons = << >>
         /\ o.state \in Status
         /\ o.state = "notvalidated" <=> o = NoOutcome
<1>. USE ElemAssumption
<1>1. CASE o \in {NotFoundOutcome, NoOutcome}
  <2>1. o.reasons = << >> /\ o.state \in {"notfound", "notvalidated"}
    BY <1>1 DEF NotFoundOutcome, NoOutcome
  <2>2. o.state = "notvalidated" <=> o = NoOutcome
    BY <1>1 DEF NotFoundOutcome, NoOutcome
  <2>. QED  BY <2>1, <2>2, EmptySeq DEF Status
<1>2. CASE o \notin {NotFoundOutcome, NoOutcome}
  <2>1. PICK n \in 1 .. MaxReasons : o.reasons \in [1 .. n -> Reason]
    BY <1>2 DEF Outcome
  <2>2. o.reasons \in Seq(Reason) /\ Len(o.reasons) = n
    BY <2>1
  <2>3. o.state \in {"valid", "invalid"}
    BY <1>2 DEF Outcome
  <2>. QED  BY <2>2, <2>3 DEF Status, NoOutcome
<1>. QED  BY <1>1, <1>2

LEMMA NoOutcomeIsNone == NoOutcome \notin Outcome /\ NotFoundOutcome \in Outcome
<1>1. \A o \in Outcome : o.state # "notvalidated"
  BY DEF Outcome, NotFoundOutcome
<1>. QED  BY <1>1 DEF Outcome, NoOutcome

\* The prefixes named for an origin in the reasons of a table seen so far.
SoFar(i, asn) == PrefixesOf(i, Collected(i), asn)

\* What the entries are, key by key.
LEMMA EntriesAre ==
  ASSUME EntriesMatchReasons
  PROVE  /\ \A s, t \in slots : valid_asn[s] = valid_asn[t] => s = t
         /\ \A s \in slots : valid_asn[s] \in Key
         /\ \A k \in Key :
              (\E s \in slots : valid_asn[s] = k) <=>
                /\ k.status = outcome[k.table].state
                /\ SoFar(k.table, k.asn) # << >>
         /\ \A s \in slots, k \in Key :
              k = valid_asn[s] => valid_prefix[s] = Cut(SoFar(k.table, k.asn))
<1>1. {valid_asn[s] : s \in slots} =
      {k \in Key : /\ k.status = outcome[k.table].state
                    /\ SoFar(k.table, k.asn) # << >>}
  BY DEF EntriesMatchReasons, NamedKeys, SoFar
<1>2. \A s, t \in slots : valid_asn[s] = valid_asn[t] => s = t
  BY DEF EntriesMatchReasons
<1>3. \A s \in slots, k \in Key :
        k = valid_asn[s] => valid_prefix[s] = Cut(SoFar(k.table, k.asn))
  BY DEF EntriesMatchReasons, SoFar
<1>. QED  BY <1>1, <1>2, <1>3

\* What there is to show of the entries after a step.
LEMMA EntriesNext ==
  ASSUME \A s, t \in slots' : valid_asn'[s] = valid_asn'[t] => s = t,
         \A s \in slots' : valid_asn'[s] \in Key,
         \A k \in Key :
           (\E s \in slots' : valid_asn'[s] = k) <=>
             /\ k.status = outcome'[k.table].state
             /\ SoFar(k.table, k.asn)' # << >>,
         \A s \in slots', k \in Key :
           k = valid_asn'[s] => valid_prefix'[s] = Cut(SoFar(k.table, k.asn)')
  PROVE  EntriesMatchReasons'
<1>1. {valid_asn'[s] : s \in slots'} =
      {k \in Key : /\ k.status = outcome'[k.table].state
                    /\ SoFar(k.table, k.asn)' # << >>}
  OBVIOUS
<1>. QED  BY <1>1 DEF EntriesMatchReasons, NamedKeys, SoFar, PrefixesOf, Collected, Cut

\* Steps that see no new reason leave the entries right.
LEMMA EntriesKept ==
  ASSUME EntriesMatchReasons, UNCHANGED hash,
         \A i \in Table, asn \in Asns : SoFar(i, asn)' = SoFar(i, asn),
         \A i \in Table : \/ outcome'[i].state = outcome[i].state
                          \/ \A asn \in Asns : SoFar(i, asn) = << >>
  PROVE  EntriesMatchReasons'
<1>1. valid_asn' = valid_asn /\ valid_prefix' = valid_prefix /\ slots' = slots
  BY DEF hash
<1>2. \A k \in Key : k.table \in Table /\ k.asn \in Asns
  BY DEF Key
<1>3. /\ \A s, t \in slots : valid_asn[s] = valid_asn[t] => s = t
      /\ \A s \in slots : valid_asn[s] \in Key
      /\ \A k \in Key :
           (\E s \in slots : valid_asn[s] = k) <=>
             /\ k.status = outcome[k.table].state
             /\ SoFar(k.table, k.asn) # << >>
      /\ \A s \in slots, k \in Key :
           k = valid_asn[s] => valid_prefix[s] = Cut(SoFar(k.table, k.asn))
  BY EntriesAre
<1>4. \A k \in Key :
        (\E s \in slots : valid_asn[s] = k) <=>
          /\ k.status = outcome'[k.table].state
          /\ SoFar(k.table, k.asn)' # << >>
  BY <1>2, <1>3
<1>5. \A s \in slots, k \in Key :
        k = valid_asn[s] => valid_prefix[s] = Cut(SoFar(k.table, k.asn)')
  BY <1>2, <1>3
<1>. QED  BY <1>1, <1>3, <1>4, <1>5, EntriesNext

LEMMA InitEInv == Init => EInv
<1>. SUFFICES ASSUME Init PROVE EInv
  OBVIOUS
<1>. USE ElemAssumption
<1>1. \A i \in Table : /\ outcome[i] = NoOutcome /\ status[i] = "notvalidated"
                       /\ outcome[i].reasons = << >>
  BY DEF Init, NoOutcome
<1>2. Slot \subseteq Nat /\ 0 \in Slot /\ 0 \in 0 .. ReasonsSize
  BY DEF Slot
<1>3. TypeOK
  <2>1. << >> \in Seq(Characters \cup {Blank}) /\ Len(<< >>) = 0
    BY EmptySeq
  <2>2. /\ valid_prefix \in [Slot -> Seq(Characters \cup {Blank})]
        /\ \A s \in Slot : Len(valid_prefix[s]) < PrefixLen
    BY <2>1 DEF Init
  <2>3. pfxt_active \subseteq Table /\ table \in 0 .. Tables /\ reason \in 1 .. MaxReasons + 1
    BY DEF Init, Table
  <2>. QED  BY <1>2, <2>2, <2>3 DEF Init, TypeOK, Status
<1>4. TablesInv
  <2>1. table <= LastTable + 1
    BY DEF Init, LastTable
  <2>2. \A i \in Table : ~Reached(i)
    BY DEF Init, Reached, AtReason, Table
  <2>. QED  BY <1>1, <2>1, <2>2 DEF Init, TablesInv, AtReason, NoOutcome
<1>5. SlotsInv
  BY DEF Init, SlotsInv, AtReason
<1>6. EntriesMatchReasons
  <2>1. \A i \in Table, asn \in Asns : PrefixesOf(i, Collected(i), asn) = << >>
    <3>1. \A i \in Table : Collected(i) = 0
      BY <1>1 DEF Collected, Init
    <3>2. << >> \in Seq(Reason)
      BY EmptySeq
    <3>3. \A asn : Named(<< >>, asn)[0] = << >>
      BY <3>2, NamedSteps
    <3>. QED  BY <1>1, <3>1, <3>3 DEF PrefixesOf
  <2>2. \A k \in Key : k.table \in Table /\ k.asn \in Asns
    BY DEF Key
  <2>. QED  BY <2>1, <2>2 DEF Init, EntriesMatchReasons, NamedKeys
<1>. QED  BY <1>3, <1>4, <1>5, <1>6 DEF EInv

\* Each table may need MaxReasons slots.
LEMMA SlotsPerTable ==
  /\ MaxReasons \in Nat /\ Slot \subseteq Nat /\ ReasonsSize \in Nat
  /\ \A i \in Nat : /\ i * MaxReasons \in Nat
                    /\ (i + 1) * MaxReasons = i * MaxReasons + MaxReasons
  /\ \A i \in Table : i * MaxReasons + MaxReasons <= Tables * MaxReasons
<1>1. MaxReasons \in Nat /\ Slot \subseteq Nat /\ Tables \in Nat /\ ReasonsSize \in Nat
  BY ElemAssumption DEF Slot
<1>2. ASSUME NEW i \in Nat
      PROVE  /\ i * MaxReasons \in Nat
             /\ (i + 1) * MaxReasons = i * MaxReasons + MaxReasons
  BY <1>1
<1>3. ASSUME NEW i \in Table
      PROVE  i * MaxReasons + MaxReasons <= Tables * MaxReasons
  <2>1. i \in Nat /\ i + 1 <= Tables
    BY <1>1 DEF Table
  <2>2. (i + 1) * MaxReasons <= Tables * MaxReasons
    BY <1>1, <2>1
  <2>. QED  BY <1>2, <2>1, <2>2
<1>. QED  BY <1>1, <1>2, <1>3

\* The loop over the tables: what the counter may be.
LEMMA TableBounds ==
  ASSUME TypeOK, TablesInv
  PROVE  /\ Tables \in Nat /\ table \in Nat /\ LastTable \in Int
         /\ LastTable <= Tables - 1
         /\ table <= LastTable => table \in Table
         /\ live => LastTable = 0
<1>1. pfxt_count \in 0 .. Tables /\ table \in 0 .. Tables /\ Tables \in Nat \ {0}
  BY ElemAssumption DEF TypeOK
<1>2. LastTable \in Int /\ LastTable <= Tables - 1 /\ (live => LastTable = 0)
  BY <1>1 DEF LastTable
<1>. QED  BY <1>1, <1>2 DEF Table

\* A table without dump, or validated for the live connection.
LEMMA SkipInv == EInv /\ SkipTable => EInv'
<1>. SUFFICES ASSUME EInv, SkipTable PROVE EInv'
  OBVIOUS
<1>1. /\ TypeOK /\ TablesInv /\ SlotsInv /\ EntriesMatchReasons
      /\ pc = "table" /\ table <= LastTable /\ ~Consults(table)
      /\ table' = table + 1
      /\ UNCHANGED <<config, outcome, status, hash, reason, pc, result>>
  BY DEF EInv, SkipTable
<1>2. /\ table \in Table /\ table \in Nat /\ Tables \in Nat
      /\ LastTable <= Tables - 1 /\ LastTable \in Int
  BY <1>1, TableBounds
<1>3. table' \in 0 .. Tables /\ table' <= LastTable + 1 /\ LastTable' = LastTable
  BY <1>1, <1>2 DEF LastTable, config
<1>4. TypeOK'
  BY <1>1, <1>3 DEF TypeOK, config, hash
<1>5. ~Reached(table) /\ status[table] = "notvalidated"
  BY <1>1, <1>2 DEF Reached, AtReason, TablesInv
<1>6. \A i \in Table : Reached(i)' <=> Reached(i) \/ i = table
  BY <1>1, <1>2 DEF Reached, AtReason, Table
<1>7. TablesInv'
  <2>1. \A i \in Table : status[i] # "notvalidated" <=>
                           Reached(i)' /\ (i \in pfxt_active \/ live)
    BY <1>1, <1>5, <1>6 DEF TablesInv, AtReason, Consults
  <2>. QED  BY <1>1, <1>3, <2>1 DEF TablesInv, AtReason, config
<1>8. SlotsInv'
  <2>1. table * MaxReasons \in Int /\ (table + 1) * MaxReasons = table * MaxReasons + MaxReasons
        /\ MaxReasons \in Nat /\ khash_count \in Int
    BY <1>1, <1>2, SlotsPerTable DEF TypeOK
  <2>2. khash_count <= table * MaxReasons + 0
    BY <1>1, <2>1 DEF SlotsInv, AtReason
  <2>3. khash_count <= (table + 1) * MaxReasons + 0
    BY <1>2, <2>1, <2>2
  <2>. QED  BY <1>1, <2>3 DEF SlotsInv, AtReason, hash
<1>9. EntriesMatchReasons'
  <2>1. \A i \in Table, asn \in Asns : SoFar(i, asn)' = SoFar(i, asn)
    BY <1>1 DEF SoFar, PrefixesOf, Collected
  <2>. QED  BY <1>1, <2>1, EntriesKept
<1>. QED  BY <1>4, <1>7, <1>8, <1>9 DEF EInv

\* The ends: the validation fails, the arrays overflow, or the result is written.
LEMMA EndInv == EInv /\ (ValidationFails \/ Overflow \/ Output) => EInv'
<1>. SUFFICES ASSUME EInv, ValidationFails \/ Overflow \/ Output PROVE EInv'
  OBVIOUS
<1>1. /\ TypeOK /\ TablesInv /\ SlotsInv /\ EntriesMatchReasons
      /\ \/ pc = "table" /\ pc' \in {"failed", "done", "crashed"}
         \/ /\ pc = "reason" /\ pc' = "overflow" /\ khash_count >= ReasonsSize
            /\ reason <= Len(outcome[table].reasons)
      /\ pc' \in {"done", "crashed"} => table > LastTable
      /\ UNCHANGED <<config, outcome, status, hash, table, reason>>
  BY DEF EInv, ValidationFails, Overflow, Output
<1>2. TypeOK'
  BY <1>1 DEF TypeOK, config, hash
<1>3. TablesInv'
  <2>1. table > LastTable => table = LastTable + 1
    BY <1>1, TableBounds DEF TablesInv, AtReason
  <2>2. LastTable' = LastTable /\ \A i \in Table : Reached(i)' <=> Reached(i)
    BY <1>1 DEF LastTable, Reached, AtReason, config
  <2>. QED  BY <1>1, <2>1, <2>2 DEF TablesInv, AtReason, config
<1>4. SlotsInv'
  <2>1. khash_count >= ReasonsSize => khash_count = ReasonsSize
    BY <1>1, ElemAssumption DEF TypeOK
  <2>. QED  BY <1>1, <2>1 DEF SlotsInv, AtReason, hash
<1>5. EntriesMatchReasons'
  <2>1. \A i \in Table, asn \in Asns : SoFar(i, asn)' = SoFar(i, asn)
    BY <1>1 DEF SoFar, PrefixesOf, Collected
  <2>. QED  BY <1>1, <2>1, EntriesKept
<1>. QED  BY <1>2, <1>3, <1>4, <1>5 DEF EInv

\* The reasons of the table are all collected: on to the next one.
LEMMA NextTableInv == EInv /\ NextTable => EInv'
<1>. SUFFICES ASSUME EInv, NextTable PROVE EInv'
  OBVIOUS
<1>1. /\ TypeOK /\ TablesInv /\ SlotsInv /\ EntriesMatchReasons
      /\ pc = "reason" /\ reason > Len(outcome[table].reasons)
      /\ table' = table + 1 /\ pc' = "table"
      /\ UNCHANGED <<config, outcome, status, hash, reason, result>>
  BY DEF EInv, NextTable
<1>2. /\ table \in Table /\ table \in Nat /\ Tables \in Nat /\ table <= LastTable
      /\ LastTable <= Tables - 1 /\ LastTable \in Int
  BY <1>1, TableBounds DEF TablesInv, AtReason
<1>3. /\ Len(outcome[table].reasons) \in 0 .. MaxReasons
      /\ reason = Len(outcome[table].reasons) + 1
  <2>1. outcome[table] \in Outcome \cup {NoOutcome} /\ reason \in Nat
    BY <1>1, <1>2, ElemAssumption DEF TypeOK
  <2>2. Len(outcome[table].reasons) \in 0 .. MaxReasons
    BY <2>1, OutcomeFacts
  <2>. QED  BY <1>1, <2>1, <2>2, ElemAssumption DEF TablesInv, AtReason
<1>4. table' \in 0 .. Tables /\ table' <= LastTable + 1 /\ LastTable' = LastTable
  BY <1>1, <1>2 DEF LastTable, config
<1>5. TypeOK'
  BY <1>1, <1>4 DEF TypeOK, config, hash
<1>6. \A i \in Table : Reached(i)' <=> Reached(i)
  BY <1>1, <1>2 DEF Reached, AtReason, Table
<1>7. TablesInv'
  BY <1>1, <1>4, <1>6 DEF TablesInv, AtReason, config
<1>8. SlotsInv'
  <2>1. table * MaxReasons \in Int /\ (table + 1) * MaxReasons = table * MaxReasons + MaxReasons
        /\ MaxReasons \in Nat /\ khash_count \in Int
    BY <1>1, <1>2, SlotsPerTable DEF TypeOK
  <2>2. khash_count <= table * MaxReasons + Len(outcome[table].reasons)
    BY <1>1, <1>3 DEF SlotsInv, AtReason
  <2>3. khash_count <= (table + 1) * MaxReasons + 0
    <3>. DEFINE low == table * MaxReasons
                upto == (table + 1) * MaxReasons
                n == Len(outcome[table].reasons)
    <3>1. low \in Int /\ upto = low + MaxReasons /\ khash_count <= low + n
      BY <2>1, <2>2
    <3>2. n \in Int /\ n <= MaxReasons /\ MaxReasons \in Int /\ khash_count \in Int
      BY <1>3, <2>1
    <3>. HIDE DEF low, upto, n
    <3>3. khash_count <= upto + 0
      BY <3>1, <3>2
    <3>. QED  BY <3>3 DEF upto
  <2>. QED  BY <1>1, <2>3 DEF SlotsInv, AtReason, hash
<1>9. EntriesMatchReasons'
  <2>1. \A i \in Table : Collected(i)' = Collected(i)
    BY <1>1, <1>3 DEF Collected
  <2>2. \A i \in Table, asn \in Asns : SoFar(i, asn)' = SoFar(i, asn)
    BY <1>1, <2>1 DEF SoFar, PrefixesOf
  <2>. QED  BY <1>1, <2>2, EntriesKept
<1>. QED  BY <1>5, <1>7, <1>8, <1>9 DEF EInv

\* RTRlib's answer for a table: none of its reasons is collected yet.
LEMMA ValidateInv == EInv /\ ValidateTable => EInv'
<1>. SUFFICES ASSUME EInv, ValidateTable PROVE EInv'
  OBVIOUS
<1>1. /\ TypeOK /\ TablesInv /\ SlotsInv /\ EntriesMatchReasons
      /\ pc = "table" /\ table <= LastTable /\ Consults(table)
      /\ UNCHANGED <<config, hash, result>>
  BY DEF EInv, ValidateTable
<1>2. PICK o \in Outcome :
        /\ unified /\ table > 0 => o.state = "notfound"
        /\ outcome' = [outcome EXCEPT ![table] = o]
        /\ status' = [status EXCEPT ![table] = o.state]
        /\ IF o.state = "notfound"
           THEN table' = table + 1 /\ reason' = reason /\ pc' = pc
           ELSE reason' = 1 /\ pc' = "reason" /\ table' = table
  BY NoOutcomeIsNone DEF ValidateTable, NotFoundOutcome
<1>3. /\ table \in Table /\ table \in Nat /\ Tables \in Nat
      /\ LastTable <= Tables - 1 /\ LastTable \in Int
  BY <1>1, TableBounds
<1>4. /\ o.reasons \in Seq(Reason) /\ o.state \in Status \ {"notvalidated"}
      /\ o.state = "notfound" => o.reasons = << >>
      /\ o.state # "notfound" => o.state \in {"valid", "invalid"}
      /\ Len(o.reasons) \in Nat
  BY <1>2, OutcomeFacts, NoOutcomeIsNone DEF Status
<1>5. /\ outcome'[table] = o /\ status'[table] = o.state
      /\ \A i \in Table \ {table} : outcome'[i] = outcome[i] /\ status'[i] = status[i]
  BY <1>1, <1>2, <1>3 DEF TypeOK
<1>6. /\ table' \in 0 .. Tables /\ table' <= LastTable + 1 /\ LastTable' = LastTable
      /\ reason' \in 1 .. MaxReasons + 1 /\ pc' \in {"table", "reason"}
  BY <1>1, <1>2, <1>3, ElemAssumption DEF LastTable, config, TypeOK
<1>7. TypeOK'
  BY <1>1, <1>2, <1>4, <1>6 DEF TypeOK, config, hash
<1>8. TablesInv'
  <2>1. \A i \in Table : Reached(i)' <=> Reached(i) \/ i = table
    BY <1>1, <1>2, <1>3 DEF Reached, AtReason, Table
  <2>2. table \in pfxt_active \/ live
    BY <1>1 DEF Consults
  <2>3. \A i \in Table :
          /\ status'[i] = outcome'[i].state
          /\ status'[i] # "notvalidated" <=>
               Reached(i)' /\ (i \in pfxt_active \/ live)
    <3>. TAKE i \in Table
    <3>1. CASE i = table
      BY <1>4, <1>5, <2>1, <2>2, <3>1
    <3>2. CASE i # table
      BY <1>1, <1>5, <2>1, <3>2 DEF TablesInv, AtReason
    <3>. QED  BY <3>1, <3>2
  <2>4. \A i \in Table : unified /\ status'[i] \in {"valid", "invalid"} => i = 0
    <3>1. unified /\ o.state \in {"valid", "invalid"} => table = 0
      BY <1>2, <1>3
    <3>. QED  BY <1>1, <1>5, <3>1 DEF TablesInv, AtReason
  <2>5. pc' = "reason" => /\ table' = table /\ reason' = 1
                          /\ o.state \in {"valid", "invalid"}
    BY <1>1, <1>2, <1>4
  <2>6. pc' = "reason" => /\ table' <= LastTable'
                          /\ reason' <= Len(outcome'[table'].reasons) + 1
                          /\ status'[table'] \in {"valid", "invalid"}
    BY <1>1, <1>4, <1>5, <1>6, <2>5
  <2>. QED  BY <1>1, <1>6, <2>3, <2>4, <2>6 DEF TablesInv, AtReason, config
<1>9. SlotsInv'
  <2>1. table * MaxReasons \in Int /\ (table + 1) * MaxReasons = table * MaxReasons + MaxReasons
        /\ MaxReasons \in Nat /\ khash_count \in Int
    BY <1>1, <1>3, SlotsPerTable DEF TypeOK
  <2>2. khash_count <= table * MaxReasons + 0
    BY <1>1, <2>1 DEF SlotsInv, AtReason
  <2>3. CASE o.state = "notfound"
    <3>1. khash_count <= (table + 1) * MaxReasons + 0
      BY <2>1, <2>2
    <3>. QED  BY <1>1, <1>2, <2>3, <3>1 DEF SlotsInv, AtReason, hash
  <2>4. CASE o.state # "notfound"
    BY <1>1, <1>2, <2>2, <2>4 DEF SlotsInv, AtReason, hash
  <2>. QED  BY <2>3, <2>4
<1>10. EntriesMatchReasons'
  <2>1. outcome[table].reasons = << >>
    <3>1. status[table] = "notvalidated" /\ outcome[table] \in Outcome \cup {NoOutcome}
      BY <1>1, <1>3 DEF Consults, TypeOK
    <3>2. outcome[table] = NoOutcome
      BY <1>1, <1>3, <3>1, OutcomeFacts DEF TablesInv, AtReason
    <3>. QED  BY <3>2 DEF NoOutcome
  <2>2. \A i \in Table : i = table => Collected(i) = 0 /\ Collected(i)' = 0
    <3>1. \A i \in Table : i = table => Collected(i) = 0
      BY <1>1, <2>1, EmptySeq DEF Collected
    <3>2. CASE o.state = "notfound"
      BY <1>1, <1>2, <1>3, <1>4, <1>5, <3>1, <3>2, EmptySeq DEF Collected
    <3>3. CASE o.state # "notfound"
      BY <1>1, <1>2, <1>3, <3>1, <3>3 DEF Collected
    <3>. QED  BY <3>2, <3>3
  <2>3. \A i \in Table, asn \in Asns :
          i = table => SoFar(i, asn) = << >> /\ SoFar(i, asn)' = << >>
    <3>1. \A asn \in Asns : /\ Named(o.reasons, asn)[0] = << >>
                            /\ Named(<< >>, asn)[0] = << >>
      BY <1>4, NamedSteps, EmptySeq
    <3>. QED  BY <1>5, <2>1, <2>2, <3>1 DEF SoFar, PrefixesOf
  <2>4. \A i \in Table : i # table => Collected(i)' = Collected(i)
    BY <1>1, <1>2, <1>5 DEF Collected
  <2>5. \A i \in Table, asn \in Asns : i # table => SoFar(i, asn)' = SoFar(i, asn)
    BY <1>5, <2>4 DEF SoFar, PrefixesOf
  <2>. QED  BY <1>1, <1>5, <2>3, <2>5, EntriesKept
<1>. QED  BY <1>7, <1>8, <1>9, <1>10 DEF EInv

\* One more reason: its prefix is added to what its table named for its origin.
LEMMA ReasonCollected ==
  ASSUME EInv, pc = "reason", reason <= Len(outcome[table].reasons),
         reason' = reason + 1, UNCHANGED <<outcome, table, pc>>
  PROVE  /\ NewKey \in Key /\ NewPrefix \in Prefixes
         /\ NewKey.table = table /\ NewKey.status = outcome[table].state
         /\ \A i \in Table, asn \in Asns :
              /\ SoFar(i, asn) \in Text
              /\ SoFar(i, asn)' =
                   IF i = table /\ asn = NewKey.asn
                   THEN Joined(SoFar(i, asn), NewPrefix) ELSE SoFar(i, asn)
<1>. DEFINE reasons == outcome[table].reasons
<1>1. TypeOK /\ TablesInv /\ table \in Table /\ reason \in Nat \ {0}
  <2>1. TypeOK /\ TablesInv
    BY DEF EInv
  <2>2. table <= LastTable
    BY <2>1 DEF TablesInv, AtReason
  <2>3. table \in Table
    BY ONLY <2>1, <2>2, TableBounds
  <2>4. reason \in Nat \ {0}
    BY <2>1, ElemAssumption DEF TypeOK
  <2>. QED  BY <2>1, <2>3, <2>4
<1>2. \A i \in Table : /\ outcome[i].reasons \in Seq(Reason)
                       /\ Len(outcome[i].reasons) \in Nat
  <2>. TAKE i \in Table
  <2>1. outcome[i] \in Outcome \cup {NoOutcome}
    BY <1>1 DEF TypeOK
  <2>. QED  BY ONLY <2>1, OutcomeFacts
<1>3. /\ reason \in 1 .. Len(reasons) /\ reasons[reason] \in Reason
  BY <1>1, <1>2, ElementOfSeq
<1>4. /\ status[table] = outcome[table].state
      /\ status[table] \in {"valid", "invalid"}
  BY <1>1 DEF TablesInv, AtReason
<1>5. /\ NewKey \in Key /\ NewPrefix \in Prefixes
      /\ NewKey.table = table /\ NewKey.status = outcome[table].state
      /\ NewKey.asn = reasons[reason].asn /\ NewPrefix = reasons[reason].prefix
  BY <1>1, <1>3, <1>4 DEF NewKey, NewPrefix, Key, Reason
<1>6. \A i \in Table : /\ Collected(i) \in 0 .. Len(outcome[i].reasons)
                       /\ i # table => Collected(i)' = Collected(i)
                       /\ i = table => /\ Collected(i) = reason - 1
                                       /\ Collected(i)' = reason
  <2>1. (reason + 1) - 1 = reason /\ reason - 1 \in 0 .. Len(reasons)
    BY <1>1, <1>2, <1>3
  <2>2. \A i \in Table : /\ 0 \in 0 .. Len(outcome[i].reasons)
                         /\ Len(outcome[i].reasons) \in 0 .. Len(outcome[i].reasons)
    BY <1>2
  <2>. QED  BY <2>1, <2>2 DEF Collected
<1>7. \A i \in Table, asn \in Asns : SoFar(i, asn) \in Text
  BY <1>2, <1>6, NamedWhat DEF SoFar, PrefixesOf
<1>8. \A i \in Table, asn \in Asns : i # table => SoFar(i, asn)' = SoFar(i, asn)
  BY <1>6 DEF SoFar, PrefixesOf
<1>9. \A asn \in Asns :
        Named(reasons, asn)[reason] =
          IF asn = NewKey.asn
          THEN Joined(Named(reasons, asn)[reason - 1], NewPrefix)
          ELSE Named(reasons, asn)[reason - 1]
  BY <1>1, <1>2, <1>3, <1>5, NamedSteps
<1>10. \A i \in Table, asn \in Asns :
         i = table => /\ SoFar(i, asn) = Named(reasons, asn)[reason - 1]
                      /\ SoFar(i, asn)' = Named(reasons, asn)[reason]
  BY <1>6 DEF SoFar, PrefixesOf
<1>. HIDE DEF reasons
<1>11. \A i \in Table, asn \in Asns :
         SoFar(i, asn)' =
           IF i = table /\ asn = NewKey.asn
           THEN Joined(SoFar(i, asn), NewPrefix) ELSE SoFar(i, asn)
  <2>. TAKE i \in Table, asn \in Asns
  <2>1. CASE i = table
    <3>1. /\ SoFar(i, asn) = Named(reasons, asn)[reason - 1]
          /\ SoFar(i, asn)' = Named(reasons, asn)[reason]
      BY <1>10, <2>1
    <3>2. Named(reasons, asn)[reason] =
            IF asn = NewKey.asn
            THEN Joined(Named(reasons, asn)[reason - 1], NewPrefix)
            ELSE Named(reasons, asn)[reason - 1]
      BY <1>9
    <3>. QED  BY <2>1, <3>1, <3>2, Zenon
  <2>2. CASE i # table
    BY <1>8, <2>2, Zenon
  <2>. QED  BY <2>1, <2>2
<1>. QED  BY <1>5, <1>7, <1>11, Zenon

\* A slot that is left is free.
LEMMA FreeSlot ==
  ASSUME EInv, HasSlot
  PROVE  /\ khash_count \in Slot /\ khash_count + 1 \in 0 .. ReasonsSize
         /\ khash_count \notin slots /\ slots \subseteq Slot
         /\ reason + 1 \in 1 .. MaxReasons + 1
         /\ khash_count <= table * MaxReasons + (reason - 1)
         /\ reason \in Nat /\ table * MaxReasons \in Nat /\ khash_count \in Nat
<1>1. /\ TypeOK /\ TablesInv /\ SlotsInv /\ table \in Table /\ table \in Nat
      /\ pc = "reason" /\ reason <= Len(outcome[table].reasons)
      /\ khash_count < ReasonsSize
  BY TableBounds DEF EInv, TablesInv, AtReason, HasSlot
<1>2. table * MaxReasons \in Nat /\ MaxReasons \in Nat /\ ReasonsSize \in Nat
  BY <1>1, SlotsPerTable
<1>3. khash_count \in Nat /\ reason \in Nat \ {0}
  BY <1>1, <1>2 DEF TypeOK
<1>4. Len(outcome[table].reasons) \in 0 .. MaxReasons
  BY <1>1, OutcomeFacts DEF TypeOK
<1>5. khash_count <= table * MaxReasons + (reason - 1)
  BY <1>1 DEF SlotsInv, AtReason
<1>6. reason <= MaxReasons /\ reason + 1 \in 1 .. MaxReasons + 1
  BY <1>1, <1>2, <1>3, <1>4
<1>7. khash_count \in Slot /\ khash_count + 1 \in 0 .. ReasonsSize
  BY <1>1, <1>2, <1>3 DEF Slot
<1>8. khash_count \notin slots /\ slots \subseteq Slot
  BY <1>1, <1>3 DEF SlotsInv, AtReason, TypeOK
<1>. QED  BY <1>2, <1>3, <1>5, <1>6, <1>7, <1>8

\* A reason changes neither what is validated nor how far the loops are.
LEMMA ReasonTables ==
  ASSUME EInv, pc = "reason", reason <= Len(outcome[table].reasons),
         reason' = reason + 1, UNCHANGED <<config, outcome, status, table, pc>>
  PROVE  TablesInv'
<1>1. LastTable' = LastTable /\ \A i \in Table : Reached(i)' <=> Reached(i)
  BY DEF LastTable, Reached, AtReason, config
<1>2. table \in Table
  BY TableBounds DEF EInv, TablesInv, AtReason
<1>3. Len(outcome[table].reasons) \in Nat /\ reason \in Nat
  <2>1. outcome[table] \in Outcome \cup {NoOutcome}
    BY <1>2 DEF EInv, TypeOK
  <2>2. outcome[table].reasons \in Seq(Reason)
    BY ONLY <2>1, OutcomeFacts
  <2>3. reason \in Nat
    BY DEF EInv, TypeOK
  <2>. QED  BY <2>2, <2>3, LenProperties
<1>4. reason' <= Len(outcome'[table'].reasons) + 1
  BY <1>3
<1>. QED  BY <1>1, <1>4 DEF EInv, TablesInv, AtReason, config

\* Two keys with the same table, status and origin are the same.
LEMMA SameKey ==
  ASSUME NEW k \in Key, NEW l \in Key,
         k.table = l.table, k.status = l.status, k.asn = l.asn
  PROVE  k = l
BY DEF Key

\* A new origin of the table: its entry is the free slot.
LEMMA AddInv == EInv /\ AddKey => EInv'
<1>. SUFFICES ASSUME EInv, AddKey PROVE EInv'
  OBVIOUS
<1>1. /\ HasSlot /\ pc = "reason" /\ reason <= Len(outcome[table].reasons)
      /\ \A s \in slots : valid_asn[s] # NewKey
      /\ valid_asn' = [valid_asn EXCEPT ![khash_count] = NewKey]
      /\ valid_prefix' = [valid_prefix EXCEPT ![khash_count] = Cut(NewPrefix)]
      /\ slots' = slots \cup {khash_count}
      /\ khash_count' = khash_count + 1
      /\ reason' = reason + 1
      /\ UNCHANGED <<config, outcome, status, table, pc, result>>
  BY DEF AddKey, HasSlot, Found, Advanced
<1>2. TypeOK /\ TablesInv /\ SlotsInv /\ EntriesMatchReasons
  BY DEF EInv
<1>3. /\ NewKey \in Key /\ NewPrefix \in Prefixes
      /\ NewKey.table = table /\ NewKey.status = outcome[table].state
      /\ \A i \in Table, asn \in Asns :
           /\ SoFar(i, asn) \in Text
           /\ SoFar(i, asn)' =
                IF i = table /\ asn = NewKey.asn
                THEN Joined(SoFar(i, asn), NewPrefix) ELSE SoFar(i, asn)
  BY <1>1, ReasonCollected
<1>4. /\ khash_count \in Slot /\ khash_count + 1 \in 0 .. ReasonsSize
      /\ khash_count \notin slots /\ slots \subseteq Slot
      /\ reason + 1 \in 1 .. MaxReasons + 1
      /\ khash_count <= table * MaxReasons + (reason - 1)
      /\ reason \in Nat /\ table * MaxReasons \in Nat /\ khash_count \in Nat
  BY <1>1, FreeSlot
<1>5. /\ Cut(NewPrefix) \in Seq(Characters \cup {Blank})
      /\ Len(Cut(NewPrefix)) < PrefixLen /\ NewPrefix # << >>
  <2>1. NewPrefix \in Text /\ NewPrefix # << >>
    <3>1. << >> \in Text
      BY EmptySeq DEF Text
    <3>. QED  BY <1>3, <3>1, JoinedIsText, ElemAssumption
  <2>. QED  BY <2>1, CutIs, ElemAssumption DEF Text
<1>6. /\ valid_asn'[khash_count] = NewKey
      /\ valid_prefix'[khash_count] = Cut(NewPrefix)
      /\ \A s \in Slot \ {khash_count} : /\ valid_asn'[s] = valid_asn[s]
                                        /\ valid_prefix'[s] = valid_prefix[s]
  BY <1>1, <1>2, <1>4 DEF TypeOK, SlotsInv, AtReason
<1>7. TypeOK'
  <2>1. valid_asn' \in [Slot -> Key \cup {NoKey}]
    BY <1>1, <1>2, <1>3 DEF TypeOK
  <2>2. \A s \in Slot :
          /\ valid_prefix'[s] \in Seq(Characters \cup {Blank})
          /\ Len(valid_prefix'[s]) < PrefixLen
    BY <1>2, <1>5, <1>6 DEF TypeOK
  <2>. QED  BY <1>1, <1>2, <1>4, <2>1, <2>2 DEF TypeOK, config
<1>8. TablesInv'
  BY <1>1, ReasonTables
<1>9. SlotsInv'
  <2>2. slots' = 0 .. khash_count' - 1
    BY <1>1, <1>2, <1>4 DEF SlotsInv, AtReason
  <2>3. khash_count' <= table * MaxReasons + (reason' - 1)
    BY <1>1, <1>4
  <2>. QED  BY <1>1, <2>2, <2>3 DEF SlotsInv, AtReason
<1>10. EntriesMatchReasons'
  <2>1. \A s, t \in slots' : valid_asn'[s] = valid_asn'[t] => s = t
    <3>1. \A s, t \in slots : valid_asn[s] = valid_asn[t] => s = t
      BY <1>2 DEF EntriesMatchReasons
    <3>2. \A s \in slots' : \/ s = khash_count /\ valid_asn'[s] = NewKey
                            \/ s \in slots /\ valid_asn'[s] = valid_asn[s]
      BY <1>1, <1>4, <1>6
    <3>3. \A s \in slots : valid_asn[s] # NewKey
      BY <1>1
    <3>. QED  BY ONLY <3>1, <3>2, <3>3
  <2>2. /\ \A s \in slots : valid_asn[s] \in Key
        /\ \A k \in Key :
             (\E s \in slots : valid_asn[s] = k) <=>
               /\ k.status = outcome[k.table].state
               /\ SoFar(k.table, k.asn) # << >>
        /\ \A s \in slots, k \in Key :
             k = valid_asn[s] => valid_prefix[s] = Cut(SoFar(k.table, k.asn))
    BY <1>2, EntriesAre
  <2>3. \A k \in Key : k.table \in Table /\ k.asn \in Asns
    BY DEF Key
  <2>4. ASSUME NEW k \in Key, k # NewKey, k.status = outcome[k.table].state
        PROVE  SoFar(k.table, k.asn)' = SoFar(k.table, k.asn)
    <3>1. ~(k.table = table /\ k.asn = NewKey.asn)
      BY <1>3, <2>4, SameKey
    <3>. QED  BY <1>3, <2>3, <3>1
  <2>5. \A k \in Key :
          k = NewKey => SoFar(k.table, k.asn)' = NewPrefix
    <3>. SUFFICES ASSUME NEW k \in Key, k = NewKey
                  PROVE  SoFar(k.table, k.asn)' = NewPrefix
      BY Zenon
    <3>1. SoFar(k.table, k.asn) = << >>
      BY <1>1, <1>3, <2>2
    <3>2. SoFar(k.table, k.asn)' = Joined(SoFar(k.table, k.asn), NewPrefix)
      BY <1>3, <2>3
    <3>. QED  BY <3>1, <3>2 DEF Joined
  <2>6. \A s \in slots' : \/ s = khash_count /\ valid_asn'[s] = NewKey
                                           /\ valid_prefix'[s] = Cut(NewPrefix)
                          \/ s \in slots /\ valid_asn'[s] = valid_asn[s]
                                         /\ valid_prefix'[s] = valid_prefix[s]
    BY <1>1, <1>4, <1>6
  <2>7. \A s \in slots : s \in slots' /\ valid_asn'[s] = valid_asn[s]
    BY <1>1, <1>4, <1>6
  <2>8. \A s \in slots' : valid_asn'[s] \in Key
    BY <1>3, <2>2, <2>6
  <2>9. \A k \in Key :
          (\E s \in slots' : valid_asn'[s] = k) <=>
            /\ k.status = outcome'[k.table].state
            /\ SoFar(k.table, k.asn)' # << >>
    <3>. TAKE k \in Key
    <3>1. CASE k = NewKey
      <4>1. khash_count \in slots' /\ valid_asn'[khash_count] = k
        BY <1>1, <1>6, <3>1
      <4>2. SoFar(k.table, k.asn)' # << >>
        BY <1>5, <2>5, <3>1
      <4>3. k.status = outcome'[k.table].state
        BY <1>1, <1>3, <3>1
      <4>. QED  BY <4>1, <4>2, <4>3
    <3>2. CASE k # NewKey
      <4>1. (\E s \in slots' : valid_asn'[s] = k) <=> (\E s \in slots : valid_asn[s] = k)
        BY <2>6, <2>7, <3>2
      <4>. QED  BY <1>1, <2>2, <2>4, <3>2, <4>1
    <3>. QED  BY <3>1, <3>2
  <2>10. \A s \in slots', k \in Key :
           k = valid_asn'[s] => valid_prefix'[s] = Cut(SoFar(k.table, k.asn)')
    <3>. SUFFICES ASSUME NEW s \in slots', NEW k \in Key, k = valid_asn'[s]
                  PROVE  valid_prefix'[s] = Cut(SoFar(k.table, k.asn)')
      BY Zenon
    <3>1. CASE k = NewKey
      <4>1. valid_prefix'[s] = Cut(NewPrefix)
        BY <1>1, <2>6, <3>1
      <4>. QED  BY <1>5, <2>5, <3>1, <4>1
    <3>2. CASE k # NewKey
      <4>1. s \in slots /\ k = valid_asn[s] /\ valid_prefix'[s] = valid_prefix[s]
        BY <2>6, <3>2
      <4>2. k.status = outcome[k.table].state
        BY <2>2, <4>1
      <4>. QED  BY <2>2, <2>4, <3>2, <4>1, <4>2
    <3>. QED  BY <3>1, <3>2
  <2>. QED  BY <2>1, <2>8, <2>9, <2>10, EntriesNext
<1>. QED  BY <1>7, <1>8, <1>9, <1>10 DEF EInv

\* A known origin of the table: the prefix goes to the value of its entry, the
\* key written to the free slot is none.
LEMMA AppendInv == EInv /\ AppendPrefix => EInv'
<1>. SUFFICES ASSUME EInv, AppendPrefix PROVE EInv'
  OBVIOUS
<1>1. PICK e \in slots :
        /\ HasSlot /\ pc = "reason" /\ reason <= Len(outcome[table].reasons)
        /\ valid_asn[e] = NewKey
        /\ valid_asn' = [valid_asn EXCEPT ![khash_count] = NewKey]
        /\ valid_prefix' =
             [valid_prefix EXCEPT ![e] = Cut(Listed(valid_prefix[e], NewPrefix))]
        /\ reason' = reason + 1
        /\ UNCHANGED <<config, outcome, status, slots, khash_count, table, pc,
                       result>>
  BY DEF AppendPrefix, HasSlot, Found
<1>2. TypeOK /\ TablesInv /\ SlotsInv /\ EntriesMatchReasons
  BY DEF EInv
<1>3. /\ NewKey \in Key /\ NewPrefix \in Prefixes
      /\ NewKey.table = table /\ NewKey.status = outcome[table].state
      /\ \A i \in Table, asn \in Asns :
           /\ SoFar(i, asn) \in Text
           /\ SoFar(i, asn)' =
                IF i = table /\ asn = NewKey.asn
                THEN Joined(SoFar(i, asn), NewPrefix) ELSE SoFar(i, asn)
  BY <1>1, ReasonCollected
<1>4. /\ khash_count \in Slot /\ khash_count \notin slots /\ slots \subseteq Slot
      /\ reason + 1 \in 1 .. MaxReasons + 1
      /\ khash_count <= table * MaxReasons + (reason - 1)
      /\ reason \in Nat /\ table * MaxReasons \in Nat /\ khash_count \in Nat
  BY <1>1, FreeSlot
<1>5. /\ \A s, t \in slots : valid_asn[s] = valid_asn[t] => s = t
      /\ \A s \in slots : valid_asn[s] \in Key
      /\ \A k \in Key :
           (\E s \in slots : valid_asn[s] = k) <=>
             /\ k.status = outcome[k.table].state
             /\ SoFar(k.table, k.asn) # << >>
      /\ \A s \in slots, k \in Key :
           k = valid_asn[s] => valid_prefix[s] = Cut(SoFar(k.table, k.asn))
  BY <1>2, EntriesAre
<1>6. \A k \in Key : k.table \in Table /\ k.asn \in Asns
  BY DEF Key
<1>. DEFINE value == Cut(Listed(valid_prefix[e], NewPrefix))
<1>7. \A k \in Key :
        k = NewKey => /\ SoFar(k.table, k.asn)' # << >>
                      /\ value = Cut(SoFar(k.table, k.asn)')
  <2>. SUFFICES ASSUME NEW k \in Key, k = NewKey
                PROVE  /\ SoFar(k.table, k.asn)' # << >>
                       /\ value = Cut(SoFar(k.table, k.asn)')
    BY Zenon
  <2>. DEFINE old == SoFar(k.table, k.asn)
  <2>1. old \in Text /\ SoFar(k.table, k.asn)' = Joined(old, NewPrefix)
    BY <1>3, <1>6
  <2>2. valid_prefix[e] = Cut(old) /\ old # << >>
    BY <1>1, <1>5
  <2>. HIDE DEF old
  <2>3. Joined(old, NewPrefix) = Listed(old, NewPrefix)
    BY <2>2 DEF Joined
  <2>4. value = Cut(Listed(old, NewPrefix))
    BY <1>3, <2>1, <2>2, CutListed
  <2>5. Joined(old, NewPrefix) # << >>
    BY <1>3, <2>1, JoinedIsText
  <2>. QED  BY <2>1, <2>3, <2>4, <2>5
<1>8. value \in Seq(Characters \cup {Blank}) /\ Len(value) < PrefixLen
  <2>1. valid_prefix[e] \in Text
    BY <1>2, <1>4 DEF TypeOK, Text
  <2>2. Listed(valid_prefix[e], NewPrefix) \in Text
    BY <1>3, <2>1, JoinedIsText
  <2>. QED  BY <2>2, CutIs, ElemAssumption DEF Text
<1>. HIDE DEF value
<1>9. /\ valid_prefix' = [valid_prefix EXCEPT ![e] = value]
      /\ valid_prefix'[e] = value
      /\ \A s \in Slot \ {e} : valid_prefix'[s] = valid_prefix[s]
      /\ \A s \in slots : valid_asn'[s] = valid_asn[s]
  BY <1>1, <1>2, <1>4 DEF TypeOK, SlotsInv, AtReason, value
<1>10. TypeOK'
  <2>1. valid_asn' \in [Slot -> Key \cup {NoKey}]
    BY <1>1, <1>2, <1>3 DEF TypeOK
  <2>2. \A s \in Slot :
          /\ valid_prefix'[s] \in Seq(Characters \cup {Blank})
          /\ Len(valid_prefix'[s]) < PrefixLen
    BY <1>2, <1>8, <1>9 DEF TypeOK
  <2>. QED  BY <1>1, <1>2, <1>4, <2>1, <2>2 DEF TypeOK, config
<1>11. TablesInv'
  BY <1>1, ReasonTables
<1>12. SlotsInv'
  <2>2. khash_count' <= table * MaxReasons + (reason' - 1)
    BY <1>1, <1>4
  <2>. QED  BY <1>1, <1>2, <2>2 DEF SlotsInv, AtReason
<1>13. EntriesMatchReasons'
  <2>1. slots' = slots /\ outcome' = outcome
    BY <1>1
  <2>2. ASSUME NEW k \in Key, k # NewKey, k.status = outcome[k.table].state
        PROVE  SoFar(k.table, k.asn)' = SoFar(k.table, k.asn)
    <3>1. ~(k.table = table /\ k.asn = NewKey.asn)
      BY <1>3, <2>2, SameKey
    <3>. QED  BY <1>3, <1>6, <3>1
  <2>3. \A k \in Key :
          (\E s \in slots : valid_asn[s] = k) <=>
            /\ k.status = outcome[k.table].state
            /\ SoFar(k.table, k.asn)' # << >>
    <3>. TAKE k \in Key
    <3>1. CASE k = NewKey
      BY <1>1, <1>3, <1>7, <3>1
    <3>2. CASE k # NewKey
      BY <1>5, <2>2, <3>2
    <3>. QED  BY <3>1, <3>2
  <2>4. \A s \in slots, k \in Key :
          k = valid_asn[s] => valid_prefix'[s] = Cut(SoFar(k.table, k.asn)')
    <3>. SUFFICES ASSUME NEW s \in slots, NEW k \in Key, k = valid_asn[s]
                  PROVE  valid_prefix'[s] = Cut(SoFar(k.table, k.asn)')
      BY Zenon
    <3>1. CASE s = e
      BY <1>1, <1>7, <1>9, <3>1
    <3>2. CASE s # e
      <4>1. k # NewKey /\ valid_prefix'[s] = valid_prefix[s]
        BY <1>1, <1>4, <1>5, <1>9, <3>2
      <4>2. k.status = outcome[k.table].state
        BY <1>5
      <4>. QED  BY <1>5, <2>2, <4>1, <4>2
    <3>. QED  BY <3>1, <3>2
  <2>. QED  BY <1>5, <1>9, <2>1, <2>3, <2>4, EntriesNext
<1>. QED  BY <1>10, <1>11, <1>12, <1>13 DEF EInv

LEMMA StepEInv == EInv /\ [Next]_vars => EInv'
<1>. SUFFICES ASSUME EInv, [Next]_vars PROVE EInv'
  OBVIOUS
<1>1. CASE Next
  BY <1>1, SkipInv, ValidateInv, EndInv, AddInv, AppendInv, NextTableInv
  DEF Next, Validation, Reasons
<1>2. CASE UNCHANGED vars
  <2>1. UNCHANGED <<config, outcome, status, hash, table, reason, pc>>
    BY <1>2 DEF vars
  <2>2. TypeOK'
    BY <2>1 DEF EInv, TypeOK, config, hash
  <2>3. TablesInv'
    BY <2>1 DEF EInv, TablesInv, Reached, AtReason, LastTable, config
  <2>4. SlotsInv'
    BY <2>1 DEF EInv, SlotsInv, AtReason, hash
  <2>5. EntriesMatchReasons'
    <3>1. \A i \in Table, asn \in Asns : SoFar(i, asn)' = SoFar(i, asn)
      BY <2>1 DEF SoFar, PrefixesOf, Collected
    <3>. QED  BY <2>1, <3>1, EntriesKept DEF EInv
  <2>. QED  BY <2>2, <2>3, <2>4, <2>5 DEF EInv
<1>. QED  BY <1>1, <1>2

LEMMA EInvariance == Spec => []EInv
BY InitEInv, StepEInv, PTL DEF Spec

-----------------------------------------------------------------------------
(* The result.                                                              *)

\* The statement made of an entry.
EntryStatement(s) ==
  Statement(valid_asn[s].table, valid_asn[s].status, valid_asn[s].asn,
            valid_prefix[s])

\* When the loops have ended: which tables were validated, and the entries of a
\* table are what RTRlib said of it.
LEMMA AtTheEnd ==
  ASSUME EInv, pc = "table", table > LastTable
  PROVE  /\ \A i \in Table :
              /\ status[i] \in Status
              /\ status[i] # "notvalidated" <=>
                   i <= LastTable /\ (i \in pfxt_active \/ live)
              /\ unified /\ status[i] \in {"valid", "invalid"} => i = 0
              /\ status[i] = "notfound" => Statements(i) = {NotFound(i)}
              /\ status[i] \in {"valid", "invalid"} =>
                   /\ Statements(i) = {EntryStatement(s) :
                                         s \in {s \in slots : valid_asn[s].table = i}}
                   /\ NotFound(i) \notin Statements(i)
                   /\ \E s \in slots : valid_asn[s].table = i
         /\ \A s \in slots :
              /\ valid_asn[s].table \in Table
              /\ valid_asn[s].status = status[valid_asn[s].table]
              /\ valid_asn[s].status \in {"valid", "invalid"}
<1>1. /\ TypeOK /\ TablesInv /\ EntriesMatchReasons
      /\ table = LastTable + 1 /\ table \in Nat /\ LastTable \in Int
      /\ Table \subseteq Nat
  BY TableBounds DEF EInv, TablesInv, AtReason, Table
<1>2. /\ \A s \in slots : valid_asn[s] \in Key
      /\ \A k \in Key :
           (\E s \in slots : valid_asn[s] = k) <=>
             /\ k.status = outcome[k.table].state
             /\ SoFar(k.table, k.asn) # << >>
      /\ \A s \in slots, k \in Key :
           k = valid_asn[s] => valid_prefix[s] = Cut(SoFar(k.table, k.asn))
  BY <1>1, EntriesAre
<1>3. \A i \in Table :
        /\ status[i] \in Status /\ status[i] = outcome[i].state
        /\ status[i] # "notvalidated" <=>
             i <= LastTable /\ (i \in pfxt_active \/ live)
        /\ unified /\ status[i] \in {"valid", "invalid"} => i = 0
  BY <1>1 DEF TypeOK, TablesInv, Reached, AtReason
<1>4. \A k \in Key : /\ k.table \in Table /\ k.asn \in Asns
                     /\ k.status \in {"valid", "invalid"}
  BY DEF Key
<1>5. \A s \in slots : /\ valid_asn[s].table \in Table
                       /\ valid_asn[s].status = status[valid_asn[s].table]
                       /\ valid_asn[s].status \in {"valid", "invalid"}
  BY <1>2, <1>3, <1>4
<1>6. ASSUME NEW i \in Table, status[i] = "notfound"
      PROVE  Statements(i) = {NotFound(i)}
  BY <1>3, <1>6 DEF Statements
<1>7. ASSUME NEW i \in Table, status[i] \in {"valid", "invalid"}
      PROVE  /\ Statements(i) = {EntryStatement(s) :
                                   s \in {s \in slots : valid_asn[s].table = i}}
             /\ NotFound(i) \notin Statements(i)
             /\ \E s \in slots : valid_asn[s].table = i
  <2>. DEFINE reasons == outcome[i].reasons
              state == outcome[i].state
              Named1(asn) == \E n \in 1 .. Len(reasons) : reasons[n].asn = asn
              Said(asn) == Statement(i, state, asn, Cut(SoFar(i, asn)))
              Entry(asn) == [table |-> i, status |-> state, asn |-> asn]
  <2>1. /\ reasons \in Seq(Reason) /\ Len(reasons) \in Nat /\ Len(reasons) > 0
        /\ DOMAIN reasons = 1 .. Len(reasons) /\ state = status[i]
        /\ \A n \in 1 .. Len(reasons) : reasons[n].asn \in Asns
    <3>1. outcome[i] \in Outcome \cup {NoOutcome} /\ state = status[i]
      BY <1>1, <1>3 DEF TypeOK
    <3>2. /\ reasons \in Seq(Reason) /\ Len(reasons) \in Nat /\ Len(reasons) > 0
      BY <1>7, <3>1, OutcomeFacts
    <3>3. \A n \in 1 .. Len(reasons) : reasons[n] \in Reason
      BY <3>2, ElementOfSeq
    <3>4. \A n \in 1 .. Len(reasons) : reasons[n].asn \in Asns
      BY <3>3 DEF Reason
    <3>5. DOMAIN reasons = 1 .. Len(reasons)
      BY <3>2, LenProperties
    <3>. HIDE DEF reasons, state
    <3>. QED  BY <3>1, <3>2, <3>4, <3>5
  <2>2. Collected(i) = Len(reasons)
    BY <1>1 DEF Collected, EInv
  <2>3. \A asn \in Asns : SoFar(i, asn) # << >> <=> Named1(asn)
    <3>1. \A asn \in Asns : SoFar(i, asn) = Named(reasons, asn)[Len(reasons)]
      BY <2>2 DEF SoFar, PrefixesOf
    <3>2. Len(reasons) \in 0 .. Len(reasons)
      BY <2>1
    <3>. HIDE DEF reasons, Named1
    <3>3. \A asn : Named(reasons, asn)[Len(reasons)] # << >> <=> Named1(asn)
      <4>. TAKE asn
      <4>1. Named(reasons, asn)[Len(reasons)] # << >> <=>
              \E m \in 1 .. Len(reasons) : reasons[m].asn = asn
        BY ONLY <2>1, <3>2, NamedWhat
      <4>. QED  BY <4>1 DEF Named1
    <3>. QED  BY <3>1, <3>3
  <2>4. Statements(i) = {Said(asn) : asn \in {asn \in Asns : Named1(asn)}}
    <3>1. {reasons[n].asn : n \in DOMAIN reasons} = {asn \in Asns : Named1(asn)}
      BY <2>1
    <3>2. Statements(i) = {Said(asn) : asn \in {reasons[n].asn : n \in DOMAIN reasons}}
      BY <1>7, <2>1, <2>2 DEF Statements, SoFar
    <3>. QED  BY <3>1, <3>2
  <2>. HIDE DEF Named1
  <2>5. \A asn \in Asns : /\ Entry(asn) \in Key
                          /\ Entry(asn).table = i /\ Entry(asn).asn = asn
                          /\ Entry(asn).status = state
    BY <1>7, <2>1 DEF Key
  <2>6. \A asn \in Asns : Named1(asn) => \E s \in slots : valid_asn[s] = Entry(asn)
    BY <1>2, <2>3, <2>5
  <2>7. \A s \in slots :
          valid_asn[s].table = i =>
            /\ valid_asn[s].asn \in Asns /\ Named1(valid_asn[s].asn)
            /\ EntryStatement(s) = Said(valid_asn[s].asn)
    <3>. SUFFICES ASSUME NEW s \in slots, NEW k \in Key, k = valid_asn[s], k.table = i
                  PROVE  /\ k.asn \in Asns /\ Named1(k.asn)
                         /\ EntryStatement(s) = Said(k.asn)
      BY <1>2
    <3>1. k.asn \in Asns /\ k.status = state /\ SoFar(i, k.asn) # << >>
      BY <1>2, <1>4
    <3>2. valid_prefix[s] = Cut(SoFar(i, k.asn))
      BY <1>2
    <3>. QED  BY <2>3, <3>1, <3>2 DEF EntryStatement
  <2>8. \A s \in slots, asn \in Asns :
          valid_asn[s] = Entry(asn) =>
            valid_asn[s].table = i /\ EntryStatement(s) = Said(asn)
    BY <2>5, <2>7
  <2>9. Statements(i) = {EntryStatement(s) :
                          s \in {s \in slots : valid_asn[s].table = i}}
    <3>. HIDE DEF Said, Entry
    <3>. QED  BY <2>4, <2>6, <2>7, <2>8
  <2>10. \E s \in slots : valid_asn[s].table = i
    <3>1. 1 \in 1 .. Len(reasons)
      BY <2>1
    <3>2. reasons[1].asn \in Asns /\ Named1(reasons[1].asn)
      BY <2>1, <3>1 DEF Named1
    <3>. QED  BY <2>6, <2>8, <3>2
  <2>11. NotFound(i) \notin Statements(i)
    <3>1. \A asn \in Asns : Said(asn) # NotFound(i)
      BY <1>7, <2>1 DEF NotFound, Statement
    <3>. QED  BY <2>4, <3>1
  <2>. QED  BY <2>9, <2>10, <2>11
<1>. QED  BY <1>3, <1>5, <1>6, <1>7

\* What the caller should be told.
Expected == IF unified \/ live THEN Statements(0)
            ELSE UNION {Statements(i) : i \in pfxt_active}

\* The statements of the entries and of the tables that found nothing.
LEMMA DiscreteIs ==
  ASSUME EInv, pc = "table", table > LastTable, ~unified, ~NotFoundLost
  PROVE  Discrete = Expected
<1>. DEFINE Mine(i) == {s \in slots : valid_asn[s].table = i}
            Of(i) == {EntryStatement(s) : s \in Mine(i)}
            silent == {k \in 0 .. pfxt_count - 1 : status[k] = "notfound"}
<1>1. /\ pfxt_count \in 0 .. Tables /\ Tables \in Nat /\ Tables > 0
      /\ 0 .. pfxt_count - 1 \subseteq Table /\ 0 \in Table
      /\ pfxt_active \subseteq 0 .. pfxt_count - 1
      /\ live \in BOOLEAN /\ Table \subseteq Nat
  BY ElemAssumption DEF EInv, TypeOK, TablesInv, AtReason, Table
<1>2. /\ \A i \in Table :
           /\ status[i] \in Status
           /\ status[i] # "notvalidated" <=>
                i <= LastTable /\ (i \in pfxt_active \/ live)
           /\ status[i] = "notfound" => Statements(i) = {NotFound(i)}
           /\ status[i] \in {"valid", "invalid"} =>
                Statements(i) = Of(i) /\ NotFound(i) \notin Statements(i)
      /\ \A s \in slots : /\ valid_asn[s].table \in Table
                          /\ status[valid_asn[s].table] \in {"valid", "invalid"}
  BY AtTheEnd
<1>3. Discrete = {EntryStatement(s) : s \in slots} \cup {NotFound(k) : k \in silent}
  BY DEF Discrete, EntryStatement
<1>4. CASE live
  <2>1. /\ LastTable = 0 /\ status[0] # "notvalidated"
        /\ \A i \in Table \ {0} : status[i] = "notvalidated"
    BY <1>1, <1>2, <1>4 DEF LastTable
  <2>2. Mine(0) = slots
    BY <1>2, <2>1
  <2>3. CASE status[0] = "notfound"
    <3>1. slots = {}
      BY <1>2, <2>1, <2>3
    <3>2. silent = {0}
      BY <1>1, <1>4, <2>1, <2>3 DEF NotFoundLost
    <3>3. Discrete = {NotFound(0)}
      BY <1>3, <3>1, <3>2
    <3>. QED  BY <1>1, <1>2, <1>4, <2>3, <3>3 DEF Expected
  <2>4. CASE status[0] # "notfound"
    <3>1. status[0] \in {"valid", "invalid"}
      BY <1>1, <1>2, <2>1, <2>4 DEF Status
    <3>2. silent = {}
      BY <1>1, <2>1, <2>4
    <3>3. Discrete = Of(0)
      BY <1>3, <2>2, <3>2
    <3>. QED  BY <1>1, <1>2, <1>4, <3>1, <3>3 DEF Expected
  <2>. QED  BY <2>3, <2>4
<1>5. CASE ~live
  <2>1. LastTable = pfxt_count - 1
    BY <1>5 DEF LastTable
  <2>2. \A i \in Table : status[i] # "notvalidated" <=> i \in pfxt_active
    BY <1>1, <1>2, <1>5, <2>1
  <2>3. silent = {i \in pfxt_active : status[i] = "notfound"}
    BY <1>1, <2>2
  <2>4. \A i \in pfxt_active :
          \/ status[i] = "notfound" /\ Statements(i) = {NotFound(i)}
          \/ status[i] \in {"valid", "invalid"} /\ Statements(i) = Of(i)
    BY <1>1, <1>2, <2>2 DEF Status
  <2>5. \A s \in slots : \E i \in pfxt_active :
          s \in Mine(i) /\ status[i] \in {"valid", "invalid"}
    BY <1>2, <2>2
  <2>6. Discrete = UNION {Statements(i) : i \in pfxt_active}
    <3>1. ASSUME NEW x \in Discrete
          PROVE  \E i \in pfxt_active : x \in Statements(i)
      <4>1. CASE \E s \in slots : x = EntryStatement(s)
        BY <2>4, <2>5, <4>1
      <4>2. CASE \E k \in silent : x = NotFound(k)
        BY <2>3, <2>4, <4>2
      <4>. QED  BY <1>3, <3>1, <4>1, <4>2
    <3>2. ASSUME NEW i \in pfxt_active, NEW x \in Statements(i)
          PROVE  x \in Discrete
      <4>1. CASE status[i] = "notfound"
        BY <1>3, <2>3, <2>4, <3>2, <4>1
      <4>2. CASE status[i] # "notfound"
        <5>1. x \in Of(i)
          BY <2>4, <3>2, <4>2
        <5>. QED  BY <1>3, <5>1
      <4>. QED  BY <4>1, <4>2
    <3>. QED  BY <3>1, <3>2
  <2>. QED  BY <1>5, <2>6 DEF Expected
<1>. QED  BY <1>1, <1>4, <1>5

\* In unified mode the entries are all of table 0.
LEMMA UnifiedIs ==
  ASSUME EInv, pc = "table", table > LastTable, unified
  PROVE  IF status[0] # "notfound" /\ slots = {}
         THEN ~live /\ 0 \notin pfxt_active
         ELSE /\ UnifiedResult = Expected
              /\ live \/ 0 \in pfxt_active
<1>1. /\ pfxt_count \in 0 .. Tables /\ Tables \in Nat /\ 0 \in Table
      /\ pfxt_active \subseteq 0 .. pfxt_count - 1
      /\ LastTable = IF live THEN 0 ELSE pfxt_count - 1
  BY ElemAssumption DEF EInv, TypeOK, TablesInv, AtReason, Table, LastTable
<1>2. /\ status[0] \in Status
      /\ status[0] # "notvalidated" <=> live \/ 0 \in pfxt_active
      /\ status[0] = "notfound" => Statements(0) = {NotFound(0)}
      /\ status[0] \in {"valid", "invalid"} =>
           /\ Statements(0) = {EntryStatement(s) :
                                 s \in {s \in slots : valid_asn[s].table = 0}}
           /\ \E s \in slots : valid_asn[s].table = 0
  BY <1>1, AtTheEnd
<1>3. \A s \in slots : /\ valid_asn[s].table = 0
                       /\ valid_asn[s].status = status[0]
                       /\ status[0] \in {"valid", "invalid"}
  BY AtTheEnd
<1>5. CASE status[0] # "notfound" /\ slots = {}
  BY <1>2, <1>5 DEF Status
<1>6. CASE status[0] = "notfound"
  BY <1>2, <1>6 DEF UnifiedResult, Expected
<1>7. CASE status[0] # "notfound" /\ slots # {}
  <2>1. status[0] \in {"valid", "invalid"}
    BY <1>3, <1>7
  <2>2. {s \in slots : valid_asn[s].table = 0} = slots
    BY <1>3
  <2>3. Statements(0) = {EntryStatement(s) : s \in slots}
    BY <1>2, <2>1, <2>2
  <2>4. \A s \in slots :
          EntryStatement(s) =
            Statement(0, IF status[0] = "invalid" THEN "invalid" ELSE "valid",
                      valid_asn[s].asn, valid_prefix[s])
    BY <1>3, <2>1 DEF EntryStatement
  <2>5. UnifiedResult = {EntryStatement(s) : s \in slots}
    BY <1>7, <2>4 DEF UnifiedResult
  <2>. QED  BY <1>2, <1>7, <2>1, <2>3, <2>5 DEF Expected
<1>. QED  BY <1>5, <1>6, <1>7

ResultInv == ResultComplete /\ CrashIsNullOutput

LEMMA StepResult == EInv /\ ResultInv /\ [Next]_vars => ResultInv'
<1>. SUFFICES ASSUME EInv, ResultInv, [Next]_vars PROVE ResultInv'
  OBVIOUS
<1>1. CASE Output
  <2>1. /\ pc = "table" /\ table > LastTable
        /\ UNCHANGED <<config, outcome, status, hash, table, reason>>
        /\ IF unified /\ status[0] # "notfound" /\ slots = {}
           THEN pc' = "crashed"
           ELSE pc' = "done" /\ result' = IF unified THEN UnifiedResult ELSE Discrete
    BY <1>1 DEF Output
  <2>2. CASE unified /\ status[0] # "notfound" /\ slots = {}
    <3>1. ~live /\ 0 \notin pfxt_active
      BY <2>1, <2>2, UnifiedIs
    <3>. QED  BY <2>1, <2>2, <3>1 DEF ResultInv, ResultComplete, CrashIsNullOutput, config
  <2>3. CASE ~(unified /\ status[0] # "notfound" /\ slots = {})
    <3>1. /\ ~NotFoundLost => result' = Expected
          /\ unified => live \/ 0 \in pfxt_active
      BY <2>1, <2>3, UnifiedIs, DiscreteIs
    <3>2. Expected' = Expected /\ NotFoundLost' = NotFoundLost
      BY <2>1 DEF Expected, NotFoundLost, Statements, PrefixesOf, config
    <3>3. ResultComplete'
      BY <3>1, <3>2 DEF ResultComplete, Expected
    <3>. QED  BY <2>1, <2>3, <3>1, <3>3 DEF ResultInv, CrashIsNullOutput, config
  <2>. QED  BY <2>2, <2>3
<1>2. CASE Next /\ ~Output
  <2>1. pc' \in {"table", "reason", "failed", "overflow"}
    BY <1>2
    DEF Next, Validation, Reasons, SkipTable, ValidateTable, ValidationFails,
        AddKey, AppendPrefix, Overflow, HasSlot, NextTable
  <2>. QED  BY <2>1 DEF ResultInv, ResultComplete, CrashIsNullOutput
<1>3. CASE UNCHANGED vars
  BY <1>3 DEF vars, config, ResultInv, ResultComplete, CrashIsNullOutput,
              NotFoundLost, Statements, PrefixesOf
<1>. QED  BY <1>1, <1>2, <1>3

LEMMA ResultInvariance == Spec => []ResultInv
<1>1. Init => ResultInv
  BY DEF Init, ResultInv, ResultComplete, CrashIsNullOutput
<1>. QED  BY <1>1, StepResult, EInvariance, PTL DEF Spec

-----------------------------------------------------------------------------
\* The variables stay in their ranges: no value outgrows its buffer, and no
\* entry points behind the arrays (elem.c:189-231).
THEOREM ElemTypeCorrect == Spec => []TypeOK
<1>1. EInv => TypeOK
  BY DEF EInv
<1>. QED  BY <1>1, EInvariance, PTL

\* The entries of the hash table are the origins named, each with the text of
\* the prefixes named for it as far as its buffer holds it (elem.c:189-231).
THEOREM EntriesMatch == Spec => []EntriesMatchReasons
<1>1. EInv => EntriesMatchReasons
  BY DEF EInv
<1>. QED  BY <1>1, EInvariance, PTL

\* The arrays overflow only if RTRlib named as many different origins as they
\* have slots, and one more reason (elem.c:190-231).
THEOREM OverflowsWhenFull == Spec => []OverflowNamesMany
<1>1. EInv => OverflowNamesMany
  <2>. SUFFICES ASSUME EInv, pc = "overflow"
                PROVE  Cardinality(NamedKeys) = ReasonsSize
    BY DEF OverflowNamesMany
  <2>1. /\ slots = 0 .. ReasonsSize - 1 /\ ReasonsSize \in Nat \ {0}
        /\ \A s, t \in slots : valid_asn[s] = valid_asn[t] => s = t
        /\ {valid_asn[s] : s \in slots} = NamedKeys
    BY ElemAssumption DEF EInv, SlotsInv, EntriesMatchReasons
  <2>. DEFINE f == [s \in slots |-> valid_asn[s]]
  <2>2. f \in Surjection(slots, NamedKeys) /\ f \in Injection(slots, NamedKeys)
    <3>1. f \in [slots -> NamedKeys]
      BY <2>1
    <3>2. \A k \in NamedKeys : \E s \in slots : f[s] = k
      BY <2>1
    <3>3. \A s, t \in slots : f[s] = f[t] => s = t
      BY <2>1
    <3>. HIDE DEF f
    <3>. QED  BY <3>1, <3>2, <3>3 DEF Surjection, Injection, IsInjective
  <2>3. IsFiniteSet(slots) /\ Cardinality(slots) = ReasonsSize
    <3>1. ReasonsSize - 1 \in Int /\ 0 \in Int /\ ~(0 > ReasonsSize - 1)
      BY <2>1
    <3>2. /\ IsFiniteSet(0 .. ReasonsSize - 1)
          /\ Cardinality(0 .. ReasonsSize - 1) = ReasonsSize - 1 - 0 + 1
      BY <3>1, FS_Interval
    <3>. QED  BY <2>1, <3>2
  <2>. HIDE DEF f
  <2>4. Cardinality(NamedKeys) = Cardinality(slots)
    BY <2>2, <2>3, FS_Surjection
  <2>. QED  BY <2>3, <2>4
<1>. QED  BY <1>1, EInvariance, PTL

\* As long as RTRlib gives no more reasons than there are slots the arrays hold
\* them all (constants.h:63-64, elem.h:85-95).
THEOREM ReasonsSuffice ==
  ASSUME Tables * MaxReasons <= ReasonsSize
  PROVE  Spec => []ReasonsHeld
<1>1. EInv => ReasonsHeld
  <2>. SUFFICES ASSUME EInv, pc = "overflow" PROVE FALSE
    BY DEF ReasonsHeld
  <2>1. /\ TypeOK /\ TablesInv /\ AtReason /\ table \in Table
        /\ khash_count = ReasonsSize /\ reason <= Len(outcome[table].reasons)
        /\ khash_count <= table * MaxReasons + (reason - 1)
    BY TableBounds DEF EInv, TablesInv, SlotsInv, AtReason
  <2>2. Len(outcome[table].reasons) \in 0 .. MaxReasons
    BY <2>1, OutcomeFacts DEF TypeOK
  <2>3. reason \in Nat /\ MaxReasons \in Nat /\ table \in Nat /\ ReasonsSize \in Nat
    BY <2>1, SlotsPerTable, ElemAssumption DEF TypeOK, Table
  <2>. DEFINE low == table * MaxReasons
              all == Tables * MaxReasons
  <2>4. low \in Nat /\ all \in Nat /\ low + MaxReasons <= all
    BY <2>1, <2>3, SlotsPerTable, ElemAssumption
  <2>5. all <= ReasonsSize /\ ReasonsSize <= low + (reason - 1)
    BY <2>1
  <2>. HIDE DEF low, all
  <2>. QED  BY <2>1, <2>2, <2>3, <2>4, <2>5
<1>. QED  BY <1>1, EInvariance, PTL

\* The result is what RTRlib said of every table with a dump, as far as the
\* values hold it (elem.c:84-140).
THEOREM ResultIsComplete == Spec => []ResultComplete
<1>1. ResultInv => ResultComplete
  BY DEF ResultInv
<1>. QED  BY <1>1, ResultInvariance, PTL

\* The only null pointer followed is that of a unified result without table 0,
\* and then always (elem.c:91-102).
THEOREM CrashExplained == Spec => []CrashIsNullOutput
<1>1. ResultInv => CrashIsNullOutput
  BY DEF ResultInv
<1>. QED  BY <1>1, ResultInvariance, PTL
=============================================================================

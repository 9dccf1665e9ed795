------------------------------ MODULE RpkiElem ------------------------------
(***************************************************************************)
(* One element of a call (elem.c): the validation of the route against the *)
(* prefix tables one after the other, the reasons collected in a hash      *)
(* table whose keys and values live in two arrays of the element, and the  *)
(* result built from it.  RTRlib's answer for a table is external.         *)
(* The arrays and the texts in them are as long as the code makes them.    *)
(***************************************************************************)
EXTENDS Integers, Sequences, FiniteSets

CONSTANTS Tables,     \* number of prefix tables
          Asns,       \* origins named in reasons
          Characters,
          Prefixes,   \* prefixes named in reasons: texts "address/min-max"
          MaxReasons, \* longest list of reasons of RTRlib, which has no limit
          ReasonsSize, \* slots of the two arrays: VALID_REASONS_SIZE
          PrefixLen   \* characters of a value and its end: VALID_PFX_LEN

ASSUME ElemAssumption ==
  /\ Tables \in Nat \ {0}
  /\ Prefixes \subseteq Seq(Characters) \ {<< >>}
  /\ MaxReasons \in Nat \ {0}
  /\ ReasonsSize \in Nat \ {0}
  /\ PrefixLen \in Nat \ {0}

VARIABLES
  unified, live,   \* cfg_input.unified; live validation, with pfxt = NULL
  pfxt_active,     \* cfg_val.pfxt_active: the tables whose flag is set
  pfxt_count,      \* cfg_val.pfxt_count
  outcome,         \* what RTRlib said for each table validated so far
  status,          \* elem->rpki_validation_status
  valid_asn,       \* elem->valid_asn: the keys, one per slot
  valid_prefix,    \* elem->valid_prefix: the values, one per slot
  slots,           \* the slots the entries of elem->rpki_kh point to
  khash_count,     \* elem->khash_count: the next free slot
  table, reason,   \* the two loop counters
  pc, result

config == <<unified, live, pfxt_active, pfxt_count>>
hash == <<valid_asn, valid_prefix, slots, khash_count>>
vars == <<config, outcome, status, hash, table, reason, pc, result>>

Table == 0 .. Tables - 1
Slot == 0 .. ReasonsSize - 1
Status == {"valid", "invalid", "notfound", "notvalidated"}
Reason == [asn : Asns, prefix : Prefixes]
Key == [table : Table, status : {"valid", "invalid"}, asn : Asns]
NoKey == [table |-> 0, status |-> "none", asn |-> "none"]

\* External: pfx_table_validate_r.  A route that is not found has no reasons, a
\* valid or invalid one has.
NotFoundOutcome == [state |-> "notfound", reasons |-> << >>]
Outcome ==
  {NotFoundOutcome} \cup
  [state : {"valid", "invalid"},
   reasons : UNION {[1 .. n -> Reason] : n \in 1 .. MaxReasons}]
NoOutcome == [state |-> "notvalidated", reasons |-> << >>]

\* Mutant of Cut: the buffer has room for all.
Uncut(text) == text

\* snprintf into a buffer of VALID_PFX_LEN: the text is cut off, inside a prefix
\* too.
Cut(text) == SubSeq(text, 1, IF Len(text) < PrefixLen THEN Len(text) ELSE PrefixLen - 1)

Blank == " "

\* A prefix behind the text of others: "%s %s".
Listed(text, prefix) == text \o << Blank >> \o prefix

\* Mutant of Consults: a table without flag is validated like the others.
ConsultsUnflagged(i) == status[i] = "notvalidated"

\* Only a table not validated yet, flagged or of the live socket.
Consults(i) == status[i] = "notvalidated" /\ (i \in pfxt_active \/ live)

\* The key of the reason under way.
NewKey == [table |-> table, status |-> status[table],
           asn |-> outcome[table].reasons[reason].asn]

NewPrefix == outcome[table].reasons[reason].prefix

\* The loop over the tables of rpki_validate; one round for the live socket.
LastTable == IF live THEN 0 ELSE pfxt_count - 1

SkipTable ==
  /\ pc = "table" /\ table <= LastTable /\ ~Consults(table)
  /\ table' = table + 1
  /\ UNCHANGED <<config, outcome, status, hash, reason, pc, result>>

\* In unified mode all records are in table 0 (module PrefixTables).
ValidateTable ==
  /\ pc = "table" /\ table <= LastTable /\ Consults(table)
  /\ \E o \in IF unified /\ table > 0 THEN {NotFoundOutcome} ELSE Outcome :
       /\ outcome' = [outcome EXCEPT ![table] = o]
       /\ status' = [status EXCEPT ![table] = o.state]
       /\ IF o.state = "notfound"
          THEN table' = table + 1 /\ UNCHANGED <<reason, pc>>
          ELSE reason' = 1 /\ pc' = "reason" /\ UNCHANGED table
  /\ UNCHANGED <<config, hash, result>>

\* The prefix is no address, or RTRlib fails: -1.
ValidationFails ==
  /\ pc = "table" /\ table <= LastTable /\ Consults(table)
  /\ pc' = "failed"
  /\ UNCHANGED <<config, outcome, status, hash, table, reason, result>>

\* Mutant of Found: only the newest entry is compared.
FoundNewest == {s \in slots : s = khash_count - 1 /\ valid_asn[s] = NewKey}

\* The entry of the hash table with the new key's text.
Found == {s \in slots : valid_asn[s] = NewKey}

\* Mutant of Advanced: the next key goes to the same slot.
Unadvanced(count) == count

\* elem->khash_count++
Advanced(count) == count + 1

\* A reason, with a slot left to write its key to.
HasSlot == /\ pc = "reason" /\ reason <= Len(outcome[table].reasons)
           /\ khash_count < ReasonsSize

\* A new key: the entry points to the slot the key was written to.
AddKey ==
  /\ HasSlot /\ Found = {}
  /\ valid_asn' = [valid_asn EXCEPT ![khash_count] = NewKey]
  /\ valid_prefix' = [valid_prefix EXCEPT ![khash_count] = Cut(NewPrefix)]
  /\ slots' = slots \cup {khash_count}
  /\ khash_count' = Advanced(khash_count)
  /\ reason' = reason + 1
  /\ UNCHANGED <<config, outcome, status, table, pc, result>>

\* A known key: it was written to the free slot to look it up, and stays there;
\* the prefix is appended to the value of the entry.
AppendPrefix ==
  /\ HasSlot
  /\ valid_asn' = [valid_asn EXCEPT ![khash_count] = NewKey]
  /\ \E s \in Found :
       valid_prefix' =
         [valid_prefix EXCEPT ![s] = Cut(Listed(valid_prefix[s], NewPrefix))]
  /\ reason' = reason + 1
  /\ UNCHANGED <<config, outcome, status, slots, khash_count, table, pc, result>>

\* All slots are taken, and the key of one more reason, a known one too, is
\* written behind the end of valid_asn, where the values begin.  Undefined
\* behaviour: nothing is said of what follows.
Overflow ==
  /\ pc = "reason" /\ reason <= Len(outcome[table].reasons)
  /\ khash_count >= ReasonsSize
  /\ pc' = "overflow"
  /\ UNCHANGED <<config, outcome, status, hash, table, reason, result>>

NextTable ==
  /\ pc = "reason" /\ reason > Len(outcome[table].reasons)
  /\ table' = table + 1 /\ pc' = "table"
  /\ UNCHANGED <<config, outcome, status, hash, reason, result>>

Statement(i, state, asn, prefixes) ==
  [table |-> i, status |-> state, asn |-> asn, prefixes |-> prefixes]
NotFound(i) == Statement(i, "notfound", "none", << >>)

\* One statement per entry, and one per table that did not find the route.
Discrete ==
  {Statement(valid_asn[s].table, valid_asn[s].status, valid_asn[s].asn,
             valid_prefix[s]) : s \in slots} \cup
  {NotFound(k) : k \in {k \in 0 .. pfxt_count - 1 : status[k] = "notfound"}}

\* One statement per entry with the status of table 0, for all collectors.
UnifiedResult ==
  IF status[0] = "notfound" THEN {NotFound(0)}
  ELSE {Statement(0, IF status[0] = "invalid" THEN "invalid" ELSE "valid",
                  valid_asn[s].asn, valid_prefix[s]) : s \in slots}

\* Without entries the unified result walks a hash table that does not exist.
Output ==
  /\ pc = "table" /\ table > LastTable
  /\ IF unified /\ status[0] # "notfound" /\ slots = {}
     THEN pc' = "crashed" /\ UNCHANGED result
     ELSE /\ pc' = "done"
          /\ result' = IF unified THEN UnifiedResult ELSE Discrete
  /\ UNCHANGED <<config, outcome, status, hash, table, reason>>

\* elem_create, with the tables as cfg_parse_urls leaves them: the flags are
\* below the count.  Live validation finds flags and a count from before the
\* switch, 0 if an import failed (rpki_config.c:193), or set the count to 1
\* (rpki.c:96).
Init ==
  /\ unified \in BOOLEAN /\ live \in BOOLEAN
  /\ pfxt_count \in 0 .. Tables
  /\ pfxt_active \in SUBSET (0 .. pfxt_count - 1)
  /\ outcome = [i \in Table |-> NoOutcome]
  /\ status = [i \in Table |-> "notvalidated"]
  /\ valid_asn = [s \in Slot |-> NoKey]
  /\ valid_prefix = [s \in Slot |-> << >>]
  /\ slots = {} /\ khash_count = 0
  /\ table = 0 /\ reason = 1
  /\ pc = "table" /\ result = {}

Validation == SkipTable \/ ValidateTable \/ ValidationFails
Reasons == AddKey \/ AppendPrefix \/ Overflow \/ NextTable
Next == Validation \/ Reasons \/ Output

Spec == Init /\ [][Next]_vars

-----------------------------------------------------------------------------
(* Properties                                                               *)

\* The variables stay in their ranges: no value outgrows its buffer, and entries
\* point into the arrays (elem.c:189-231).
TypeOK ==
  /\ unified \in BOOLEAN /\ live \in BOOLEAN
  /\ pfxt_active \subseteq Table /\ pfxt_count \in 0 .. Tables
  /\ outcome \in [Table -> Outcome \cup {NoOutcome}]
  /\ status \in [Table -> Status]
  /\ valid_asn \in [Slot -> Key \cup {NoKey}]
  /\ valid_prefix \in [Slot -> Seq(Characters \cup {Blank})]
  /\ \A s \in Slot : Len(valid_prefix[s]) < PrefixLen
  /\ slots \subseteq Slot /\ khash_count \in 0 .. ReasonsSize
  /\ table \in 0 .. Tables /\ reason \in 1 .. MaxReasons + 1
  /\ pc \in {"table", "reason", "done", "failed", "crashed", "overflow"}

\* The text of all prefixes that reasons 1 to n give for an origin, for every n,
\* empty if there are none.
Named(reasons, asn) ==
  LET named[n \in 0 .. Len(reasons)] ==
        IF n = 0 THEN << >>
        ELSE IF reasons[n].asn # asn THEN named[n - 1]
        ELSE IF named[n - 1] = << >> THEN reasons[n].prefix
        ELSE Listed(named[n - 1], reasons[n].prefix)
  IN  named

\* The prefixes that the first n reasons of table i give for an origin.
PrefixesOf(i, n, asn) == Named(outcome[i].reasons, asn)[n]

\* The number of reasons of table i that are in the hash table.
Collected(i) ==
  IF i = table /\ pc \in {"reason", "overflow"} THEN reason - 1
  ELSE Len(outcome[i].reasons)

\* The keys of the reasons seen so far, one per table and origin named.
NamedKeys ==
  {k \in Key : /\ k.status = outcome[k.table].state
               /\ PrefixesOf(k.table, Collected(k.table), k.asn) # << >>}

\* The hash table has one entry per table and origin named so far, with as much
\* of the prefixes named for it as its buffer holds: keys looked up in the free
\* slot and values moved between the arrays never mix up entries, also until
\* the arrays overflow (elem.c:189-231).
EntriesMatchReasons ==
  /\ \A s, t \in slots : valid_asn[s] = valid_asn[t] => s = t
  /\ {valid_asn[s] : s \in slots} = NamedKeys
  /\ \A s \in slots :
       LET k == valid_asn[s]
       IN  valid_prefix[s] = Cut(PrefixesOf(k.table, Collected(k.table), k.asn))

\* The arrays overflow only behind as many different tables and origins as they
\* have slots: a reason for a known origin costs none (elem.c:190-231).
OverflowNamesMany == pc = "overflow" => Cardinality(NamedKeys) = ReasonsSize

\* What RTRlib's answer for table i should contribute to the result, as far as
\* the buffer of each value holds it.
Statements(i) ==
  LET o == outcome[i]
  IN  IF o.state = "notfound" THEN {NotFound(i)}
      ELSE {Statement(i, o.state, a, Cut(PrefixesOf(i, Len(o.reasons), a))) :
              a \in {o.reasons[n].asn : n \in DOMAIN o.reasons}}

\* No table is left to say of it that nothing was found (see ResultAsDocumented).
NotFoundLost == live /\ ~unified /\ pfxt_count = 0 /\ status[0] = "notfound"

\* The result says for every table with a dump, and for no other, what RTRlib
\* said, in unified mode what it said of table 0: every origin, and the
\* beginning of its prefixes that its buffer holds (elem.c:84-140).
ResultComplete ==
  pc = "done" /\ ~NotFoundLost =>
    result = IF unified \/ live THEN Statements(0)
             ELSE UNION {Statements(i) : i \in pfxt_active}

\* The output follows a null pointer exactly in unified mode without table 0:
\* RpkiValidate relies on this as its NullOutput (elem.c:91-102).
CrashIsNullOutput ==
  LET nullOutput == unified /\ ~live /\ 0 \notin pfxt_active
  IN  (pc = "crashed" => nullOutput) /\ (pc = "done" => ~nullOutput)

-----------------------------------------------------------------------------
(* What the documentation promises and the code does not keep.              *)

\* The arrays hold every key of a validation (elem.h:85-89: "All valid ASN for
\* one validation").
ReasonsHeld == pc # "overflow"

\* What RTRlib's answer for table i contributes as the documentation has it: a
\* value names all prefixes of its origin (constants.h:60: "Length of a valid
\* prefix entry (all prefixes related to an ASN)").
WholeStatements(i) ==
  LET o == outcome[i]
  IN  IF o.state = "notfound" THEN {NotFound(i)}
      ELSE {Statement(i, o.state, a, PrefixesOf(i, Len(o.reasons), a)) :
              a \in {o.reasons[n].asn : n \in DOMAIN o.reasons}}

\* The result says for every table with a dump, in unified and live mode for the
\* first one, what RTRlib said: all prefixes of each origin, and "all remaining
\* notfounds" (elem.c:127).
ResultAsDocumented ==
  pc = "done" =>
    result = IF unified \/ live THEN WholeStatements(0)
             ELSE UNION {WholeStatements(i) : i \in pfxt_active}
=============================================================================

-------------------------------- MODULE Jsmn --------------------------------
(***************************************************************************)
(* The JSON tokenizer (jsmn.c, neither strict nor with parent links).  A   *)
(* text is a sequence of lexemes with a field sym: brackets, ":" and ",",  *)
(* or a value: a string, a primitive, one with a character that is not     *)
(* allowed ("bad") or a string without its closing quote ("cut").          *)
(* Positions count lexemes from 1; 0 is the code's -1.                     *)
(***************************************************************************)
EXTENDS Integers, Sequences, FiniteSets, FiniteSetsExt, SequencesExt

Opening == {"{", "["}
Closing == {"}", "]"}
Values == {"str", "prim"}
Symbols == Opening \cup Closing \cup Values \cup {":", ",", "bad", "cut"}

\* The token type of a lexeme.
Type(sym) == CASE sym \in {"{", "}"} -> "object"
               [] sym \in {"[", "]"} -> "array"
               [] OTHER -> sym

\* jsmn_init; count is the local variable of jsmn_parse, ret its result.
jsmn_init == [pos |-> 1, tokens |-> <<>>, toksuper |-> 0, count |-> 0,
              ret |-> "go"]

\* The last token up to i that has no end yet, 0 if there is none.
LastOpen(tokens, i) == Max({0} \cup {t \in 1 .. i : tokens[t].end = 0})

\* tokens[toksuper].size++
Grown(tokens, super) ==
  IF super = 0 THEN tokens ELSE [tokens EXCEPT ![super].size = @ + 1]

\* jsmn_alloc_token and jsmn_fill_token; without a free token parsing stops at
\* this lexeme.
Allocated(p, sym, end, num_tokens) ==
  IF Len(p.tokens) >= num_tokens THEN [p EXCEPT !.ret = "nomem"]
  ELSE [p EXCEPT !.tokens = Append(Grown(@, p.toksuper),
                              [type |-> Type(sym), start |-> p.pos,
                               end |-> end, size |-> 0])]

\* "{" and "[": count++ comes before the allocation.
Open(p, sym, num_tokens) ==
  LET q == Allocated([p EXCEPT !.count = @ + 1], sym, 0, num_tokens)
  IN  IF q.ret = "go" THEN [q EXCEPT !.toksuper = Len(q.tokens)] ELSE q

\* "}" and "]": the innermost open token ends here, the one around it is the
\* parent of what follows.
Close(p, sym) ==
  LET i == LastOpen(p.tokens, Len(p.tokens))
  IN  IF i = 0 \/ p.tokens[i].type # Type(sym)
      THEN [p EXCEPT !.ret = "inval"]
      ELSE [p EXCEPT !.tokens[i].end = p.pos + 1,
                     !.toksuper = LastOpen(p.tokens, i - 1)]

\* ",": after a value of an object, back from the key to the object.
Comma(p) ==
  LET i == LastOpen(p.tokens, Len(p.tokens))
  IN  IF /\ p.toksuper # 0 /\ i # 0
         /\ p.tokens[p.toksuper].type \notin {"object", "array"}
      THEN [p EXCEPT !.toksuper = i] ELSE p

\* jsmn_parse_string and jsmn_parse_primitive.
Value(p, sym, num_tokens) ==
  CASE sym = "bad" -> [p EXCEPT !.ret = "inval"]
    [] sym = "cut" -> [p EXCEPT !.ret = "part"]
    [] OTHER -> LET q == Allocated(p, sym, p.pos + 1, num_tokens)
                IN  IF q.ret = "go" THEN [q EXCEPT !.count = @ + 1] ELSE q

\* One turn of the loop of jsmn_parse.
Lexeme(p, sym, num_tokens) ==
  LET q == CASE sym \in Opening -> Open(p, sym, num_tokens)
             [] sym \in Closing -> Close(p, sym)
             [] sym = ":" -> [p EXCEPT !.toksuper = Len(p.tokens)]
             [] sym = "," -> Comma(p)
             [] OTHER -> Value(p, sym, num_tokens)
  IN  IF q.ret = "go" THEN [q EXCEPT !.pos = @ + 1] ELSE q

\* Mutant of Called: a further call goes on counting.
CalledCounting(p) == [p EXCEPT !.ret = "go"]

\* A call of jsmn_parse goes on where the last one stopped: count = toknext.
Called(p) == [p EXCEPT !.ret = "go", !.count = Len(p.tokens)]

\* Mutant of AtEnd: brackets left open are not looked for.
AtEndOpen(p) == [p EXCEPT !.ret = "done"]

\* The text is at its end; a bracket left open is an error.
AtEnd(p) ==
  [p EXCEPT !.ret = IF LastOpen(p.tokens, Len(p.tokens)) = 0 THEN "done" ELSE "part"]

-----------------------------------------------------------------------------
(* What the tokens of a JSON text are, by its brackets alone.               *)

\* How many brackets are open before each lexeme and at the end.
Deeper(sym) == CASE sym \in Opening -> 1 [] sym \in Closing -> -1 [] OTHER -> 0
Depth(js) ==
  LET depth[n \in 1 .. Len(js) + 1] ==
        IF n = 1 THEN 0 ELSE depth[n - 1] + Deeper(js[n - 1].sym)
  IN  depth

\* The lexemes that are tokens, in the order of the text: those before each
\* lexeme, and all of them.
IsToken(lexeme) == lexeme.sym \in Opening \cup Values
StartsBefore(js) ==
  LET starts[n \in 1 .. Len(js) + 1] ==
        IF n = 1 THEN <<>>
        ELSE IF IsToken(js[n - 1]) THEN Append(starts[n - 1], n - 1)
        ELSE starts[n - 1]
  IN  starts
Starts(js) == StartsBefore(js)[Len(js) + 1]

\* Where each bracket is closed, 0 if it is not.
Match(js) ==
  LET d == Depth(js)
  IN  [b \in {n \in 1 .. Len(js) : js[n].sym \in Opening} |->
         LET ends == {k \in b .. Len(js) : d[k + 1] = d[b]}
         IN  IF ends = {} THEN 0 ELSE Min(ends)]

\* What the value at n belongs to: its key, or the innermost bracket around it.
Owner(js) ==
  LET d == Depth(js)
  IN  [n \in {m \in 1 .. Len(js) : IsToken(js[m])} |->
         IF n > 1 /\ js[n - 1].sym = ":" THEN n - 2
         ELSE Max({0} \cup {b \in 1 .. n - 1 : /\ js[b].sym \in Opening
                                               /\ \A k \in b .. n : d[k + 1] # d[b]})]

TokensOf(js) ==
  LET starts == Starts(js)  match == Match(js)  owner == Owner(js)
  IN  [t \in 1 .. Len(starts) |->
         LET n == starts[t]
         IN  [type  |-> Type(js[n].sym), start |-> n,
              end   |-> (IF n \in DOMAIN match THEN match[n] ELSE n) + 1,
              size  |-> Cardinality({m \in DOMAIN owner : owner[m] = n})]]

\* Every bracket is closed by its like, none is left, and no value is broken.
WellFormed(js) ==
  LET match == Match(js)  d == Depth(js)
  IN  /\ \A b \in DOMAIN match :
            match[b] # 0 /\ Type(js[match[b]].sym) = Type(js[b].sym)
      /\ \A n \in DOMAIN d : d[n] >= 0
      /\ \A n \in DOMAIN js : js[n].sym \notin {"bad", "cut"}

\* As in JSON: a ":" stands behind a string and inside of a bracket, and no value
\* directly behind the value of a key.
Punctuated(js) ==
  LET d == Depth(js)
  IN  /\ \A n \in 1 .. Len(js) :
            js[n].sym = ":" => n > 1 /\ js[n - 1].sym = "str" /\ d[n] > 0
      /\ \A n \in 3 .. Len(js) :
            js[n - 2].sym = ":" /\ js[n - 1].sym \in Values => ~IsToken(js[n])
=============================================================================

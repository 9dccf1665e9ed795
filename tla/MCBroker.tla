------------------------------- MODULE MCBroker -------------------------------
(***************************************************************************)
(* Replies of the broker for BrokerAnswer.  Dumps lie at multiples of 180  *)
(* seconds, so all of them start at the same bucket of a table of four.    *)
(***************************************************************************)
EXTENDS BrokerAnswer

Lex(s, n, names, nums) == [sym |-> s, len |-> n, names |-> names, nums |-> nums]
Sym(s) == Lex(s, 1, <<"text">>, <<Malformed>>)
Names(list) == Lex("str", 10, list, <<Malformed>>)
Nums(list) == Lex("str", 10, <<"digits">>, list)

\* A timestamp has ten digits, 0 has one.
Prim(n) == Lex("prim", IF n = 0 THEN 1 ELSE 10, <<"digits">>, <<n>>)

\* A pair of an object, and the object of some pairs.
Pair(key, value) == <<key, Sym(":")>> \o value
Object(pairs) ==
  <<Sym("{")>>
  \o FlattenSeq([n \in 1 .. Len(pairs) |->
                   IF n = 1 THEN pairs[n] ELSE <<Sym(",")>> \o pairs[n]])
  \o <<Sym("}")>>

\* An answer of the broker; the URL of a dump is named by its number in the
\* archive.
Urls == [n \in 1 .. 60 |-> <<"url", n>>]
Dumps(numbers) ==
  Object([n \in 1 .. Len(numbers) |->
            Pair(Nums(<<180 * numbers[n]>>), <<Names(Urls[numbers[n] + n])>>)])
Text1(iv, s, e, data) ==
  Object(<<Pair(Sym("str"), <<Names(<<"PJ">>)>>),
           Pair(Sym("str"), <<Names(<<"CC1">>)>>),
           Pair(Sym("str"), <<Nums(iv)>>),
           Pair(Sym("str"), <<Prim(s)>>), Pair(Sym("str"), <<Prim(e)>>),
           Pair(Sym("str"), data)>>)
Text2(iv, s, e, data) ==
  Object(<<Pair(Sym("str"), <<Names(<<"PJ", "PJ">>)>>),
           Pair(Sym("str"), <<Names(<<"CC2", "CC1">>)>>),
           Pair(Sym("str"), <<Nums(iv)>>),
           Pair(Sym("str"), <<Prim(s)>>), Pair(Sym("str"), <<Prim(e)>>),
           Pair(Sym("str"), data)>>)

Answer(text) == [check |-> "ok", second |-> "text", js |-> text]

Three == Text1(<<1200, 3000>>, 1260, 3000, Dumps(<<7, 11, 15>>))
One == Text2(<<1300, 0>>, 1440, 0, Dumps(<<8>>))
Many == Text2(<<1000, 1500, 1800, 8000>>, 900, 8000,
              Dumps(<<5, 9, 13, 17, 21, 37, 29, 25, 33, 6, 10, 14, 18, 40>>))
None == Text1(<<1200, 0>>, 0, 0, Object(<<>>))
Twice == Text1(<<1200, 3000>>, 1260, 3000, Dumps(<<7, 11, 7>>))
Odd == Text1(<<1000, 1500, 1800>>, 1080, 0, Dumps(<<6, 7>>))
Early == Text2(<<1200, 3000>>, 0, 3000, Dumps(<<7>>))

\* A page of words, which the tokenizer takes for primitives.
Words(n) == [m \in 1 .. n |-> Sym("prim")]

Texts ==
  {Three, One, Many, None, Twice, Odd, Early,
   SubSeq(Three, 1, Len(Three) - 5), SubSeq(Many, 1, 36),
   SubSeq(One, 1, Len(One) - 3) \o <<Sym("cut")>>,
   SubSeq(One, 1, 20) \o <<Sym("bad")>>, One \o <<Sym("]")>>,
   Words(5), Words(14),
   Text1(<<1200, Malformed>>, 1260, 0, Dumps(<<7>>)),
   Text1(<<1200, Width + 7>>, 1260, 0, Dumps(<<7>>)),
   Text1(<<1200, 0, 1300, 0, 1400, 0>>, 1260, 0, Dumps(<<7>>)),
   Text1(<<1200, 0>>, Malformed, 0, Dumps(<<7>>)),
   Text2(<<1200, 0>>, 1260, Width + 9, Dumps(<<7>>))}

MCReplies ==
  {Answer(t) : t \in Texts}
  \cup [check : {"down", "error", "html"}, second : {"down"}, js : {<<>>}]
  \cup [check : {"ok"}, second : {"down", "empty", "unreadable"}, js : {<<>>}]

\* Half an interval, and a timestamp listed twice.
MCIrregular ==
  {Answer(Text1(<<1000, 1500, 1800>>, 1260, 3000, Dumps(<<7, 11, 7>>)))}

\* What the theorems about an answer assume of the broker is true of this one.
ASSUME TheoremsApply == \A r \in MCReplies : InScheme(r.js)
=============================================================================

-------------------------------- MODULE MCLive --------------------------------
(***************************************************************************)
(* Arguments of rpki_set_config for LiveConnection.                        *)
(***************************************************************************)
EXTENDS LiveConnection

Item(length, serves, joined) ==
  [len |-> length, rtr |-> serves, comma |-> joined]

\* Projects and collectors in turn; the empty list is the default.
CollectorLists ==
  {<<>>,
   <<Item(9, FALSE, FALSE), Item(9, TRUE, FALSE)>>,
   <<Item(9, FALSE, FALSE), Item(9, TRUE, TRUE)>>,
   <<Item(9, FALSE, FALSE), Item(9, TRUE, FALSE),
     Item(4, FALSE, FALSE), Item(4, FALSE, FALSE)>>,
   <<Item(9, FALSE, FALSE)>>,
   <<Item(0, FALSE, FALSE), Item(0, FALSE, FALSE)>>,
   <<Item(9, FALSE, FALSE), Item(0, FALSE, FALSE), Item(9, TRUE, FALSE)>>,
   <<Item(9, FALSE, FALSE), Item(MaxInputLength, TRUE, FALSE)>>}

\* Options: none, short ones, texts of 127, 128, 1023, 1024 and 1025 characters,
\* two parts only, one in which a part is empty.
OptionLists ==
  {NoOptions, <<4, 10, 12>>, <<4, 60, 61>>, <<4, 60, 62>>,
   <<4, 500, 517>>, <<4, 500, 518>>, <<4, 500, 519>>, <<130, 10, 10>>, <<4, 10>>,
   <<4, 0, 12>>}

Windows == {<<>>, <<1200, 0>>, <<1200, Malformed>>}

MCInputs ==
  [collectors : CollectorLists, options : OptionLists, unified : {0, 2},
   mode : {0, 1}, intervals : Windows]
=============================================================================

------------------------------ MODULE MCElem ------------------------------
(***************************************************************************)
(* Two tables, so that reasons of one are in the hash table when the next  *)
(* is validated; three reasons over two origins, so that a known key comes *)
(* between two new ones; three slots for up to four keys; values that hold *)
(* two short prefixes, and only the beginning of a second, longer one.     *)
(***************************************************************************)
EXTENDS RpkiElem, TLC

CONSTANTS AS1, AS2

MCAsns == {AS1, AS2}
MCCharacters == {"p", "q", "-"}
MCPrefixes == {<< "p" >>, << "q", "-" >>}
MCSymmetry == Permutations(MCAsns)
=============================================================================

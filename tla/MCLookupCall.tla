---------------------------- MODULE MCLookupCall ----------------------------
(* Letters enough for a state that shares its abbreviation with a country, *)
(* for names that begin with a code, and for one that has it elsewhere.    *)
EXTENDS LookupCall

SomeScores == {-1, 0, 1}

SomeNames == {<<>>, <<"i", "n">>, <<"i", "n", "d">>, <<"a", "i", "n">>, <<"u", "s">>}

AnUsCode == <<"u", "s">>

SomeUsStates == [abbreviation \in {<<"i", "n">>} |-> <<"i", "n", "d">>]
=============================================================================

----------------------------- MODULE MCAccounts ----------------------------
(***************************************************************************)
(* Small instances of Accounts: names and passwords of which one begins    *)
(* the other.                                                              *)
(***************************************************************************)
EXTENDS Accounts

Symmetry == Permutations(Thread)

Names == {<<"b">>, <<"b", "o">>}
Pws == {<<"p">>, <<"p", "q">>}
NoAccounts == <<>>

\* Bound: the texts written to active_name.txt during one request for the list.
FewTexts == \A t \in Thread : Cardinality(job[t].wrote) <= 2
============================================================================

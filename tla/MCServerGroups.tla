--------------------------- MODULE MCServerGroups ---------------------------
(***************************************************************************)
(* Small instances of ServerGroups.                                        *)
(***************************************************************************)
EXTENDS ServerGroups, TLC

\* Neither threads nor uids are told apart by the code.
Symmetry == Permutations(User) \cup Permutations(Thread)

\* Bound: the creator invites one user, itself or the other one.
OneInvited == Cardinality(invited) <= 1
=============================================================================

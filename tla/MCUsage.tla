------------------------------ MODULE MCUsage ------------------------------
(* Two operators, one of whom holds two accounts; the second template comes *)
(* with a later release.                                                    *)
EXTENDS UsageImport, TLC

MCSymmetry == Permutations(Operators) \union Permutations(Accounts)
MCLogs == {<<1, 2, 4>>, <<2, 1, Unknown>>}
MCWindows == {[start |-> 1, end |-> 3], [start |-> 2, end |-> 4]}
=============================================================================

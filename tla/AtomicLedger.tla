---------------------------- MODULE AtomicLedger ----------------------------
(***************************************************************************)
(* What the receipt journal promises its callers: a log of receipts to      *)
(* which a batch is added in one step, completely or not at all, that never *)
(* holds a receipt twice and never forgets or rewrites one.                 *)
(***************************************************************************)
EXTENDS Integers, Sequences

CONSTANTS Records, Batches

VARIABLE log                \* the receipts the ledger has promised to hold

Once(s) == \A i, j \in 1 .. Len(s) : s[i] = s[j] => i = j

Init == log = << >>

Commit(batch) ==
    /\ Once(log \o batch)
    /\ log' = log \o batch

Next == \E batch \in Batches : Commit(batch)

Spec == Init /\ [][Next]_log
=============================================================================

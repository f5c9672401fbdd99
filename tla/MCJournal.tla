----------------------------- MODULE MCJournal -----------------------------
(* Journal for TLC: two processes that append, recover and read; batches    *)
(* that share a receipt, so that one can be refused because of another.     *)
EXTENDS Journal, TLC

CONSTANTS p1, p2, a, b, c

MCProcs == {p1, p2}
MCBatches == {<<a, b>>, <<b>>, <<c, a>>, <<c, c>>}
=============================================================================

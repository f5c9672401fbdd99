---------------------------- MODULE IdempotentLog ----------------------------
(***************************************************************************)
(* What the append gateway promises its producers: one log, to which a      *)
(* request adds the events it names that the log lacks, all of them in one  *)
(* step and in the order of their keys, and to which it adds nothing when   *)
(* the log holds one of its keys with another content or another author.    *)
(***************************************************************************)
EXTENDS AppendRequests

VARIABLE log                \* [id, body, actor], in the order of admission

Init == log = << >>

Put(q) ==
    /\ Permitted(q) /\ Consistent(q)
    /\ \A i \in DOMAIN log, e \in q.events : log[i].id = e.id => Same(log[i], e, q.actor)
    /\ \E order \in InOrder(Missing(log, q)) :
          log' = log \o [i \in DOMAIN order |->
                            [id |-> order[i].id, body |-> order[i].body, actor |-> q.actor]]

Next == \E q \in Requests : Put(q)

Spec == Init /\ [][Next]_log
=============================================================================

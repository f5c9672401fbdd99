----------------------------- MODULE MCGateway -----------------------------
(* Gateway for TLC: two producers and two overlapping calls.  Requests      *)
(* share keys, with equal content, with another content and with another    *)
(* author; two of them claim the one trial of the admission policy.         *)
EXTENDS Gateway, TLC

CONSTANTS t1, t2, p, q, a, b, claim

MCEmits == [actor \in {p, q} |-> IF actor = p THEN {a, b, claim} ELSE {a, claim}]

Request(actor, events) == [actor |-> actor, events |-> events]
Event(id, body) == [id |-> id, body |-> body]

MCRequests == {
    Request(p, {Event(2, a), Event(3, b)}),
    Request(p, {Event(1, claim), Event(2, a)}),
    Request(q, {Event(3, claim)}),
    \* Refused before anything is read: a key twice, an event of somebody else.
    Request(p, {Event(2, a), Event(2, b)}),
    Request(q, {Event(2, b)})}

(* The arrival clock never goes back, and a trial is started once. *)
MCAdmissible(rows) ==
    /\ \A i, j \in DOMAIN rows : i < j => rows[i].recorded <= rows[j].recorded
    /\ \A i, j \in DOMAIN rows : rows[i].body = claim /\ rows[j].body = claim => i = j

MCSymmetry == Permutations(Threads)
=============================================================================

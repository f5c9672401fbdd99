--------------------------- MODULE AppendRequests ---------------------------
(***************************************************************************)
(* Append requests: what a producer asks of the gateway, and what of it an  *)
(* admitted prefix still lacks.  An event has the key activity_id; `body`   *)
(* is all the rest of its content, its activity included.                   *)
(***************************************************************************)
EXTENDS Integers, Sequences, FiniteSets

CONSTANTS
    Emits,                  \* allowed_producers, with the bodies each may emit
    Bodies,                 \* contents of an event
    Requests                \* what clients may send: [actor, events]

ASSUME EmitsAssumption == \A actor \in DOMAIN Emits : Emits[actor] \subseteq Bodies
ASSUME RequestsAssumption ==
    \A q \in Requests : /\ IsFiniteSet(q.events)
                        /\ \A e \in q.events : /\ e = [id |-> e.id, body |-> e.body]
                                               /\ e.id \in Nat
                                               /\ e.body \in Bodies

(* No two events of one request share a key. *)
Consistent(q) == \A e, f \in q.events : e.id = f.id => e = f

Permitted(q) ==
    /\ q.actor \in DOMAIN Emits
    /\ \A e \in q.events : e.body \in Emits[q.actor]

Missing(prefix, q) == {e \in q.events : \A i \in DOMAIN prefix : prefix[i].id # e.id}

(* The events one after another by key: one sequence, as keys are distinct. *)
InOrder(events) ==
    {s \in [1 .. Cardinality(events) -> events] :
        /\ \A e \in events : \E i \in DOMAIN s : s[i] = e
        /\ \A i, j \in DOMAIN s : i < j => s[i].id < s[j].id}

Same(row, e, actor) == row.body = e.body /\ row.actor = actor
=============================================================================

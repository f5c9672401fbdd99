----------------------------- MODULE Restatement -----------------------------
(***************************************************************************)
(* What the difference of two metric runs consists of, as it is defined    *)
(* (tl/metrics/changes.py, definitions/derivations/v1.yaml): the rows that *)
(* changed, and for each the smallest group of source documents, first in  *)
(* their order, without which it would not have.  MetricRuns has the loop  *)
(* that looks for it.                                                      *)
(***************************************************************************)
EXTENDS Integers, Sequences, FiniteSets, FiniteSetsExt

CONSTANTS
    Events,         \* records: "doc", the source-document group, and "at", the arrival time
    Versions,       \* contents of the execution artifacts
    Keys,           \* row identities: a metric and its dimensions
    Row(_, _, _),   \* Row(v, k, S): what version v computes for row k from the events S, or None
    Consistent(_),  \* whether the invariants of a report hold of a snapshot
    GroupBound,     \* most groups whose subsets are evaluated
    None

DocumentsAreNumbered == \A e \in Events : e.doc \in Nat /\ e.at \in Nat

Population(v, S) == [k \in Keys |-> Row(v, k, S)]

Groups(events) == {e.doc : e \in events}
Newly(old, new) == new.inputs \ old.inputs
Changed(old, new) == {k \in Keys : old.rows[k] # new.rows[k]}

\* Sets of groups come in the order of their size, then of their members.
Precedes(D, E) ==
    \/ Cardinality(D) < Cardinality(E)
    \/ /\ Cardinality(D) = Cardinality(E)
       /\ \E d \in D \ E : \A x \in (D \ E) \union (E \ D) : d <= x
FirstOf(sets) == CHOOSE D \in sets : \A E \in sets : E = D \/ Precedes(D, E)

\* The snapshot of the newer run without the late documents outside of D.
Without(old, new, D) == new.inputs \ {e \in Newly(old, new) : e.doc \notin D}
Explains(v, old, new, D, k) ==
    /\ Consistent(Without(old, new, D))
    /\ Row(v, k, Without(old, new, D)) = new.rows[k]

\* How the rows that changed are accounted for when the current artifacts are v.
Method(old, new, v) ==
    IF Newly(old, new) = {} THEN "definition_change"
    ELSE IF \/ old.artifacts # new.artifacts
            \/ new.artifacts # v
            \/ Cardinality(Groups(Newly(old, new))) > GroupBound
    THEN "unresolved_candidates"
    ELSE "proven_minimum_group_set"

Change(old, new, k) ==
    IF old.rows[k] = new.rows[k] THEN "unchanged"
    ELSE CASE old.rows[k] = None -> "added"
           [] new.rows[k] = None -> "removed"
           [] OTHER -> "changed"

Cause(status, docs) == [status |-> status, docs |-> docs]
Result(old, new, causes, invalid) ==
    [newly |-> Newly(old, new), changes |-> [k \in Keys |-> Change(old, new, k)],
     causes |-> causes, invalid |-> invalid]

\* The evaluation ends with the last set that explains a row for the first time.
CausesOf(old, new, v) ==
    LET subsets == SUBSET Groups(Newly(old, new))
        explaining(k) == {D \in subsets : Explains(v, old, new, D, k)}
    IN  [k \in Changed(old, new) |->
            IF Method(old, new, v) # "proven_minimum_group_set" THEN Cause(Method(old, new, v), {})
            ELSE IF explaining(k) = {} THEN Cause("unresolved_candidates", {})
            ELSE Cause("proven_minimum_group_set", FirstOf(explaining(k)))]
InvalidOf(old, new, v) ==
    LET causes == CausesOf(old, new, v)
        last(D) == \E k \in Changed(old, new) :
            causes[k].status = "unresolved_candidates" \/ Precedes(D, causes[k].docs)
    IN  IF Method(old, new, v) # "proven_minimum_group_set" THEN {}
        ELSE {D \in SUBSET Groups(Newly(old, new)) : last(D) /\ ~Consistent(Without(old, new, D))}

Bridge(old, new, v) == Result(old, new, CausesOf(old, new, v), InvalidOf(old, new, v))
=============================================================================

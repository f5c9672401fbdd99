-------------------------- MODULE StreamStoreProofs --------------------------
(* Proofs about StreamStore, for any writers, applications, calls, backups, *)
(* batch size and horizons.                                                 *)
EXTENDS StreamStore, FiniteSetTheorems, TLAPS

Contents == [id : Nat, ts : Nat, timeline : Timelines, body : Bodies, marker : BOOLEAN,
             recorded : Nat, source : Apps \cup {NoApp}, lane : Lane]

(* The rows have the positions 1..n and a key each. *)
Numbered(rows) ==
    /\ rows \subseteq Row /\ IsFiniteSet(rows)
    /\ {r.pos : r \in rows} = 1 .. Cardinality(rows)
    /\ \A r, q \in rows : r.pos = q.pos => r = q
    /\ \A r, q \in rows : r.id = q.id => r = q

(* r is what the call wants of an event. *)
Holds(c, event, r) ==
    r.id = event.id /\ ~ Disagrees(Prepared(c, r.recorded, event), r)

-----------------------------------------------------------------------------
(* Numbered sets of rows.                                                   *)

LEMMA NothingIsNumbered == Numbered({})
  BY FS_EmptySet DEF Numbered

LEMMA NumberedTop ==
  ASSUME NEW rows, Numbered(rows)
  PROVE  /\ Cardinality(rows) \in Nat /\ Top(rows) = Cardinality(rows)
         /\ \A r \in rows : r.pos \in 1 .. Cardinality(rows)
         /\ \A n \in 1 .. Cardinality(rows) : \E r \in rows : r.pos = n
<1> DEFINE N == Cardinality(rows)
<1>1. N \in Nat
  BY FS_CardinalityType DEF Numbered
<1>2. /\ \A r \in rows : r.pos \in 1 .. N
      /\ \A n \in 1 .. N : \E r \in rows : r.pos = n
  BY DEF Numbered
<1>3. Top(rows) = N
  <2>1. CASE rows = {}
    BY <2>1, FS_EmptySet DEF Top
  <2>2. CASE rows # {}
    <3>1. N # 0
      BY <2>2, FS_EmptySet DEF Numbered
    <3>2. \E r \in rows : r.pos = N
      BY <1>1, <1>2, <3>1
    <3> DEFINE Last(n) == \A r \in rows : r.pos <= n
    <3>3. Last(N)
      BY <1>1, <1>2
    <3>4. ASSUME NEW n \in {r.pos : r \in rows}, Last(n) PROVE n = N
      <4>1. n \in 1 .. N
        BY <1>2, <3>4
      <4>2. N <= n
        BY <3>2, <3>4
      <4> QED
        BY <1>1, <4>1, <4>2
    <3>5. (CHOOSE n \in {r.pos : r \in rows} : Last(n)) = N
      BY <3>2, <3>3, <3>4
    <3> QED
      BY <2>2, <3>5 DEF Top
  <2> QED
    BY <2>1, <2>2
<1> QED
  BY <1>1, <1>2, <1>3

(* Rows behind the others of a numbered set, and what a set lacks.          *)
LEMMA Behind ==
  ASSUME NEW rows, NEW more, Numbered(rows), Numbered(more), rows \subseteq more,
         NEW r \in more \ rows
  PROVE  /\ r.pos > Cardinality(rows)
         /\ \E q \in more \ rows : q.pos = Cardinality(rows) + 1
<1>1. /\ Cardinality(rows) \in Nat /\ Cardinality(more) \in Nat
      /\ r.pos \in 1 .. Cardinality(more)
  BY NumberedTop
<1>2. r.pos \notin 1 .. Cardinality(rows)
  <2>1. ASSUME r.pos \in 1 .. Cardinality(rows) PROVE FALSE
    <3>1. PICK q \in rows : q.pos = r.pos
      BY <2>1, NumberedTop
    <3> QED
      BY <3>1 DEF Numbered
  <2> QED
    BY <2>1
<1>3. r.pos > Cardinality(rows)
  BY <1>1, <1>2
<1>4. Cardinality(rows) + 1 \in 1 .. Cardinality(more)
  BY <1>1, <1>3
<1>5. PICK q \in more : q.pos = Cardinality(rows) + 1
  BY <1>4, NumberedTop
<1>6. q \notin rows
  BY <1>1, <1>5, NumberedTop
<1> QED
  BY <1>3, <1>5, <1>6

(* Two transactions that began with the same rows and both added some take  *)
(* one position twice.                                                      *)
LEMMA OneOfTwo ==
  ASSUME NEW old, NEW new, NEW other, Numbered(old), Numbered(old \cup new), Numbered(other),
         old \subseteq other,
         \A r \in new, s \in other \ old : r.id # s.id /\ r.pos # s.pos
  PROVE  new \subseteq old \/ other = old
<1> SUFFICES ASSUME NEW r \in new \ old, NEW s \in other \ old PROVE FALSE
  OBVIOUS
<1>1. PICK p \in (old \cup new) \ old : p.pos = Cardinality(old) + 1
  BY Behind
<1>2. PICK q \in other \ old : q.pos = Cardinality(old) + 1
  BY Behind
<1> QED
  BY <1>1, <1>2

-----------------------------------------------------------------------------
(* The positions that the INSERT gives out.                                 *)
Rank(F, r) == Cardinality({q \in F : q.id <= r.id})

LEMMA Ranks ==
  ASSUME NEW F, IsFiniteSet(F), F \subseteq Contents, \A r, q \in F : r.id = q.id => r = q
  PROVE  /\ Cardinality(F) \in Nat
         /\ \A r \in F : Rank(F, r) \in 1 .. Cardinality(F)
         /\ \A r, q \in F : Rank(F, r) = Rank(F, q) => r = q
         /\ \A n \in 1 .. Cardinality(F) : \E r \in F : Rank(F, r) = n
<1> DEFINE N == Cardinality(F)
           Upto(r) == {q \in F : q.id <= r.id}
<1>1. N \in Nat
  BY FS_CardinalityType
<1>2. ASSUME NEW r \in F PROVE Rank(F, r) \in 1 .. N
  <2>1. Upto(r) \in SUBSET F /\ r \in Upto(r)
    BY DEF Contents
  <2>2. /\ IsFiniteSet(Upto(r)) /\ Cardinality(Upto(r)) <= N
        /\ Cardinality(Upto(r)) \in Nat
    BY <2>1, FS_Subset, FS_CardinalityType
  <2>3. Cardinality(Upto(r)) # 0
    BY <2>1, <2>2, FS_EmptySet
  <2> QED
    BY <1>1, <2>2, <2>3 DEF Rank
<1>3. ASSUME NEW r \in F, NEW q \in F, r.id < q.id PROVE Rank(F, r) # Rank(F, q)
  <2>1. Upto(q) \in SUBSET F /\ Upto(r) \in SUBSET Upto(q) /\ q \in Upto(q) /\ q \notin Upto(r)
    BY <1>3 DEF Contents
  <2>2. IsFiniteSet(Upto(q))
    BY <2>1, FS_Subset
  <2>3. Cardinality(Upto(q)) # Cardinality(Upto(r))
    BY <2>1, <2>2, FS_Subset
  <2> QED
    BY <2>3 DEF Rank
<1>4. ASSUME NEW r \in F, NEW q \in F, Rank(F, r) = Rank(F, q) PROVE r = q
  <2>1. r.id \in Nat /\ q.id \in Nat
    BY DEF Contents
  <2>2. r.id = q.id
    BY <1>3, <1>4, <2>1
  <2> QED
    BY <2>2
<1> DEFINE G == [r \in F |-> Rank(F, r)]
<1>5. G \in Injection(F, 1 .. N)
  BY <1>2, <1>4 DEF Injection, IsInjective
<1>6. IsFiniteSet(1 .. N) /\ Cardinality(1 .. N) = N
  BY <1>1, FS_Interval
<1>7. G \in Surjection(F, 1 .. N)
  BY <1>5, <1>6, FS_Injection
<1>8. \A n \in 1 .. N : \E r \in F : G[r] = n
  BY <1>7 DEF Surjection
<1> QED
  BY <1>1, <1>2, <1>4, <1>8

LEMMA PlacedBehind ==
  ASSUME NEW rows, NEW batch, Numbered(rows), IsFiniteSet(batch), batch \subseteq Contents,
         \A r, q \in batch : r.id = q.id => r = q
  PROVE  /\ Numbered(rows \cup Placed(rows, batch))
         /\ \A p \in Placed(rows, batch) : \E r \in batch : Content(p) = r /\ p.id = r.id
         /\ \A r \in batch : r.id \notin Ids(rows) =>
               \E p \in Placed(rows, batch) : Content(p) = r /\ p.id = r.id
<1> DEFINE F == Fresh(rows, batch)
           P == Placed(rows, batch)
           n == Cardinality(rows)
           Place(r) == At(r, n + Rank(F, r))
<1>1. F \subseteq batch /\ IsFiniteSet(F)
  BY FS_Subset DEF Fresh
<1>2. /\ Cardinality(F) \in Nat
      /\ \A r \in F : Rank(F, r) \in 1 .. Cardinality(F)
      /\ \A r, q \in F : Rank(F, r) = Rank(F, q) => r = q
      /\ \A k \in 1 .. Cardinality(F) : \E r \in F : Rank(F, r) = k
  BY <1>1, Ranks
<1>3. n \in Nat /\ Top(rows) = n /\ \A r \in rows : r.pos \in 1 .. n
  BY NumberedTop
<1>4. P = {Place(r) : r \in F}
  BY <1>3 DEF Placed, Rank
<1>5. ASSUME NEW r \in F
      PROVE  /\ Place(r) \in P /\ Place(r) \in Row
             /\ Content(Place(r)) = r
             /\ Place(r).id = r.id /\ Place(r).pos = n + Rank(F, r)
             /\ Place(r).id \notin Ids(rows)
  <2>1. r \in Contents /\ r.id \notin Ids(rows)
    BY <1>1 DEF Fresh
  <2>2. n + Rank(F, r) \in Nat \ {0}
    BY <1>2, <1>3
  <2>3. Place(r) \in Row
    BY <2>1, <2>2 DEF At, Contents, Row
  <2>4. Content(Place(r)) = r
    BY <2>1 DEF Content, At, Contents
  <2> QED
    BY <1>4, <2>1, <2>3, <2>4 DEF At
<1>6. ASSUME NEW p \in P PROVE \E r \in F : p = Place(r)
  BY <1>4
<1>7. IsFiniteSet(P) /\ Cardinality(P) = Cardinality(F)
  <2> DEFINE G == [r \in F |-> Place(r)]
  <2>1. \A r, q \in F : Place(r) = Place(q) => r = q
    BY <1>5
  <2>2. G \in [F -> P] /\ \A p \in P : \E r \in F : G[r] = p
    BY <1>5, <1>6
  <2>3. G \in Surjection(F, P)
    BY <2>2 DEF Surjection
  <2>4. G \in Injection(F, P)
    BY <2>1, <2>2 DEF Injection, IsInjective
  <2> QED
    BY <1>1, <2>3, <2>4, FS_Surjection
<1>8. IsFiniteSet(rows \cup P) /\ Cardinality(rows \cup P) = n + Cardinality(F)
  <2>1. rows \cap P = {}
    BY <1>5, <1>6 DEF Ids
  <2>2. Cardinality(rows \cap P) = 0
    BY <2>1, FS_EmptySet
  <2>3. IsFiniteSet(rows)
    BY DEF Numbered
  <2>4. /\ IsFiniteSet(rows \cup P)
        /\ Cardinality(rows \cup P) = Cardinality(rows) + Cardinality(P) - Cardinality(rows \cap P)
    <3> HIDE DEF P
    <3> QED
      BY <1>7, <2>3, FS_Union
  <2> QED
    BY <1>2, <1>3, <1>7, <2>2, <2>4
<1>9. \A p \in rows \cup P : p.pos \in 1 .. n + Cardinality(F)
  <2>1. ASSUME NEW p \in rows PROVE p.pos \in 1 .. n + Cardinality(F)
    BY <1>2, <1>3
  <2>2. ASSUME NEW p \in P PROVE p.pos \in 1 .. n + Cardinality(F)
    BY <1>2, <1>3, <1>5, <1>6
  <2> QED
    BY <2>1, <2>2
<1>10. \A k \in 1 .. n + Cardinality(F) : \E p \in rows \cup P : p.pos = k
  <2> SUFFICES ASSUME NEW k \in 1 .. n + Cardinality(F) PROVE \E p \in rows \cup P : p.pos = k
    OBVIOUS
  <2>1. CASE k <= n
    <3>1. k \in 1 .. n
      BY <1>2, <1>3, <2>1
    <3> QED
      BY <3>1, NumberedTop
  <2>2. CASE k > n
    <3>1. k - n \in 1 .. Cardinality(F) /\ n + (k - n) = k
      BY <1>2, <1>3, <2>2
    <3>2. PICK r \in F : Rank(F, r) = k - n
      BY <1>2, <3>1
    <3> QED
      BY <1>5, <3>1, <3>2
  <2> QED
    BY <1>2, <1>3, <2>1, <2>2
<1>11. ASSUME NEW p \in rows \cup P, NEW q \in rows \cup P PROVE (p.pos = q.pos => p = q) /\ (p.id = q.id => p = q)
  <2>1. CASE p \in rows /\ q \in rows
    BY <2>1 DEF Numbered
  <2>2. CASE p \in P /\ q \in P
    <3>1. PICK r \in F, s \in F : p = Place(r) /\ q = Place(s)
      BY <1>6, <2>2
    <3>2. p.pos = n + Rank(F, r) /\ q.pos = n + Rank(F, s) /\ p.id = r.id /\ q.id = s.id
      BY <1>5, <3>1
    <3>3. p.pos = q.pos => Rank(F, r) = Rank(F, s)
      BY <1>2, <1>3, <3>2
    <3> QED
      BY <1>1, <1>2, <3>1, <3>2, <3>3
  <2>3. ASSUME NEW a \in rows, NEW b \in P PROVE a.pos # b.pos /\ a.id # b.id
    BY <1>2, <1>3, <1>5, <1>6 DEF Ids
  <2> QED
    BY <2>1, <2>2, <2>3
<1>12. Numbered(rows \cup P)
  <2>1. rows \cup P \subseteq Row
    BY <1>5, <1>6 DEF Numbered
  <2>2. {p.pos : p \in rows \cup P} = 1 .. Cardinality(rows \cup P)
    BY <1>8, <1>9, <1>10
  <2> QED
    BY <1>8, <1>11, <2>1, <2>2 DEF Numbered
<1>13. \A r \in batch : r.id \notin Ids(rows) => r \in F
  BY DEF Fresh
<1> QED
  BY <1>1, <1>5, <1>6, <1>12, <1>13

-----------------------------------------------------------------------------
(* The invariant.                                                           *)

TypeOK ==
    /\ exists \in BOOLEAN /\ clock \in Nat
    /\ table \subseteq Row
    /\ pc \in [Writers -> {"idle", "called", "load", "restore"}]
    /\ arrival \in [Writers -> Nat] /\ done \in [Writers -> Nat]
    /\ base \in [Writers -> SUBSET Row] /\ staged \in [Writers -> SUBSET Row]
    /\ call = [w \in Writers |-> call[w]]
    /\ \A w \in Writers :
          /\ pc[w] \in {"called", "load"} => call[w] \in Calls
          /\ pc[w] = "restore" => call[w].binding \in Apps \cup {NoApp}

(* A transaction without rows of its own has seen nothing yet. *)
BeforeWriting ==
    \A w \in Writers :
        /\ pc[w] # "load" => base[w] = {}
        /\ pc[w] \in {"idle", "called"} => staged[w] = {} /\ done[w] = 0
        /\ pc[w] = "restore" => Numbered(staged[w])

(* A loading transaction numbers on from what it saw, ...                   *)
LoadsBehind ==
    \A w \in Writers : pc[w] = "load" =>
        /\ base[w] \subseteq table /\ Numbered(base[w])
        /\ Numbered(View(w))

(* ... has every event that it consumed, and nothing else of its own.       *)
LoadsEvents ==
    \A w \in Writers : pc[w] = "load" =>
        /\ \A i \in 1 .. Len(call[w].events) : i <= done[w] =>
              \E r \in View(w) : Holds(call[w], call[w].events[i], r)
        /\ Ids(staged[w]) \subseteq Ids({call[w].events[i] : i \in 1 .. Len(call[w].events)})

(* Nothing will be numbered within a watermark that somebody was told.      *)
WatermarksAreCovered ==
    /\ acked # NoCall => \A i \in 1 .. Len(acked.call.events) :
          \E r \in table : r.pos <= acked.watermark /\ Holds(acked.call, acked.call.events[i], r)
    /\ reader # NoCall => reader.watermark \in 0 .. Cardinality(table)
    /\ frozen # NoResult => frozen.of.watermark \in 0 .. Cardinality(table)

IInv ==
    /\ TypeOK /\ Numbered(table) /\ OneApplication
    /\ BeforeWriting /\ LoadsBehind /\ LoadsEvents
    /\ WatermarksAreCovered /\ FrozenSnapshotIsStable

LEMMA InitHolds == Init => IInv
<1> SUFFICES ASSUME Init PROVE IInv
  OBVIOUS
<1> USE DEF Init
<1>1. TypeOK
  BY DEF TypeOK
<1>2. Numbered(table)
  BY NothingIsNumbered
<1>3. OneApplication
  BY DEF OneApplication, Traces
<1> QED
  BY <1>1, <1>2, <1>3 DEF IInv, BeforeWriting, LoadsBehind, LoadsEvents, WatermarksAreCovered, FrozenSnapshotIsStable

(* Committing: the table becomes what the transaction has seen, or stays.   *)
LEMMA CommittedView ==
  ASSUME IInv, NEW w \in Writers, pc[w] \in {"load", "restore"}, NoClash(w)
  PROVE  /\ Numbered(View(w))
         /\ table \cup staged[w] = table \/ (table = base[w] /\ table \cup staged[w] = View(w))
<1> USE DEF IInv
<1>1. Numbered(base[w]) /\ Numbered(View(w)) /\ base[w] \subseteq table
  <2>1. CASE pc[w] = "load"
    BY <2>1 DEF LoadsBehind
  <2>2. CASE pc[w] = "restore"
    <3>1. base[w] = {} /\ View(w) = staged[w]
      BY <2>2 DEF BeforeWriting, View
    <3> QED
      BY <2>2, <3>1, NothingIsNumbered DEF BeforeWriting
  <2> QED
    BY <2>1, <2>2
<1>2. staged[w] \subseteq base[w] \/ table = base[w]
  BY <1>1, OneOfTwo DEF NoClash, View
<1> QED
  BY <1>1, <1>2 DEF View

LEMMA Growing ==
  ASSUME NEW old, NEW new, Numbered(old), Numbered(new), old \subseteq new
  PROVE  /\ 0 .. Cardinality(old) \subseteq 0 .. Cardinality(new)
         /\ \A n \in 0 .. Cardinality(old) : \A r \in new : r.pos <= n => r \in old
<1>1. Cardinality(old) <= Cardinality(new) /\ Cardinality(old) \in Nat /\ Cardinality(new) \in Nat
  BY FS_Subset, NumberedTop DEF Numbered
<1>2. \A r \in new : r.pos \in Nat
  BY DEF Numbered, Row
<1> QED
  BY <1>1, <1>2, Behind

LEMMA CommitStep == ASSUME IInv, NEW w \in Writers, Commit(w) \/ CommitRestore(w) PROVE IInv'
<1> USE DEF IInv
<1>1. /\ pc[w] \in {"load", "restore"}
      /\ Leave(w) /\ UNCHANGED <<exists, clock, reader, frozen>>
  BY DEF Commit, CommitRestore, reading
<1>2. \/ table' = table
      \/ /\ table' = View(w) /\ table = base[w] /\ NoClash(w)
         /\ CheckBinding(View(w), call[w].binding, FALSE)
  BY <1>1, CommittedView DEF Commit, CommitRestore
<1>3. Numbered(table') /\ table \subseteq table' /\ table' \subseteq Row
  <2>1. CASE table' = table
    <3>1. Numbered(table)
      OBVIOUS
    <3> QED
      BY <2>1, <3>1 DEF Numbered
  <2>2. CASE table' = View(w) /\ table = base[w] /\ NoClash(w)
    <3>1. Numbered(View(w))
      BY <1>1, <2>2, CommittedView
    <3> QED
      BY <2>2, <3>1 DEF View, Numbered
  <2> QED
    BY <1>2, <2>1, <2>2
<1>4. OneApplication'
  <2>1. CASE table' = table
    BY <2>1 DEF OneApplication, Traces, BoundTo
  <2>2. CASE CheckBinding(table', call[w].binding, FALSE)
    <3>1. call[w].binding \in Apps \cup {NoApp}
      BY <1>1, CallsAssumption DEF TypeOK
    <3> QED
      BY <2>2, <3>1 DEF CheckBinding, OneApplication, Traces, BoundTo
  <2> QED
    BY <1>2, <2>1, <2>2
<1>5. /\ \A v \in Writers \ {w} : /\ pc'[v] = pc[v] /\ call'[v] = call[v] /\ base'[v] = base[v]
                                  /\ staged'[v] = staged[v] /\ done'[v] = done[v] /\ View(v)' = View(v)
      /\ pc'[w] = "idle" /\ base'[w] = {} /\ staged'[w] = {} /\ done'[w] = 0
  BY <1>1 DEF Leave, TypeOK, View
<1>6. TypeOK'
  BY <1>1, <1>3, <1>5 DEF TypeOK, Leave
<1>7. BeforeWriting'
  BY <1>5 DEF BeforeWriting
<1>8. LoadsBehind'
  BY <1>3, <1>5 DEF LoadsBehind
<1>9. LoadsEvents'
  <2> SUFFICES ASSUME NEW v \in Writers, pc'[v] = "load"
               PROVE  /\ \A i \in 1 .. Len(call'[v].events) : i <= done'[v] =>
                            \E r \in View(v)' : Holds(call'[v], call'[v].events[i], r)
                      /\ Ids(staged'[v]) \subseteq Ids({call'[v].events[i] : i \in 1 .. Len(call'[v].events)})
    BY DEF LoadsEvents, Ids, Holds, Disagrees, Prepared, Content
  <2>1. /\ pc[v] = "load" /\ call'[v] = call[v] /\ View(v)' = View(v)
        /\ staged'[v] = staged[v] /\ done'[v] = done[v]
    BY <1>5
  <2> QED
    BY <2>1 DEF LoadsEvents
<1>10. WatermarksAreCovered'
  <2>1. /\ reader' # NoCall => reader'.watermark \in 0 .. Cardinality(table')
        /\ frozen' # NoResult => frozen'.of.watermark \in 0 .. Cardinality(table')
    BY <1>1, <1>3, Growing DEF WatermarksAreCovered
  <2>2. CASE acked' = acked
    BY <1>3, <2>1, <2>2 DEF WatermarksAreCovered
  <2>3. CASE /\ acked' = [call |-> call[w], watermark |-> Top(View(w))]
             /\ View(w) \subseteq table' /\ pc[w] = "load" /\ done[w] >= Len(call[w].events)
    <3>1. \A r \in View(w) : r.pos <= Top(View(w))
      BY <2>3, NumberedTop DEF LoadsBehind
    <3>2. /\ Len(call[w].events) \in Nat /\ done[w] \in Nat
      BY <2>3, CallsAssumption DEF TypeOK
    <3>3. \A i \in 1 .. Len(call[w].events) : \E r \in View(w) : Holds(call[w], call[w].events[i], r)
      BY <2>3, <3>2 DEF LoadsEvents
    <3> QED
      BY <2>1, <2>3, <3>1, <3>3 DEF WatermarksAreCovered
  <2>4. acked' = acked \/ (/\ acked' = [call |-> call[w], watermark |-> Top(View(w))]
                           /\ View(w) \subseteq table' /\ pc[w] = "load" /\ done[w] >= Len(call[w].events))
    <3>1. CASE Commit(w)
      BY <3>1 DEF Commit, LoadsBehind, View
    <3>2. CASE CommitRestore(w)
      BY <3>2 DEF CommitRestore
    <3> QED
      BY <3>1, <3>2
  <2> QED
    BY <2>2, <2>3, <2>4
<1>11. FrozenSnapshotIsStable'
  <2> SUFFICES ASSUME frozen # NoResult
               PROVE  Snapshot(frozen.of.asof, frozen.of.cutoff, frozen.of.watermark)' = frozen.result
    BY <1>1 DEF FrozenSnapshotIsStable
  <2>1. frozen.of.watermark \in 0 .. Cardinality(table)
    BY DEF WatermarksAreCovered
  <2>2. \A r \in table' : r.pos <= frozen.of.watermark => r \in table
    BY <1>3, <2>1, Growing
  <2>3. Visible(frozen.of.asof, frozen.of.cutoff, frozen.of.watermark)'
          = Visible(frozen.of.asof, frozen.of.cutoff, frozen.of.watermark)
    BY <1>1, <1>3, <2>2 DEF Visible
  <2>4. Snapshot(frozen.of.asof, frozen.of.cutoff, frozen.of.watermark) = frozen.result
    BY DEF FrozenSnapshotIsStable
  <2>5. Snapshot(frozen.of.asof, frozen.of.cutoff, frozen.of.watermark)'
          = Windows(Visible(frozen.of.asof, frozen.of.cutoff, frozen.of.watermark)')
    BY DEF Snapshot, Windows, Before
  <2> QED
    BY <2>3, <2>4, <2>5 DEF Snapshot
<1> QED
  BY <1>3, <1>4, <1>6, <1>7, <1>8, <1>9, <1>10, <1>11

(* What is not of the calls stands still with the table. *)
LEMMA SameTable ==
  ASSUME IInv, UNCHANGED <<table, acked, reader, frozen>>
  PROVE  Numbered(table') /\ OneApplication' /\ WatermarksAreCovered' /\ FrozenSnapshotIsStable'
<1>1. Numbered(table') /\ OneApplication'
  BY DEF IInv, OneApplication, Traces, BoundTo
<1>2. WatermarksAreCovered'
  <2>1. WatermarksAreCovered
    BY DEF IInv
  <2>2. acked' # NoCall => \A i \in 1 .. Len(acked'.call.events) :
           \E r \in table' : r.pos <= acked'.watermark /\ Holds(acked'.call, acked'.call.events[i], r)
    BY <2>1 DEF WatermarksAreCovered
  <2>3. /\ reader' # NoCall => reader'.watermark \in 0 .. Cardinality(table')
        /\ frozen' # NoResult => frozen'.of.watermark \in 0 .. Cardinality(table')
    BY <2>1 DEF WatermarksAreCovered
  <2> QED
    BY <2>2, <2>3 DEF WatermarksAreCovered, Holds, Disagrees, Prepared, Content
<1>3. FrozenSnapshotIsStable'
  <2>1. FrozenSnapshotIsStable
    BY DEF IInv
  <2>2. Snapshot(frozen.of.asof, frozen.of.cutoff, frozen.of.watermark)'
          = Snapshot(frozen.of.asof, frozen.of.cutoff, frozen.of.watermark)
    BY DEF Snapshot, Windows, Visible, Before
  <2> QED
    BY <2>1, <2>2 DEF FrozenSnapshotIsStable
<1> QED
  BY <1>1, <1>2, <1>3

(* A call ends, or another one begins, beside the others. *)
LEMMA OutsideStep ==
  ASSUME IInv, NEW w \in Writers, pc'[w] # "load",
         UNCHANGED <<table, acked, reader, frozen>>,
         \A v \in Writers \ {w} : /\ pc'[v] = pc[v] /\ call'[v] = call[v] /\ base'[v] = base[v]
                                  /\ staged'[v] = staged[v] /\ done'[v] = done[v],
         base'[w] = {},
         pc'[w] \in {"idle", "called"} => staged'[w] = {} /\ done'[w] = 0,
         pc'[w] = "restore" => Numbered(staged'[w]),
         TypeOK'
  PROVE  IInv'
<1>1. BeforeWriting'
  BY DEF IInv, BeforeWriting
<1>2. LoadsBehind'
  BY DEF IInv, LoadsBehind, View
<1>3. LoadsEvents'
  <2> SUFFICES ASSUME NEW v \in Writers, pc'[v] = "load"
               PROVE  /\ \A i \in 1 .. Len(call'[v].events) : i <= done'[v] =>
                            \E r \in View(v)' : Holds(call'[v], call'[v].events[i], r)
                      /\ Ids(staged'[v]) \subseteq Ids({call'[v].events[i] : i \in 1 .. Len(call'[v].events)})
    BY DEF LoadsEvents, Ids, Holds, Disagrees, Prepared, Content
  <2>1. /\ pc[v] = "load" /\ call'[v] = call[v] /\ View(v)' = View(v)
        /\ staged'[v] = staged[v] /\ done'[v] = done[v]
    BY DEF View
  <2> QED
    BY <2>1 DEF IInv, LoadsEvents
<1> QED
  BY <1>1, <1>2, <1>3, SameTable DEF IInv

LEMMA LeaveStep ==
  ASSUME IInv, NEW w \in Writers, Leave(w), UNCHANGED <<exists, table, clock, acked, reader, frozen>>
  PROVE  IInv'
<1>1. TypeOK'
  BY DEF IInv, TypeOK, Leave
<1> QED
  BY <1>1, OutsideStep DEF IInv, TypeOK, Leave

LEMMA StartAppendStep == ASSUME IInv, NEW w \in Writers, StartAppend(w) PROVE IInv'
<1>1. TypeOK'
  BY DEF IInv, TypeOK, StartAppend
<1> QED
  BY <1>1, OutsideStep DEF IInv, TypeOK, BeforeWriting, StartAppend, reading

LEMMA StartRestoreStep == ASSUME IInv, NEW w \in Writers, StartRestore(w) PROVE IInv'
<1> USE DEF IInv, StartRestore
<1>1. PICK rows \in Backups, app \in Apps \cup {NoApp} :
        /\ {r.pos : r \in rows} = 1 .. Cardinality(rows)
        /\ staged' = [staged EXCEPT ![w] = rows]
        /\ call' = [call EXCEPT ![w] = [binding |-> app]]
  OBVIOUS
<1>2. rows \subseteq Row /\ IsFiniteSet(rows) /\ \A r, q \in rows : r.id = q.id => r = q
  BY BackupsAssumption
<1>3. \A r, q \in rows : r.pos = q.pos => r = q
  <2> DEFINE G == [r \in rows |-> r.pos]
             N == Cardinality(rows)
  <2>1. N \in Nat
    BY <1>2, FS_CardinalityType
  <2>2. IsFiniteSet(1 .. N) /\ Cardinality(1 .. N) = N
    BY <2>1, FS_Interval
  <2>3. G \in Surjection(rows, 1 .. N)
    BY <1>1 DEF Surjection
  <2>4. G \in Injection(rows, 1 .. N)
    BY <1>2, <2>2, <2>3, FS_Surjection
  <2> QED
    BY <2>4 DEF Injection, IsInjective
<1>4. Numbered(staged'[w])
  BY <1>1, <1>2, <1>3 DEF TypeOK, Numbered
<1>5. TypeOK'
  BY <1>1, <1>2 DEF TypeOK
<1> QED
  BY <1>1, <1>4, <1>5, OutsideStep DEF TypeOK, BeforeWriting, reading

LEMMA BeginWriteStep == ASSUME IInv, NEW w \in Writers, BeginWrite(w) PROVE IInv'
<1> USE DEF BeginWrite, reading
<1>1. CASE Leave(w)
  BY <1>1, LeaveStep
<1>2. CASE /\ base' = [base EXCEPT ![w] = table] /\ pc' = [pc EXCEPT ![w] = "load"]
           /\ UNCHANGED <<call, arrival, staged, done>>
  <2> USE DEF IInv
  <2>1. TypeOK'
    BY <1>2 DEF TypeOK
  <2>2. staged'[w] = {} /\ done'[w] = 0 /\ View(w)' = table
    BY <1>2 DEF BeforeWriting, TypeOK, View
  <2>3. \A v \in Writers \ {w} : pc'[v] = pc[v] /\ base'[v] = base[v] /\ View(v)' = View(v)
    BY <1>2 DEF TypeOK, View
  <2>4. pc'[w] = "load" /\ base'[w] = table
    BY <1>2 DEF TypeOK
  <2>5. BeforeWriting' /\ LoadsBehind'
    BY <1>2, <2>2, <2>3, <2>4 DEF BeforeWriting, LoadsBehind
  <2>6. LoadsEvents'
    <3> SUFFICES ASSUME NEW v \in Writers, pc'[v] = "load"
                 PROVE  /\ \A i \in 1 .. Len(call'[v].events) : i <= done'[v] =>
                              \E r \in View(v)' : Holds(call'[v], call'[v].events[i], r)
                        /\ Ids(staged'[v]) \subseteq Ids({call'[v].events[i] : i \in 1 .. Len(call'[v].events)})
      BY DEF LoadsEvents, Ids, Holds, Disagrees, Prepared, Content
    <3>1. CASE v = w
      <4>1. \A i \in 1 .. Len(call'[v].events) : ~ i <= done'[v]
        BY <2>2, <3>1
      <4> QED
        BY <2>2, <3>1, <4>1 DEF Ids
    <3>2. CASE v # w
      BY <1>2, <2>3, <3>2 DEF LoadsEvents
    <3> QED
      BY <3>1, <3>2
  <2> QED
    BY <2>1, <2>5, <2>6, SameTable
<1> QED
  BY <1>1, <1>2

(* What a call makes of its events. *)
LEMMA BatchIsContent ==
  ASSUME IInv, NEW w \in Writers, pc[w] = "load"
  PROVE  /\ NextBatch(w) \subseteq Contents /\ IsFiniteSet(NextBatch(w))
         /\ \A i \in 1 .. Len(call[w].events) : done[w] < i /\ i <= done[w] + BatchSize =>
               Prepared(call[w], arrival[w], call[w].events[i]) \in NextBatch(w)
         /\ \A r \in NextBatch(w) : r.id \in Ids({call[w].events[i] : i \in 1 .. Len(call[w].events)})
<1> DEFINE S == {j \in 1 .. Len(call[w].events) : done[w] < j /\ j <= done[w] + BatchSize}
           Made(i) == Prepared(call[w], arrival[w], call[w].events[i])
<1>1. /\ call[w] \in [lane : Lane, source : Apps \cup {NoApp}, binding : Apps \cup {NoApp},
                      newWorld : BOOLEAN, initializing : BOOLEAN, events : Seq(Incoming)]
      /\ arrival[w] \in Nat
  BY CallsAssumption DEF IInv, TypeOK
<1>2. Len(call[w].events) \in Nat /\ \A i \in 1 .. Len(call[w].events) : call[w].events[i] \in Incoming
  BY <1>1
<1>3. \A i \in S : Made(i) \in Contents
  BY <1>1, <1>2 DEF Prepared, Incoming, Contents
<1>4. NextBatch(w) = {Made(i) : i \in S}
  BY DEF NextBatch
<1>5. IsFiniteSet(S)
  <2>1. S \in SUBSET (1 .. Len(call[w].events))
    OBVIOUS
  <2>2. IsFiniteSet(1 .. Len(call[w].events))
    BY <1>2, FS_Interval
  <2> HIDE DEF S
  <2> QED
    BY <2>1, <2>2, FS_Subset
<1>6. IsFiniteSet(NextBatch(w))
  <2> DEFINE G == [i \in S |-> Made(i)]
  <2>1. G \in Surjection(S, NextBatch(w))
    BY <1>4 DEF Surjection
  <2> QED
    BY <1>5, <2>1, FS_Surjection
<1>7. \A i \in S : Made(i).id \in Ids({call[w].events[j] : j \in 1 .. Len(call[w].events)})
  BY DEF Prepared, Ids
<1> QED
  BY <1>3, <1>4, <1>6, <1>7

(* A row that is made of an event, or agrees with what is made of it. *)
LEMMA MadeHolds ==
  ASSUME NEW c, NEW now \in Nat, NEW event \in Incoming, NEW r \in Row,
         c.source \in Apps \cup {NoApp}, c.lane \in Lane,
         \/ Content(r) = Prepared(c, now, event) 
         \/ r.id = event.id /\ ~ Disagrees(Prepared(c, now, event), r)
  PROVE  Holds(c, event, r)
<1> DEFINE new == Prepared(c, now, event)
           again == Prepared(c, r.recorded, event)
<1>1. /\ new.id = event.id /\ again.id = event.id /\ new.lane = c.lane /\ again.lane = c.lane
      /\ again = [new EXCEPT !.recorded = again.recorded]
      /\ new.recorded = IF c.lane = "sim" THEN event.at ELSE now
      /\ again.recorded = IF c.lane = "sim" THEN event.at ELSE r.recorded
  BY DEF Prepared
<1>2. Content(r).id = r.id /\ Content(r).recorded = r.recorded
  BY DEF Content
<1>3. r.id = event.id
  BY <1>1, <1>2
<1>4. [Content(r) EXCEPT !.recorded = new.recorded] = new /\ (c.lane = "sim" => new.recorded = r.recorded)
  <2>1. CASE Content(r) = new
    BY <1>1, <1>2, <2>1 DEF Content, Prepared
  <2>2. CASE r.id = event.id /\ ~ Disagrees(new, r)
    BY <1>1, <2>2 DEF Disagrees
  <2> QED
    BY <2>1, <2>2
<1>5. again.recorded = r.recorded
  BY <1>1, <1>4
<1>6. [Content(r) EXCEPT !.recorded = again.recorded] = again
  BY <1>1, <1>4, <1>5 DEF Content, Prepared
<1> QED
  BY <1>1, <1>3, <1>5, <1>6 DEF Holds, Disagrees

LEMMA InsertStep == ASSUME IInv, NEW w \in Writers, InsertBatch(w) PROVE IInv'
<1> USE DEF InsertBatch, reading
<1>1. CASE Leave(w)
  BY <1>1, LeaveStep
<1>2. CASE /\ BatchAccepted(View(w), NextBatch(w), call[w].newWorld)
           /\ staged' = [staged EXCEPT ![w] = @ \cup Placed(View(w), NextBatch(w))]
           /\ done' = [done EXCEPT ![w] = @ + BatchSize]
           /\ UNCHANGED <<pc, call, arrival, base>>
  <2> USE DEF IInv
  <2> DEFINE batch == NextBatch(w)
             more == Placed(View(w), batch)
  <2>1. pc[w] = "load" /\ Numbered(View(w))
    BY DEF LoadsBehind
  <2>2. /\ batch \subseteq Contents /\ IsFiniteSet(batch)
        /\ \A r, q \in batch : r.id = q.id => r = q
    BY <1>2, <2>1, BatchIsContent DEF BatchAccepted
  <2>3. /\ Numbered(View(w) \cup more)
        /\ \A p \in more : \E r \in batch : Content(p) = r /\ p.id = r.id
        /\ \A r \in batch : r.id \notin Ids(View(w)) => \E p \in more : Content(p) = r /\ p.id = r.id
    BY <2>1, <2>2, PlacedBehind
  <2>4. more \subseteq Row
    BY <2>3 DEF Numbered
  <2> HIDE DEF batch, more
  <2>5. staged'[w] = staged[w] \cup more /\ View(w)' = View(w) \cup more /\ done'[w] = done[w] + BatchSize
    BY <1>2 DEF TypeOK, View, batch, more
  <2>6. \A v \in Writers \ {w} : staged'[v] = staged[v] /\ View(v)' = View(v) /\ done'[v] = done[v]
    BY <1>2 DEF TypeOK, View
  <2>7. TypeOK'
    BY <1>2, <2>4, BatchSizeAssumption DEF TypeOK, batch, more
  <2>8. BeforeWriting' /\ LoadsBehind'
    BY <1>2, <2>1, <2>3, <2>5, <2>6 DEF BeforeWriting, LoadsBehind
  <2>9. \A i \in 1 .. Len(call[w].events) : i <= done'[w] =>
           \E r \in View(w)' : Holds(call[w], call[w].events[i], r)
    <3> SUFFICES ASSUME NEW i \in 1 .. Len(call[w].events), i <= done'[w]
                 PROVE  \E r \in View(w)' : Holds(call[w], call[w].events[i], r)
      OBVIOUS
    <3> DEFINE event == call[w].events[i]
               made == Prepared(call[w], arrival[w], event)
    <3>1. CASE i <= done[w]
      BY <2>1, <2>5, <3>1 DEF LoadsEvents
    <3>2. CASE done[w] < i
      <4>1. made \in batch /\ made.id = event.id
        BY <2>1, <2>5, <3>2, BatchIsContent DEF batch, Prepared
      <4>2. /\ call[w].source \in Apps \cup {NoApp} /\ call[w].lane \in Lane /\ call[w].newWorld \in BOOLEAN
            /\ arrival[w] \in Nat /\ event \in Incoming
        BY <2>1, CallsAssumption DEF TypeOK
      <4>3. \A r \in View(w)' : r \in Row
        BY <2>3, <2>5 DEF Numbered
      <4>4. CASE made.id \notin Ids(View(w))
        <5>1. PICK p \in more : Content(p) = made
          BY <2>3, <4>1, <4>4
        <5> QED
          BY <2>5, <4>2, <4>3, <5>1, MadeHolds
      <4>5. CASE made.id \in Ids(View(w))
        <5>1. ~ call[w].newWorld
          BY <1>2, <4>1, <4>5 DEF BatchAccepted, Ids, batch
        <5>2. PICK s \in View(w) : s.id = made.id
          BY <4>5 DEF Ids
        <5>3. ~ Disagrees(made, s)
          BY <1>2, <4>1, <5>1, <5>2 DEF BatchAccepted, batch
        <5> QED
          BY <2>5, <4>1, <4>2, <4>3, <5>2, <5>3, MadeHolds
      <4> QED
        BY <4>4, <4>5
    <3>3. done[w] \in Nat /\ i \in Nat
      BY DEF TypeOK
    <3> QED
      BY <3>1, <3>2, <3>3
  <2>10. Ids(staged'[w]) \subseteq Ids({call[w].events[i] : i \in 1 .. Len(call[w].events)})
    <3>1. Ids(more) \subseteq Ids({call[w].events[i] : i \in 1 .. Len(call[w].events)})
      BY <2>1, <2>3, BatchIsContent DEF Ids, batch
    <3> QED
      BY <2>1, <2>5, <3>1 DEF LoadsEvents, Ids
  <2>11. LoadsEvents'
    <3> SUFFICES ASSUME NEW v \in Writers, pc'[v] = "load"
                 PROVE  /\ \A i \in 1 .. Len(call'[v].events) : i <= done'[v] =>
                              \E r \in View(v)' : Holds(call'[v], call'[v].events[i], r)
                        /\ Ids(staged'[v]) \subseteq Ids({call'[v].events[i] : i \in 1 .. Len(call'[v].events)})
      BY DEF LoadsEvents, Ids, Holds, Disagrees, Prepared, Content
    <3>1. CASE v = w
      BY <1>2, <2>9, <2>10, <3>1
    <3>2. CASE v # w
      BY <1>2, <2>6, <3>2 DEF LoadsEvents
    <3> QED
      BY <3>1, <3>2
  <2> QED
    BY <2>7, <2>8, <2>11, SameTable
<1> QED
  BY <1>1, <1>2

LEMMA WorldStep == ASSUME IInv, Tick \/ CreateStream \/ ReadLatest \/ Attach PROVE IInv'
<1> USE DEF writing
<1>1. UNCHANGED <<table, pc, call, arrival, base, staged, done, acked>>
  BY DEF Tick, CreateStream, ReadLatest, Attach
<1>2. TypeOK'
  <2>1. clock \in Nat /\ (clock' = clock \/ clock' = clock + 1)
    BY DEF IInv, TypeOK, Tick, CreateStream, ReadLatest, Attach
  <2>2. clock' \in Nat
    BY <2>1
  <2>3. exists' \in BOOLEAN
    BY DEF IInv, TypeOK, Tick, CreateStream, ReadLatest, Attach
  <2> QED
    BY <1>1, <2>2, <2>3 DEF IInv, TypeOK
<1>3. BeforeWriting' /\ LoadsBehind'
  BY <1>1 DEF IInv, BeforeWriting, LoadsBehind, View
<1>4. LoadsEvents'
  <2> SUFFICES ASSUME NEW v \in Writers, pc'[v] = "load"
               PROVE  /\ \A i \in 1 .. Len(call'[v].events) : i <= done'[v] =>
                            \E r \in View(v)' : Holds(call'[v], call'[v].events[i], r)
                      /\ Ids(staged'[v]) \subseteq Ids({call'[v].events[i] : i \in 1 .. Len(call'[v].events)})
    BY DEF LoadsEvents, Ids, Holds, Disagrees, Prepared, Content
  <2>1. View(v)' = View(v)
    BY <1>1 DEF View
  <2> QED
    BY <1>1, <2>1 DEF IInv, LoadsEvents
<1>5. CASE UNCHANGED <<reader, frozen>>
  BY <1>1, <1>2, <1>3, <1>4, <1>5, SameTable DEF IInv
<1>6. Numbered(table') /\ OneApplication'
  BY <1>1 DEF IInv, OneApplication, Traces, BoundTo
<1>7. acked' # NoCall => \A i \in 1 .. Len(acked'.call.events) :
         \E r \in table' : r.pos <= acked'.watermark /\ Holds(acked'.call, acked'.call.events[i], r)
  BY <1>1 DEF IInv, WatermarksAreCovered
<1>8. Top(table) = Cardinality(table)
  BY NumberedTop DEF IInv
<1>9. CASE ReadLatest
  <2>1. frozen' = frozen /\ reader'.watermark \in 0 .. Cardinality(table)
    BY <1>8, <1>9 DEF ReadLatest
  <2>2. WatermarksAreCovered'
    BY <1>1, <1>7, <2>1 DEF IInv, WatermarksAreCovered, Holds, Disagrees, Prepared, Content
  <2>3. Snapshot(frozen.of.asof, frozen.of.cutoff, frozen.of.watermark)'
          = Snapshot(frozen.of.asof, frozen.of.cutoff, frozen.of.watermark)
    BY <1>1, <2>1 DEF Snapshot, Windows, Visible, Before
  <2>4. FrozenSnapshotIsStable'
    BY <2>1, <2>3 DEF IInv, FrozenSnapshotIsStable
  <2> QED
    BY <1>2, <1>3, <1>4, <1>6, <2>2, <2>4 DEF IInv
<1>10. CASE Attach
  <2>1. /\ frozen' = [of |-> reader, result |-> Snapshot(reader.asof, reader.cutoff, reader.watermark)]
        /\ reader' = NoCall /\ reader.watermark \in 0 .. Cardinality(table)
    BY <1>10 DEF Attach, IInv, WatermarksAreCovered
  <2>2. WatermarksAreCovered'
    BY <1>1, <1>7, <2>1 DEF WatermarksAreCovered, Holds, Disagrees, Prepared, Content
  <2>3. Snapshot(frozen.of.asof, frozen.of.cutoff, frozen.of.watermark)' = frozen'.result
    BY <1>1, <2>1 DEF Snapshot, Windows, Visible, Before
  <2>4. FrozenSnapshotIsStable'
    BY <2>3 DEF FrozenSnapshotIsStable
  <2> QED
    BY <1>2, <1>3, <1>4, <1>6, <2>2, <2>4 DEF IInv
<1>11. CASE Tick \/ CreateStream
  BY <1>5, <1>11 DEF Tick, CreateStream, reading
<1> QED
  BY <1>9, <1>10, <1>11

LEMMA StepHolds == IInv /\ [Next]_vars => IInv'
<1> SUFFICES ASSUME IInv, [Next]_vars PROVE IInv'
  OBVIOUS
<1>1. CASE UNCHANGED vars
  <2> USE <1>1 DEF vars, writing, reading
  <2>1. TypeOK' /\ BeforeWriting' /\ LoadsBehind'
    BY DEF IInv, TypeOK, BeforeWriting, LoadsBehind, View
  <2>2. LoadsEvents'
    <3> SUFFICES ASSUME NEW v \in Writers, pc'[v] = "load"
                 PROVE  /\ \A i \in 1 .. Len(call'[v].events) : i <= done'[v] =>
                              \E r \in View(v)' : Holds(call'[v], call'[v].events[i], r)
                        /\ Ids(staged'[v]) \subseteq Ids({call'[v].events[i] : i \in 1 .. Len(call'[v].events)})
      BY DEF LoadsEvents, Ids, Holds, Disagrees, Prepared, Content
    <3>1. View(v)' = View(v)
      BY DEF View
    <3> QED
      BY <3>1 DEF IInv, LoadsEvents
  <2> QED
    BY <2>1, <2>2, SameTable DEF IInv
<1>2. CASE Tick \/ CreateStream \/ ReadLatest \/ Attach
  BY <1>2, WorldStep
<1>3. ASSUME NEW w \in Writers, StartAppend(w) PROVE IInv'
  BY <1>3, StartAppendStep
<1>4. ASSUME NEW w \in Writers, BeginWrite(w) PROVE IInv'
  BY <1>4, BeginWriteStep
<1>5. ASSUME NEW w \in Writers, InsertBatch(w) PROVE IInv'
  BY <1>5, InsertStep
<1>6. ASSUME NEW w \in Writers, Commit(w) \/ CommitRestore(w) PROVE IInv'
  BY <1>6, CommitStep
<1>7. ASSUME NEW w \in Writers, StartRestore(w) PROVE IInv'
  BY <1>7, StartRestoreStep
<1>8. ASSUME NEW w \in Writers, Crash(w) PROVE IInv'
  BY <1>8, LeaveStep DEF Crash, reading
<1> QED
  BY <1>1, <1>2, <1>3, <1>4, <1>5, <1>6, <1>7, <1>8 DEF Next

LEMMA Inductive == Spec => []IInv
  BY InitHolds, StepHolds, PTL DEF Spec

-----------------------------------------------------------------------------
(* Every step keeps the types of the table, the clock and the transactions. *)
THEOREM TypeCorrect == Spec => []TypeOK
<1>1. IInv => TypeOK
  BY DEF IInv
<1> QED
  BY <1>1, Inductive, PTL

(* The committed table is numbered and keyed without gaps and of one        *)
(* application, although each transaction numbers from what it saw and      *)
(* checks the binding only against that.                                    *)
THEOREM TableIsAlwaysSound == Spec => []TableIsSound
<1>1. IInv => TableIsSound
  BY DEF IInv, Numbered, TableIsSound, PositionsNumberTheEvents
<1> QED
  BY <1>1, Inductive, PTL

(* No event comes in within a watermark that a call was told, and a         *)
(* snapshot replays as it was frozen, whatever is appended later.           *)
THEOREM WatermarksAreAlwaysFinal == Spec => []WatermarksAreFinal
<1>1. IInv => WatermarksAreFinal
  BY DEF IInv, WatermarksAreFinal, WatermarksAreCovered, AckedEventsAreInPrefix, Holds
<1> QED
  BY <1>1, Inductive, PTL

(* A call adds all that it lacked or nothing, in however many batches.      *)
THEOREM CallsAreAlwaysAtomic == Spec => CallsAreAtomic
<1> DEFINE Whole(w) ==
      \/ pc[w] = "restore" /\ table' = staged[w]
      \/ /\ pc[w] = "load"
         /\ Ids(table') = Ids(table) \cup Ids({call[w].events[i] : i \in 1 .. Len(call[w].events)})
<1>1. IInv /\ [Next]_vars => [\E w \in Writers : Whole(w)]_table
  <2> SUFFICES ASSUME IInv, Next, table' # table PROVE \E w \in Writers : Whole(w)
    BY DEF vars
  <2>1. PICK w \in Writers : Commit(w) \/ CommitRestore(w)
    BY DEF Next, Tick, CreateStream, StartAppend, BeginWrite, InsertBatch, StartRestore, Crash, ReadLatest, Attach
  <2>2. pc[w] \in {"load", "restore"} /\ NoClash(w) /\ table' = table \cup staged[w]
    BY <2>1 DEF Commit, CommitRestore
  <2>3. table = base[w] /\ table' = View(w)
    BY <2>2, CommittedView
  <2>4. CASE Commit(w)
    <3>1. /\ pc[w] = "load" /\ done[w] >= Len(call[w].events)
          /\ done[w] \in Nat /\ Len(call[w].events) \in Nat
      BY <2>4, CallsAssumption DEF Commit, IInv, TypeOK
    <3>2. \A i \in 1 .. Len(call[w].events) : \E r \in View(w) : r.id = call[w].events[i].id
      BY <3>1 DEF IInv, LoadsEvents, Holds
    <3>3. Ids(staged[w]) \subseteq Ids({call[w].events[i] : i \in 1 .. Len(call[w].events)})
      BY <3>1 DEF IInv, LoadsEvents
    <3>4. Ids(table') = Ids(table) \cup Ids({call[w].events[i] : i \in 1 .. Len(call[w].events)})
      <4> DEFINE wanted == {call[w].events[i] : i \in 1 .. Len(call[w].events)}
      <4>1. Ids(View(w)) = Ids(base[w]) \cup Ids(staged[w])
        BY DEF Ids, View
      <4>2. Ids(wanted) \subseteq Ids(View(w))
        BY <3>2 DEF Ids
      <4> HIDE DEF wanted
      <4> QED
        BY <2>3, <3>3, <4>1, <4>2 DEF wanted
    <3> QED
      BY <3>1, <3>4
  <2>5. CASE CommitRestore(w)
    BY <2>3, <2>5 DEF CommitRestore, IInv, BeforeWriting, View
  <2> QED
    BY <2>1, <2>4, <2>5
<1> QED
  BY <1>1, Inductive, PTL DEF Spec, CallsAreAtomic
=============================================================================

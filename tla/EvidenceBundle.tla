--------------------------- MODULE EvidenceBundle ---------------------------
(***************************************************************************)
(* The tie-out of recognized revenue to a separately captured ERP file, and *)
(* what an evidence bundle says of it.  The ledger recognizes net of the    *)
(* channel fee and the ERP shows gross revenue, so the bridge adds the fee  *)
(* of an invoice back, once, however many entries the invoice has.          *)
(* Recognized entries, fees, the ERP file and external evidence come in any *)
(* combination; then the bundle is collected from what is frozen.           *)
(***************************************************************************)
EXTENDS Integers, FiniteSets, SequencesExt

CONSTANTS
    None,
    Sources, Documents, Families,
    Account,        \* the account of each family (definitions/controls)
    Cents,          \* amounts of entries and fees
    MaxGross,       \* the largest amount of a line
    Matrix,         \* the artifacts each control asks for (controls/matrix.yaml)
    MaxEntries, MaxLines

AmountsAreNumbers == Cents \subseteq Int

VARIABLES
    entries,        \* the recognized entries, by activity ID
    fees,           \* the channel fee of each invoice
    erp,            \* the lines of the ERP file, or None when there is no file
    covered,        \* the file covers the whole period
    bundle          \* what was collected

vars == <<entries, fees, erp, covered, bundle>>

Artifacts == UNION {Matrix[c] : c \in DOMAIN Matrix}
EntryMonths == 1 .. 2
Within(month) == month = 1
Lines == EntryMonths \X {Account[f] : f \in Families} \X Sources
KeyOf(entry) == <<entry.month, Account[entry.family], entry.source>>
InvoiceOf(entry) == <<entry.source, entry.document>>
Billed == {i \in DOMAIN entries : entries[i].family = "consumption"}

TypeOK ==
    /\ Len(entries) <= MaxEntries
    /\ DOMAIN fees = Sources \X Documents
    /\ erp # None => Cardinality(erp) <= MaxLines
    /\ covered \in BOOLEAN

Init ==
    /\ entries = << >>
    /\ fees \in [Sources \X Documents -> {0} \cup Cents]
    /\ erp = None
    /\ covered \in BOOLEAN
    /\ bundle = None

Recognize(family, source, document, month, cents) ==
    /\ bundle = None /\ erp = None /\ Len(entries) < MaxEntries
    /\ entries' = Append(entries, [family |-> family, source |-> source, document |-> document,
                                   month |-> month, cents |-> cents])
    /\ UNCHANGED <<fees, erp, covered, bundle>>

OpenErp ==
    /\ bundle = None /\ erp = None
    /\ erp' = {}
    /\ UNCHANGED <<entries, fees, covered, bundle>>

(* One line of a period, an account and a source. *)
EnterErp(key, cents) ==
    /\ bundle = None /\ erp # None /\ Cardinality(erp) < MaxLines
    /\ \A line \in erp : line.key # key
    /\ erp' = erp \cup {[key |-> key, cents |-> cents]}
    /\ UNCHANGED <<entries, fees, covered, bundle>>

(***************************************************************************)
(* The bridge.                                                              *)
(***************************************************************************)
(* A fee of an invoice with entries in several months, inside the period or *)
(* not, has no month of its own.                                            *)
Unallocable ==
    \E i, j \in Billed :
        /\ InvoiceOf(entries[i]) = InvoiceOf(entries[j])
        /\ entries[i].month # entries[j].month
        /\ fees[InvoiceOf(entries[i])] # 0

Nothing == [net |-> [k \in Lines |-> 0], fee |-> [k \in Lines |-> 0], present |-> {}, seen |-> {}]

(* Mutation: the fee is counted with every entry of its invoice. *)
CountEveryFee(entry, total) ==
    LET key == KeyOf(entry)
        invoice == InvoiceOf(entry)
    IN  [net |-> [total.net EXCEPT ![key] = @ + entry.cents],
         fee |-> [total.fee EXCEPT ![key] = @ + (IF entry.family = "consumption" THEN fees[invoice] ELSE 0)],
         present |-> total.present \cup {key},
         seen |-> total.seen]

(* A fee is counted once, with the first entry of its invoice. *)
Count(entry, total) ==
    LET key == KeyOf(entry)
        invoice == InvoiceOf(entry)
        first == entry.family = "consumption" /\ invoice \notin total.seen
    IN  [net |-> [total.net EXCEPT ![key] = @ + entry.cents],
         fee |-> [total.fee EXCEPT ![key] = @ + (IF first THEN fees[invoice] ELSE 0)],
         present |-> total.present \cup {key},
         seen |-> IF first THEN total.seen \cup {invoice} ELSE total.seen]

Add(total, entry) == IF Within(entry.month) THEN Count(entry, total) ELSE total
Actual == FoldLeft(Add, Nothing, entries)
Expected == {line \in erp : Within(line.key[1])}
Matched(key, total) ==
    /\ key \in total.present
    /\ \E line \in Expected : line.key = key /\ line.cents = total.net[key] + total.fee[key]
Population(total) == total.present \cup {line.key : line \in Expected}

TiesOut ==
    /\ covered
    /\ Population(Actual) # {}
    /\ \A key \in Population(Actual) : Matched(key, Actual)

(***************************************************************************)
(* The bundle.  A generated artifact stands as its test does; declared      *)
(* bytes are collected and never tested; stale ones fail their artifact,    *)
(* whatever was generated under the name.                                   *)
(***************************************************************************)
Tied == IF TiesOut THEN "passed" ELSE "failed"
IsStale(name, given) == given.run /\ given.name = name /\ given.standing = "stale"
Standing(name, given) ==
    CASE IsStale(name, given) -> "failed"
      [] ~IsStale(name, given) /\ name = "bridge" /\ given.run /\ erp # None -> Tied
      [] OTHER -> "not_run"
Worst(statuses) ==
    CASE "failed" \in statuses -> "failed"
      [] "failed" \notin statuses /\ "not_run" \in statuses -> "not_run"
      [] OTHER -> "passed"

(* A metric run, or none: then nothing is tested.  Something is declared for *)
(* one artifact, or nothing.                                                *)
Requests == [run : BOOLEAN, name : Artifacts, standing : {"current", "stale"}]
              \cup [run : BOOLEAN, name : {None}, standing : {None}]

(* An error of the bridge leaves no bundle.                                 *)
Collect(given) ==
    /\ bundle = None
    /\ given.run /\ erp # None => ~Unallocable
    /\ LET controls == [c \in DOMAIN Matrix |-> Worst({Standing(name, given) : name \in Matrix[c]})]
           worst == Worst(Range(controls))
       IN  bundle' = [controls |-> controls, given |-> given,
                      status |-> IF worst = "not_run" THEN "incomplete" ELSE worst]
    /\ UNCHANGED <<entries, fees, erp, covered>>

Next ==
    \/ \E family \in Families, source \in Sources, document \in Documents, month \in EntryMonths, cents \in Cents :
          Recognize(family, source, document, month, cents)
    \/ OpenErp
    \/ \E key \in Lines, cents \in 1 .. MaxGross : EnterErp(key, cents)
    \/ \E given \in Requests : Collect(given)

Spec == Init /\ [][Next]_vars

(***************************************************************************)
(* The property.                                                            *)
(***************************************************************************)
Gross(key) ==
    LET of == {i \in DOMAIN entries : KeyOf(entries[i]) = key}
        invoices == {InvoiceOf(entries[i]) : i \in of \cap Billed}
    IN  SumFunctionOnSet([i \in DOMAIN entries |-> entries[i].cents], of) + SumFunctionOnSet(fees, invoices)
TrulyTies ==
    /\ covered
    /\ \E i \in DOMAIN entries : Within(entries[i].month)
    /\ {KeyOf(entries[i]) : i \in {j \in DOMAIN entries : Within(entries[j].month)}}
         = {line.key : line \in Expected}
    /\ \A line \in Expected : line.cents = Gross(line.key)

(* A control passed when, and only when, its every artifact was generated   *)
(* of a metric run and the gross revenue of the ERP is the net revenue with each fee once;  *)
(* it failed only for a variance or stale evidence.  Collection alone       *)
(* grants nothing (controls/v1.yaml, external_evidence).                    *)
BundleTellsTheTruth ==
    bundle # None => \A c \in DOMAIN Matrix :
        /\ bundle.controls[c] = "passed" <=>
              /\ Matrix[c] = {"bridge"} /\ bundle.given.run /\ erp # None /\ TrulyTies
              /\ ~IsStale("bridge", bundle.given)
        /\ bundle.controls[c] = "failed" =>
              \/ bundle.given.run /\ erp # None /\ ~TrulyTies
              \/ \E name \in Matrix[c] : IsStale(name, bundle.given)
=============================================================================

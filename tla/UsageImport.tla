----------------------------- MODULE UsageImport -----------------------------
(***************************************************************************)
(* A private application root and what is imported into it                 *)
(* (tl/reporting/application.py, tl/usage/importer.py and sources.py).     *)
(* Operators initialise the root, sync its catalog with a newer release,   *)
(* confirm accounts, sample a session log and import samples.  Every call  *)
(* runs in a process of its own that may die at any step; files are        *)
(* created and then filled.  A call reads the stream in one connection and *)
(* appends in another; each append is one transaction (StreamStore).       *)
(***************************************************************************)
EXTENDS UsageEvidence, FiniteSets

CONSTANTS
    Operators,    \* who runs the commands; also the identity a call of theirs binds
    Files,        \* catalog templates
    FirstRelease, \* ... of the release that is installed at first
    MaxSamples,   \* bound: samples taken
    MaxFailures   \* bound: failure records

ASSUME ReleaseAssumption == FirstRelease \subseteq Files

\* A configuration that is absent or cut names nobody.
NamesDiffer == Operators \cap {"absent", "cut"} = {}
ASSUME NamesAssumption == NamesDiffer

VARIABLES
    release,  \* templates of the installed release
    rooted,   \* the private root is not empty
    catalog,  \* its copies of the templates
    schema,   \* its database has the stream's table
    call      \* what each operator is doing

root == <<release, rooted, catalog, config, schema>>
evidence == <<samples, packets, failures>>
vars == <<root, stream, evidence, call>>

-----------------------------------------------------------------------------

Idle == [step |-> "idle"]
At(o, step) == call[o].step = step
Go(o, step) == call' = [call EXCEPT ![o].step = step]
End(o) == call' = [call EXCEPT ![o] = Idle]

Init ==
    /\ release = FirstRelease
    /\ rooted = FALSE /\ config = "absent" /\ schema = FALSE
    /\ catalog = [f \in Files |-> "absent"]
    /\ stream = {}
    /\ samples = <<>> /\ packets = <<>> /\ failures = {}
    /\ call = [o \in Operators |-> Idle]

-----------------------------------------------------------------------------
(***************************************************************************)
(* The root.  An identity is bound once: the configuration names it and    *)
(* the first event of the stream repeats it.                               *)
(***************************************************************************)
IsBoundTo(identity) == Bound(identity) \in stream

CatalogMatches == \A f \in release : catalog[f] = "whole"
Valid == config \in Operators /\ CatalogMatches /\ schema /\ IsBoundTo(config)

\* Mutation: an interrupted call is taken up by the next one, under its own identity.
ResumeInit(o) ==
    /\ call[o] = Idle
    /\ \/ config = "absent" /\ ~ rooted /\ Go(o, "copy")
       \/ config \in Operators /\ ~ IsBoundTo(config) /\ Go(o, "schema")
    /\ rooted' = TRUE
    /\ UNCHANGED <<release, catalog, config, schema, stream, evidence>>

\* initialize: a root without a configuration must be empty, and what is there is
\* never adopted.  copytree and mkdir refuse a second process that looked in time.
BeginInit(o) ==
    /\ call[o] = Idle
    /\ config = "absent" /\ ~ rooted
    /\ rooted' = TRUE
    /\ Go(o, "copy")
    /\ UNCHANGED <<release, catalog, config, schema, stream, evidence>>

CopyTemplate(o) ==
    /\ At(o, "copy")
    /\ \E f \in release : /\ catalog[f] = "absent"
                          /\ catalog' = [catalog EXCEPT ![f] = "whole"]
    /\ UNCHANGED <<release, rooted, config, schema, stream, evidence, call>>

CreateConfig(o) ==
    /\ At(o, "copy") /\ CatalogMatches
    /\ config = "absent"
    /\ config' = "cut"
    /\ Go(o, "config")
    /\ UNCHANGED <<release, rooted, catalog, schema, stream, evidence>>

WriteConfig(o) ==
    /\ At(o, "config")
    /\ config' = o
    /\ Go(o, "schema")
    /\ UNCHANGED <<release, rooted, catalog, schema, stream, evidence>>

CreateStream(o) ==
    /\ At(o, "schema")
    /\ schema' = TRUE
    /\ Go(o, "bind")
    /\ UNCHANGED <<release, rooted, catalog, config, stream, evidence>>

\* The one append that is allowed on an empty stream.
Bind(o) ==
    /\ At(o, "bind")
    /\ stream = {} \/ IsBoundTo(o)
    /\ stream' = stream \union {Bound(o)}
    /\ End(o)
    /\ UNCHANGED <<root, evidence>>

Upgrade(f) ==
    /\ f \notin release
    /\ release' = release \union {f}
    /\ UNCHANGED <<rooted, catalog, config, schema, stream, evidence, call>>

\* sync_catalog: templates the private catalog lacks are copied; it wants the root
\* sound otherwise.  A template a dead process has left cut is never repaired.
BeginSync(o) ==
    /\ call[o] = Idle
    /\ config \in Operators /\ schema /\ IsBoundTo(config)
    /\ \A f \in release : catalog[f] \in {"absent", "whole"}
    /\ ~ CatalogMatches
    /\ Go(o, "sync")
    /\ UNCHANGED <<root, stream, evidence>>

OpenTemplate(o) ==
    /\ At(o, "sync")
    /\ \E f \in release : /\ catalog[f] = "absent"
                          /\ catalog' = [catalog EXCEPT ![f] = "cut"]
                          /\ call' = [call EXCEPT ![o] = [step |-> "syncing", file |-> f]]
    /\ UNCHANGED <<release, rooted, config, schema, stream, evidence>>

WriteTemplate(o) ==
    /\ At(o, "syncing")
    /\ catalog' = [catalog EXCEPT ![call[o].file] = "whole"]
    /\ call' = [call EXCEPT ![o] = [step |-> "sync"]]
    /\ UNCHANGED <<release, rooted, config, schema, stream, evidence>>

EndSync(o) ==
    /\ At(o, "sync")
    /\ \A f \in release : catalog[f] # "absent"
    /\ End(o)
    /\ UNCHANGED <<root, stream, evidence>>

-----------------------------------------------------------------------------
(***************************************************************************)
(* Accounts and samples.  A line of a session log carries the running      *)
(* counter.  The log is not the application's: it may have grown since the *)
(* last sample, and nothing keeps a line from being rewritten.             *)
(***************************************************************************)
Inventory(account) == [kind |-> "application_inventory", account |-> account]

Confirm(account) ==
    /\ Valid
    /\ Inventory(account) \notin stream
    /\ stream' = stream \union {Inventory(account)}
    /\ UNCHANGED <<root, evidence, call>>

\* token_sample, for an account in the inventory.
TakeSample(s, account, lines) ==
    /\ Valid /\ Inventory(account) \in stream
    /\ Len(samples) < MaxSamples
    /\ samples' = Append(samples, [account |-> account, session |-> s, lines |-> lines])
    /\ packets' = Append(packets, "absent")
    /\ UNCHANGED <<root, stream, failures, call>>

-----------------------------------------------------------------------------
(***************************************************************************)
(* import_sample.                                                          *)
(***************************************************************************)
\* Mutation: the packet's hash goes into the ID.
PacketIdentity(e) == <<e.account, e.session, e.line, e.packet>>

Identity(e) == <<e.account, e.session, e.line>>

Admitted(e, events) == \E f \in events : Identity(f) = Identity(e)
Revises(e, events) == \E f \in events : Identity(f) = Identity(e) /\ f.quantity # e.quantity
Owners(e, events) == {f.account : f \in {g \in events : g.session = e.session}}

\* packet: of an account in the inventory.  What is unsound about the sample itself
\* leaves a failure record without a candidate, and no event.
BeginImport(o, n) ==
    /\ call[o] = Idle
    /\ Valid /\ Inventory(samples[n].account) \in stream
    /\ call' = [call EXCEPT ![o] = [step |-> "read", sample |-> n]]
    /\ UNCHANGED <<root, stream, evidence>>

\* The events on record are read, and the connection closed.  The owner of a session is
\* the account of any one row of it: they have several if two imports were admitted at once.
ReadAdmitted(o) ==
    /\ At(o, "read")
    /\ LET n == call[o].sample
           events == EventsFor(n, o)
           unsound == [step |-> "quarantine", sample |-> n]
           sound == [step |-> "retain", sample |-> n,
                     ready |-> {e \in events : ~ Admitted(e, Observed)}]
       IN  \/ /\ \E e \in events : Owners(e, Observed) \ {e.account} # {} \/ Revises(e, Observed)
              /\ call' = [call EXCEPT ![o] = unsound]
           \/ /\ \A e \in events : e.account \in Owners(e, Observed) \/ Owners(e, Observed) = {}
              /\ ~ \E e \in events : Revises(e, Observed)
              /\ call' = [call EXCEPT ![o] = sound]
    /\ UNCHANGED <<root, stream, evidence>>

\* Mutation: a packet that is there is good enough.
TrustPacket(o) ==
    /\ At(o, "retain")
    /\ LET n == call[o].sample
       IN  IF packets[n] = "absent"
           THEN packets' = [packets EXCEPT ![n] = "cut"] /\ Go(o, "retaining")
           ELSE Go(o, "append") /\ UNCHANGED packets
    /\ UNCHANGED <<root, stream, samples, failures>>

\* A packet that is there must be the same, to the byte: a cut one never is, and one that
\* has come since the look is not opened.
RetainPacket(o) ==
    /\ At(o, "retain")
    /\ LET n == call[o].sample
       IN  \/ /\ packets[n] = "absent"
              /\ packets' = [packets EXCEPT ![n] = "cut"]
              /\ Go(o, "retaining")
           \/ /\ packets[n] # "absent"
              /\ Go(o, "quarantine")
              /\ UNCHANGED packets
           \/ /\ packets[n] = "whole"
              /\ Go(o, "append")
              /\ UNCHANGED packets
    /\ UNCHANGED <<root, stream, samples, failures>>

WritePacket(o) ==
    /\ At(o, "retaining")
    /\ \/ /\ packets' = [packets EXCEPT ![call[o].sample] = "whole"]
          /\ Go(o, "append")
       \/ Go(o, "quarantine") /\ UNCHANGED packets
    /\ UNCHANGED <<root, stream, samples, failures>>

\* The stream compares what it has under an ID with all of the new event, its packet
\* included, and with the actor: whatever came in between under the ID is a conflict.
AppendRows(o) ==
    /\ At(o, "append")
    /\ IF Valid /\ \A e \in call[o].ready : Admitted(e, Observed) => e \in stream
       THEN stream' = stream \union call[o].ready /\ Go(o, "summary")
       ELSE Go(o, "quarantine") /\ UNCHANGED stream
    /\ UNCHANGED <<root, evidence>>

\* The summary is written once the rows are in.
Summarize(o) ==
    /\ At(o, "summary")
    /\ End(o) \/ Go(o, "quarantine")
    /\ UNCHANGED <<root, stream, evidence>>

\* Whatever went wrong, the candidate is retained first and then reported to the stream.
Quarantine(o) ==
    /\ At(o, "quarantine") /\ Cardinality(failures) < MaxFailures
    /\ failures' = failures \union {[sample |-> call[o].sample, actor |-> o]}
    /\ Go(o, "report")
    /\ UNCHANGED <<root, stream, samples, packets>>

Failure(n, o) == [kind |-> "usage_coverage", account |-> samples[n].account, sample |-> n, actor |-> o]

ReportFailure(o) ==
    /\ At(o, "report")
    /\ stream' = IF Valid THEN stream \union {Failure(call[o].sample, o)} ELSE stream
    /\ End(o)
    /\ UNCHANGED <<root, evidence>>

\* The process dies; a command that raises ends the same way.
Die(o) ==
    /\ call[o] # Idle
    /\ End(o)
    /\ UNCHANGED <<root, stream, evidence>>

-----------------------------------------------------------------------------
Initialize(o) == BeginInit(o) \/ CopyTemplate(o) \/ CreateConfig(o) \/ WriteConfig(o)
                 \/ CreateStream(o) \/ Bind(o)
Sync(o) == BeginSync(o) \/ OpenTemplate(o) \/ WriteTemplate(o) \/ EndSync(o)
Import(o) == (\E n \in 1 .. Len(samples) : BeginImport(o, n)) \/ ReadAdmitted(o) \/ RetainPacket(o)
             \/ WritePacket(o) \/ AppendRows(o) \/ Summarize(o) \/ Quarantine(o) \/ ReportFailure(o)

Next ==
    \/ \E o \in Operators : Initialize(o) \/ Sync(o) \/ Import(o) \/ Die(o)
    \/ \E f \in Files : Upgrade(f)
    \/ \E a \in Accounts : Confirm(a)
    \/ \E s \in Sessions, a \in Accounts, lines \in Logs : TakeSample(s, a, lines)

Spec == Init /\ [][Next]_vars

-----------------------------------------------------------------------------
(***************************************************************************)
(* Correctness.                                                            *)
(***************************************************************************)
TypeOK ==
    /\ release \subseteq Files /\ rooted \in BOOLEAN /\ schema \in BOOLEAN
    /\ catalog \in [Files -> {"absent", "cut", "whole"}]
    /\ config \in {"absent", "cut"} \union Operators
    /\ \A n \in DOMAIN samples : samples[n].lines \in Logs
    /\ DOMAIN packets = DOMAIN samples
    /\ \A n \in DOMAIN packets : packets[n] \in {"absent", "cut", "whole"}
=============================================================================

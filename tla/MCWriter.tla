------------------------------ MODULE MCWriter ------------------------------
(* The two ways into BigQuery for TLC: the replication writer, with a       *)
(* database and one that differs from its second row on, and the acceptance *)
(* of the append gateway.  They share nothing: a behaviour is of one.       *)
EXTENDS Writer, TLC

CONSTANTS Faults, Fixture, MaxOthers, MaxRows

VARIABLES system, fault, source, open, calls, closing, code, probe, life

Acceptance == INSTANCE GatewayAcceptance

ASSUME AcceptanceAssumption == Acceptance!FixtureIsOlder /\ Acceptance!NoneIsApart

acceptance == <<fault, source, open, calls, closing, code, probe, life>>

MCDatabases == {"first", "second"}
MCLocal == [base \in MCDatabases |-> IF base = "first" THEN <<"w", "x", "y">> ELSE <<"w", "z">>]
MCFixture == {<< >>}
MCSymmetry == Permutations(Callers)

(* The lifecycle run is called for when the probe is over.                  *)
InSeries == life.at = "new" \/ (fault = "none" /\ probe.at = "over")

MCInit ==
    /\ system \in {"writer", "gateway"}
    /\ Init
    /\ Acceptance!Init
    /\ IF system = "writer" THEN fault = "none" ELSE cloud = << >>
MCNext ==
    /\ UNCHANGED system
    /\ \/ system = "writer" /\ Next /\ UNCHANGED acceptance
       \/ system = "gateway" /\ Acceptance!Next /\ InSeries' /\ UNCHANGED vars
MCSpec == MCInit /\ [][MCNext]_<<system, vars, acceptance>>

-----------------------------------------------------------------------------
(* A probe that passed has put its five events into the source, beside      *)
(* which nothing else came, and passes of no service that differs from the  *)
(* registered one (gateway_probe.py); a refusal is reported of a stream     *)
(* that is closed (gateway_lifecycle.py).                                   *)
AcceptanceIsTrue == Acceptance!AcceptanceIsTrue
=============================================================================

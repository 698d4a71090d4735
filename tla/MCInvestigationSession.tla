------------------------ MODULE MCInvestigationSession ------------------------
(* Small instances of InvestigationSession for TLC. *)
EXTENDS InvestigationSession

CONSTANTS a, b

TwoClients == {a, b}
OneSession == <<"s1">>
TwoSessions == <<"s1", "s2">>

Signals(log, journald) ==
    [k \in SignalKinds |-> CASE k = "log" -> log [] k = "journald" -> journald
                             [] OTHER -> "none"]

RunWith(service, pack, log, journald, runtime, missing) ==
    [scope |-> "run", service |-> service, pack |-> pack,
     signals |-> Signals(log, journald), runtime |-> runtime,
     missing |-> missing]

Target(status, pack, missing) ==
    [status |-> status, pack |-> pack, missing |-> missing]

(* A run without a service, one with a log and a service of which only the *)
(* shared pack knows, one with nothing but its first reference; a fleet    *)
(* with a failed target.                                                   *)
SomeEvidences ==
    {RunWith("none", "none", "quiet", "none", TRUE, FALSE),
     RunWith("none", "available", "words", "none", FALSE, TRUE),
     RunWith("none", "none", "none", "none", FALSE, FALSE),
     [scope |-> "fleet", captured |-> TRUE, missing |-> TRUE,
      compared |-> [t \in {"t1", "t2"} |->
                       IF t = "t1" THEN Target("captured", "available", {})
                       ELSE Target("unreachable", "none", {"collector"})]]}

SomeUnopenable == {{"evidence"}}
OneRefresh     == {"unavailable"}
NoExtra        == {}

=============================================================================

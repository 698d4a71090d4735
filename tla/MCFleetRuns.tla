------------------------------- MODULE MCFleetRuns -------------------------------
(* A small instance of FleetRuns for TLC. *)
EXTENDS FleetRuns

CONSTANTS a, b

TwoClients == {a, b}
OneRun     == {"R"}
TwoFleets  == {"F", "F-x"}

Target(id, transport) == [id |-> id, transport |-> transport]

(* F with x-y and F-x with y make the same run id.                         *)
SomeInventories ==
    {<<Target("x-y", "local"), Target("y", "remote")>>,
     <<Target("y", "local"), Target("z", "malformed")>>,
     <<Target("z", "unsupported"), Target("y", "local")>>}

(* A collector that is off next to one that delivers now and then, and a   *)
(* source that never delivers.                                             *)
SomeObservations ==
    {[s \in SnapshotSources |->
        CASE s = "memory"  -> "off"
          [] s = "network" -> "sometimes"
          [] OTHER         -> "always"],
     [s \in SnapshotSources |-> IF s = "network" THEN "never" ELSE "always"]}

SomeStatuses == {"unreachable"}

=============================================================================

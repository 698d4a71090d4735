--------------------------- MODULE MCFlightRecorder ---------------------------
(* Small instances of FlightRecorder for TLC. *)
EXTENDS FlightRecorder, TLC

CONSTANTS d1, d2

OneDaemon  == {d1}
TwoDaemons == {d1, d2}

OneMarker  == {1}
TwoMarkers == {1, 2}
OneTrigger == {3}
NoTriggers == {}

DaemonSymmetry == Permutations(TwoDaemons)

=============================================================================

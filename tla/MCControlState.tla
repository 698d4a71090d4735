---------------------------- MODULE MCControlState ----------------------------
(* Small instances of ControlState for TLC. *)
EXTENDS ControlState, TLC

CONSTANTS adc, mcp, pi5, run1, run2

TwoClients  == {adc, mcp}
OneProfile  == {pi5}
OneRun      == {run1}

=============================================================================

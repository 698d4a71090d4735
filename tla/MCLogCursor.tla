------------------------------ MODULE MCLogCursor ------------------------------
(* Small instances of LogCursor for TLC. *)
EXTENDS LogCursor

=============================================================================

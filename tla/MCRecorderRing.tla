---------------------------- MODULE MCRecorderRing ----------------------------
(* Small instances of RecorderRing for TLC. *)
EXTENDS RecorderRing

SomeSemantic == {"cpu", "memory"}
SomeEvents   == {"kmsg"}

=============================================================================

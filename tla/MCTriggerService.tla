--------------------------- MODULE MCTriggerService ---------------------------
(* Small instances of TriggerService for TLC. *)
EXTENDS TriggerService, TLC

CONSTANTS pi5, demo

TwoProfiles == {pi5, demo}

Rule(name, type, signal, relative) ==
    [name |-> name, type |-> type, signal |-> signal, relative |-> relative,
     value |-> 1, duration |-> 2, cooldown |-> 2, clearBelow |-> 2]

(* The rules of profiles/pi5_basic.yaml and of demo_sensor_gateway.yaml.   *)
ShippedRules ==
    (pi5  :> <<Rule("cpu_sustained_high", "threshold_duration", "cpu", TRUE),
               Rule("kmsg_warning", "kmsg_pattern", "kmsg", FALSE)>>)
    @@
    (demo :> <<Rule("retry_warning", "kmsg_pattern", "kmsg", FALSE),
               Rule("memory_pressure", "threshold", "memory", FALSE)>>)

ShippedCollected ==
    (pi5 :> {"cpu", "kmsg"}) @@ (demo :> {"memory", "kmsg"})

SomeSemantic == {"cpu", "memory"}
TwoValues    == {0, 1}

=============================================================================

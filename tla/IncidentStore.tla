----------------------------- MODULE IncidentStore -----------------------------
(***************************************************************************)
(* What the flight recorder promises of the incident directory, whoever    *)
(* writes it and whatever fails: a bounded store in which at most one      *)
(* incident is incomplete at a time.  An incomplete incident blocks the    *)
(* store (admission fails closed) until it is sealed, possibly for ever.   *)
(***************************************************************************)
EXTENDS Naturals, FiniteSets

CONSTANTS Incidents, Capacity

VARIABLE incident  \* incident[i]: "absent", "incomplete" or "frozen"

Frozen     == {i \in Incidents : incident[i] = "frozen"}
Incomplete == {i \in Incidents : incident[i] = "incomplete"}

Init == incident = [i \in Incidents |-> "absent"]

MayOpen ==
    /\ Incomplete = {}
    /\ Cardinality(Frozen) < Capacity

(* A freeze begins.                                                        *)
Open(i) ==
    /\ incident[i] = "absent"
    /\ MayOpen
    /\ incident' = [incident EXCEPT ![i] = "incomplete"]

(* Its last file is written.                                               *)
Seal(i) ==
    /\ incident[i] = "incomplete"
    /\ incident' = [incident EXCEPT ![i] = "frozen"]

(* A second freeze of the same name is interrupted while it replaces the   *)
(* incident file.                                                          *)
Reopen(i) ==
    /\ incident[i] = "frozen"
    /\ MayOpen
    /\ incident' = [incident EXCEPT ![i] = "incomplete"]

Next == \E i \in Incidents : Open(i) \/ Seal(i) \/ Reopen(i)

Spec == Init /\ [][Next]_incident

=============================================================================

----------------------------- MODULE MCManagedFleet -----------------------------
(* A small instance of ManagedFleet for TLC. *)
EXTENDS ManagedFleet

CONSTANTS a, b

TwoClients == {a, b}
TwoTargets == {"edge 1", "edge-1"}

Entry(trust, tags) == [trust |-> trust, tags |-> tags, transport |-> "local"]
SomeEntries == {Entry("trusted", {"edge"}), Entry("revoked", {"edge"})}

(* The two ids give inventories of one name.                               *)
ByTag == [by |-> "tag", value |-> "edge"]
ById(t) == [by |-> "target", value |-> t]
SomeSelectors == {ByTag} \cup {ById(t) : t \in TwoTargets}
SomeNames ==
    [s \in SomeSelectors |-> IF s = ByTag THEN "tag-edge" ELSE "target-edge-1"]

TwoInvites == {"i1", "i2"}
SomeLifetimes == {0, 1}

=============================================================================

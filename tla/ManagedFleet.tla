------------------------------ MODULE ManagedFleet ------------------------------
(***************************************************************************)
(* The managed fleet of a controller on disk: its registry of targets, its *)
(* identity, its invitations, and the inventories generated from the       *)
(* registry for the fleet commands that name their targets by a selector.  *)
(* Every command is a process; nothing is locked.  One action is one call  *)
(* on a file, and a write truncates the file before it fills it.           *)
(***************************************************************************)
EXTENDS Naturals

CONSTANTS
    Clients,        \* processes that run commands
    Targets,        \* target ids
    Entries,        \* what an enrollment may say: [trust, tags, transport]
    Selectors,      \* selectors: [by, value]
    InventoryName,  \* the file name of a selector, other characters as "-"
    Invites,        \* invite ids, random and never drawn twice
    Lifetimes,      \* lifetimes of invites
    MaxTime,        \* bound: the clock
    MaxRequests,    \* bound: commands
    MaxCrashes      \* bound: kills

ASSUME FleetAssumption ==
    /\ \A e \in Entries : e.trust \in {"trusted", "pending", "revoked"}
    /\ \A s \in Selectors : s.by \in {"all", "target", "tag", "transport"}
    /\ DOMAIN InventoryName = Selectors
    /\ Lifetimes \subseteq Nat
    /\ MaxTime \in Nat /\ MaxRequests \in Nat /\ MaxCrashes \in Nat

Registry     == <<"targets">>
Identity     == <<"controller_identity">>
Invite(i)    == <<"invite", i>>
Inventory(s) == <<"generated", InventoryName[s]>>

Files == {Registry, Identity} \cup {Invite(i) : i \in Invites}
         \cup {Inventory(s) : s \in Selectors}

Absent  == [is |-> "absent"]
Torn    == [is |-> "torn"]
File(v) == [is |-> "file", value |-> v]

VARIABLES
    disk,      \* content of every file
    client,    \* what every process is doing
    now,       \* the clock
    pins,      \* identities that were drawn so far, numbered
    requests,  \* number of commands
    crashes,   \* number of kills
    overlap,   \* history: two commands have run at a time
    enrolled,  \* history: what the last enrollment of a target said
    issued,    \* history: the pins that invites were issued with
    accepted   \* history: how often each invite was accepted

history == <<enrolled, issued, accepted>>
vars    == <<disk, client, now, pins, requests, crashes, overlap, history>>

(* with are the arguments of the command; file, value and then are what it *)
(* writes and where it goes on afterwards.                                 *)
Idle == [pc |-> "idle", op |-> "none", alone |-> FALSE, with |-> <<>>,
         file |-> Registry, value |-> <<>>, then |-> "idle"]
Active == {c \in Clients : client[c].pc # "idle"}
At(c, pc) == client[c].pc = pc

Empty == [t \in {} |-> 0]

----------------------------------------------------------------------------
(* The registry and its selectors.                                         *)

UpsertedAfresh(registry, t, entry) == [u \in {t} |-> entry]  \* mutant of Upserted

Upserted(registry, t, entry) ==
    [u \in DOMAIN registry \cup {t} |-> IF u = t THEN entry ELSE registry[u]]

SelectedAnyway(registry, s) ==  \* mutant of Selected
    {t \in DOMAIN registry : s.by = "all" \/ (s.by = "target" /\ t = s.value)}

Selected(registry, s) ==
    {t \in DOMAIN registry :
        /\ registry[t].trust # "revoked"
        /\ CASE s.by = "all"       -> TRUE
             [] s.by = "target"    -> t = s.value
             [] s.by = "tag"       -> s.value \in registry[t].tags
             [] s.by = "transport" -> registry[t].transport = s.value}

(* A registry that is not there is empty.                                  *)
Readable(f) == disk[f].is = "file" \/ (f = Registry /\ disk[f].is = "absent")
Content(f)  == IF disk[f].is = "file" THEN disk[f].value ELSE Empty

----------------------------------------------------------------------------
(* Commands.  alone is history: no other command overlapped this one.      *)

Begin(c, command) ==
    /\ At(c, "idle")
    /\ requests < MaxRequests
    /\ requests' = requests + 1
    /\ overlap' = (overlap \/ Active # {})
    /\ client' = [d \in Clients |->
                    IF d = c THEN command
                    ELSE IF d \in Active THEN [client[d] EXCEPT !.alone = FALSE]
                    ELSE client[d]]
    /\ UNCHANGED <<disk, now, pins, crashes, history>>

Command(op, pc, with) ==
    [Idle EXCEPT !.pc = pc, !.op = op, !.with = with, !.alone = (Active = {})]

Start(c) ==
    \/ Begin(c, Command("init", "read", <<>>))
    \/ \E t \in Targets, e \in Entries :
            Begin(c, Command("enroll", "read", [target |-> t, entry |-> e]))
    \/ \E ttl \in Lifetimes, i \in Invites :
            /\ disk[Invite(i)].is = "absent"
            /\ \A d \in Active : client[d].op = "invite" => client[d].with.invite # i
            /\ Begin(c, Command("invite", "identify", [invite |-> i, ttl |-> ttl]))
    \/ \E i \in Invites, right \in BOOLEAN :
            Begin(c, Command("consume", "check", [invite |-> i, right |-> right]))
    \/ \E s \in Selectors :
            Begin(c, Command("select", "read", [selector |-> s]))

Fail(c) == client' = [client EXCEPT ![c] = Idle]
Goto(c, pc) == client' = [client EXCEPT ![c].pc = pc]
Take(c, value, pc) == client' = [client EXCEPT ![c].value = value, ![c].pc = pc]
Prepare(c, file, value, then) ==
    client' = [client EXCEPT ![c].file = file, ![c].value = value,
                             ![c].then = then, ![c].pc = "write"]
OnlyClient == UNCHANGED <<disk, now, pins, requests, crashes, overlap, history>>

(* init writes the registry back as it is, enroll with its target; a       *)
(* selection, unless it is empty, is written to the inventory of its       *)
(* selector.                                                               *)
ReadRegistry(c) ==
    /\ At(c, "read")
    /\ LET registry == Content(Registry)
           command  == client[c]
       IN  IF ~Readable(Registry) THEN Fail(c)
           ELSE CASE command.op = "init" ->
                        Prepare(c, Registry, registry, "identify")
                  [] command.op = "enroll" ->
                        Prepare(c, Registry,
                                Upserted(registry, command.with.target,
                                         command.with.entry),
                                "done")
                  [] command.op = "select" ->
                        LET targets == Selected(registry, command.with.selector)
                        IN  IF targets = {} THEN Fail(c)
                            ELSE Prepare(c, Inventory(command.with.selector),
                                         targets, "use")
    /\ OnlyClient

(* ensure_controller_identity: read if there is a file, else drawn and     *)
(* written.                                                                *)
Identify(c) ==
    /\ At(c, "identify")
    /\ IF disk[Identity].is = "absent"
       THEN /\ pins' = pins + 1
            /\ Prepare(c, Identity, pins + 1, "identified")
       ELSE /\ IF Readable(Identity)
               THEN Take(c, Content(Identity), "identified")
               ELSE Fail(c)
            /\ UNCHANGED pins
    /\ UNCHANGED <<disk, now, requests, crashes, overlap, history>>

(* A lifetime of zero has passed already.                                  *)
Expiry(ttl) == IF ttl = 0 THEN now - 1 ELSE now + ttl

IssueInvite(c) ==
    /\ At(c, "identified")
    /\ IF client[c].op = "init" THEN Goto(c, "done")
       ELSE Prepare(c, Invite(client[c].with.invite),
                    [pin |-> client[c].value, expires |-> Expiry(client[c].with.ttl),
                     used |-> FALSE], "done")
    /\ OnlyClient

StillGood(record) == record.expires > now  \* mutant of Acceptable

Acceptable(record) == ~record.used /\ record.expires > now

(* verify_and_consume_managed_fleet_invite: read and checked at once,      *)
(* written back afterwards.                                                *)
CheckInvite(c) ==
    /\ At(c, "check")
    /\ LET f == Invite(client[c].with.invite)
       IN  IF disk[f].is = "file" /\ client[c].with.right /\ Acceptable(disk[f].value)
           THEN Prepare(c, f, [disk[f].value EXCEPT !.used = TRUE], "done")
           ELSE Fail(c)
    /\ OnlyClient

Truncate(c) ==
    /\ At(c, "write")
    /\ disk' = [disk EXCEPT ![client[c].file] = Torn]
    /\ Goto(c, "fill")
    /\ UNCHANGED <<now, pins, requests, crashes, overlap, history>>

Fill(c) ==
    /\ At(c, "fill")
    /\ disk' = [disk EXCEPT ![client[c].file] = File(client[c].value)]
    /\ Goto(c, client[c].then)
    /\ UNCHANGED <<now, pins, requests, crashes, overlap, history>>

(* The fleet command that named the selector reads the inventory.          *)
UseInventory(c) ==
    /\ At(c, "use")
    /\ LET f == Inventory(client[c].with.selector)
       IN  IF Readable(f) THEN Take(c, Content(f), "run") ELSE Fail(c)
    /\ OnlyClient

(* The command answers: only now does anybody know that it succeeded.      *)
Answer(c) ==
    /\ client[c].pc \in {"done", "run"}
    /\ client' = [client EXCEPT ![c] = Idle]
    /\ enrolled' = IF client[c].op = "enroll"
                   THEN Upserted(enrolled, client[c].with.target,
                                 client[c].with.entry)
                   ELSE enrolled
    /\ issued' = IF client[c].op = "invite"
                 THEN issued \cup {client[c].value.pin} ELSE issued
    /\ accepted' = IF client[c].op = "consume"
                   THEN [accepted EXCEPT ![client[c].with.invite] = @ + 1]
                   ELSE accepted
    /\ UNCHANGED <<disk, now, pins, requests, crashes, overlap>>

----------------------------------------------------------------------------
(* The environment.                                                        *)

Tick ==
    /\ now < MaxTime
    /\ now' = now + 1
    /\ UNCHANGED <<disk, client, pins, requests, crashes, overlap, history>>

Kill(c) ==
    /\ c \in Active
    /\ crashes < MaxCrashes
    /\ crashes' = crashes + 1
    /\ client' = [client EXCEPT ![c] = Idle]
    /\ UNCHANGED <<disk, now, pins, requests, overlap, history>>

Init ==
    /\ disk = [f \in Files |-> Absent]
    /\ client = [c \in Clients |-> Idle]
    /\ now = 1
    /\ pins = 0
    /\ requests = 0 /\ crashes = 0
    /\ overlap = FALSE
    /\ enrolled = Empty
    /\ issued = {}
    /\ accepted = [i \in Invites |-> 0]

Next ==
    \/ Tick
    \/ \E c \in Clients :
        Start(c) \/ ReadRegistry(c) \/ Identify(c) \/ IssueInvite(c)
        \/ CheckInvite(c) \/ Truncate(c) \/ Fill(c) \/ UseInventory(c)
        \/ Answer(c) \/ Kill(c)

Spec == Init /\ [][Next]_vars

----------------------------------------------------------------------------
(* Properties.                                                             *)

(* As long as commands do not overlap, a target whose enrollment was       *)
(* acknowledged stays in every registry that can be read, and stays as it  *)
(* was enrolled last, whatever else is initialized, selected or killed     *)
(* (upsert_managed_fleet_target, initialize_managed_fleet_registry).  Two  *)
(* enrollments at a time may lose one.                                     *)
EnrollmentKept ==
    ~overlap /\ Readable(Registry) =>
        \A t \in DOMAIN enrolled :
            /\ t \in DOMAIN Content(Registry)
            /\ \/ Content(Registry)[t] = enrolled[t]
               \/ crashes > 0
               \/ \E c \in Clients : At(c, "done") /\ client[c].op = "enroll"
                                     /\ client[c].with.target = t

(* A fleet command that overlapped no other runs on targets that its       *)
(* selector names and that are not revoked, though the inventory it reads  *)
(* is a file that other selectors, commands and crashes have left behind   *)
(* (materialize_managed_fleet_inventory, fleet_inventory_path).            *)
SelectionCurrent ==
    \A c \in Clients :
        At(c, "run") /\ client[c].alone =>
            LET s == client[c].with.selector
            IN  /\ client[c].value # {}
                /\ \A t \in client[c].value :
                    /\ t \in DOMAIN Content(Registry)
                    /\ Content(Registry)[t].trust # "revoked"
                    /\ s.by = "target" => t = s.value
                    /\ s.by = "tag" => s.value \in Content(Registry)[t].tags

(* As long as commands do not overlap, an invite is accepted at most once, *)
(* over all crashes, and all invites carry the pin of the identity that is *)
(* on disk (verify_and_consume_managed_fleet_invite,                       *)
(* ensure_controller_identity).                                            *)
InvitesHold ==
    ~overlap =>
        /\ \A i \in Invites : accepted[i] <= 1
        /\ disk[Identity].is = "file" => issued \subseteq {disk[Identity].value}

=============================================================================

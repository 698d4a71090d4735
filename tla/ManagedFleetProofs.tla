-------------------------- MODULE ManagedFleetProofs --------------------------
(***************************************************************************)
(* Proofs about ManagedFleet, for any number of clients, targets, invites, *)
(* commands and kills: what was enrolled stays, an invite is accepted once *)
(* and carries the pin of the controller, and a fleet command runs on the  *)
(* targets that its selector names.  All rest on one inductive invariant,  *)
(* Inv, which says what a command that nobody overlaps knows of the files. *)
(***************************************************************************)
EXTENDS ManagedFleet, TLAPS

----------------------------------------------------------------------------
(* The inductive invariant.                                                *)

(* The records of the clients have their fields, the files their place.    *)
IsClient(r) ==
    r = [pc |-> r.pc, op |-> r.op, alone |-> r.alone, with |-> r.with,
         file |-> r.file, value |-> r.value, then |-> r.then]

Shape ==
    /\ client = [c \in Clients |-> client[c]]
    /\ \A c \in Clients : IsClient(client[c])
    /\ disk = [f \in Files |-> disk[f]]
    /\ accepted \in [Invites -> Nat]
    /\ crashes \in Nat

(* A command that is alone, and any command as long as none overlapped     *)
(* another, is the only one that is active.                                *)
Alone == \A c \in Active : client[c].alone \/ ~overlap => Active = {c}

(* How far a command has come, and what it writes.                         *)
Writing(c) == client[c].pc \in {"write", "fill"}

Writes(c, file, then) ==
    Writing(c) /\ client[c].file = file /\ client[c].then = then

Initializing(c) ==
    /\ client[c].op = "init"
    /\ \/ client[c].pc \in {"read", "identify", "identified", "done"}
       \/ Writes(c, Registry, "identify")
       \/ Writes(c, Identity, "identified")

Enrolling(c) ==
    /\ client[c].op = "enroll"
    /\ client[c].pc \in {"read", "done"} \/ Writes(c, Registry, "done")

Inviting(c) ==
    /\ client[c].op = "invite"
    /\ client[c].with.invite \in Invites
    /\ \/ client[c].pc \in {"identify", "identified", "done"}
       \/ Writes(c, Identity, "identified")
       \/ Writes(c, Invite(client[c].with.invite), "done")

Consuming(c) ==
    /\ client[c].op = "consume"
    /\ client[c].with.invite \in Invites
    /\ \/ client[c].pc \in {"check", "done"}
       \/ Writes(c, Invite(client[c].with.invite), "done")

Selecting(c) ==
    /\ client[c].op = "select"
    /\ client[c].with.selector \in Selectors
    /\ \/ client[c].pc \in {"read", "use", "run"}
       \/ Writes(c, Inventory(client[c].with.selector), "use")

Stages ==
    \A c \in Active : \/ Initializing(c) \/ Enrolling(c) \/ Inviting(c)
                      \/ Consuming(c) \/ Selecting(c)

(* What is known of the registry while commands do not overlap: it has     *)
(* what was enrolled, and a command that writes it writes that as well.    *)
Holds(registry, t, entry) == t \in DOMAIN registry /\ registry[t] = entry

Enrolled ==
    ~overlap => \A c \in Active :
        /\ Writing(c) /\ client[c].file = Registry =>
            \A t \in DOMAIN enrolled :
                /\ t \in DOMAIN client[c].value
                /\ \/ client[c].value[t] = enrolled[t]
                   \/ crashes > 0
                   \/ client[c].op = "enroll" /\ client[c].with.target = t
        /\ client[c].op = "enroll" /\ Writing(c) =>
            Holds(client[c].value, client[c].with.target, client[c].with.entry)
        /\ client[c].op = "enroll" /\ client[c].pc = "done" =>
            /\ disk[Registry].is = "file"
            /\ Holds(disk[Registry].value, client[c].with.target,
                     client[c].with.entry)

(* An identity is drawn before any invite carries one, and an invite that  *)
(* is being issued carries the one on disk.                                *)
Pinned ==
    ~overlap =>
        /\ issued # {} => disk[Identity].is # "absent"
        /\ disk[Identity].is = "file" =>
            issued \subseteq {disk[Identity].value}
        /\ \A c \in Active :
            /\ Writing(c) /\ client[c].file = Identity => issued = {}
            /\ client[c].op = "invite" /\ client[c].pc = "identified" =>
                /\ disk[Identity].is = "file"
                /\ disk[Identity].value = client[c].value
            /\ /\ client[c].op = "invite"
               /\ client[c].pc = "done"
                  \/ Writes(c, Invite(client[c].with.invite), "done")
               => /\ disk[Identity].is = "file"
                  /\ disk[Identity].value = client[c].value.pin

(* Invites are records; one that was accepted is on disk as used, and the  *)
(* commands that are about to issue or accept one know that it was not.    *)
IsInvite(v) == v = [pin |-> v.pin, expires |-> v.expires, used |-> v.used]

Invitations ==
    /\ \A i \in Invites :
        disk[Invite(i)].is = "file" => IsInvite(disk[Invite(i)].value)
    /\ \A c \in Active : \A i \in Invites :
        Writing(c) /\ client[c].file = Invite(i) => IsInvite(client[c].value)

Accepted ==
    ~overlap =>
        /\ \A i \in Invites :
            /\ accepted[i] <= 1
            /\ accepted[i] # 0 =>
                /\ disk[Invite(i)].is # "absent"
                /\ disk[Invite(i)].is = "file" => disk[Invite(i)].value.used
        /\ \A c \in Active :
            /\ client[c].op = "invite" => accepted[client[c].with.invite] = 0
            /\ /\ client[c].op = "consume"
               /\ Writing(c) \/ client[c].pc = "done"
               => accepted[client[c].with.invite] = 0
            /\ client[c].op = "consume" /\ Writing(c) => client[c].value.used
            /\ client[c].op = "consume" /\ client[c].pc = "done" =>
                /\ disk[Invite(client[c].with.invite)].is = "file"
                /\ disk[Invite(client[c].with.invite)].value.used

(* A lone selection is of the registry as it is.                           *)
Current(c, targets) ==
    /\ targets # {}
    /\ targets = Selected(Content(Registry), client[c].with.selector)

Selection ==
    \A c \in Active :
        client[c].op = "select" /\ client[c].alone =>
            /\ Writing(c) => Current(c, client[c].value)
            /\ client[c].pc = "use" =>
                /\ disk[Inventory(client[c].with.selector)].is = "file"
                /\ Current(c, disk[Inventory(client[c].with.selector)].value)
            /\ client[c].pc = "run" => Current(c, client[c].value)

Inv == /\ Shape /\ Alone /\ Stages /\ Enrolled /\ EnrollmentKept
       /\ Pinned /\ Invitations /\ Accepted /\ Selection

----------------------------------------------------------------------------
(* What the steps of a command do to its record.                           *)

(* The files differ, and are files.                                        *)
LEMMA FilesDiffer ==
  /\ Registry \in Files /\ Identity \in Files /\ Registry # Identity
  /\ \A i \in Invites : /\ Invite(i) \in Files
                        /\ Invite(i) # Registry /\ Invite(i) # Identity
                        /\ \A j \in Invites : Invite(i) = Invite(j) => i = j
  /\ \A s \in Selectors : /\ Inventory(s) \in Files
                          /\ Inventory(s) # Registry /\ Inventory(s) # Identity
                          /\ \A i \in Invites : Inventory(s) # Invite(i)
  BY DEF Files, Registry, Identity, Invite, Inventory

(* Nobody but c moves, and c keeps what it was asked.                      *)
Others(c) ==
    /\ client' = [d \in Clients |-> client'[d]]
    /\ \A d \in Clients \ {c} : client'[d] = client[d]

Steady(c) ==
    /\ Others(c)
    /\ IsClient(client'[c])
    /\ client'[c].op = client[c].op
    /\ client'[c].alone = client[c].alone
    /\ client'[c].with = client[c].with

(* A record of the clients is replaced.                                    *)
LEMMA Replaced ==
  ASSUME Shape, NEW c \in Clients, NEW r, client' = [client EXCEPT ![c] = r]
  PROVE  Others(c) /\ client'[c] = r
  BY DEF Shape, Others

(* A command that fails is idle afterwards; nobody else moves.             *)
LEMMA FailDoes ==
  ASSUME Shape, NEW c \in Clients, Fail(c)
  PROVE  Others(c) /\ client'[c].pc = "idle" /\ IsClient(client'[c])
<1>1. Others(c) /\ client'[c] = Idle
  BY Replaced DEF Fail
<1>2. IsClient(Idle) /\ Idle.pc = "idle"
  BY DEF IsClient, Idle
<1>. QED BY <1>1, <1>2

(* A command that goes on keeps all but its place.                         *)
LEMMA GotoDoes ==
  ASSUME Shape, NEW c \in Clients, NEW pc, Goto(c, pc)
  PROVE  /\ Steady(c) /\ client'[c].pc = pc
         /\ client'[c].file = client[c].file
         /\ client'[c].value = client[c].value
         /\ client'[c].then = client[c].then
<1>1. client' = [client EXCEPT ![c] = [client[c] EXCEPT !.pc = pc]]
  BY DEF Goto
<1>2. Others(c) /\ client'[c] = [client[c] EXCEPT !.pc = pc]
  BY <1>1, Replaced
<1>3. IsClient(client[c])
  BY DEF Shape
<1>. QED BY <1>2, <1>3 DEF Steady, IsClient

(* A command that takes a value keeps what it was asked.                   *)
LEMMA TakeDoes ==
  ASSUME Shape, NEW c \in Clients, NEW value, NEW pc, Take(c, value, pc)
  PROVE  Steady(c) /\ client'[c].pc = pc /\ client'[c].value = value
<1>1. client' = [client EXCEPT ![c] = [client[c] EXCEPT !.value = value,
                                                        !.pc = pc]]
  BY DEF Take, Shape
<1>2. Others(c) /\ client'[c] = [client[c] EXCEPT !.value = value, !.pc = pc]
  BY <1>1, Replaced
<1>3. IsClient(client[c])
  BY DEF Shape
<1>. QED BY <1>2, <1>3 DEF Steady, IsClient

(* A command that is to write keeps what it was asked.                     *)
LEMMA PrepareDoes ==
  ASSUME Shape, NEW c \in Clients, NEW file, NEW value, NEW then,
         Prepare(c, file, value, then)
  PROVE  /\ Steady(c) /\ client'[c].pc = "write"
         /\ client'[c].file = file /\ client'[c].value = value
         /\ client'[c].then = then
<1> DEFINE r == [client[c] EXCEPT !.file = file, !.value = value,
                                  !.then = then, !.pc = "write"]
<1>1. client' = [client EXCEPT ![c] = r]
  BY DEF Prepare, Shape
<1>2. Others(c) /\ client'[c] = r
  BY <1>1, Replaced
<1>3. IsClient(client[c])
  BY DEF Shape
<1>. QED BY <1>2, <1>3 DEF Steady, IsClient

(* A file is replaced.                                                     *)
LEMMA FileReplaced ==
  ASSUME Shape, NEW g \in Files, NEW v, disk' = [disk EXCEPT ![g] = v]
  PROVE  /\ disk'[g] = v
         /\ \A f \in Files \ {g} : disk'[f] = disk[f]
         /\ disk' = [f \in Files |-> disk'[f]]
  BY DEF Shape

(* The fields of a record that is updated.                                 *)
LEMMA UpdateDoes ==
  ASSUME NEW r, IsClient(r), NEW op, NEW pc, NEW with, NEW alone, NEW q,
         q = [r EXCEPT !.pc = pc, !.op = op, !.with = with, !.alone = alone]
  PROVE  /\ IsClient(q) /\ q.alone = alone
         /\ q.op = op /\ q.pc = pc /\ q.with = with
  BY DEF IsClient

(* What the beginning of a command does, whatever the command.             *)
Begun(c) ==
    /\ client[c].pc = "idle"
    /\ client' = [d \in Clients |-> client'[d]]
    /\ \A d \in Clients : IsClient(client'[d])
    /\ client'[c].alone => Active = {}
    /\ \A d \in Clients \ {c} :
        /\ client'[d].pc = client[d].pc /\ client'[d].op = client[d].op
        /\ client'[d].with = client[d].with /\ client'[d].file = client[d].file
        /\ client'[d].value = client[d].value
        /\ client'[d].then = client[d].then
        /\ d \in Active => ~client'[d].alone
    /\ ~overlap' => ~overlap /\ Active = {}
    /\ UNCHANGED <<disk, now, pins, crashes, history>>

(* A command begins with its own fields, and whoever it overlaps is no     *)
(* longer alone.                                                           *)
LEMMA BeginDoes ==
  ASSUME Shape, NEW c \in Clients, NEW op, NEW pc, NEW with,
         Begin(c, Command(op, pc, with))
  PROVE  /\ Begun(c)
         /\ client'[c].op = op /\ client'[c].pc = pc /\ client'[c].with = with
<1> DEFINE command == Command(op, pc, with)
<1>0. command = [Idle EXCEPT !.pc = pc, !.op = op, !.with = with,
                             !.alone = (Active = {})]
  BY DEF Command
<1>1. IsClient(Idle)
  BY DEF IsClient, Idle
<1>2. client' = [d \in Clients |->
                    IF d = c THEN command
                    ELSE IF d \in Active
                         THEN [client[d] EXCEPT !.alone = FALSE]
                    ELSE client[d]]
  BY DEF Begin
<1> HIDE DEF command
<1>3. client'[c] = command
  BY <1>2
<1>4. IsClient(command) /\ command.alone = (Active = {})
      /\ command.op = op /\ command.pc = pc /\ command.with = with
  <2>1. PICK alone : alone = (Active = {})
    OBVIOUS
  <2>2. command = [Idle EXCEPT !.pc = pc, !.op = op, !.with = with,
                               !.alone = alone]
    BY <1>0, <2>1
  <2>3. IsClient(command)
    BY <1>1, <2>2 DEF IsClient
  <2>4. command.alone = alone
    BY <1>1, <2>2 DEF IsClient
  <2>5. command.op = op /\ command.pc = pc /\ command.with = with
    BY <1>1, <2>2 DEF IsClient
  <2>. QED BY <2>1, <2>3, <2>4, <2>5
<1>5. ASSUME NEW d \in Clients \ {c}
      PROVE  /\ IsClient(client'[d])
             /\ client'[d].pc = client[d].pc /\ client'[d].op = client[d].op
             /\ client'[d].with = client[d].with
             /\ client'[d].file = client[d].file
             /\ client'[d].value = client[d].value
             /\ client'[d].then = client[d].then
             /\ d \in Active => ~client'[d].alone
  <2>1. IsClient(client[d])
    BY DEF Shape
  <2>2. CASE d \in Active
    <3>1. client'[d] = [client[d] EXCEPT !.alone = FALSE]
      BY <1>2, <2>2
    <3>. QED BY <2>1, <3>1 DEF IsClient
  <2>3. CASE d \notin Active
    <3>1. client'[d] = client[d]
      BY <1>2, <2>3
    <3>. QED BY <2>1, <2>3, <3>1
  <2>. QED BY <2>2, <2>3
<1>6. client[c].pc = "idle" /\ UNCHANGED <<disk, now, pins, crashes, history>>
  BY DEF Begin, At
<1>7. ~overlap' => ~overlap /\ Active = {}
  BY DEF Begin
<1>8. \A d \in Clients : IsClient(client'[d])
  BY <1>3, <1>4, <1>5
<1>9. client' = [d \in Clients |-> client'[d]]
  BY <1>2
<1>. QED BY <1>3, <1>4, <1>5, <1>6, <1>7, <1>8, <1>9 DEF Begun

(* The commands there are, and where they begin.                           *)
LEMMA StartDoes ==
  ASSUME Shape, NEW c \in Clients, Start(c)
  PROVE  /\ Begun(c)
         /\ \/ client'[c].op = "init" /\ client'[c].pc = "read"
            \/ client'[c].op = "enroll" /\ client'[c].pc = "read"
            \/ /\ client'[c].op = "invite" /\ client'[c].pc = "identify"
               /\ client'[c].with.invite \in Invites
               /\ disk[Invite(client'[c].with.invite)].is = "absent"
            \/ /\ client'[c].op = "consume" /\ client'[c].pc = "check"
               /\ client'[c].with.invite \in Invites
            \/ /\ client'[c].op = "select" /\ client'[c].pc = "read"
               /\ client'[c].with.selector \in Selectors
<1>1. CASE Begin(c, Command("init", "read", <<>>))
  BY <1>1, BeginDoes
<1>2. CASE \E t \in Targets, e \in Entries :
            Begin(c, Command("enroll", "read", [target |-> t, entry |-> e]))
  BY <1>2, BeginDoes
<1>3. CASE \E ttl \in Lifetimes, i \in Invites :
            /\ disk[Invite(i)].is = "absent"
            /\ Begin(c, Command("invite", "identify",
                                [invite |-> i, ttl |-> ttl]))
  <2>1. PICK ttl \in Lifetimes, i \in Invites :
            /\ disk[Invite(i)].is = "absent"
            /\ Begin(c, Command("invite", "identify",
                                [invite |-> i, ttl |-> ttl]))
    BY <1>3
  <2>2. /\ Begun(c) /\ client'[c].op = "invite" /\ client'[c].pc = "identify"
        /\ client'[c].with = [invite |-> i, ttl |-> ttl]
    BY <2>1, BeginDoes
  <2>3. client'[c].with.invite = i
    BY <2>2
  <2>. QED BY <2>1, <2>2, <2>3
<1>4. CASE \E i \in Invites, right \in BOOLEAN :
            Begin(c, Command("consume", "check",
                             [invite |-> i, right |-> right]))
  BY <1>4, BeginDoes
<1>5. CASE \E s \in Selectors :
            Begin(c, Command("select", "read", [selector |-> s]))
  BY <1>5, BeginDoes
<1>. QED BY <1>1, <1>2, <1>3, <1>4, <1>5 DEF Start

(* Only one command is active where commands do not overlap.               *)
LEMMA Sole ==
  ASSUME Alone, NEW c \in Active, Others(c), overlap' = overlap
  PROVE  /\ ~overlap' => \A d \in Active' : d = c
         /\ \A d \in Active' : d # c => d \in Active /\ ~client'[d].alone
  BY DEF Alone, Active, Others

----------------------------------------------------------------------------
(* The kinds of steps.                                                     *)

Quiet == UNCHANGED <<client, disk, crashes, overlap, history>>

Started(c) ==
    /\ Begun(c)
    /\ \/ client'[c].op = "init" /\ client'[c].pc = "read"
       \/ client'[c].op = "enroll" /\ client'[c].pc = "read"
       \/ /\ client'[c].op = "invite" /\ client'[c].pc = "identify"
          /\ client'[c].with.invite \in Invites
          /\ disk[Invite(client'[c].with.invite)].is = "absent"
       \/ /\ client'[c].op = "consume" /\ client'[c].pc = "check"
          /\ client'[c].with.invite \in Invites
       \/ /\ client'[c].op = "select" /\ client'[c].pc = "read"
          /\ client'[c].with.selector \in Selectors

(* A command fails, or is killed.                                          *)
Dropped(c) ==
    /\ c \in Active
    /\ Others(c) /\ IsClient(client'[c]) /\ client'[c].pc = "idle"
    /\ crashes' \in Nat /\ crashes' >= crashes
    /\ client[c].pc = "done" => crashes' > 0
    /\ UNCHANGED <<disk, overlap, history>>

Works(c) ==
    /\ c \in Active
    /\ Steady(c)
    /\ UNCHANGED <<crashes, overlap, history>>

Prepared(c) ==
    /\ Works(c)
    /\ client'[c].pc = "write"
    /\ UNCHANGED disk
    /\ \/ /\ client[c].op = "init" /\ client[c].pc = "read"
          /\ Readable(Registry)
          /\ client'[c].file = Registry /\ client'[c].then = "identify"
          /\ client'[c].value = Content(Registry)
       \/ /\ client[c].op = "enroll" /\ client[c].pc = "read"
          /\ Readable(Registry)
          /\ client'[c].file = Registry /\ client'[c].then = "done"
          /\ client'[c].value =
                Upserted(Content(Registry), client[c].with.target,
                         client[c].with.entry)
       \/ /\ client[c].op = "select" /\ client[c].pc = "read"
          /\ client'[c].file = Inventory(client[c].with.selector)
          /\ client'[c].then = "use"
          /\ client'[c].value =
                Selected(Content(Registry), client[c].with.selector)
          /\ client'[c].value # {}
       \/ /\ client[c].op \in {"init", "invite"} /\ client[c].pc = "identify"
          /\ disk[Identity].is = "absent"
          /\ client'[c].file = Identity /\ client'[c].then = "identified"
       \/ /\ client[c].op = "invite" /\ client[c].pc = "identified"
          /\ client'[c].file = Invite(client[c].with.invite)
          /\ client'[c].then = "done"
          /\ IsInvite(client'[c].value)
          /\ client'[c].value.pin = client[c].value
       \/ /\ client[c].op = "consume" /\ client[c].pc = "check"
          /\ disk[Invite(client[c].with.invite)].is = "file"
          /\ ~disk[Invite(client[c].with.invite)].value.used
          /\ client'[c].file = Invite(client[c].with.invite)
          /\ client'[c].then = "done"
          /\ IsInvite(client'[c].value) /\ client'[c].value.used

Taken(c) ==
    /\ Works(c)
    /\ UNCHANGED disk
    /\ \/ /\ client[c].op \in {"init", "invite"} /\ client[c].pc = "identify"
          /\ disk[Identity].is = "file"
          /\ client'[c].value = disk[Identity].value
          /\ client'[c].pc = "identified"
       \/ /\ client[c].op = "init" /\ client[c].pc = "identified"
          /\ client'[c].pc = "done"
       \/ /\ client[c].op = "select" /\ client[c].pc = "use"
          /\ client'[c].value = disk[Inventory(client[c].with.selector)].value
          /\ client'[c].pc = "run"

(* The file of the command gets content, all else of the disk stays.       *)
Stored(c, content) ==
    /\ Works(c)
    /\ client'[c].file = client[c].file
    /\ client'[c].value = client[c].value
    /\ client'[c].then = client[c].then
    /\ disk'[client[c].file] = content
    /\ \A f \in Files \ {client[c].file} : disk'[f] = disk[f]
    /\ disk' = [f \in Files |-> disk'[f]]

Truncated(c) ==
    /\ client[c].pc = "write" /\ client'[c].pc = "fill"
    /\ Stored(c, Torn)

Filled(c) ==
    /\ client[c].pc = "fill" /\ client'[c].pc = client[c].then
    /\ Stored(c, File(client[c].value))

Answered(c) ==
    /\ Others(c) /\ IsClient(client'[c]) /\ client'[c].pc = "idle"
    /\ Answer(c)

(* What a command writes is a file.                                        *)
LEMMA WritesFile ==
  ASSUME Stages, NEW c \in Active, Writing(c)
  PROVE  /\ client[c].file \in Files
         /\ \/ client[c].op \in {"init", "enroll"} /\ client[c].file = Registry
            \/ client[c].op \in {"init", "invite"} /\ client[c].file = Identity
            \/ /\ client[c].op \in {"invite", "consume"}
               /\ client[c].with.invite \in Invites
               /\ client[c].file = Invite(client[c].with.invite)
            \/ /\ client[c].op = "select"
               /\ client[c].with.selector \in Selectors
               /\ client[c].file = Inventory(client[c].with.selector)
  BY FilesDiffer DEF Stages, Initializing, Enrolling, Inviting, Consuming,
                     Selecting, Writes, Writing

(* The steps of the module are of these kinds, one lemma each.             *)
LEMMA ReadRegistryDoes ==
  ASSUME Shape, Stages, NEW c \in Clients, ReadRegistry(c)
  PROVE  Dropped(c) \/ Prepared(c)
<1>1. /\ c \in Active /\ client[c].pc = "read"
      /\ UNCHANGED <<disk, crashes, overlap, history>> /\ crashes' \in Nat
      /\ crashes' >= crashes
  BY DEF ReadRegistry, At, Active, OnlyClient, Shape
<1>2. client[c].op \in {"init", "enroll", "select"}
  BY <1>1 DEF Stages, Initializing, Enrolling, Inviting, Consuming, Selecting,
              Writes, Writing
<1>3. CASE ~Readable(Registry)
  <2>1. Fail(c)
    BY <1>3 DEF ReadRegistry
  <2>. QED BY <1>1, <2>1, FailDoes DEF Dropped
<1>4. CASE Readable(Registry) /\ client[c].op = "init"
  <2>1. Prepare(c, Registry, Content(Registry), "identify")
    BY <1>4 DEF ReadRegistry
  <2>. QED BY <1>1, <1>4, <2>1, PrepareDoes DEF Prepared, Works
<1>5. CASE Readable(Registry) /\ client[c].op = "enroll"
  <2>1. Prepare(c, Registry, Upserted(Content(Registry), client[c].with.target,
                                      client[c].with.entry), "done")
    BY <1>5 DEF ReadRegistry
  <2>. QED BY <1>1, <1>5, <2>1, PrepareDoes DEF Prepared, Works
<1>6. CASE Readable(Registry) /\ client[c].op = "select"
  <2> DEFINE targets == Selected(Content(Registry), client[c].with.selector)
  <2>1. CASE targets = {}
    <3>1. Fail(c)
      BY <1>6, <2>1 DEF ReadRegistry
    <3>. QED BY <1>1, <3>1, FailDoes DEF Dropped
  <2>2. CASE targets # {}
    <3>1. Prepare(c, Inventory(client[c].with.selector), targets, "use")
      BY <1>6, <2>2 DEF ReadRegistry
    <3>. QED BY <1>1, <1>6, <2>2, <3>1, PrepareDoes DEF Prepared, Works
  <2>. QED BY <2>1, <2>2
<1>. QED BY <1>2, <1>3, <1>4, <1>5, <1>6

(* Identification fails, prepares the identity or finds it there.          *)
LEMMA IdentifyDoes ==
  ASSUME Shape, Stages, NEW c \in Clients, Identify(c)
  PROVE  Dropped(c) \/ Prepared(c) \/ Taken(c)
<1>1. /\ c \in Active /\ client[c].pc = "identify"
      /\ UNCHANGED <<disk, crashes, overlap, history>> /\ crashes' \in Nat
      /\ crashes' >= crashes
  BY DEF Identify, At, Active, Shape
<1>2. client[c].op \in {"init", "invite"}
  BY <1>1 DEF Stages, Initializing, Enrolling, Inviting, Consuming, Selecting,
              Writes, Writing
<1>3. CASE disk[Identity].is = "absent"
  <2>1. Prepare(c, Identity, pins + 1, "identified")
    BY <1>3 DEF Identify
  <2>. QED BY <1>1, <1>2, <1>3, <2>1, PrepareDoes DEF Prepared, Works
<1>4. CASE disk[Identity].is = "file"
  <2>1. Take(c, disk[Identity].value, "identified")
    BY <1>4 DEF Identify, Readable, Content
  <2>. QED BY <1>1, <1>2, <1>4, <2>1, TakeDoes DEF Taken, Works
<1>5. CASE disk[Identity].is \notin {"absent", "file"}
  <2>1. Fail(c)
    BY <1>5 DEF Identify, Readable
  <2>. QED BY <1>1, <2>1, FailDoes DEF Dropped
<1>. QED BY <1>3, <1>4, <1>5

(* An invite is prepared with the pin that was read, or the init is over.  *)
LEMMA IssueInviteDoes ==
  ASSUME Shape, Stages, NEW c \in Clients, IssueInvite(c)
  PROVE  Prepared(c) \/ Taken(c)
<1>1. /\ c \in Active /\ client[c].pc = "identified"
      /\ UNCHANGED <<disk, crashes, overlap, history>>
  BY DEF IssueInvite, At, Active, OnlyClient
<1>2. client[c].op \in {"init", "invite"}
  BY <1>1 DEF Stages, Initializing, Enrolling, Inviting, Consuming, Selecting,
              Writes, Writing
<1>3. CASE client[c].op = "init"
  <2>1. Goto(c, "done")
    BY <1>3 DEF IssueInvite
  <2>. QED BY <1>1, <1>3, <2>1, GotoDoes DEF Taken, Works
<1>4. CASE client[c].op = "invite"
  <2> DEFINE v == [pin |-> client[c].value,
                   expires |-> Expiry(client[c].with.ttl), used |-> FALSE]
  <2>1. Prepare(c, Invite(client[c].with.invite), v, "done")
    BY <1>4 DEF IssueInvite
  <2>2. IsInvite(v) /\ v.pin = client[c].value
    BY DEF IsInvite
  <2> HIDE DEF v
  <2>. QED BY <1>1, <1>4, <2>1, <2>2, PrepareDoes DEF Prepared, Works
<1>. QED BY <1>2, <1>3, <1>4

(* An invite that is good is prepared to be written as used.               *)
LEMMA CheckInviteDoes ==
  ASSUME Shape, Stages, Invitations, NEW c \in Clients, CheckInvite(c)
  PROVE  Dropped(c) \/ Prepared(c)
<1>1. /\ c \in Active /\ client[c].pc = "check"
      /\ UNCHANGED <<disk, crashes, overlap, history>> /\ crashes' \in Nat
      /\ crashes' >= crashes
  BY DEF CheckInvite, At, Active, OnlyClient, Shape
<1>2. client[c].op = "consume" /\ client[c].with.invite \in Invites
  BY <1>1 DEF Stages, Initializing, Enrolling, Inviting, Consuming, Selecting,
              Writes, Writing
<1> DEFINE f == Invite(client[c].with.invite)
           good == disk[f].is = "file" /\ client[c].with.right
                   /\ Acceptable(disk[f].value)
           v == [disk[f].value EXCEPT !.used = TRUE]
<1>3. CASE ~good
  <2>1. Fail(c)
    BY <1>3 DEF CheckInvite
  <2>. QED BY <1>1, <2>1, FailDoes DEF Dropped
<1>4. CASE good
  <2>1. Prepare(c, f, v, "done")
    BY <1>4 DEF CheckInvite
  <2>2. IsInvite(disk[f].value)
    BY <1>2, <1>4 DEF Invitations
  <2>3. IsInvite(v) /\ v.used
    <3>1. PICK r : r = disk[f].value
      OBVIOUS
    <3>2. PICK yes : yes = TRUE
      OBVIOUS
    <3>3. v = [r EXCEPT !.used = yes]
      BY <3>1, <3>2
    <3>4. r = [pin |-> r.pin, expires |-> r.expires, used |-> r.used]
      BY <2>2, <3>1 DEF IsInvite
    <3> HIDE DEF v
    <3>5. v.used = yes /\ v.pin = r.pin /\ v.expires = r.expires
      BY <3>3, <3>4
    <3>6. v = [pin |-> r.pin, expires |-> r.expires, used |-> yes]
      BY <3>3, <3>4
    <3>. QED BY <3>2, <3>5, <3>6 DEF IsInvite
  <2>4. ~disk[f].value.used
    BY <1>4 DEF Acceptable
  <2> HIDE DEF v
  <2>. QED BY <1>1, <1>2, <1>4, <2>1, <2>3, <2>4, PrepareDoes
           DEF Prepared, Works
<1>. QED BY <1>3, <1>4

(* The file that was prepared is torn ...                                  *)
LEMMA TruncateDoes ==
  ASSUME Shape, Stages, NEW c \in Clients, Truncate(c)
  PROVE  Truncated(c)
<1>1. c \in Active /\ client[c].pc = "write" /\ Writing(c)
      /\ UNCHANGED <<crashes, overlap, history>>
  BY DEF Truncate, At, Active, Writing
<1>2. client[c].file \in Files
  BY <1>1, WritesFile
<1>3. disk' = [disk EXCEPT ![client[c].file] = Torn]
  BY DEF Truncate
<1>4. Goto(c, "fill")
  BY DEF Truncate
<1>5. /\ disk'[client[c].file] = Torn
      /\ \A f \in Files \ {client[c].file} : disk'[f] = disk[f]
      /\ disk' = [f \in Files |-> disk'[f]]
  BY <1>2, <1>3, FileReplaced
<1>. QED BY <1>1, <1>4, <1>5, GotoDoes DEF Truncated, Stored, Works

(* ... and then has what was prepared.                                     *)
LEMMA FillDoes ==
  ASSUME Shape, Stages, NEW c \in Clients, Fill(c)
  PROVE  Filled(c)
<1>1. c \in Active /\ client[c].pc = "fill" /\ Writing(c)
      /\ UNCHANGED <<crashes, overlap, history>>
  BY DEF Fill, At, Active, Writing
<1>2. client[c].file \in Files
  BY <1>1, WritesFile
<1>3. disk' = [disk EXCEPT ![client[c].file] = File(client[c].value)]
  BY DEF Fill
<1>4. Goto(c, client[c].then)
  BY DEF Fill
<1>5. /\ disk'[client[c].file] = File(client[c].value)
      /\ \A f \in Files \ {client[c].file} : disk'[f] = disk[f]
      /\ disk' = [f \in Files |-> disk'[f]]
  BY <1>2, <1>3, FileReplaced
<1>. QED BY <1>1, <1>4, <1>5, GotoDoes DEF Filled, Stored, Works

(* What was selected is read back, or the file of the inventory is torn.   *)
LEMMA UseInventoryDoes ==
  ASSUME Shape, Stages, NEW c \in Clients, UseInventory(c)
  PROVE  Dropped(c) \/ Taken(c)
<1>1. /\ c \in Active /\ client[c].pc = "use"
      /\ UNCHANGED <<disk, crashes, overlap, history>> /\ crashes' \in Nat
      /\ crashes' >= crashes
  BY DEF UseInventory, At, Active, OnlyClient, Shape
<1>2. client[c].op = "select" /\ client[c].with.selector \in Selectors
  BY <1>1 DEF Stages, Initializing, Enrolling, Inviting, Consuming, Selecting,
              Writes, Writing
<1> DEFINE f == Inventory(client[c].with.selector)
<1>3. CASE Readable(f)
  <2>1. Take(c, disk[f].value, "run")
    BY <1>2, <1>3, FilesDiffer DEF UseInventory, Readable, Content
  <2>. QED BY <1>1, <1>2, <2>1, TakeDoes DEF Taken, Works
<1>4. CASE ~Readable(f)
  <2>1. Fail(c)
    BY <1>4 DEF UseInventory
  <2>. QED BY <1>1, <2>1, FailDoes DEF Dropped
<1>. QED BY <1>3, <1>4

(* A command that is through forgets what it knew,                         *)
LEMMA AnswerDoes ==
  ASSUME Shape, NEW c \in Clients, Answer(c)
  PROVE  Answered(c)
<1>1. Fail(c)
  BY DEF Answer, Fail
<1>. QED BY <1>1, FailDoes DEF Answered

(* and so does one that is killed.                                         *)
LEMMA KillDoes ==
  ASSUME Shape, NEW c \in Clients, Kill(c)
  PROVE  Dropped(c)
<1>1. Fail(c)
  BY DEF Kill, Fail
<1>2. crashes' \in Nat /\ crashes' >= crashes /\ crashes' > 0
  BY DEF Kill, Shape
<1>. QED BY <1>1, <1>2, FailDoes DEF Kill, Dropped

(* Every step is of one of these kinds.                                    *)
Moves(c) == \/ Started(c) \/ Dropped(c) \/ Prepared(c) \/ Taken(c)
            \/ Truncated(c) \/ Filled(c) \/ Answered(c)

(* Every step is one of these, or changes nothing that Inv is about.       *)
LEMMA NextDoes ==
  ASSUME Inv, [Next]_vars
  PROVE  Quiet \/ \E c \in Clients : Moves(c)
<1>1. CASE Tick \/ UNCHANGED vars
  BY <1>1 DEF Tick, vars, Quiet, history
<1>2. ASSUME NEW c \in Clients, Start(c)
      PROVE  Started(c)
  BY <1>2, StartDoes DEF Inv, Started
<1>3. ASSUME NEW c \in Clients,
             \/ ReadRegistry(c) \/ Identify(c) \/ IssueInvite(c)
             \/ CheckInvite(c) \/ Truncate(c) \/ Fill(c) \/ UseInventory(c)
             \/ Answer(c) \/ Kill(c)
      PROVE  Moves(c)
  BY <1>3, ReadRegistryDoes, IdentifyDoes, IssueInviteDoes, CheckInviteDoes,
     TruncateDoes, FillDoes, UseInventoryDoes, AnswerDoes, KillDoes
     DEF Inv, Moves
<1>. QED BY <1>1, <1>2, <1>3 DEF Next, Moves

----------------------------------------------------------------------------
(* What the invariant says of the commands is kept.                        *)

(* Records and files keep their form.                                      *)
LEMMA ShapeKept ==
  ASSUME Inv, [Next]_vars
  PROVE  Shape'
<1>1. Quiet \/ \E c \in Clients : Moves(c)
  BY NextDoes
<1>2. CASE Quiet
  BY <1>2 DEF Quiet, history, Inv, Shape, IsClient
<1> SUFFICES ASSUME NEW c \in Clients, Moves(c)
             PROVE  Shape'
  BY <1>1, <1>2
<1>3. /\ client' = [d \in Clients |-> client'[d]]
      /\ \A d \in Clients : IsClient(client'[d])
  <2>1. CASE Started(c)
    BY <2>1 DEF Started, Begun
  <2>2. CASE ~Started(c)
    <3>1. Others(c) /\ IsClient(client'[c])
      BY <2>2 DEF Moves, Dropped, Prepared, Taken, Truncated, Filled, Stored,
                  Answered, Works, Steady
    <3>2. \A d \in Clients : IsClient(client[d])
      BY DEF Inv, Shape
    <3>. QED BY <3>1, <3>2 DEF Others
  <2>. QED BY <2>1, <2>2
<1>4. disk' = [f \in Files |-> disk'[f]]
  BY DEF Moves, Started, Begun, Dropped, Prepared, Taken, Truncated, Filled,
         Stored, Answered, Answer, Inv, Shape
<1>5. accepted' \in [Invites -> Nat]
  <2>1. accepted \in [Invites -> Nat]
    BY DEF Inv, Shape
  <2>2. CASE Answer(c) /\ client[c].op = "consume"
    <3>1. PICK i : i = client[c].with.invite
      OBVIOUS
    <3>2. accepted' = [accepted EXCEPT ![i] = accepted[i] + 1]
      BY <2>2, <3>1 DEF Answer
    <3>3. \A j \in Invites : accepted'[j] \in Nat
      BY <2>1, <3>2
    <3>. QED BY <2>1, <3>2, <3>3
  <2>3. CASE ~(Answer(c) /\ client[c].op = "consume")
    <3>1. accepted' = accepted
      BY <2>3 DEF Moves, Started, Begun, Dropped, Prepared, Taken, Truncated,
                  Filled, Stored, Works, Answered, Answer, history
    <3>. QED BY <2>1, <3>1
  <2>. QED BY <2>2, <2>3
<1>6. crashes' \in Nat
  BY DEF Moves, Started, Begun, Dropped, Prepared, Taken, Truncated, Filled,
         Stored, Works, Answered, Answer, Inv, Shape
<1>. QED BY <1>3, <1>4, <1>5, <1>6 DEF Shape, IsClient

(* Who is alone stays so until another command begins.                     *)
LEMMA AloneKept ==
  ASSUME Inv, [Next]_vars
  PROVE  Alone'
<1>1. Quiet \/ \E c \in Clients : Moves(c)
  BY NextDoes
<1>2. CASE Quiet
  BY <1>2 DEF Quiet, Inv, Alone, Active
<1> SUFFICES ASSUME NEW c \in Clients, Moves(c), NEW a \in Active',
                    client'[a].alone \/ ~overlap'
             PROVE  Active' = {a}
  BY <1>1, <1>2 DEF Alone
<1>3. CASE Started(c)
  <2>1. Active = {} /\ a = c
    BY <1>3 DEF Started, Begun, Active
  <2>2. \A d \in Active' : d = c
    BY <1>3, <2>1 DEF Started, Begun, Active
  <2>. QED BY <2>1, <2>2
<1>4. CASE ~Started(c)
  <2>1. Others(c) /\ overlap' = overlap /\ c \in Active
    BY <1>4 DEF Moves, Dropped, Prepared, Taken, Truncated, Filled, Stored,
                Answered, Answer, Active, Works, Steady
  <2>2. client'[c].pc # "idle" => client'[c].alone = client[c].alone
    BY <1>4 DEF Moves, Dropped, Prepared, Taken, Truncated, Filled, Stored,
                Answered, Answer, Works, Steady
  <2>3. Active' \subseteq Active
    BY <2>1 DEF Others, Active
  <2>4. client'[a].alone = client[a].alone
    BY <2>1, <2>2, <2>3 DEF Others, Active
  <2>5. Active = {a}
    BY <2>1, <2>3, <2>4 DEF Inv, Alone
  <2>. QED BY <2>3, <2>5
<1>. QED BY <1>3, <1>4

(* The stage that a client is in.                                          *)
Staged(d) == \/ Initializing(d) \/ Enrolling(d) \/ Inviting(d)
             \/ Consuming(d) \/ Selecting(d)

(* A command moves from one stage of its own to the next.                  *)
LEMMA StagesKept ==
  ASSUME Inv, [Next]_vars
  PROVE  Stages'
<1>1. Quiet \/ \E c \in Clients : Moves(c)
  BY NextDoes
<1>2. CASE Quiet
  BY <1>2 DEF Quiet, Inv, Stages, Active, Initializing, Enrolling, Inviting,
              Consuming, Selecting, Writes, Writing
<1> SUFFICES ASSUME NEW c \in Clients, Moves(c), NEW d \in Active'
             PROVE  Staged(d)'
  BY <1>1, <1>2 DEF Stages, Staged
<1>3. CASE d # c
  <2>1. /\ client'[d].pc = client[d].pc /\ client'[d].op = client[d].op
        /\ client'[d].with = client[d].with /\ client'[d].file = client[d].file
        /\ client'[d].then = client[d].then
    BY <1>3 DEF Moves, Started, Begun, Dropped, Prepared, Taken, Truncated,
                Filled, Stored, Answered, Works, Steady, Others, Active
  <2>2. Staged(d)
    BY <2>1 DEF Inv, Stages, Staged, Active
  <2>. QED BY <2>1, <2>2 DEF Staged, Initializing, Enrolling, Inviting,
                             Consuming, Selecting, Writes, Writing
<1>4. CASE d = c
  <2>1. CASE Started(c)
    BY <1>4, <2>1 DEF Started, Staged, Initializing, Enrolling, Inviting,
                      Consuming, Selecting
  <2>2. CASE Dropped(c) \/ Answered(c)
    BY <1>4, <2>2 DEF Dropped, Answered, Active
  <2>3. CASE Works(c)
    <3>1. /\ Staged(c) /\ client'[c].op = client[c].op
          /\ client'[c].with = client[c].with
      BY <2>3 DEF Works, Steady, Inv, Stages, Staged
    <3>2. CASE Prepared(c)
      BY <1>4, <3>1, <3>2 DEF Prepared, Staged, Initializing, Enrolling,
                              Inviting, Consuming, Selecting, Writes, Writing
    <3>3. CASE Taken(c)
      BY <1>4, <3>1, <3>3 DEF Taken, Staged, Initializing, Enrolling,
                              Inviting, Consuming, Selecting, Writes, Writing
    <3>4. CASE Truncated(c)
      BY <1>4, <3>1, <3>4 DEF Truncated, Stored, Staged, Initializing,
         Enrolling, Inviting, Consuming, Selecting, Writes, Writing
    <3>5. CASE Filled(c)
      BY <1>4, <3>1, <3>5 DEF Filled, Stored, Staged, Initializing, Enrolling,
                              Inviting, Consuming, Selecting, Writes, Writing
    <3>6. ~Started(c)
      BY <2>3 DEF Works, Started, Begun, Active
    <3>7. ~Dropped(c) /\ ~Answered(c)
      BY <1>4 DEF Dropped, Answered, Active
    <3>. QED BY <3>2, <3>3, <3>4, <3>5, <3>6, <3>7 DEF Moves
  <2>. QED BY <2>1, <2>2, <2>3 DEF Moves, Prepared, Taken, Truncated, Filled,
                                   Stored
<1>. QED BY <1>3, <1>4

(* Whatever is written to an invite is an invite.                          *)
LEMMA InvitationsKept ==
  ASSUME Inv, [Next]_vars
  PROVE  Invitations'
<1>1. Quiet \/ \E c \in Clients : Moves(c)
  BY NextDoes
<1>2. CASE Quiet
  BY <1>2 DEF Quiet, Inv, Invitations, Active, Writing, IsInvite
<1> SUFFICES ASSUME NEW c \in Clients, Moves(c)
             PROVE  Invitations'
  BY <1>1, <1>2
<1>3. ASSUME NEW i \in Invites, disk'[Invite(i)].is = "file"
      PROVE  IsInvite(disk'[Invite(i)].value)
  <2>1. CASE disk'[Invite(i)] = disk[Invite(i)]
    BY <1>3, <2>1 DEF Inv, Invitations
  <2>2. CASE Truncated(c) /\ client[c].file = Invite(i)
    BY <1>3, <2>2 DEF Truncated, Stored, Torn
  <2>3. CASE Filled(c) /\ client[c].file = Invite(i)
    <3>1. disk'[Invite(i)].value = client[c].value
      BY <2>3 DEF Filled, Stored, File
    <3>2. Writing(c) /\ c \in Active
      BY <2>3 DEF Filled, Stored, Works, Writing
    <3>. QED BY <2>3, <3>1, <3>2 DEF Inv, Invitations
  <2>4. CASE (Truncated(c) \/ Filled(c)) /\ client[c].file # Invite(i)
    BY <2>1, <2>4, FilesDiffer DEF Truncated, Filled, Stored
  <2>. QED BY <2>1, <2>2, <2>3, <2>4 DEF Moves, Started, Begun, Dropped,
                                        Prepared, Taken, Answered, Answer
<1>4. ASSUME NEW d \in Active', NEW i \in Invites, Writing(d)',
             client'[d].file = Invite(i)
      PROVE  IsInvite(client'[d].value)
  <2>1. CASE d # c
    <3>1. /\ client'[d].pc = client[d].pc /\ client'[d].file = client[d].file
          /\ client'[d].value = client[d].value
      BY <2>1 DEF Moves, Started, Begun, Dropped, Prepared, Taken, Truncated,
                  Filled, Stored, Answered, Works, Steady, Others, Active
    <3>. QED BY <1>4, <3>1 DEF Inv, Invitations, Active, Writing
  <2>2. CASE d = c
    <3>1. client'[c].pc \in {"write", "fill"}
      BY <1>4, <2>2 DEF Writing
    <3>2. CASE Prepared(c)
      <4>1. Staged(c)
        BY <3>2 DEF Prepared, Works, Inv, Stages, Staged
      <4>2. client[c].op = "select" => client[c].with.selector \in Selectors
        BY <4>1 DEF Staged, Initializing, Enrolling, Inviting, Consuming,
                    Selecting
      <4>. QED BY <1>4, <2>2, <3>2, <4>2, FilesDiffer DEF Prepared
    <3>3. CASE Truncated(c)
      <4>1. Writing(c) /\ c \in Active /\ client[c].file = client'[c].file
            /\ client'[c].value = client[c].value
        BY <3>3 DEF Truncated, Stored, Works, Writing
      <4>. QED BY <1>4, <2>2, <4>1 DEF Inv, Invitations
    <3>4. CASE Filled(c)
      <4>1. client[c].then \notin {"write", "fill"}
        BY <3>4 DEF Filled, Stored, Works, Inv, Stages, Initializing,
                    Enrolling, Inviting, Consuming, Selecting, Writes, Writing
      <4>. QED BY <3>1, <3>4, <4>1 DEF Filled
    <3>. QED BY <3>1, <3>2, <3>3, <3>4 DEF Moves, Started, Dropped, Taken,
                                          Answered
  <2>. QED BY <2>1, <2>2
<1>. QED BY <1>3, <1>4 DEF Invitations

----------------------------------------------------------------------------
(* What was enrolled stays in the registry.                                *)

(* While commands do not overlap, and none has just written an enrollment, *)
(* the registry has what was enrolled.                                     *)
Kept(registry) ==
    \A t \in DOMAIN enrolled :
        /\ t \in DOMAIN registry
        /\ registry[t] = enrolled[t] \/ crashes > 0

(* EnrollmentKept for a registry that can be read.                         *)
LEMMA KeptSoFar ==
  ASSUME EnrollmentKept, ~overlap, Readable(Registry),
         \A d \in Active : ~(client[d].pc = "done" /\ client[d].op = "enroll")
  PROVE  Kept(Content(Registry))
  BY DEF EnrollmentKept, Kept, At, Active

(* A registry is written with what was enrolled, and with the target of an *)
(* enrollment before that is acknowledged.                                 *)
LEMMA EnrolledKept ==
  ASSUME Inv, [Next]_vars
  PROVE  Enrolled' /\ EnrollmentKept'
<1>1. Quiet \/ \E c \in Clients : Moves(c)
  BY NextDoes
<1>2. CASE Quiet
  BY <1>2 DEF Quiet, history, Inv, Enrolled, EnrollmentKept, Active, Writing,
              Readable, Content, At
<1> SUFFICES ASSUME NEW c \in Clients, Moves(c), ~overlap'
             PROVE  Enrolled' /\ EnrollmentKept'
  BY <1>1, <1>2 DEF Enrolled, EnrollmentKept
<1>3. CASE Started(c)
  <2>1. /\ Active = {} /\ ~overlap
        /\ UNCHANGED <<disk, crashes, enrolled>>
    BY <1>3 DEF Started, Begun, history
  <2>2. \A d \in Active' : d = c
    BY <1>3, <2>1 DEF Started, Begun, Active
  <2>3. client'[c].pc \in {"read", "identify", "check"}
    BY <1>3 DEF Started
  <2>4. Enrolled'
    BY <2>2, <2>3 DEF Enrolled, Writing
  <2>5. Readable(Registry) => Kept(Content(Registry))
    BY <2>1, KeptSoFar DEF Inv
  <2>6. EnrollmentKept'
    BY <2>1, <2>5 DEF EnrollmentKept, Kept, Readable, Content
  <2>. QED BY <2>4, <2>6
<1>4. CASE ~Started(c)
  <2>1. Others(c) /\ overlap' = overlap /\ c \in Active
    BY <1>4 DEF Moves, Dropped, Prepared, Taken, Truncated, Filled, Stored,
                Answered, Answer, Active, Works, Steady
  <2>2. Active = {c} /\ ~overlap /\ \A d \in Active' : d = c
    BY <2>1, Sole DEF Inv, Alone
  <2>3. ~(client[c].pc = "done" /\ client[c].op = "enroll")
          /\ Readable(Registry) => Kept(Content(Registry))
    BY <2>2, KeptSoFar DEF Inv
  <2>4. Staged(c)
    BY <2>1 DEF Inv, Stages, Staged
  <2>5. CASE Dropped(c)
    <3>1. c \notin Active' /\ UNCHANGED <<disk, enrolled>>
      BY <2>5 DEF Dropped, Active, history
    <3>2. Enrolled'
      BY <2>2, <3>1 DEF Enrolled
    <3>3. EnrollmentKept'
      <4>1. crashes \in Nat /\ crashes' \in Nat /\ crashes' >= crashes
        BY <2>5 DEF Dropped, Inv, Shape
      <4>2. client[c].pc = "done" => crashes' > 0
        BY <2>5 DEF Dropped
      <4>3. crashes > 0 => crashes' > 0
        BY <4>1
      <4>4. EnrollmentKept
        BY DEF Inv
      <4>. QED BY <2>2, <2>3, <3>1, <4>2, <4>3, <4>4
               DEF EnrollmentKept, Kept, Readable, Content, At, Active
    <3>. QED BY <3>2, <3>3
  <2>6. CASE Prepared(c)
    <3>1. /\ UNCHANGED <<disk, crashes, enrolled>>
          /\ client[c].pc # "done" /\ client'[c].pc = "write"
          /\ client'[c].op = client[c].op /\ client'[c].with = client[c].with
      BY <2>6 DEF Prepared, Works, Steady, history
    <3>2. EnrollmentKept'
      BY <2>3, <3>1 DEF EnrollmentKept, Kept, Readable, Content
    <3>3. Enrolled'
      <4>1. CASE client[c].op = "enroll"
        <5>1. /\ Readable(Registry)
              /\ client'[c].value = Upserted(Content(Registry),
                        client[c].with.target, client[c].with.entry)
          BY <2>6, <4>1 DEF Prepared
        <5>2. Holds(client'[c].value, client[c].with.target,
                    client[c].with.entry)
          BY <5>1 DEF Holds, Upserted
        <5>3. \A t \in DOMAIN enrolled :
                /\ t \in DOMAIN client'[c].value
                /\ \/ client'[c].value[t] = enrolled[t]
                   \/ crashes > 0
                   \/ client[c].with.target = t
          BY <2>3, <3>1, <5>1 DEF Kept, Upserted
        <5>. QED BY <2>2, <3>1, <4>1, <5>2, <5>3 DEF Enrolled
      <4>2. CASE client[c].op = "init" /\ client'[c].file = Registry
        <5>1. Readable(Registry) /\ client'[c].value = Content(Registry)
          BY <2>6, <4>2, FilesDiffer DEF Prepared
        <5>. QED BY <2>2, <2>3, <3>1, <4>2, <5>1 DEF Enrolled, Kept
      <4>3. CASE client[c].op # "enroll"
                 /\ ~(client[c].op = "init" /\ client'[c].file = Registry)
        <5>1. client'[c].file # Registry
          BY <2>4, <2>6, <4>3, FilesDiffer
             DEF Prepared, Staged, Initializing, Enrolling, Inviting,
                 Consuming, Selecting
        <5>. QED BY <2>2, <3>1, <4>3, <5>1 DEF Enrolled
      <4>. QED BY <4>1, <4>2, <4>3
    <3>. QED BY <3>2, <3>3
  <2>7. CASE Taken(c)
    <3>1. /\ UNCHANGED <<disk, crashes, enrolled>>
          /\ client[c].op # "enroll" /\ client'[c].op = client[c].op
          /\ client'[c].pc \notin {"write", "fill"}
      BY <2>7 DEF Taken, Works, Steady, history
    <3>2. EnrollmentKept'
      BY <2>3, <3>1 DEF EnrollmentKept, Kept, Readable, Content
    <3>3. Enrolled'
      BY <2>2, <3>1 DEF Enrolled, Writing
    <3>. QED BY <3>2, <3>3
  <2>8. CASE Truncated(c)
    <3>1. /\ UNCHANGED <<crashes, enrolled>>
          /\ client[c].pc = "write" /\ client'[c].pc = "fill"
          /\ client'[c].op = client[c].op /\ client'[c].with = client[c].with
          /\ client'[c].file = client[c].file
          /\ client'[c].value = client[c].value
          /\ disk'[client[c].file] = Torn
          /\ \A f \in Files \ {client[c].file} : disk'[f] = disk[f]
      BY <2>8 DEF Truncated, Stored, Works, Steady, history
    <3>2. EnrollmentKept'
      <4>1. CASE client[c].file = Registry
        BY <3>1, <4>1 DEF EnrollmentKept, Readable, Torn
      <4>2. CASE client[c].file # Registry
        <5>1. disk'[Registry] = disk[Registry]
          BY <3>1, <4>2, FilesDiffer
        <5>. QED BY <2>3, <3>1, <5>1
                 DEF EnrollmentKept, Kept, Readable, Content
      <4>. QED BY <4>1, <4>2
    <3>3. Enrolled'
      BY <2>2, <3>1 DEF Inv, Enrolled, Writing
    <3>. QED BY <3>2, <3>3
  <2>9. CASE Filled(c)
    <3>1. /\ UNCHANGED <<crashes, enrolled>>
          /\ client[c].pc = "fill" /\ client'[c].pc = client[c].then
          /\ client'[c].op = client[c].op /\ client'[c].with = client[c].with
          /\ disk'[client[c].file] = File(client[c].value)
          /\ \A f \in Files \ {client[c].file} : disk'[f] = disk[f]
      BY <2>9 DEF Filled, Stored, Works, Steady, history
    <3>2. /\ client[c].then \notin {"write", "fill"}
          /\ client[c].op = "enroll" => /\ client[c].file = Registry
                                        /\ client[c].then = "done"
      BY <2>4, <3>1 DEF Staged, Initializing, Enrolling, Inviting, Consuming,
                        Selecting, Writes
    <3>3. Writing(c)
      BY <3>1 DEF Writing
    <3>4. CASE client[c].file = Registry
      <4>1. /\ disk'[Registry].is = "file"
            /\ disk'[Registry].value = client[c].value
        BY <3>1, <3>4 DEF File
      <4>2. \A t \in DOMAIN enrolled :
                /\ t \in DOMAIN client[c].value
                /\ \/ client[c].value[t] = enrolled[t]
                   \/ crashes > 0
                   \/ client[c].op = "enroll" /\ client[c].with.target = t
        BY <2>1, <2>2, <3>3, <3>4 DEF Inv, Enrolled
      <4>3. client[c].op = "enroll" =>
                Holds(client[c].value, client[c].with.target,
                      client[c].with.entry)
        BY <2>1, <2>2, <3>3 DEF Inv, Enrolled
      <4>4. EnrollmentKept'
        BY <3>1, <3>2, <4>1, <4>2 DEF EnrollmentKept, Readable, Content, At
      <4>5. Enrolled'
        BY <2>2, <3>1, <3>2, <4>1, <4>3 DEF Enrolled, Writing
      <4>. QED BY <4>4, <4>5
    <3>5. CASE client[c].file # Registry
      <4>1. disk'[Registry] = disk[Registry] /\ client[c].op # "enroll"
        BY <3>1, <3>2, <3>5, FilesDiffer
      <4>2. EnrollmentKept'
        BY <2>3, <3>1, <4>1 DEF EnrollmentKept, Kept, Readable, Content
      <4>3. Enrolled'
        BY <2>2, <3>1, <3>2, <4>1 DEF Enrolled, Writing
      <4>. QED BY <4>2, <4>3
    <3>. QED BY <3>4, <3>5
  <2>10. CASE Answered(c)
    <3>1. /\ c \notin Active' /\ UNCHANGED <<disk, crashes>>
          /\ enrolled' = IF client[c].op = "enroll"
                         THEN Upserted(enrolled, client[c].with.target,
                                       client[c].with.entry)
                         ELSE enrolled
          /\ client[c].pc \in {"done", "run"}
      BY <2>10 DEF Answered, Answer, Active
    <3>2. Enrolled'
      BY <2>2, <3>1 DEF Enrolled
    <3>3. CASE client[c].op = "enroll"
      <4>1. /\ client[c].pc = "done"
        BY <2>4, <3>1, <3>3 DEF Staged, Initializing, Enrolling, Inviting,
                                Consuming, Selecting, Writes, Writing
      <4>2. /\ disk[Registry].is = "file"
            /\ Holds(disk[Registry].value, client[c].with.target,
                     client[c].with.entry)
        BY <2>1, <2>2, <3>3, <4>1 DEF Inv, Enrolled
      <4>3. \A t \in DOMAIN enrolled :
                /\ t \in DOMAIN disk[Registry].value
                /\ \/ disk[Registry].value[t] = enrolled[t]
                   \/ crashes > 0
                   \/ client[c].with.target = t
        BY <2>2, <4>2 DEF Inv, EnrollmentKept, Readable, Content, At, Active
      <4>4. EnrollmentKept'
        BY <3>1, <3>3, <4>2, <4>3 DEF EnrollmentKept, Content, Readable, Holds,
                                      Upserted
      <4>. QED BY <3>2, <4>4
    <3>4. CASE client[c].op # "enroll"
      <4>1. EnrollmentKept'
        BY <2>3, <3>1, <3>4 DEF EnrollmentKept, Kept, Readable, Content
      <4>. QED BY <3>2, <4>1
    <3>. QED BY <3>3, <3>4
  <2>. QED BY <1>4, <2>5, <2>6, <2>7, <2>8, <2>9, <2>10 DEF Moves
<1>. QED BY <1>3, <1>4

----------------------------------------------------------------------------
(* An invite carries the pin, and is accepted once.                        *)

(* A step of an active command that no other overlaps, and where it is.    *)
LEMMA LoneStep ==
  ASSUME Inv, NEW c \in Clients, Moves(c), ~Started(c), ~overlap'
  PROVE  /\ c \in Active /\ Staged(c)
         /\ ~overlap /\ \A d \in Active' : d = c
<1>1. Others(c) /\ overlap' = overlap /\ c \in Active
  BY DEF Moves, Dropped, Prepared, Taken, Truncated, Filled, Stored,
         Answered, Answer, Active, Works, Steady
<1>. QED BY <1>1, Sole DEF Inv, Stages, Staged

(* An identity is written only while no invite was issued.                 *)
LEMMA PinnedKept ==
  ASSUME Inv, [Next]_vars
  PROVE  Pinned'
<1>1. Quiet \/ \E c \in Clients : Moves(c)
  BY NextDoes
<1>2. CASE Quiet
  BY <1>2 DEF Quiet, history, Inv, Pinned, Active, Writing, Writes
<1> SUFFICES ASSUME NEW c \in Clients, Moves(c), ~overlap'
             PROVE  Pinned'
  BY <1>1, <1>2 DEF Pinned
<1>3. CASE Started(c)
  <2>1. /\ Active = {} /\ ~overlap /\ UNCHANGED <<disk, issued>>
        /\ client'[c].pc \in {"read", "identify", "check"}
    BY <1>3 DEF Started, Begun, history
  <2>2. \A d \in Active' : d = c
    BY <1>3, <2>1 DEF Started, Begun, Active
  <2>. QED BY <2>1, <2>2 DEF Inv, Pinned, Writing, Writes
<1>4. CASE ~Started(c)
  <2>1. /\ c \in Active /\ Staged(c)
        /\ ~overlap /\ \A d \in Active' : d = c
    BY <1>4, LoneStep
  <2>2. /\ issued # {} => disk[Identity].is # "absent"
        /\ disk[Identity].is = "file" =>
            issued \subseteq {disk[Identity].value}
        /\ Writing(c) /\ client[c].file = Identity => issued = {}
        /\ client[c].op = "invite" /\ client[c].pc = "identified" =>
                /\ disk[Identity].is = "file"
                /\ disk[Identity].value = client[c].value
        /\ /\ client[c].op = "invite"
           /\ client[c].pc = "done"
              \/ Writes(c, Invite(client[c].with.invite), "done")
           => /\ disk[Identity].is = "file"
              /\ disk[Identity].value = client[c].value.pin
    BY <2>1 DEF Inv, Pinned
  <2>3. /\ client[c].op = "invite" =>
                /\ client[c].with.invite \in Invites
                /\ client[c].pc # "run"
                /\ Writing(c) =>
                    \/ Writes(c, Identity, "identified")
                    \/ Writes(c, Invite(client[c].with.invite), "done")
        /\ client[c].op = "consume" => client[c].with.invite \in Invites
        /\ client[c].op = "select" => client[c].with.selector \in Selectors
    BY <2>1 DEF Staged, Initializing, Enrolling, Inviting, Consuming,
                Selecting, Writing, Writes
  <2>4. CASE Dropped(c)
    <3>1. c \notin Active' /\ UNCHANGED <<disk, issued>>
      BY <2>4 DEF Dropped, Active, history
    <3>. QED BY <2>1, <2>2, <3>1 DEF Pinned
  <2>5. CASE Prepared(c)
    <3>1. /\ UNCHANGED <<disk, issued>> /\ client'[c].pc = "write"
          /\ client'[c].op = client[c].op /\ client'[c].with = client[c].with
      BY <2>5 DEF Prepared, Works, Steady, history
    <3>2. client'[c].file = Identity => issued = {}
      BY <2>2, <2>3, <2>5, FilesDiffer DEF Prepared
    <3>3. client[c].op = "invite"
              /\ client'[c].file = Invite(client[c].with.invite) =>
            /\ disk[Identity].is = "file"
            /\ disk[Identity].value = client'[c].value.pin
      BY <2>2, <2>3, <2>5, FilesDiffer DEF Prepared
    <3>. QED BY <2>1, <2>2, <3>1, <3>2, <3>3 DEF Pinned, Writing, Writes
  <2>6. CASE Taken(c)
    <3>1. /\ UNCHANGED <<disk, issued>>
          /\ client'[c].pc \notin {"write", "fill"}
          /\ client'[c].op = client[c].op
      BY <2>6 DEF Taken, Works, Steady, history
    <3>2. client[c].op = "invite" =>
            /\ client'[c].pc = "identified"
            /\ disk[Identity].is = "file"
            /\ client'[c].value = disk[Identity].value
      BY <2>6 DEF Taken
    <3>. QED BY <2>1, <2>2, <3>1, <3>2 DEF Pinned, Writing, Writes
  <2>7. CASE Truncated(c)
    <3>1. /\ UNCHANGED issued
          /\ client[c].pc = "write" /\ client'[c].pc = "fill"
          /\ client'[c].op = client[c].op /\ client'[c].with = client[c].with
          /\ client'[c].file = client[c].file
          /\ client'[c].value = client[c].value
          /\ client'[c].then = client[c].then
          /\ disk'[client[c].file] = Torn
          /\ \A f \in Files \ {client[c].file} : disk'[f] = disk[f]
      BY <2>7 DEF Truncated, Stored, Works, Steady, history
    <3>2. CASE client[c].file = Identity
      <4>1. disk'[Identity].is = "torn"
        BY <3>1, <3>2 DEF Torn
      <4>2. client[c].op = "invite" =>
                client[c].file # Invite(client[c].with.invite)
        BY <2>3, <3>2, FilesDiffer
      <4>. QED BY <2>1, <2>2, <3>1, <4>1, <4>2 DEF Pinned, Writing, Writes
    <3>3. CASE client[c].file # Identity
      <4>1. disk'[Identity] = disk[Identity]
        BY <3>1, <3>3, FilesDiffer
      <4>. QED BY <2>1, <2>2, <3>1, <3>3, <4>1 DEF Pinned, Writing, Writes
    <3>. QED BY <3>2, <3>3
  <2>8. CASE Filled(c)
    <3>1. /\ UNCHANGED issued
          /\ client[c].pc = "fill" /\ client'[c].pc = client[c].then
          /\ client'[c].op = client[c].op /\ client'[c].with = client[c].with
          /\ client'[c].value = client[c].value
          /\ disk'[client[c].file] = File(client[c].value)
          /\ \A f \in Files \ {client[c].file} : disk'[f] = disk[f]
          /\ Writing(c)
      BY <2>8 DEF Filled, Stored, Works, Steady, history, Writing
    <3>2. client[c].then \notin {"write", "fill"}
      BY <2>1, <3>1 DEF Staged, Initializing, Enrolling, Inviting, Consuming,
                        Selecting, Writes
    <3>3. CASE client[c].file = Identity
      <4>1. issued = {}
        BY <2>2, <3>1, <3>3
      <4>2. /\ disk'[Identity].is = "file"
            /\ disk'[Identity].value = client[c].value
        BY <3>1, <3>3 DEF File
      <4>3. client[c].op = "invite" => client[c].then = "identified"
        BY <2>3, <3>1, <3>3, FilesDiffer DEF Writes
      <4>. QED BY <2>1, <3>1, <3>2, <4>1, <4>2, <4>3
               DEF Pinned, Writing, Writes
    <3>4. CASE client[c].file # Identity
      <4>1. disk'[Identity] = disk[Identity]
        BY <3>1, <3>4, FilesDiffer
      <4>2. client[c].op = "invite" =>
                /\ client[c].then = "done"
                /\ disk[Identity].is = "file"
                /\ disk[Identity].value = client[c].value.pin
        BY <2>2, <2>3, <3>1, <3>4 DEF Writes
      <4>. QED BY <2>1, <2>2, <3>1, <3>2, <4>1, <4>2
               DEF Pinned, Writing, Writes
    <3>. QED BY <3>3, <3>4
  <2>9. CASE Answered(c)
    <3>1. /\ c \notin Active' /\ UNCHANGED disk
          /\ client[c].pc \in {"done", "run"}
          /\ issued' = IF client[c].op = "invite"
                       THEN issued \cup {client[c].value.pin} ELSE issued
      BY <2>9 DEF Answered, Answer, Active
    <3>2. client[c].op = "invite" =>
                /\ disk[Identity].is = "file"
                /\ disk[Identity].value = client[c].value.pin
      BY <2>2, <2>3, <3>1
    <3>. QED BY <2>1, <2>2, <3>1, <3>2 DEF Pinned
  <2>. QED BY <1>4, <2>4, <2>5, <2>6, <2>7, <2>8, <2>9 DEF Moves
<1>. QED BY <1>3, <1>4

(* An invite is accepted only by the command that wrote it as used.        *)
LEMMA AcceptedKept ==
  ASSUME Inv, [Next]_vars
  PROVE  Accepted'
<1>1. Quiet \/ \E c \in Clients : Moves(c)
  BY NextDoes
<1>2. CASE Quiet
  BY <1>2 DEF Quiet, history, Inv, Accepted, Active, Writing
<1> SUFFICES ASSUME NEW c \in Clients, Moves(c), ~overlap'
             PROVE  Accepted'
  BY <1>1, <1>2 DEF Accepted
<1> DEFINE i == client[c].with.invite
<1>3. CASE Started(c)
  <2>1. /\ Active = {} /\ ~overlap /\ UNCHANGED <<disk, accepted>>
    BY <1>3 DEF Started, Begun, history
  <2>2. \A d \in Active' : d = c
    BY <1>3, <2>1 DEF Started, Begun, Active
  <2>3. \A j \in Invites :
            /\ accepted[j] <= 1
            /\ accepted[j] # 0 =>
                /\ disk[Invite(j)].is # "absent"
                /\ disk[Invite(j)].is = "file" => disk[Invite(j)].value.used
    BY <2>1 DEF Inv, Accepted
  <2>4. /\ client'[c].op = "invite" => accepted[client'[c].with.invite] = 0
        /\ client'[c].op = "consume" => client'[c].pc = "check"
    BY <1>3, <2>3 DEF Started
  <2>. QED BY <2>1, <2>2, <2>3, <2>4 DEF Accepted, Writing
<1>4. CASE ~Started(c)
  <2>1. /\ c \in Active /\ Staged(c)
        /\ ~overlap /\ \A d \in Active' : d = c
    BY <1>4, LoneStep
  <2>2. /\ \A j \in Invites :
            /\ accepted[j] <= 1
            /\ accepted[j] # 0 =>
                /\ disk[Invite(j)].is # "absent"
                /\ disk[Invite(j)].is = "file" => disk[Invite(j)].value.used
        /\ client[c].op = "invite" => accepted[i] = 0
        /\ client[c].op = "consume" /\ (Writing(c) \/ client[c].pc = "done") =>
                accepted[i] = 0
        /\ client[c].op = "consume" /\ Writing(c) => client[c].value.used
        /\ client[c].op = "consume" /\ client[c].pc = "done" =>
                disk[Invite(i)].is = "file" /\ disk[Invite(i)].value.used
    BY <2>1 DEF Inv, Accepted
  <2>3. /\ client[c].op = "invite" => i \in Invites
        /\ client[c].op = "consume" =>
                /\ i \in Invites
                /\ client[c].pc # "run"
                /\ Writing(c) => /\ client[c].file = Invite(i)
                                 /\ client[c].then = "done"
    BY <2>1 DEF Staged, Initializing, Enrolling, Inviting, Consuming,
                Selecting, Writing, Writes
  <2>4. CASE Dropped(c)
    <3>1. c \notin Active' /\ UNCHANGED <<disk, accepted>>
      BY <2>4 DEF Dropped, Active, history
    <3>. QED BY <2>1, <2>2, <3>1 DEF Accepted
  <2>5. CASE Prepared(c)
    <3>1. /\ UNCHANGED <<disk, accepted>> /\ client'[c].pc = "write"
          /\ client'[c].op = client[c].op /\ client'[c].with = client[c].with
      BY <2>5 DEF Prepared, Works, Steady, history
    <3>2. client[c].op = "consume" =>
            /\ disk[Invite(i)].is = "file" /\ ~disk[Invite(i)].value.used
            /\ client'[c].value.used
      BY <2>5 DEF Prepared
    <3>. QED BY <2>1, <2>2, <2>3, <3>1, <3>2 DEF Accepted
  <2>6. CASE Taken(c)
    <3>1. /\ UNCHANGED <<disk, accepted>> /\ client[c].op # "consume"
          /\ client'[c].op = client[c].op /\ client'[c].with = client[c].with
      BY <2>6 DEF Taken, Works, Steady, history
    <3>. QED BY <2>1, <2>2, <3>1 DEF Accepted
  <2>7. CASE Truncated(c)
    <3>1. /\ UNCHANGED accepted /\ client'[c].pc = "fill" /\ Writing(c)
          /\ client'[c].op = client[c].op /\ client'[c].with = client[c].with
          /\ client'[c].value = client[c].value
          /\ disk'[client[c].file] = Torn
          /\ \A f \in Files \ {client[c].file} : disk'[f] = disk[f]
      BY <2>7 DEF Truncated, Stored, Works, Steady, history, Writing
    <3>2. \A j \in Invites : \/ disk'[Invite(j)].is = "torn"
                             \/ disk'[Invite(j)] = disk[Invite(j)]
      BY <3>1, FilesDiffer DEF Torn
    <3>. QED BY <2>1, <2>2, <3>1, <3>2 DEF Accepted
  <2>8. CASE Filled(c)
    <3>1. /\ UNCHANGED accepted /\ client'[c].pc = client[c].then
          /\ client'[c].op = client[c].op /\ client'[c].with = client[c].with
          /\ disk'[client[c].file] = File(client[c].value)
          /\ \A f \in Files \ {client[c].file} : disk'[f] = disk[f]
          /\ Writing(c)
      BY <2>8 DEF Filled, Stored, Works, Steady, history, Writing
    <3>2. \A j \in Invites : client[c].file = Invite(j) => accepted[j] = 0
      BY <2>1, <2>2, <2>3, <3>1, WritesFile, FilesDiffer DEF Inv
    <3>3. \A j \in Invites :
            accepted[j] # 0 => disk'[Invite(j)] = disk[Invite(j)]
      BY <3>1, <3>2, FilesDiffer
    <3>4. client[c].op = "consume" =>
            /\ client'[c].pc = "done"
            /\ disk'[Invite(i)].is = "file" /\ disk'[Invite(i)].value.used
      BY <2>2, <2>3, <3>1 DEF File
    <3>5. client'[c].op = "consume" => ~Writing(c)'
      BY <3>1, <3>4 DEF Writing
    <3>. QED BY <2>1, <2>2, <3>1, <3>3, <3>4, <3>5 DEF Accepted
  <2>9. CASE Answered(c)
    <3>1. /\ c \notin Active' /\ UNCHANGED disk
          /\ client[c].pc \in {"done", "run"}
          /\ accepted' = IF client[c].op = "consume"
                         THEN [accepted EXCEPT ![i] = accepted[i] + 1]
                         ELSE accepted
      BY <2>9 DEF Answered, Answer, Active
    <3>2. accepted \in [Invites -> Nat]
      BY DEF Inv, Shape
    <3>3. CASE client[c].op = "consume"
      <4>1. /\ i \in Invites /\ accepted[i] = 0
            /\ disk[Invite(i)].is = "file" /\ disk[Invite(i)].value.used
        BY <2>2, <2>3, <3>1, <3>3
      <4>2. PICK k : k = i
        OBVIOUS
      <4>3. accepted' = [accepted EXCEPT ![k] = accepted[k] + 1]
        BY <3>1, <3>3, <4>2
      <4>4. /\ accepted'[k] = 1
            /\ \A j \in Invites \ {k} : accepted'[j] = accepted[j]
        BY <3>2, <4>1, <4>2, <4>3
      <4>. QED BY <2>1, <2>2, <3>1, <4>1, <4>2, <4>4 DEF Accepted
    <3>4. CASE client[c].op # "consume"
      BY <2>1, <2>2, <3>1, <3>4 DEF Accepted
    <3>. QED BY <3>3, <3>4
  <2>. QED BY <1>4, <2>4, <2>5, <2>6, <2>7, <2>8, <2>9 DEF Moves
<1>. QED BY <1>3, <1>4

----------------------------------------------------------------------------
(* A lone selection is of the registry as it is.                           *)

(* Nobody writes the registry or the inventory of a selection that is      *)
(* alone.                                                                  *)
LEMMA SelectionKept ==
  ASSUME Inv, [Next]_vars
  PROVE  Selection'
<1>1. Quiet \/ \E c \in Clients : Moves(c)
  BY NextDoes
<1>2. CASE Quiet
  BY <1>2 DEF Quiet, Inv, Selection, Active, Writing, Current, Content
<1> SUFFICES ASSUME NEW c \in Clients, Moves(c), NEW a \in Active',
                    client'[a].op = "select", client'[a].alone
             PROVE  /\ Writing(a)' => Current(a, client[a].value)'
                    /\ client'[a].pc = "use" =>
                        LET f == Inventory(client[a].with.selector)
                        IN  (disk[f].is = "file" /\ Current(a, disk[f].value))'
                    /\ client'[a].pc = "run" => Current(a, client[a].value)'
  BY <1>1, <1>2 DEF Selection
<1>3. CASE Started(c)
  <2>1. a = c
    BY <1>3 DEF Started, Begun, Active
  <2>. QED BY <1>3, <2>1 DEF Started, Writing
<1>4. CASE ~Started(c)
  <2>1. Others(c) /\ overlap' = overlap /\ c \in Active
    BY <1>4 DEF Moves, Dropped, Prepared, Taken, Truncated, Filled, Stored,
                Answered, Answer, Active, Works, Steady
  <2>2. a = c
    BY <2>1, Sole DEF Inv
  <2>3. Works(c)
    BY <1>4, <2>2 DEF Moves, Dropped, Prepared, Taken, Truncated, Filled,
                      Stored, Answered, Active
  <2>4. /\ client[c].op = "select" /\ client[c].alone
        /\ client'[c].op = "select" /\ client'[c].with = client[c].with
    BY <2>2, <2>3 DEF Works, Steady
  <2> DEFINE s == client[c].with.selector
  <2>5. /\ s \in Selectors
        /\ Writing(c) => Writes(c, Inventory(s), "use")
    BY <2>1, <2>4 DEF Inv, Stages, Initializing, Enrolling, Inviting,
                      Consuming, Selecting, Writes, Writing
  <2>6. /\ Writing(c) => Current(c, client[c].value)
        /\ client[c].pc = "use" => /\ disk[Inventory(s)].is = "file"
                                   /\ Current(c, disk[Inventory(s)].value)
    BY <2>1, <2>4 DEF Inv, Selection
  <2>7. ASSUME disk'[Registry] = disk[Registry], NEW targets
        PROVE  Current(c, targets) =>
                 /\ targets # {}
                 /\ targets = Selected(Content(Registry)',
                                       client'[c].with.selector)
    BY <2>4, <2>7 DEF Current, Content
  <2>8. CASE Prepared(c)
    <3>1. /\ UNCHANGED disk /\ client'[c].pc = "write"
          /\ Current(c, client'[c].value)
      BY <2>4, <2>8 DEF Prepared, Current
    <3>. QED BY <2>2, <2>7, <3>1 DEF Current
  <2>9. CASE Taken(c)
    <3>1. /\ UNCHANGED disk /\ client'[c].pc = "run"
          /\ Current(c, client'[c].value)
      BY <2>4, <2>6, <2>9 DEF Taken
    <3>. QED BY <2>2, <2>7, <3>1 DEF Current, Writing
  <2>10. CASE Truncated(c)
    <3>1. /\ Writing(c) /\ client'[c].pc = "fill"
          /\ client'[c].value = client[c].value
          /\ \A f \in Files \ {client[c].file} : disk'[f] = disk[f]
      BY <2>10 DEF Truncated, Stored, Writing
    <3>2. disk'[Registry] = disk[Registry]
      BY <2>5, <3>1, FilesDiffer DEF Writes
    <3>. QED BY <2>2, <2>6, <2>7, <3>1, <3>2 DEF Current
  <2>11. CASE Filled(c)
    <3>1. /\ Writing(c) /\ client'[c].pc = client[c].then
          /\ disk'[client[c].file] = File(client[c].value)
          /\ \A f \in Files \ {client[c].file} : disk'[f] = disk[f]
      BY <2>11 DEF Filled, Stored, Writing
    <3>2. client[c].file = Inventory(s) /\ client'[c].pc = "use"
      BY <2>5, <3>1 DEF Writes
    <3>3. disk'[Registry] = disk[Registry]
      BY <2>5, <3>1, <3>2, FilesDiffer
    <3>4. /\ disk'[Inventory(s)].is = "file"
          /\ disk'[Inventory(s)].value = client[c].value
      BY <3>1, <3>2 DEF File
    <3>. QED BY <2>2, <2>4, <2>6, <2>7, <3>1, <3>2, <3>3, <3>4
             DEF Current, Writing
  <2>12. ~Dropped(c) /\ ~Answered(c)
    BY <2>2 DEF Dropped, Answered, Active
  <2>. QED BY <1>4, <2>8, <2>9, <2>10, <2>11, <2>12 DEF Moves
<1>. QED BY <1>3, <1>4

----------------------------------------------------------------------------
(* The theorems.                                                           *)

(* The invariant holds initially and is kept by every step.                *)
LEMMA InvHolds == Spec => []Inv
<1>1. Init => Inv
  <2> SUFFICES ASSUME Init
               PROVE  Inv
    OBVIOUS
  <2>1. \A c \in Clients : client[c].pc = "idle" /\ IsClient(client[c])
    BY DEF Init, Idle, IsClient
  <2>2. Active = {}
    BY <2>1 DEF Active
  <2>3. \A f \in Files : disk[f].is = "absent"
    BY DEF Init, Absent
  <2>4. Shape
    BY <2>1 DEF Init, Shape
  <2>5. EnrollmentKept
    BY DEF Init, EnrollmentKept, Empty
  <2>6. Pinned /\ Invitations /\ Accepted
    BY <2>2, <2>3, FilesDiffer DEF Init, Pinned, Invitations, Accepted
  <2>7. Alone /\ Stages /\ Enrolled /\ Selection
    BY <2>2 DEF Alone, Stages, Enrolled, Selection
  <2>. QED BY <2>4, <2>5, <2>6, <2>7 DEF Inv
<1>2. Inv /\ [Next]_vars => Inv'
  BY ShapeKept, AloneKept, StagesKept, EnrolledKept, PinnedKept,
     InvitationsKept, AcceptedKept, SelectionKept DEF Inv
<1>. QED BY <1>1, <1>2, PTL DEF Spec

(* An enrollment that was acknowledged stays in every registry that can be *)
(* read, as it was enrolled last, while commands do not overlap            *)
(* (upsert_managed_fleet_target, initialize_managed_fleet_registry).       *)
THEOREM SpecEnrollmentKept == Spec => []EnrollmentKept
<1>1. Inv => EnrollmentKept
  BY DEF Inv
<1>. QED BY <1>1, InvHolds, PTL

(* While commands do not overlap an invite is accepted at most once, over  *)
(* all kills, and every invite carries the pin of the identity on disk     *)
(* (verify_and_consume_managed_fleet_invite, ensure_controller_identity).  *)
THEOREM SpecInvitesHold == Spec => []InvitesHold
<1>1. Inv => InvitesHold
  BY DEF Inv, Pinned, Accepted, InvitesHold
<1>. QED BY <1>1, InvHolds, PTL

(* A fleet command that overlapped no other runs on targets of the         *)
(* registry that its selector names and that are not revoked               *)
(* (materialize_managed_fleet_inventory).                                  *)
THEOREM SpecSelectionCurrent == Spec => []SelectionCurrent
<1>1. ASSUME Inv, NEW c \in Clients, At(c, "run"), client[c].alone
      PROVE  LET s == client[c].with.selector
             IN  /\ client[c].value # {}
                 /\ \A t \in client[c].value :
                     /\ t \in DOMAIN Content(Registry)
                     /\ Content(Registry)[t].trust # "revoked"
                     /\ s.by = "target" => t = s.value
                     /\ s.by = "tag" => s.value \in Content(Registry)[t].tags
  <2>1. c \in Active /\ client[c].pc = "run"
    BY <1>1 DEF At, Active
  <2>2. client[c].op = "select"
    BY <1>1, <2>1 DEF Inv, Stages, Initializing, Enrolling, Inviting,
                      Consuming, Selecting, Writes, Writing
  <2>3. Current(c, client[c].value)
    BY <1>1, <2>1, <2>2 DEF Inv, Selection
  <2>. QED BY <2>3 DEF Current, Selected
<1>2. Inv => SelectionCurrent
  BY <1>1 DEF SelectionCurrent
<1>. QED BY <1>2, InvHolds, PTL

=============================================================================

--------------------------- MODULE FleetRunsProofs ---------------------------
(* The proofs of FleetRuns: a sealed run is intact, and the evidence of a  *)
(* fleet run is complete and backed by the files that it refers to.        *)
(*                                                                         *)
(* The inductive invariant has five parts.  TypeInv says of each command   *)
(* which files it is about to write, which is what the invariants of the   *)
(* disk need: the four kinds are RunTodo, SealTodo, TargetTodo and FinalTodo. *)
(* AskedInv ties the matrix of a command to the inventory that it was asked *)
(* for.  RunInv(r) follows a run id that was used once from the command that *)
(* makes it to the one that seals it, and FleetInv(f) a fleet id that was  *)
(* used once, with each captured row either still to be written or on disk *)
(* with nobody about to write over it.                                     *)

EXTENDS FleetRuns, TLAPS

----------------------------------------------------------------------------
(* The inductive invariant: what a command knows of itself.                *)

Fields == {"pc", "n", "op", "fleet", "inventory", "matrix",
           "todo", "at", "run", "then"}

Writing     == {"write", "fill"}
FleetOps    == {"capture", "snapshot", "investigate", "preflight"}
TargetNames == {"evidence_index", "service_investigation"}
FleetNames  == {"fleet_evidence", "service_investigation"}

Reports == {"captured", "ready", "unsupported", "collector_failed"}
Rows    == [target : TargetIds, status : Statuses \cup Reports,
            ref : Files \cup {NoRef}]

(* The files that a command is writing are those of a run,                 *)
RunTodo(x) ==
    /\ x.run \in Runs
    /\ \E mode \in Modes, seen \in Observations :
          x.todo = RunWrites(mode, x.run, x.n, seen)

(* its manifest,                                                           *)
SealTodo(x) ==
    /\ x.run = NoRun
    /\ \E r \in Runs :
          x.todo = <<Write(RunFile(r, "manifest"), x.todo[1].value)>>

(* what a target has answered,                                             *)
Pack(x, t, name) == Write(TargetFile(x.fleet, t, name), [by |-> x.n])

TargetTodo(x) ==
    /\ x.run = NoRun /\ x.op \in FleetOps /\ x.then = "target"
    /\ \E t \in TargetIds, name \in TargetNames :
          \/ x.todo = <<Pack(x, t, name)>>
          \/ x.todo = <<Write(ServiceState, [by |-> x.n]),
                        Write(ServicePack, [by |-> x.n]), Pack(x, t, name)>>

(* or the evidence of the fleet run, once all its targets are done.        *)
FinalTodo(x) ==
    /\ x.run = NoRun /\ x.op \in FleetOps /\ x.then = "done"
    /\ \E name \in FleetNames :
          x.todo = <<Write(FleetFile(x.fleet, name),
                           FleetEvidence(x.n, x.matrix))>>

CommandInv(x) ==
    /\ DOMAIN x = Fields
    /\ x.pc \in {"idle", "target", "seal", "done"} \cup Writing
    /\ x.n \in Nat
    /\ x.op \in {"none", "run"} \cup FleetOps
    /\ x.op \in FleetOps => x.fleet \in FleetIds /\ x.inventory \in Inventories
    /\ x.matrix \in Seq(Rows)
    /\ x.then \in {"target", "done"}
    /\ x.then = "target" => x.op \in FleetOps
    /\ x.pc = "target" => x.then = "target"
    /\ x.pc \in Writing =>
        /\ x.at \in DOMAIN x.todo
        /\ RunTodo(x) \/ SealTodo(x) \/ TargetTodo(x) \/ FinalTodo(x)
    /\ x.pc \notin Writing => x.todo = <<>>
    /\ x.pc = "seal" => x.run \in Runs
    /\ x.pc \notin Writing \cup {"seal"} => x.run = NoRun
    /\ x.pc = "idle" => x = Idle

TypeInv ==
    /\ DOMAIN disk = Files
    /\ DOMAIN client = Clients
    /\ requests \in Nat
    /\ captures \in [Runs -> Nat]
    /\ fleets \in [FleetIds -> Nat]
    /\ asked \in Seq(Nat \X Inventories)
    /\ \A c \in Clients : CommandInv(client[c])

----------------------------------------------------------------------------
(* A step of a command changes that command only.                          *)

Only(c) == /\ DOMAIN client' = Clients
           /\ \A d \in Clients \ {c} : client'[d] = client[d]

(* What EXCEPT does to the commands.                                       *)
LEMMA Turned ==
    ASSUME DOMAIN client = Clients, NEW c \in Clients, NEW y,
           client' = [client EXCEPT ![c] = y]
    PROVE  client'[c] = y /\ Only(c)
  BY DEF Only

(* Doing sets out on a list of files, or goes on at once.                  *)
LEMMA DoingIs ==
    ASSUME NEW x, DOMAIN x = Fields, NEW todo, NEW run, NEW then,
           NEW y, y = Doing(x, todo, run, then)
    PROVE  /\ DOMAIN y = Fields
           /\ y.pc = IF todo = <<>> THEN then ELSE "write"
           /\ y.todo = todo /\ y.at = 1 /\ y.run = run /\ y.then = then
           /\ y.n = x.n /\ y.op = x.op /\ y.fleet = x.fleet
           /\ y.inventory = x.inventory /\ y.matrix = x.matrix
  BY DEF Doing, Fields

(* Written goes on to the next file, or to what comes after the last.      *)
LEMMA WrittenIs ==
    ASSUME NEW x, DOMAIN x = Fields, NEW y, y = Written(x)
    PROVE  /\ DOMAIN y = Fields
           /\ y.run = x.run /\ y.then = x.then
           /\ y.n = x.n /\ y.op = x.op /\ y.fleet = x.fleet
           /\ y.inventory = x.inventory /\ y.matrix = x.matrix
           /\ x.at + 1 \in DOMAIN x.todo =>
                y.pc = "write" /\ y.at = x.at + 1 /\ y.todo = x.todo
           /\ x.at + 1 \notin DOMAIN x.todo =>
                /\ y.pc = IF x.run # NoRun THEN "seal" ELSE x.then
                /\ y.todo = <<>> /\ y.at = 1
  BY DEF Written, Fields

(* An idle process knows nothing.                                          *)
LEMMA IdleIs ==
    /\ DOMAIN Idle = Fields
    /\ Idle.pc = "idle" /\ Idle.n = 0 /\ Idle.op = "none" /\ Idle.fleet = NoRun
    /\ Idle.inventory = <<>> /\ Idle.matrix = <<>> /\ Idle.todo = <<>>
    /\ Idle.at = 1 /\ Idle.run = NoRun /\ Idle.then = "done"
  BY DEF Idle, Fields

(* and is well typed.                                                      *)
LEMMA IdleFits == CommandInv(Idle)
  <1>1. <<>> \in Seq(Rows)
    OBVIOUS
  <1> QED BY <1>1, IdleIs DEF CommandInv, Writing, FleetOps

(* The files of a run, in order.                                           *)
LEMMA RunWritesAre ==
    ASSUME NEW mode \in Modes, NEW r, NEW n, NEW seen \in Observations,
           NEW todo, todo = RunWrites(mode, r, n, seen)
    PROVE  /\ DOMAIN todo = 1 .. 3 /\ todo # <<>>
           /\ todo[1].file = RunFile(r, "raw")
           /\ todo[2].file = RunFile(r, "evidence_index")
           /\ todo[3].file = RunFile(r, "overhead_report")
           /\ \A k \in 1 .. 3 : todo[k].value.by = n
           /\ todo[2].value.evidence = Evidence(mode, seen)
  <1>1. /\ DOMAIN todo = 1 .. 3
        /\ RunFiles[1] = "raw" /\ RunFiles[2] = "evidence_index"
        /\ RunFiles[3] = "overhead_report"
    BY DEF RunWrites, RunFiles
  <1>2. /\ todo[1] = Write(RunFile(r, "raw"), [by |-> n])
        /\ todo[2] = Write(RunFile(r, "evidence_index"),
                          [by |-> n, evidence |-> Evidence(mode, seen)])
        /\ todo[3] = Write(RunFile(r, "overhead_report"), [by |-> n])
    BY <1>1 DEF RunWrites
  <1>3. todo # <<>>
    BY <1>1
  <1>4. \A k \in 1 .. 3 : k = 1 \/ k = 2 \/ k = 3
    OBVIOUS
  <1> QED BY <1>1, <1>2, <1>3, <1>4 DEF Write

----------------------------------------------------------------------------
(* What the actions do to a command, with the records taken apart.         *)

(* The files that rows refer to.                                           *)
LEMMA RefsAreFiles ==
    ASSUME NEW f \in FleetIds, NEW t \in TargetIds
    PROVE  /\ RunName(f, t) \in Runs
           /\ RunFile(RunName(f, t), "evidence_index") \in Files
           /\ \A name \in TargetNames : TargetFile(f, t, name) \in Files
  <1>1. RunName(f, t) \in Runs
    BY DEF Runs
  <1>2. "evidence_index" \in Range(RunFiles)
    BY DEF Range, RunFiles
  <1>3. RunFile(RunName(f, t), "evidence_index") \in Files
    BY <1>1, <1>2 DEF Files
  <1>4. \A name \in TargetNames : TargetFile(f, t, name) \in Files
    BY DEF Files, TargetNames
  <1> QED BY <1>1, <1>3, <1>4

(* A command that has targets left is at one of its inventory.             *)
LEMMA TargetAt ==
    ASSUME TypeInv, NEW c \in Clients, Pending(c)
    PROVE  /\ client[c].op \in FleetOps /\ client[c].fleet \in FleetIds
           /\ client[c].inventory \in Inventories
           /\ client[c].matrix \in Seq(Rows)
           /\ client[c].pc = "target" /\ client[c].then = "target"
           /\ client[c].todo = <<>> /\ client[c].run = NoRun
           /\ Len(client[c].matrix) + 1 \in 1 .. Len(client[c].inventory)
           /\ CurrentTarget(c) \in Targets
           /\ CurrentTarget(c).id \in TargetIds
  <1>1. CommandInv(client[c]) /\ client[c].pc = "target"
        /\ Len(client[c].matrix) < Len(client[c].inventory)
    BY DEF TypeInv, Pending, At
  <1>2. /\ client[c].op \in FleetOps /\ client[c].fleet \in FleetIds
        /\ client[c].inventory \in Inventories
        /\ client[c].matrix \in Seq(Rows)
        /\ client[c].then = "target"
        /\ client[c].todo = <<>> /\ client[c].run = NoRun
    BY <1>1 DEF CommandInv, Writing
  <1>3. client[c].inventory \in Seq(Targets)
    BY <1>2, RunsAssumption
  <1>4. Len(client[c].matrix) + 1 \in 1 .. Len(client[c].inventory)
    BY <1>1, <1>2, <1>3
  <1>5. CurrentTarget(c) \in Targets
    BY <1>3, <1>4 DEF CurrentTarget
  <1>6. CurrentTarget(c).id \in TargetIds
    BY <1>2, <1>3, <1>4 DEF CurrentTarget, TargetIds
  <1> QED BY <1>1, <1>2, <1>4, <1>5, <1>6

(* The command c has added a row for its current target.                   *)
Grown(c, row) ==
    LET x == client[c]
        y == client'[c]
    IN  /\ Only(c)
        /\ DOMAIN y = Fields
        /\ y.n = x.n /\ y.op = x.op /\ y.fleet = x.fleet
        /\ y.inventory = x.inventory /\ y.matrix = Append(x.matrix, row)
        /\ y.then = "target" /\ y.at = 1
        /\ y.pc = IF y.todo = <<>> THEN "target" ELSE "write"
        /\ row \in Rows /\ row.target = CurrentTarget(c).id

(* The command has its row, its files and its run, and nothing else new.   *)
LEMMA ReportedIs ==
    ASSUME TypeInv, NEW c \in Clients, NEW row \in Rows,
           row.target = CurrentTarget(c).id,
           NEW todo, NEW run, Reported(c, row, todo, run)
    PROVE  Grown(c, row) /\ client'[c].todo = todo /\ client'[c].run = run
  <1> DEFINE x == client[c]
             z == [x EXCEPT !.matrix = Append(client[c].matrix, row)]
             y == Doing(z, todo, run, "target")
  <1>1. DOMAIN client = Clients /\ DOMAIN x = Fields
    BY DEF TypeInv, CommandInv
  <1>2. client' = [client EXCEPT ![c] = y]
    BY <1>1 DEF Reported
  <1>3. /\ DOMAIN z = Fields /\ z.matrix = Append(x.matrix, row)
        /\ z.n = x.n /\ z.op = x.op /\ z.fleet = x.fleet
        /\ z.inventory = x.inventory
    BY <1>1 DEF Fields
  <1> HIDE DEF z
  <1>4. /\ DOMAIN y = Fields
        /\ y.pc = IF todo = <<>> THEN "target" ELSE "write"
        /\ y.todo = todo /\ y.at = 1 /\ y.run = run /\ y.then = "target"
        /\ y.n = z.n /\ y.op = z.op /\ y.fleet = z.fleet
        /\ y.inventory = z.inventory /\ y.matrix = z.matrix
    BY <1>3, DoingIs
  <1> HIDE DEF y
  <1>5. client'[c] = y /\ Only(c)
    BY <1>1, <1>2, Turned
  <1> QED BY <1>3, <1>4, <1>5 DEF Grown

(* Its target was captured here,                                           *)
CapturedHere(c, row) ==
    LET x == client[c]
        r == RunName(x.fleet, CurrentTarget(c).id)
    IN  /\ Grown(c, row)
        /\ row.ref = RunFile(r, "evidence_index")
        /\ client'[c].run = r
        /\ \E mode \in Modes, seen \in Observations :
              client'[c].todo = RunWrites(mode, r, x.n, seen)
        /\ captures' = [captures EXCEPT ![r] = @ + 1]

(* has answered,                                                           *)
Answered(c, row) ==
    LET x == client[c]
        t == CurrentTarget(c).id
    IN  /\ Grown(c, row)
        /\ client'[c].run = NoRun
        /\ \E name \in TargetNames :
              /\ row.ref = TargetFile(x.fleet, t, name)
              /\ client'[c].todo \in
                    {<<Pack(x, t, name)>>,
                     <<Write(ServiceState, [by |-> x.n]),
                       Write(ServicePack, [by |-> x.n]), Pack(x, t, name)>>}
        /\ UNCHANGED captures

(* or leaves nothing.                                                      *)
Missed(c, row) ==
    /\ Grown(c, row)
    /\ row.status # "captured"
    /\ client'[c].run = NoRun /\ client'[c].todo = <<>>
    /\ UNCHANGED captures

Report(c) == RunLocal(c) \/ RunRemote(c) \/ Investigate(c) \/ Preflight(c)

(* A capture here.                                                         *)
LEMMA RunLocalDoes ==
    ASSUME TypeInv, NEW c \in Clients, RunLocal(c)
    PROVE  \E row : CapturedHere(c, row)
  <1> DEFINE t == CurrentTarget(c).id
             r == RunName(client[c].fleet, t)
             row == Row(t, "captured", RunFile(r, "evidence_index"))
  <1>1. Pending(c) /\ client[c].op \in {"capture", "snapshot"}
    BY DEF RunLocal
  <1>2. client[c].fleet \in FleetIds /\ t \in TargetIds
    BY <1>1, TargetAt
  <1>3. row \in Rows /\ row.target = t /\ row.ref = RunFile(r, "evidence_index")
    BY <1>2, RefsAreFiles DEF Row, Rows, Reports
  <1>4. PICK seen \in Observations :
            /\ Reported(c, row, RunWrites(client[c].op, r, client[c].n, seen), r)
            /\ captures' = [captures EXCEPT ![r] = @ + 1]
    BY DEF RunLocal
  <1> DEFINE todo == RunWrites(client[c].op, r, client[c].n, seen)
  <1> HIDE DEF row, todo
  <1>5. Grown(c, row) /\ client'[c].todo = todo /\ client'[c].run = r
    BY <1>3, <1>4, ReportedIs DEF todo
  <1>6. client[c].op \in Modes
    BY <1>1 DEF Modes
  <1> QED BY <1>3, <1>4, <1>5, <1>6 DEF CapturedHere, todo

(* An answer of a remote target, or none.                                  *)
LEMMA RunRemoteDoes ==
    ASSUME TypeInv, NEW c \in Clients, RunRemote(c)
    PROVE  \E row : Answered(c, row) \/ Missed(c, row)
  <1> DEFINE t == CurrentTarget(c).id
             file == TargetFile(client[c].fleet, t, "evidence_index")
             pack == <<Write(file, [by |-> client[c].n])>>
  <1>1. Pending(c) /\ UNCHANGED captures
    BY DEF RunRemote, history
  <1>2. client[c].fleet \in FleetIds /\ t \in TargetIds
    BY <1>1, TargetAt
  <1>3. ASSUME Reported(c, Row(t, "captured", file), pack, NoRun)
        PROVE  Answered(c, Row(t, "captured", file))
    <2> DEFINE row == Row(t, "captured", file)
    <2>1. row \in Rows /\ row.target = t /\ row.ref = file
      BY <1>2, RefsAreFiles DEF Row, Rows, Reports, TargetNames
    <2> HIDE DEF row, pack
    <2>2. Grown(c, row) /\ client'[c].todo = pack /\ client'[c].run = NoRun
      BY <2>1, <1>3, ReportedIs DEF row
    <2>3. pack = <<Pack(client[c], t, "evidence_index")>>
      BY DEF pack, Pack
    <2> QED BY <1>1, <2>1, <2>2, <2>3 DEF Answered, TargetNames, row
  <1>4. ASSUME NEW s \in Statuses \cup {"unsupported"},
               Reported(c, Row(t, s, NoRef), <<>>, NoRun)
        PROVE  Missed(c, Row(t, s, NoRef))
    <2> DEFINE row == Row(t, s, NoRef)
    <2>1. row \in Rows /\ row.target = t /\ row.status # "captured"
      BY <1>2, RunsAssumption DEF Row, Rows, Reports
    <2> HIDE DEF row
    <2>2. Grown(c, row) /\ client'[c].todo = <<>> /\ client'[c].run = NoRun
      BY <2>1, <1>4, ReportedIs DEF row
    <2> QED BY <1>1, <2>1, <2>2 DEF Missed, row
  <1>5. \/ Reported(c, Row(t, "captured", file), pack, NoRun)
        \/ \E s \in Statuses \cup {"unsupported"} :
              Reported(c, Row(t, s, NoRef), <<>>, NoRun)
    BY DEF RunRemote
  <1> QED BY <1>3, <1>4, <1>5

(* The pack of a service, or none.                                         *)
LEMMA InvestigateDoes ==
    ASSUME TypeInv, NEW c \in Clients, Investigate(c)
    PROVE  \E row : Answered(c, row) \/ Missed(c, row)
  <1> DEFINE t == CurrentTarget(c).id
             x == client[c]
             file == TargetFile(x.fleet, t, "service_investigation")
             one  == <<Pack(x, t, "service_investigation")>>
             all  == <<Write(ServiceState, [by |-> x.n]),
                       Write(ServicePack, [by |-> x.n]),
                       Pack(x, t, "service_investigation")>>
  <1>1. Pending(c) /\ UNCHANGED captures
    BY DEF Investigate, history
  <1>2. x.fleet \in FleetIds /\ t \in TargetIds
    BY <1>1, TargetAt
  <1>3. ASSUME NEW todo \in {one, all},
               Reported(c, Row(t, "captured", file), todo, NoRun)
        PROVE  Answered(c, Row(t, "captured", file))
    <2> DEFINE row == Row(t, "captured", file)
    <2>1. row \in Rows /\ row.target = t /\ row.ref = file
      BY <1>2, RefsAreFiles DEF Row, Rows, Reports, TargetNames
    <2> HIDE DEF row, one, all
    <2>2. Grown(c, row) /\ client'[c].todo = todo /\ client'[c].run = NoRun
      BY <2>1, <1>3, ReportedIs DEF row
    <2> QED BY <1>1, <2>1, <2>2 DEF Answered, TargetNames, row, one, all
  <1>4. ASSUME NEW s \in Statuses \cup {"unsupported", "collector_failed"},
               Reported(c, Row(t, s, NoRef), <<>>, NoRun)
        PROVE  Missed(c, Row(t, s, NoRef))
    <2> DEFINE row == Row(t, s, NoRef)
    <2>1. row \in Rows /\ row.target = t /\ row.status # "captured"
      BY <1>2, RunsAssumption DEF Row, Rows, Reports
    <2> HIDE DEF row
    <2>2. Grown(c, row) /\ client'[c].todo = <<>> /\ client'[c].run = NoRun
      BY <2>1, <1>4, ReportedIs DEF row
    <2> QED BY <1>1, <2>1, <2>2 DEF Missed, row
  <1>5. \/ \E todo \in {one, all} :
              Reported(c, Row(t, "captured", file), todo, NoRun)
        \/ \E s \in Statuses \cup {"unsupported", "collector_failed"} :
              Reported(c, Row(t, s, NoRef), <<>>, NoRun)
    BY DEF Investigate, Pack
  <1> QED BY <1>3, <1>4, <1>5

(* A preflight only asks.                                                  *)
LEMMA PreflightDoes ==
    ASSUME TypeInv, NEW c \in Clients, Preflight(c)
    PROVE  \E row : Missed(c, row)
  <1> DEFINE t == CurrentTarget(c).id
  <1>1. Pending(c) /\ UNCHANGED captures
    BY DEF Preflight, history
  <1>2. client[c].fleet \in FleetIds /\ t \in TargetIds
    BY <1>1, TargetAt
  <1>3. PICK s \in Statuses \cup {"ready", "unsupported"} :
            Reported(c, Row(t, s, NoRef), <<>>, NoRun)
    BY DEF Preflight
  <1> DEFINE row == Row(t, s, NoRef)
  <1>4. row \in Rows /\ row.target = t /\ row.status # "captured"
    BY <1>2, RunsAssumption DEF Row, Rows, Reports
  <1> HIDE DEF row
  <1>5. Grown(c, row) /\ client'[c].todo = <<>> /\ client'[c].run = NoRun
    BY <1>3, <1>4, ReportedIs DEF row
  <1> QED BY <1>1, <1>4, <1>5 DEF Missed

(* A target gets its row, and nothing is written yet.                      *)
LEMMA ReportDoes ==
    ASSUME TypeInv, NEW c \in Clients, Report(c)
    PROVE  /\ Pending(c) /\ UNCHANGED <<disk, requests, fleets, asked>>
           /\ \E row : \/ CapturedHere(c, row)
                       \/ Answered(c, row)
                       \/ Missed(c, row)
  <1>1. Pending(c) /\ UNCHANGED <<disk, requests, fleets, asked>>
    BY DEF Report, RunLocal, RunRemote, Investigate, Preflight, history
  <1> QED BY <1>1, RunLocalDoes, RunRemoteDoes, InvestigateDoes,
             PreflightDoes DEF Report

(* The process c is free again.                                            *)
Stopped(c) == client'[c] = Idle /\ Only(c)

(* A command that ends, or is killed, is forgotten and leaves the rest.    *)
LEMMA StopDoes ==
    ASSUME TypeInv, NEW c \in Clients, Reject(c) \/ Return(c) \/ Kill(c)
    PROVE  /\ Stopped(c)
           /\ UNCHANGED <<disk, requests, captures, fleets, asked>>
  <1>1. client' = [client EXCEPT ![c] = Idle]
    BY DEF Reject, Return, Kill, Fail
  <1>2. UNCHANGED <<disk, requests, captures, fleets, asked>>
    BY DEF Reject, Return, Kill, history
  <1>3. DOMAIN client = Clients
    BY DEF TypeInv
  <1> QED BY <1>1, <1>2, <1>3, Turned DEF Stopped

(* The process c makes the run r.                                          *)
StartedRun(c, r) ==
    LET y == client'[c]
    IN  /\ client[c] = Idle /\ Only(c) /\ DOMAIN y = Fields
        /\ y.pc = "write" /\ y.op = "run" /\ y.n = requests + 1
        /\ y.matrix = <<>> /\ y.at = 1 /\ y.run = r /\ y.then = "done"
        /\ \E mode \in Modes, seen \in Observations :
              y.todo = RunWrites(mode, r, y.n, seen)
        /\ requests' = requests + 1
        /\ captures' = [captures EXCEPT ![r] = @ + 1]
        /\ UNCHANGED <<disk, fleets, asked>>

(* A capture here counts its run, and sets out to write its files.         *)
LEMMA StartRunDoes ==
    ASSUME TypeInv, NEW c \in Clients, StartRun(c)
    PROVE  \E r \in LocalRuns : StartedRun(c, r)
  <1> DEFINE x == client[c]
             z == [x EXCEPT !.op = "run", !.n = requests + 1]
  <1>1. PICK r \in LocalRuns, mode \in Modes, seen \in Observations :
            /\ Begin(c)
            /\ client' = [client EXCEPT ![c] =
                    Doing(z, RunWrites(mode, r, requests + 1, seen), r, "done")]
            /\ captures' = [captures EXCEPT ![r] = @ + 1]
            /\ UNCHANGED <<fleets, asked>>
    BY DEF StartRun
  <1> DEFINE todo == RunWrites(mode, r, requests + 1, seen)
             y == Doing(z, todo, r, "done")
  <1>2. DOMAIN client = Clients /\ CommandInv(x) /\ x.pc = "idle"
    BY <1>1 DEF TypeInv, Begin, At
  <1>3. x = Idle /\ DOMAIN x = Fields /\ x.matrix = <<>>
    BY <1>2, IdleIs DEF CommandInv
  <1>4. /\ DOMAIN z = Fields /\ z.op = "run" /\ z.n = requests + 1
        /\ z.matrix = x.matrix
    BY <1>3 DEF Fields
  <1> HIDE DEF z
  <1>5. todo # <<>>
    BY RunWritesAre
  <1>6. /\ DOMAIN y = Fields /\ y.pc = "write" /\ y.todo = todo /\ y.at = 1
        /\ y.run = r /\ y.then = "done" /\ y.n = z.n /\ y.op = z.op
        /\ y.matrix = z.matrix
    <2> HIDE DEF todo
    <2> QED BY <1>4, <1>5, DoingIs
  <1>7. client' = [client EXCEPT ![c] = y]
    BY <1>1
  <1> HIDE DEF y
  <1>8. client'[c] = y /\ Only(c)
    BY <1>2, <1>7, Turned
  <1>9. y.todo = RunWrites(mode, r, y.n, seen)
    BY <1>4, <1>6
  <1>10. requests' = requests + 1 /\ UNCHANGED disk
    BY <1>1 DEF Begin
  <1>11. StartedRun(c, r)
    BY <1>1, <1>3, <1>4, <1>6, <1>8, <1>9, <1>10 DEF StartedRun
  <1> QED BY <1>11

(* The process c begins a fleet run of f.                                  *)
StartedFleet(c, f, inventory) ==
    LET y == client'[c]
    IN  /\ client[c] = Idle /\ Only(c) /\ DOMAIN y = Fields
        /\ y.pc = "target" /\ y.op \in FleetOps /\ y.n = requests + 1
        /\ y.fleet = f /\ y.inventory = inventory /\ y.matrix = <<>>
        /\ y.todo = <<>> /\ y.at = 1 /\ y.run = NoRun /\ y.then = "target"
        /\ requests' = requests + 1
        /\ fleets' = [fleets EXCEPT ![f] = @ + 1]
        /\ asked' = Append(asked, <<requests + 1, inventory>>)
        /\ UNCHANGED <<disk, captures>>

(* A fleet command begins with an empty matrix and a fleet id of its own.  *)
LEMMA StartFleetDoes ==
    ASSUME TypeInv, NEW c \in Clients, StartFleet(c)
    PROVE  \E f \in FleetIds, inventory \in Inventories :
              StartedFleet(c, f, inventory)
  <1> DEFINE x == client[c]
  <1>1. PICK f \in FleetIds, inventory \in Inventories, op \in FleetOps :
            /\ Begin(c)
            /\ client' = [client EXCEPT ![c] =
                    [x EXCEPT !.pc = "target", !.op = op, !.n = requests + 1,
                              !.fleet = f, !.inventory = inventory,
                              !.then = "target"]]
            /\ fleets' = [fleets EXCEPT ![f] = @ + 1]
            /\ asked' = Append(asked, <<requests + 1, inventory>>)
            /\ UNCHANGED captures
    BY DEF StartFleet, FleetOps
  <1> DEFINE y == [x EXCEPT !.pc = "target", !.op = op, !.n = requests + 1,
                            !.fleet = f, !.inventory = inventory,
                            !.then = "target"]
  <1>2. DOMAIN client = Clients /\ CommandInv(x) /\ x.pc = "idle"
    BY <1>1 DEF TypeInv, Begin, At
  <1>3. /\ x = Idle /\ DOMAIN x = Fields /\ x.matrix = <<>> /\ x.todo = <<>>
        /\ x.at = 1 /\ x.run = NoRun
    BY <1>2, IdleIs DEF CommandInv
  <1>4. client' = [client EXCEPT ![c] = y]
    BY <1>1
  <1>5. /\ DOMAIN y = Fields /\ y.pc = "target" /\ y.op = op
        /\ y.n = requests + 1 /\ y.fleet = f /\ y.inventory = inventory
        /\ y.matrix = x.matrix /\ y.todo = x.todo /\ y.at = x.at
        /\ y.run = x.run /\ y.then = "target"
    BY <1>3 DEF Fields
  <1> HIDE DEF y
  <1>6. client'[c] = y /\ Only(c)
    BY <1>2, <1>4, Turned
  <1>7. requests' = requests + 1 /\ UNCHANGED disk
    BY <1>1 DEF Begin
  <1>8. StartedFleet(c, f, inventory)
    BY <1>1, <1>3, <1>5, <1>6, <1>7 DEF StartedFleet
  <1> QED BY <1>8

(* All targets of the command c are done.                                  *)
Concluded(c) ==
    LET x == client[c]
        y == client'[c]
    IN  /\ Only(c) /\ DOMAIN y = Fields
        /\ x.pc = "target" /\ Len(x.inventory) <= Len(x.matrix)
        /\ y.n = x.n /\ y.op = x.op /\ y.fleet = x.fleet
        /\ y.inventory = x.inventory /\ y.matrix = x.matrix
        /\ y.at = 1 /\ y.run = NoRun /\ y.then = "done"
        /\ y.pc = IF y.todo = <<>> THEN "done" ELSE "write"
        /\ \/ y.todo = <<>>
           \/ \E name \in FleetNames :
                y.todo = <<Write(FleetFile(x.fleet, name),
                                 FleetEvidence(x.n, x.matrix))>>

(* With no target left, the evidence of all rows is to be written.         *)
LEMMA ConcludeDoes ==
    ASSUME TypeInv, NEW c \in Clients, Conclude(c)
    PROVE  /\ Concluded(c)
           /\ UNCHANGED <<disk, requests, captures, fleets, asked>>
  <1> DEFINE x == client[c]
             todo == Conclusion(c)
             y == Doing(x, todo, NoRun, "done")
  <1>1. /\ x.pc = "target" /\ ~ (Len(x.matrix) < Len(x.inventory))
        /\ client' = [client EXCEPT ![c] = y]
        /\ UNCHANGED <<disk, requests, captures, fleets, asked>>
    BY DEF Conclude, At, Pending, history
  <1>2. DOMAIN client = Clients /\ CommandInv(x) /\ DOMAIN x = Fields
    BY DEF TypeInv, CommandInv
  <1>3. x.matrix \in Seq(Rows) /\ x.inventory \in Seq(Targets)
    BY <1>1, <1>2, RunsAssumption DEF CommandInv
  <1>4. Len(x.inventory) <= Len(x.matrix)
    <2>1. Len(x.matrix) \in Nat /\ Len(x.inventory) \in Nat
      BY <1>3
    <2> QED BY <2>1, <1>1
  <1>5. \/ todo = <<>>
        \/ \E name \in FleetNames :
              todo = <<Write(FleetFile(x.fleet, name),
                             FleetEvidence(x.n, x.matrix))>>
    BY DEF Conclusion, FleetNames, Matrix
  <1> HIDE DEF todo
  <1>6. /\ DOMAIN y = Fields /\ y.pc = IF todo = <<>> THEN "done" ELSE "write"
        /\ y.todo = todo /\ y.at = 1 /\ y.run = NoRun /\ y.then = "done"
        /\ y.n = x.n /\ y.op = x.op /\ y.fleet = x.fleet
        /\ y.inventory = x.inventory /\ y.matrix = x.matrix
    BY <1>2, DoingIs
  <1> HIDE DEF y
  <1>7. client'[c] = y /\ Only(c)
    BY <1>1, <1>2, Turned
  <1> QED BY <1>1, <1>4, <1>5, <1>6, <1>7 DEF Concluded

(* What a command keeps while it writes.                                   *)
Same(c) ==
    LET x == client[c]
        y == client'[c]
    IN  /\ Only(c) /\ DOMAIN y = Fields
        /\ y.n = x.n /\ y.op = x.op /\ y.fleet = x.fleet
        /\ y.inventory = x.inventory /\ y.matrix = x.matrix
        /\ y.then = x.then

(* The file of the next write is torn, and nothing else changes.           *)
LEMMA TruncateDoes ==
    ASSUME TypeInv, NEW c \in Clients, Truncate(c)
    PROVE  /\ Same(c) /\ client[c].pc = "write" /\ client'[c].pc = "fill"
           /\ client'[c].todo = client[c].todo /\ client'[c].at = client[c].at
           /\ client'[c].run = client[c].run
           /\ disk' = [disk EXCEPT ![NextWrite(c).file] = Torn]
           /\ UNCHANGED <<requests, captures, fleets, asked>>
  <1> DEFINE x == client[c]
             y == [x EXCEPT !.pc = "fill"]
  <1>1. /\ x.pc = "write" /\ disk' = [disk EXCEPT ![NextWrite(c).file] = Torn]
        /\ client' = [client EXCEPT ![c] = y]
        /\ UNCHANGED <<requests, captures, fleets, asked>>
    BY DEF Truncate, At, Goto, history, TypeInv
  <1>2. DOMAIN client = Clients /\ DOMAIN x = Fields
    BY DEF TypeInv, CommandInv
  <1>3. /\ DOMAIN y = Fields /\ y.pc = "fill" /\ y.todo = x.todo
        /\ y.at = x.at /\ y.run = x.run /\ y.n = x.n /\ y.op = x.op
        /\ y.fleet = x.fleet /\ y.inventory = x.inventory
        /\ y.matrix = x.matrix /\ y.then = x.then
    BY <1>2 DEF Fields
  <1> HIDE DEF y
  <1>4. client'[c] = y /\ Only(c)
    BY <1>1, <1>2, Turned
  <1> QED BY <1>1, <1>3, <1>4 DEF Same

(* Another file of the list follows.                                       *)
More(c) ==
    LET x == client[c]
        y == client'[c]
    IN  /\ x.at + 1 \in DOMAIN x.todo
        /\ y.pc = "write" /\ y.at = x.at + 1 /\ y.todo = x.todo

(* It was the last one.                                                    *)
Last(c) ==
    LET x == client[c]
        y == client'[c]
    IN  /\ x.at + 1 \notin DOMAIN x.todo
        /\ y.pc = (IF x.run # NoRun THEN "seal" ELSE x.then)
        /\ y.todo = <<>> /\ y.at = 1

(* The next write is done, and the command goes on to the one after it.    *)
LEMMA FillDoes ==
    ASSUME TypeInv, NEW c \in Clients, Fill(c)
    PROVE  /\ Same(c) /\ client[c].pc = "fill"
           /\ client'[c].run = client[c].run
           /\ More(c) \/ Last(c)
           /\ disk' = [disk EXCEPT ![NextWrite(c).file] =
                            File(NextWrite(c).value)]
           /\ UNCHANGED <<requests, captures, fleets, asked>>
  <1> DEFINE x == client[c]
             y == Written(x)
  <1>1. /\ x.pc = "fill"
        /\ disk' = [disk EXCEPT ![NextWrite(c).file] =
                            File(NextWrite(c).value)]
        /\ client' = [client EXCEPT ![c] = y]
        /\ UNCHANGED <<requests, captures, fleets, asked>>
    BY DEF Fill, At, history, TypeInv
  <1>2. DOMAIN client = Clients /\ DOMAIN x = Fields
    BY DEF TypeInv, CommandInv
  <1>3. /\ DOMAIN y = Fields
        /\ y.run = x.run /\ y.then = x.then
        /\ y.n = x.n /\ y.op = x.op /\ y.fleet = x.fleet
        /\ y.inventory = x.inventory /\ y.matrix = x.matrix
        /\ x.at + 1 \in DOMAIN x.todo =>
             y.pc = "write" /\ y.at = x.at + 1 /\ y.todo = x.todo
        /\ x.at + 1 \notin DOMAIN x.todo =>
             /\ y.pc = IF x.run # NoRun THEN "seal" ELSE x.then
             /\ y.todo = <<>> /\ y.at = 1
    BY <1>2, WrittenIs
  <1> HIDE DEF y
  <1>4. client'[c] = y /\ Only(c)
    BY <1>1, <1>2, Turned
  <1>5. More(c) \/ Last(c)
    BY <1>3, <1>4 DEF More, Last
  <1>6. Same(c)
    BY <1>3, <1>4 DEF Same
  <1> QED BY <1>1, <1>3, <1>4, <1>5, <1>6

(* The manifest of what is on disk now is to be written.                   *)
LEMMA SealDoes ==
    ASSUME TypeInv, NEW c \in Clients, Seal(c)
    PROVE  /\ Same(c) /\ client[c].pc = "seal" /\ client[c].run \in Runs
           /\ client'[c].pc = "write" /\ client'[c].at = 1
           /\ client'[c].run = NoRun
           /\ client'[c].todo = <<Write(RunFile(client[c].run, "manifest"),
                                        Hashes(client[c].run))>>
           /\ UNCHANGED <<disk, requests, captures, fleets, asked>>
  <1> DEFINE x == client[c]
             todo == <<Write(RunFile(x.run, "manifest"), Hashes(x.run))>>
             y == Doing(x, todo, NoRun, x.then)
  <1>1. /\ x.pc = "seal"
        /\ client' = [client EXCEPT ![c] = y]
        /\ UNCHANGED <<disk, requests, captures, fleets, asked>>
    BY DEF Seal, At, history
  <1>2. /\ DOMAIN client = Clients /\ DOMAIN x = Fields
        /\ CommandInv(x) /\ x.run \in Runs
    BY <1>1 DEF TypeInv, CommandInv
  <1>3. todo # <<>>
    OBVIOUS
  <1> HIDE DEF todo
  <1>4. /\ DOMAIN y = Fields /\ y.pc = "write"
        /\ y.todo = todo /\ y.at = 1 /\ y.run = NoRun /\ y.then = x.then
        /\ y.n = x.n /\ y.op = x.op /\ y.fleet = x.fleet
        /\ y.inventory = x.inventory /\ y.matrix = x.matrix
    BY <1>2, <1>3, DoingIs
  <1> HIDE DEF y
  <1>5. client'[c] = y /\ Only(c)
    BY <1>1, <1>2, Turned
  <1> QED BY <1>1, <1>2, <1>4, <1>5 DEF Same, todo

----------------------------------------------------------------------------
(* The files to write.                                                     *)

(* A run is written as raw data, evidence and overhead, in this order.     *)
LEMMA RunTodoIs ==
    ASSUME NEW x, RunTodo(x)
    PROVE  /\ DOMAIN x.todo = 1 .. 3 /\ x.run \in Runs
           /\ x.todo[1].file = RunFile(x.run, "raw")
           /\ x.todo[2].file = RunFile(x.run, "evidence_index")
           /\ x.todo[3].file = RunFile(x.run, "overhead_report")
           /\ \A k \in 1 .. 3 : x.todo[k].value.by = x.n
  <1>1. PICK mode \in Modes, seen \in Observations :
            x.todo = RunWrites(mode, x.run, x.n, seen)
    BY DEF RunTodo
  <1> DEFINE todo == RunWrites(mode, x.run, x.n, seen)
  <1>2. /\ DOMAIN todo = 1 .. 3
        /\ todo[1].file = RunFile(x.run, "raw")
        /\ todo[2].file = RunFile(x.run, "evidence_index")
        /\ todo[3].file = RunFile(x.run, "overhead_report")
        /\ \A k \in 1 .. 3 : todo[k].value.by = x.n
    BY RunWritesAre
  <1> HIDE DEF todo
  <1>3. x.todo = todo /\ x.run \in Runs
    BY <1>1 DEF todo, RunTodo
  <1> QED BY <1>2, <1>3

(* The manifest of a run is written alone.                                 *)
LEMMA SealTodoIs ==
    ASSUME NEW x, SealTodo(x)
    PROVE  /\ DOMAIN x.todo = 1 .. 1 /\ x.run = NoRun
           /\ \E r \in Runs : x.todo[1].file = RunFile(r, "manifest")
  <1>0. PICK v : v = x.todo[1].value
    OBVIOUS
  <1>1. PICK r \in Runs : x.todo = <<Write(RunFile(r, "manifest"), v)>>
    BY <1>0 DEF SealTodo
  <1>2. x.todo[1] = Write(RunFile(r, "manifest"), v)
    BY <1>1
  <1> QED BY <1>1, <1>2 DEF Write, SealTodo

(* A target's answer is written last, after the pack of its session.       *)
LEMMA TargetTodoIs ==
    ASSUME NEW x, TargetTodo(x)
    PROVE  /\ x.run = NoRun /\ x.op \in FleetOps /\ x.then = "target"
           /\ \E t \in TargetIds, name \in TargetNames :
                \/ /\ DOMAIN x.todo = 1 .. 1
                   /\ x.todo[1].file = TargetFile(x.fleet, t, name)
                   /\ x.todo[1].value.by = x.n
                \/ /\ DOMAIN x.todo = 1 .. 3
                   /\ x.todo[1].file = ServiceState
                   /\ x.todo[2].file = ServicePack
                   /\ x.todo[3].file = TargetFile(x.fleet, t, name)
                   /\ x.todo[3].value.by = x.n
  <1>1. PICK t \in TargetIds, name \in TargetNames :
            \/ x.todo = <<Pack(x, t, name)>>
            \/ x.todo = <<Write(ServiceState, [by |-> x.n]),
                          Write(ServicePack, [by |-> x.n]), Pack(x, t, name)>>
    BY DEF TargetTodo
  <1>2. CASE x.todo = <<Pack(x, t, name)>>
    BY <1>2 DEF Pack, Write, TargetTodo
  <1>3. CASE x.todo = <<Write(ServiceState, [by |-> x.n]),
                        Write(ServicePack, [by |-> x.n]), Pack(x, t, name)>>
    <2>1. /\ DOMAIN x.todo = 1 .. 3
          /\ x.todo[1] = Write(ServiceState, [by |-> x.n])
          /\ x.todo[2] = Write(ServicePack, [by |-> x.n])
          /\ x.todo[3] = Pack(x, t, name)
      BY <1>3
    <2> QED BY <2>1 DEF Pack, Write, TargetTodo
  <1> QED BY <1>1, <1>2, <1>3

(* The evidence of a fleet run is written alone, with the matrix in it.    *)
LEMMA FinalTodoIs ==
    ASSUME NEW x, FinalTodo(x)
    PROVE  /\ x.run = NoRun /\ x.op \in FleetOps /\ x.then = "done"
           /\ DOMAIN x.todo = 1 .. 1
           /\ \E name \in FleetNames :
                x.todo[1].file = FleetFile(x.fleet, name)
           /\ x.todo[1].value = FleetEvidence(x.n, x.matrix)
  BY DEF FinalTodo, Write

(* They are files of the model, each written once.                         *)
LEMMA TodoIs ==
    ASSUME NEW x, CommandInv(x), x.pc \in Writing
    PROVE  /\ DOMAIN x.todo \in {1 .. 1, 1 .. 3}
           /\ x.at \in DOMAIN x.todo
           /\ \A k \in DOMAIN x.todo : x.todo[k].file \in Files
           /\ \A j, k \in DOMAIN x.todo :
                j # k => x.todo[j].file # x.todo[k].file
  <1>0. x.at \in DOMAIN x.todo
    BY DEF CommandInv
  <1>1. /\ "raw" \in Range(RunFiles) /\ "evidence_index" \in Range(RunFiles)
        /\ "overhead_report" \in Range(RunFiles)
    BY DEF Range, RunFiles
  <1>2. \A k \in 1 .. 3 : k = 1 \/ k = 2 \/ k = 3
    OBVIOUS
  <1>3. \A k \in 1 .. 1 : k = 1
    OBVIOUS
  <1>4. CASE RunTodo(x)
    <2>1. /\ DOMAIN x.todo = 1 .. 3 /\ x.run \in Runs
          /\ x.todo[1].file = RunFile(x.run, "raw")
          /\ x.todo[2].file = RunFile(x.run, "evidence_index")
          /\ x.todo[3].file = RunFile(x.run, "overhead_report")
      BY <1>4, RunTodoIs
    <2>2. \A k \in 1 .. 3 : x.todo[k].file \in Files
      BY <2>1, <1>1, <1>2 DEF Files
    <2>3. \A j, k \in 1 .. 3 : j # k => x.todo[j].file # x.todo[k].file
      BY <2>1, <1>2 DEF RunFile
    <2> QED BY <1>0, <2>1, <2>2, <2>3
  <1>5. CASE SealTodo(x)
    <2>1. PICK r \in Runs : x.todo[1].file = RunFile(r, "manifest")
      BY <1>5, SealTodoIs
    <2>2. x.todo[1].file \in Files
      BY <2>1 DEF Files
    <2> QED BY <1>0, <2>2, <1>3, <1>5, SealTodoIs
  <1>6. x.op \in FleetOps => x.fleet \in FleetIds
    BY DEF CommandInv
  <1>7. CASE TargetTodo(x)
    <2>1. PICK t \in TargetIds, name \in TargetNames :
            \/ /\ DOMAIN x.todo = 1 .. 1
               /\ x.todo[1].file = TargetFile(x.fleet, t, name)
            \/ /\ DOMAIN x.todo = 1 .. 3
               /\ x.todo[1].file = ServiceState
               /\ x.todo[2].file = ServicePack
               /\ x.todo[3].file = TargetFile(x.fleet, t, name)
      BY <1>7, TargetTodoIs
    <2>2. x.fleet \in FleetIds
      BY <1>6, <1>7 DEF TargetTodo
    <2>3. TargetFile(x.fleet, t, name) \in Files
      BY <2>2, RefsAreFiles
    <2>4. ServiceState \in Files /\ ServicePack \in Files
      BY DEF Files
    <2>5. \A k \in DOMAIN x.todo : x.todo[k].file \in Files
      BY <2>1, <2>3, <2>4, <1>2, <1>3
    <2>6. \A j, k \in DOMAIN x.todo : j # k => x.todo[j].file # x.todo[k].file
      <3>1. /\ ServiceState # ServicePack
            /\ ServiceState # TargetFile(x.fleet, t, name)
            /\ ServicePack # TargetFile(x.fleet, t, name)
        BY DEF ServiceState, ServicePack, TargetFile
      <3> QED BY <3>1, <2>1, <1>2, <1>3
    <2> QED BY <1>0, <2>1, <2>5, <2>6
  <1>8. CASE FinalTodo(x)
    <2>1. PICK name \in FleetNames : x.todo[1].file = FleetFile(x.fleet, name)
      BY <1>8, FinalTodoIs
    <2>2. x.fleet \in FleetIds
      BY <1>6, <1>8 DEF FinalTodo
    <2>3. x.todo[1].file \in Files
      BY <2>1, <2>2 DEF Files, FleetNames
    <2> QED BY <1>0, <2>3, <1>3, <1>8, FinalTodoIs
  <1> QED BY <1>4, <1>5, <1>7, <1>8 DEF CommandInv

----------------------------------------------------------------------------
(* Type correctness.                                                       *)

(* No command runs and no file exists.                                     *)
LEMMA TypeInit == Init => TypeInv
  <1> SUFFICES ASSUME Init PROVE TypeInv
    OBVIOUS
  <1>1. \A c \in Clients : CommandInv(client[c])
    BY IdleFits DEF Init
  <1>2. asked \in Seq(Nat \X Inventories)
    BY DEF Init
  <1> QED BY <1>1, <1>2 DEF Init, TypeInv

(* It is enough to look at the command that moves.                         *)
LEMMA TypeOnly ==
    ASSUME TypeInv, NEW c \in Clients, Only(c), CommandInv(client'[c])
    PROVE  DOMAIN client' = Clients
           /\ \A d \in Clients : CommandInv(client'[d])
  BY DEF TypeInv, Only

(* The fields that a command keeps stay well typed.                        *)
LEMMA GrownFits ==
    ASSUME TypeInv, NEW c \in Clients, Pending(c), NEW row, Grown(c, row),
           LET y == client'[c]
           IN  \/ y.todo = <<>> /\ y.run = NoRun
               \/ /\ y.todo # <<>> /\ 1 \in DOMAIN y.todo
                  /\ RunTodo(y) \/ TargetTodo(y)
    PROVE  CommandInv(client'[c])
  <1> DEFINE x == client[c]
  <1>0. PICK y : y = client'[c]
    OBVIOUS
  <1>1. CommandInv(x) /\ x.op \in FleetOps /\ x.matrix \in Seq(Rows)
    BY TargetAt DEF TypeInv
  <1>2. Append(x.matrix, row) \in Seq(Rows)
    BY <1>1 DEF Grown
  <1>3. /\ DOMAIN y = Fields /\ y.n = x.n /\ y.op = x.op /\ y.fleet = x.fleet
        /\ y.inventory = x.inventory /\ y.matrix \in Seq(Rows)
        /\ y.then = "target" /\ y.at = 1
        /\ y.pc = IF y.todo = <<>> THEN "target" ELSE "write"
    BY <1>0, <1>2 DEF Grown
  <1>4. /\ y.n \in Nat
        /\ y.op \in FleetOps /\ y.fleet \in FleetIds /\ y.inventory \in Inventories
    BY <1>1, <1>3 DEF CommandInv
  <1>5. ASSUME y.todo = <<>> /\ y.run = NoRun PROVE CommandInv(y)
    BY <1>3, <1>4, <1>5 DEF CommandInv, Writing
  <1>6. ASSUME y.todo # <<>>, 1 \in DOMAIN y.todo,
               RunTodo(y) \/ TargetTodo(y)
        PROVE  CommandInv(y)
    BY <1>3, <1>4, <1>6 DEF CommandInv, Writing
  <1> QED BY <1>0, <1>5, <1>6

(* An answer is to be written.                                             *)
LEMMA AnsweredTodo ==
    ASSUME TypeInv, NEW c \in Clients, Pending(c), NEW row, Answered(c, row)
    PROVE  LET y == client'[c]
           IN  /\ y.todo # <<>> /\ 1 \in DOMAIN y.todo /\ TargetTodo(y)
               /\ y.pc = "write"
  <1> DEFINE x == client[c]
             t == CurrentTarget(c).id
  <1>0. PICK y : y = client'[c]
    OBVIOUS
  <1>1. /\ x.op \in FleetOps /\ t \in TargetIds
        /\ y.n = x.n /\ y.op = x.op /\ y.fleet = x.fleet /\ y.then = "target"
        /\ y.pc = IF y.todo = <<>> THEN "target" ELSE "write"
    BY <1>0, TargetAt DEF Grown, Answered
  <1>2. PICK name \in TargetNames :
            y.todo \in {<<Pack(x, t, name)>>,
                     <<Write(ServiceState, [by |-> x.n]),
                       Write(ServicePack, [by |-> x.n]), Pack(x, t, name)>>}
    BY <1>0 DEF Answered
  <1>3. y.todo # <<>> /\ 1 \in DOMAIN y.todo
    <2>1. \A a : <<a>> # <<>> /\ 1 \in DOMAIN <<a>>
      OBVIOUS
    <2>2. \A a, b, d : <<a, b, d>> # <<>> /\ 1 \in DOMAIN <<a, b, d>>
      OBVIOUS
    <2> QED BY <1>2, <2>1, <2>2
  <1>4. y.run = NoRun
    BY <1>0 DEF Answered
  <1>5. Pack(y, t, name) = Pack(x, t, name)
    BY <1>1 DEF Pack
  <1>6. TargetTodo(y)
    BY <1>1, <1>2, <1>4, <1>5 DEF TargetTodo
  <1> QED BY <1>0, <1>1, <1>3, <1>6

(* A row keeps the commands well typed.                                    *)
LEMMA TypeReport ==
    ASSUME TypeInv, NEW c \in Clients, Report(c)
    PROVE  TypeInv'
  <1> DEFINE x == client[c]
             y == client'[c]
             t == CurrentTarget(c).id
  <1>1. /\ Pending(c) /\ UNCHANGED <<disk, requests, fleets, asked>>
        /\ \E row : CapturedHere(c, row) \/ Answered(c, row) \/ Missed(c, row)
    BY ReportDoes
  <1>2. PICK row :
            CapturedHere(c, row) \/ Answered(c, row) \/ Missed(c, row)
    BY <1>1
  <1>3. Grown(c, row)
    BY <1>2 DEF CapturedHere, Answered, Missed
  <1>4. /\ x.op \in FleetOps /\ x.fleet \in FleetIds /\ t \in TargetIds
        /\ y.n = x.n /\ y.op = x.op /\ y.fleet = x.fleet /\ y.then = "target"
    BY <1>1, <1>3, TargetAt DEF Grown
  <1>5. CASE CapturedHere(c, row)
    <2> DEFINE r == RunName(x.fleet, t)
    <2>1. r \in Runs
      BY <1>4, RefsAreFiles
    <2>2. PICK mode \in Modes, seen \in Observations :
              y.todo = RunWrites(mode, r, x.n, seen) /\ y.run = r
      BY <1>5 DEF CapturedHere
    <2>3. y.todo # <<>> /\ 1 \in DOMAIN y.todo
      BY <2>2, RunWritesAre
    <2>4. RunTodo(y)
      BY <1>4, <2>1, <2>2 DEF RunTodo
    <2>5. CommandInv(y)
      BY <1>1, <1>3, <2>3, <2>4, GrownFits
    <2>6. captures' \in [Runs -> Nat]
      BY <1>5, <2>1 DEF TypeInv, CapturedHere
    <2> QED BY <1>1, <1>3, <2>5, <2>6, TypeOnly DEF TypeInv, Grown
  <1>6. CASE Answered(c, row)
    <2>1. y.todo # <<>> /\ 1 \in DOMAIN y.todo /\ TargetTodo(y)
      BY <1>1, <1>6, AnsweredTodo
    <2>2. CommandInv(y)
      BY <1>1, <1>3, <2>1, GrownFits
    <2> QED BY <1>1, <1>3, <1>6, <2>2, TypeOnly DEF TypeInv, Grown, Answered
  <1>7. CASE Missed(c, row)
    <2>1. CommandInv(y)
      BY <1>1, <1>3, <1>7, GrownFits DEF Missed
    <2> QED BY <1>1, <1>3, <1>7, <2>1, TypeOnly DEF TypeInv, Grown, Missed
  <1> QED BY <1>2, <1>5, <1>6, <1>7

(* A new command is well typed.                                            *)
LEMMA TypeStart ==
    ASSUME TypeInv, NEW c \in Clients, StartRun(c) \/ StartFleet(c)
    PROVE  TypeInv'
  <1> DEFINE y == client'[c]
  <1>0. requests \in Nat /\ requests + 1 \in Nat /\ <<>> \in Seq(Rows)
    BY DEF TypeInv
  <1>1. CASE StartRun(c)
    <2>1. PICK r \in LocalRuns : StartedRun(c, r)
      BY <1>1, StartRunDoes
    <2>2. r \in Runs
      BY DEF Runs
    <2>3. PICK mode \in Modes, seen \in Observations :
              y.todo = RunWrites(mode, r, y.n, seen)
      BY <2>1 DEF StartedRun
    <2>4. 1 \in DOMAIN y.todo
      BY <2>3, RunWritesAre
    <2>5. RunTodo(y)
      BY <2>1, <2>2, <2>3 DEF RunTodo, StartedRun
    <2>6. CommandInv(y)
      BY <1>0, <2>1, <2>4, <2>5
      DEF CommandInv, StartedRun, Writing, FleetOps
    <2>7. captures' \in [Runs -> Nat]
      BY <2>1, <2>2 DEF TypeInv, StartedRun
    <2> QED BY <1>0, <2>1, <2>6, <2>7, TypeOnly DEF TypeInv, StartedRun
  <1>2. CASE StartFleet(c)
    <2>1. PICK f \in FleetIds, inventory \in Inventories :
              StartedFleet(c, f, inventory)
      BY <1>2, StartFleetDoes
    <2>2. CommandInv(y)
      BY <1>0, <2>1 DEF CommandInv, StartedFleet, Writing
    <2>3. fleets' \in [FleetIds -> Nat]
      BY <2>1 DEF TypeInv, StartedFleet
    <2>4. asked' \in Seq(Nat \X Inventories)
      BY <1>0, <2>1 DEF TypeInv, StartedFleet
    <2> QED BY <1>0, <2>1, <2>2, <2>3, <2>4, TypeOnly DEF TypeInv, StartedFleet
  <1> QED BY <1>1, <1>2

(* A command that writes its evidence is well typed.                       *)
LEMMA TypeConclude ==
    ASSUME TypeInv, NEW c \in Clients, Conclude(c)
    PROVE  TypeInv'
  <1> DEFINE x == client[c]
             y == client'[c]
  <1>1. Concluded(c) /\ UNCHANGED <<disk, requests, captures, fleets, asked>>
    BY ConcludeDoes
  <1>2. CommandInv(x)
    BY DEF TypeInv
  <1>3. /\ DOMAIN y = Fields /\ x.pc = "target"
        /\ y.n = x.n /\ y.op = x.op /\ y.fleet = x.fleet
        /\ y.inventory = x.inventory /\ y.matrix = x.matrix
        /\ y.at = 1 /\ y.run = NoRun /\ y.then = "done"
        /\ y.pc = IF y.todo = <<>> THEN "done" ELSE "write"
    BY <1>1 DEF Concluded
  <1>4. /\ y.n \in Nat /\ y.op \in FleetOps /\ y.fleet \in FleetIds
        /\ y.inventory \in Inventories /\ y.matrix \in Seq(Rows)
    BY <1>2, <1>3 DEF CommandInv
  <1>5. CommandInv(y)
    <2>1. CASE y.todo = <<>>
      BY <1>3, <1>4, <2>1 DEF CommandInv, Writing
    <2>2. CASE y.todo # <<>>
      <3>1. PICK name \in FleetNames :
                y.todo = <<Write(FleetFile(x.fleet, name),
                                 FleetEvidence(x.n, x.matrix))>>
        BY <1>1, <2>2 DEF Concluded
      <3>2. 1 \in DOMAIN y.todo
        BY <3>1
      <3>3. FinalTodo(y)
        BY <1>3, <1>4, <3>1 DEF FinalTodo
      <3> QED BY <1>3, <1>4, <2>2, <3>2, <3>3 DEF CommandInv, Writing
    <2> QED BY <2>1, <2>2
  <1> QED BY <1>1, <1>5, TypeOnly DEF TypeInv, Concluded

(* Writing on keeps a command well typed.                                  *)
LEMMA SameTodo ==
    ASSUME NEW x, NEW y, y.todo = x.todo, y.run = x.run, y.n = x.n,
           y.op = x.op, y.fleet = x.fleet, y.matrix = x.matrix,
           y.then = x.then,
           RunTodo(x) \/ SealTodo(x) \/ TargetTodo(x) \/ FinalTodo(x)
    PROVE  RunTodo(y) \/ SealTodo(y) \/ TargetTodo(y) \/ FinalTodo(y)
  BY DEF RunTodo, SealTodo, TargetTodo, FinalTodo, Pack

(* Writing and sealing keep the commands well typed.                       *)
LEMMA TypeWrite ==
    ASSUME TypeInv, NEW c \in Clients, Truncate(c) \/ Fill(c) \/ Seal(c)
    PROVE  TypeInv'
  <1> DEFINE x == client[c]
  <1>0. PICK y : y = client'[c]
    OBVIOUS
  <1>1. CommandInv(x) /\ DOMAIN disk = Files
    BY DEF TypeInv
  <1>2. Same(c)
    BY TruncateDoes, FillDoes, SealDoes
  <1>3. /\ DOMAIN y = Fields
        /\ y.n = x.n /\ y.op = x.op /\ y.fleet = x.fleet
        /\ y.inventory = x.inventory /\ y.matrix = x.matrix
        /\ y.then = x.then
    BY <1>0, <1>2 DEF Same
  <1>4. /\ y.n \in Nat /\ y.op \in {"none", "run"} \cup FleetOps
        /\ y.op \in FleetOps => y.fleet \in FleetIds /\ y.inventory \in Inventories
        /\ y.matrix \in Seq(Rows) /\ y.then \in {"target", "done"}
        /\ y.then = "target" => y.op \in FleetOps
    BY <1>1, <1>3 DEF CommandInv
  <1>5. /\ DOMAIN disk' = Files
        /\ UNCHANGED <<requests, captures, fleets, asked>>
    BY <1>1, TruncateDoes, FillDoes, SealDoes
  <1>6. CASE Truncate(c)
    <2>1. /\ x.pc = "write" /\ y.pc = "fill" /\ y.todo = x.todo
          /\ y.at = x.at /\ y.run = x.run
      BY <1>0, <1>6, TruncateDoes
    <2>2. /\ x.at \in DOMAIN x.todo
          /\ RunTodo(x) \/ SealTodo(x) \/ TargetTodo(x) \/ FinalTodo(x)
      BY <1>1, <2>1 DEF CommandInv, Writing
    <2>3. RunTodo(y) \/ SealTodo(y) \/ TargetTodo(y) \/ FinalTodo(y)
      BY <1>3, <2>1, <2>2, SameTodo
    <2>4. CommandInv(y)
      BY <1>3, <1>4, <2>1, <2>2, <2>3 DEF CommandInv, Writing
    <2> QED BY <1>0, <1>2, <1>5, <2>4, TypeOnly DEF TypeInv, Same
  <1>7. CASE Fill(c)
    <2>1. /\ x.pc = "fill" /\ y.run = x.run
          /\ More(c) \/ Last(c)
      BY <1>0, <1>7, FillDoes
    <2>2. /\ x.at \in DOMAIN x.todo
          /\ RunTodo(x) \/ SealTodo(x) \/ TargetTodo(x) \/ FinalTodo(x)
      BY <1>1, <2>1 DEF CommandInv, Writing
    <2>3. CASE More(c)
      <3>1. y.pc = "write" /\ y.at \in DOMAIN y.todo /\ y.todo = x.todo
        BY <1>0, <2>3 DEF More
      <3>2. RunTodo(y) \/ SealTodo(y) \/ TargetTodo(y) \/ FinalTodo(y)
        BY <1>3, <2>1, <2>2, <3>1, SameTodo
      <3>3. CommandInv(y)
        BY <1>3, <1>4, <3>1, <3>2 DEF CommandInv, Writing
      <3> QED BY <1>0, <1>2, <1>5, <3>3, TypeOnly DEF TypeInv, Same
    <2>4. CASE Last(c)
      <3>1. y.todo = <<>> /\ y.pc = IF x.run # NoRun THEN "seal" ELSE x.then
        BY <1>0, <2>4 DEF Last
      <3>2. x.run # NoRun => x.run \in Runs
        BY <2>2 DEF RunTodo, SealTodo, TargetTodo, FinalTodo
      <3>3. CommandInv(y)
        BY <1>3, <1>4, <2>1, <3>1, <3>2 DEF CommandInv, Writing
      <3> QED BY <1>0, <1>2, <1>5, <3>3, TypeOnly DEF TypeInv, Same
    <2> QED BY <2>1, <2>3, <2>4
  <1>8. CASE Seal(c)
    <2> DEFINE v == Hashes(x.run)
    <2>1. /\ x.run \in Runs /\ y.pc = "write" /\ y.at = 1 /\ y.run = NoRun
          /\ y.todo = <<Write(RunFile(x.run, "manifest"), v)>>
      BY <1>0, <1>8, SealDoes
    <2> HIDE DEF v
    <2>2. y.todo[1].value = v /\ 1 \in DOMAIN y.todo
      BY <2>1 DEF Write
    <2>3. SealTodo(y)
      BY <2>1, <2>2 DEF SealTodo
    <2>4. CommandInv(y)
      BY <1>3, <1>4, <2>1, <2>2, <2>3 DEF CommandInv, Writing
    <2> QED BY <1>0, <1>2, <1>5, <2>4, TypeOnly DEF TypeInv, Same
  <1> QED BY <1>6, <1>7, <1>8

(* A command that stops is an idle one.                                    *)
LEMMA TypeStop ==
    ASSUME TypeInv, NEW c \in Clients, Reject(c) \/ Return(c) \/ Kill(c)
    PROVE  TypeInv'
  <1>1. Stopped(c) /\ UNCHANGED <<disk, requests, captures, fleets, asked>>
    BY StopDoes
  <1>2. CommandInv(client'[c])
    BY <1>1, IdleFits DEF Stopped
  <1> QED BY <1>1, <1>2, TypeOnly DEF TypeInv, Stopped

(* Every step keeps the type invariant.                                    *)
LEMMA TypeStep ==
    ASSUME TypeInv, Next
    PROVE  TypeInv'
  <1>1. PICK c \in Clients :
            \/ StartRun(c) \/ StartFleet(c) \/ Report(c) \/ Conclude(c)
            \/ Truncate(c) \/ Fill(c) \/ Seal(c)
            \/ Reject(c) \/ Return(c) \/ Kill(c)
    BY DEF Next, Report
  <1> QED BY <1>1, TypeStart, TypeReport, TypeConclude, TypeWrite, TypeStop

----------------------------------------------------------------------------
(* Who writes what: the evidence of a fleet run,                           *)
LEMMA FleetWriter ==
    ASSUME NEW x, CommandInv(x), x.pc \in Writing, NEW k \in DOMAIN x.todo,
           NEW f, NEW name, x.todo[k].file = FleetFile(f, name)
    PROVE  FinalTodo(x) /\ x.fleet = f /\ k = 1
  <1>1. \A j \in 1 .. 3 : j = 1 \/ j = 2 \/ j = 3
    OBVIOUS
  <1>2. \A j \in 1 .. 1 : j = 1
    OBVIOUS
  <1>3. ~ RunTodo(x)
    BY <1>1, RunTodoIs DEF RunFile, FleetFile
  <1>4. ~ SealTodo(x)
    BY <1>2, SealTodoIs DEF RunFile, FleetFile
  <1>5. ~ TargetTodo(x)
    <2> SUFFICES ASSUME TargetTodo(x) PROVE FALSE
      OBVIOUS
    <2>1. PICK t, m :
            \/ DOMAIN x.todo = 1 .. 1 /\ x.todo[1].file = TargetFile(x.fleet, t, m)
            \/ /\ DOMAIN x.todo = 1 .. 3
               /\ x.todo[1].file = ServiceState
               /\ x.todo[2].file = ServicePack
               /\ x.todo[3].file = TargetFile(x.fleet, t, m)
      BY TargetTodoIs
    <2>2. /\ FleetFile(f, name) # ServiceState
          /\ FleetFile(f, name) # ServicePack
          /\ FleetFile(f, name) # TargetFile(x.fleet, t, m)
      BY DEF FleetFile, ServiceState, ServicePack, TargetFile
    <2> QED BY <2>1, <2>2, <1>1, <1>2
  <1>6. FinalTodo(x)
    BY <1>3, <1>4, <1>5 DEF CommandInv
  <1>7. k = 1 /\ \E m : x.todo[1].file = FleetFile(x.fleet, m)
    BY <1>2, <1>6, FinalTodoIs
  <1> QED BY <1>6, <1>7 DEF FleetFile

(* what a target has answered,                                             *)
LEMMA TargetWriter ==
    ASSUME NEW x, CommandInv(x), x.pc \in Writing, NEW k \in DOMAIN x.todo,
           NEW f, NEW t, NEW name, x.todo[k].file = TargetFile(f, t, name)
    PROVE  TargetTodo(x) /\ x.fleet = f /\ x.todo[k].value.by = x.n
  <1>1. \A j \in 1 .. 3 : j = 1 \/ j = 2 \/ j = 3
    OBVIOUS
  <1>2. \A j \in 1 .. 1 : j = 1
    OBVIOUS
  <1>3. ~ RunTodo(x)
    BY <1>1, RunTodoIs DEF RunFile, TargetFile
  <1>4. ~ SealTodo(x)
    BY <1>2, SealTodoIs DEF RunFile, TargetFile
  <1>5. ~ FinalTodo(x)
    BY <1>2, FinalTodoIs DEF FleetFile, TargetFile
  <1>6. TargetTodo(x)
    BY <1>3, <1>4, <1>5 DEF CommandInv
  <1>7. PICK s, m :
            \/ /\ DOMAIN x.todo = 1 .. 1
               /\ x.todo[1].file = TargetFile(x.fleet, s, m)
               /\ x.todo[1].value.by = x.n
            \/ /\ DOMAIN x.todo = 1 .. 3
               /\ x.todo[1].file = ServiceState
               /\ x.todo[2].file = ServicePack
               /\ x.todo[3].file = TargetFile(x.fleet, s, m)
               /\ x.todo[3].value.by = x.n
    BY <1>6, TargetTodoIs
  <1>8. /\ TargetFile(f, t, name) # ServiceState
        /\ TargetFile(f, t, name) # ServicePack
    BY DEF ServiceState, ServicePack, TargetFile
  <1>9. x.todo[k].file = TargetFile(x.fleet, s, m) /\ x.todo[k].value.by = x.n
    BY <1>1, <1>2, <1>7, <1>8
  <1> QED BY <1>6, <1>9 DEF TargetFile

(* and the files of a run, its manifest by another command than the rest.  *)
LEMMA RunWriter ==
    ASSUME NEW x, CommandInv(x), x.pc \in Writing, NEW k \in DOMAIN x.todo,
           NEW r, NEW name, x.todo[k].file = RunFile(r, name)
    PROVE  IF name = "manifest" THEN SealTodo(x) /\ k = 1
           ELSE RunTodo(x) /\ x.run = r /\ x.todo[k].value.by = x.n
  <1>1. \A j \in 1 .. 3 : j = 1 \/ j = 2 \/ j = 3
    OBVIOUS
  <1>2. \A j \in 1 .. 1 : j = 1
    OBVIOUS
  <1>3. ~ TargetTodo(x)
    <2> SUFFICES ASSUME TargetTodo(x) PROVE FALSE
      OBVIOUS
    <2>1. PICK t, m :
            \/ DOMAIN x.todo = 1 .. 1 /\ x.todo[1].file = TargetFile(x.fleet, t, m)
            \/ /\ DOMAIN x.todo = 1 .. 3
               /\ x.todo[1].file = ServiceState
               /\ x.todo[2].file = ServicePack
               /\ x.todo[3].file = TargetFile(x.fleet, t, m)
      BY TargetTodoIs
    <2>2. /\ RunFile(r, name) # ServiceState
          /\ RunFile(r, name) # ServicePack
          /\ RunFile(r, name) # TargetFile(x.fleet, t, m)
      BY DEF RunFile, ServiceState, ServicePack, TargetFile
    <2> QED BY <2>1, <2>2, <1>1, <1>2
  <1>4. ~ FinalTodo(x)
    BY <1>2, FinalTodoIs DEF FleetFile, RunFile
  <1>5. CASE RunTodo(x)
    <2>1. /\ DOMAIN x.todo = 1 .. 3
          /\ x.todo[1].file = RunFile(x.run, "raw")
          /\ x.todo[2].file = RunFile(x.run, "evidence_index")
          /\ x.todo[3].file = RunFile(x.run, "overhead_report")
          /\ x.todo[k].value.by = x.n
      BY <1>5, RunTodoIs
    <2>2. x.run = r /\ name # "manifest"
      BY <2>1, <1>1 DEF RunFile
    <2> QED BY <1>5, <2>1, <2>2
  <1>6. CASE SealTodo(x)
    <2>1. k = 1 /\ \E s : x.todo[1].file = RunFile(s, "manifest")
      BY <1>2, <1>6, SealTodoIs
    <2>2. name = "manifest"
      BY <2>1 DEF RunFile
    <2> QED BY <1>6, <2>1, <2>2
  <1> QED BY <1>3, <1>4, <1>5, <1>6 DEF CommandInv

(* Truncate and Fill change the file that they are at only.                *)
LEMMA WriteAt ==
    ASSUME TypeInv, NEW c \in Clients, Truncate(c) \/ Fill(c)
    PROVE  /\ CommandInv(client[c]) /\ client[c].pc \in Writing
           /\ client[c].at \in DOMAIN client[c].todo
           /\ NextWrite(c).file \in Files
           /\ NextWrite(c) = client[c].todo[client[c].at]
           /\ \A g \in Files : g # NextWrite(c).file => disk'[g] = disk[g]
           /\ Truncate(c) => disk'[NextWrite(c).file] = Torn
           /\ Fill(c) =>
                disk'[NextWrite(c).file] = File(NextWrite(c).value)
  <1>1. CommandInv(client[c]) /\ DOMAIN disk = Files
    BY DEF TypeInv
  <1>2. client[c].pc \in Writing
    BY TruncateDoes, FillDoes DEF Writing
  <1>3. /\ client[c].at \in DOMAIN client[c].todo
        /\ NextWrite(c).file \in Files
        /\ NextWrite(c) = client[c].todo[client[c].at]
    BY <1>1, <1>2, TodoIs DEF NextWrite
  <1>4. CASE Truncate(c)
    <2>1. disk' = [disk EXCEPT ![NextWrite(c).file] = Torn]
      BY <1>4, TruncateDoes
    <2>2. ~ Fill(c)
      BY <1>4, TruncateDoes, FillDoes
    <2> QED BY <1>1, <1>2, <1>3, <2>1, <2>2
  <1>5. CASE Fill(c)
    <2>1. disk' = [disk EXCEPT ![NextWrite(c).file] = File(NextWrite(c).value)]
      BY <1>5, FillDoes
    <2>2. ~ Truncate(c)
      BY <1>5, TruncateDoes, FillDoes
    <2> QED BY <1>1, <1>2, <1>3, <2>1, <2>2
  <1> QED BY <1>4, <1>5

----------------------------------------------------------------------------
(* A fleet run was asked for, its rows are those of the targets so far,    *)
(* and it concludes when all have one.                                     *)
AskedFor(x, history_) ==
    x.op \in FleetOps =>
        /\ \E k \in DOMAIN history_ : history_[k] = <<x.n, x.inventory>>
        /\ Len(x.matrix) <= Len(x.inventory)
        /\ \A i \in DOMAIN x.matrix : x.matrix[i].target = x.inventory[i].id
        /\ x.then = "done" => Len(x.matrix) = Len(x.inventory)

AskedInv == \A c \in Clients : AskedFor(client[c], asked)

(* An evidence accounts for an inventory that was asked for.               *)
Complete(v, history_) ==
    \E k \in DOMAIN history_ :
        /\ history_[k][1] = v.by
        /\ Len(v.matrix) = Len(history_[k][2])
        /\ \A i \in DOMAIN v.matrix :
            /\ v.matrix[i].target = history_[k][2][i].id
            /\ \/ v.matrix[i].status = "captured"
               \/ <<v.matrix[i].target, v.matrix[i].status>> \in v.debts

(* What was asked for is not forgotten.                                    *)
LEMMA AskedGrows ==
    ASSUME NEW S, NEW past \in Seq(S), NEW now,
           now = past \/ \E e \in S : now = Append(past, e)
    PROVE  /\ \A k \in DOMAIN past : k \in DOMAIN now /\ now[k] = past[k]
           /\ \A x : AskedFor(x, past) => AskedFor(x, now)
           /\ \A v : Complete(v, past) => Complete(v, now)
  <1>1. \A k \in DOMAIN past : k \in DOMAIN now /\ now[k] = past[k]
    <2>1. CASE now = past
      BY <2>1
    <2>2. ASSUME NEW e \in S, now = Append(past, e)
          PROVE  \A k \in DOMAIN past : k \in DOMAIN now /\ now[k] = past[k]
      <3>1. DOMAIN past = 1 .. Len(past) /\ Len(past) \in Nat
        OBVIOUS
      <3>2. DOMAIN now = 1 .. Len(past) + 1
        BY <2>2
      <3>3. \A k \in 1 .. Len(past) : now[k] = past[k]
        BY <2>2
      <3> QED BY <3>1, <3>2, <3>3
    <2> QED BY <2>1, <2>2
  <1>2. \A x : AskedFor(x, past) => AskedFor(x, now)
    BY <1>1 DEF AskedFor
  <1>3. ASSUME NEW v, Complete(v, past)
        PROVE  Complete(v, now)
    <2>1. PICK k \in DOMAIN past :
            /\ past[k][1] = v.by
            /\ Len(v.matrix) = Len(past[k][2])
            /\ \A i \in DOMAIN v.matrix :
                /\ v.matrix[i].target = past[k][2][i].id
                /\ \/ v.matrix[i].status = "captured"
                   \/ <<v.matrix[i].target, v.matrix[i].status>> \in v.debts
      BY <1>3 DEF Complete
    <2>2. k \in DOMAIN now /\ now[k] = past[k]
      BY <1>1
    <2> QED BY <2>1, <2>2 DEF Complete
  <1> QED BY <1>1, <1>2, <1>3

(* The steps of a command that is on its way.                              *)
LEMMA AskedStep ==
    ASSUME TypeInv, AskedInv, Next
    PROVE  AskedInv'
  <1>1. PICK c \in Clients :
            \/ StartRun(c) \/ StartFleet(c) \/ Report(c) \/ Conclude(c)
            \/ Truncate(c) \/ Fill(c) \/ Seal(c)
            \/ Reject(c) \/ Return(c) \/ Kill(c)
    BY DEF Next, Report
  <1> DEFINE x == client[c]
  <1>2. PICK y : y = client'[c]
    OBVIOUS
  <1>3. AskedFor(x, asked) /\ CommandInv(x) /\ asked \in Seq(Nat \X Inventories)
    BY DEF AskedInv, TypeInv
  <1>4. ASSUME Only(c), AskedFor(y, asked'),
               \/ asked' = asked
               \/ \E e \in Nat \X Inventories : asked' = Append(asked, e)
        PROVE  AskedInv'
    <2>1. \A z : AskedFor(z, asked) => AskedFor(z, asked')
      BY <1>3, <1>4, AskedGrows
    <2>2. \A d \in Clients \ {c} : AskedFor(client'[d], asked')
      BY <1>4, <2>1 DEF AskedInv, Only
    <2> QED BY <1>2, <1>4, <2>2 DEF AskedInv
  <1>5. CASE StartRun(c)
    <2>1. Only(c) /\ y.op = "run" /\ UNCHANGED asked
      BY <1>2, <1>5, StartRunDoes DEF StartedRun
    <2>2. AskedFor(y, asked')
      BY <2>1 DEF AskedFor, FleetOps
    <2> QED BY <1>4, <2>1, <2>2
  <1>6. CASE StartFleet(c)
    <2>1. PICK f \in FleetIds, inventory \in Inventories :
              StartedFleet(c, f, inventory)
      BY <1>6, StartFleetDoes
    <2>2. /\ Only(c) /\ y.n = requests + 1 /\ y.inventory = inventory
          /\ y.matrix = <<>> /\ y.then = "target"
          /\ asked' = Append(asked, <<requests + 1, inventory>>)
      BY <1>2, <2>1 DEF StartedFleet
    <2>3. inventory \in Seq(Targets)
      BY RunsAssumption
    <2>4. \E k \in DOMAIN asked' : asked'[k] = <<y.n, y.inventory>>
      <3>1. Len(asked) + 1 \in DOMAIN asked'
            /\ asked'[Len(asked) + 1] = <<requests + 1, inventory>>
        BY <1>3, <2>2
      <3> QED BY <2>2, <3>1
    <2>5. Len(y.matrix) <= Len(y.inventory) /\ DOMAIN y.matrix = {}
      BY <2>2, <2>3
    <2>6. AskedFor(y, asked')
      BY <2>2, <2>4, <2>5 DEF AskedFor
    <2>7. <<requests + 1, inventory>> \in Nat \X Inventories
      BY DEF TypeInv
    <2> QED BY <1>4, <2>2, <2>6, <2>7
  <1>7. CASE Report(c)
    <2>1. PICK row : Grown(c, row)
      BY <1>7, ReportDoes DEF CapturedHere, Answered, Missed
    <2>2. Pending(c) /\ UNCHANGED asked
      BY <1>7, ReportDoes
    <2>3. /\ x.op \in FleetOps /\ x.matrix \in Seq(Rows)
          /\ Len(x.matrix) + 1 \in 1 .. Len(x.inventory)
          /\ x.inventory \in Inventories
      BY <2>2, TargetAt
    <2>4. x.inventory \in Seq(Targets)
      BY <2>3, RunsAssumption
    <2>5. /\ Only(c) /\ y.op = x.op /\ y.n = x.n /\ y.inventory = x.inventory
          /\ y.matrix = Append(x.matrix, row) /\ y.then = "target"
          /\ row.target = x.inventory[Len(x.matrix) + 1].id
          /\ row \in Rows
      BY <1>2, <2>1 DEF Grown, CurrentTarget
    <2>6. Len(y.matrix) <= Len(y.inventory)
      BY <2>3, <2>4, <2>5
    <2>7. \A i \in DOMAIN y.matrix : y.matrix[i].target = y.inventory[i].id
      <3> SUFFICES ASSUME NEW i \in DOMAIN y.matrix
                   PROVE  y.matrix[i].target = y.inventory[i].id
        OBVIOUS
      <3>1. CASE i = Len(x.matrix) + 1
        BY <2>3, <2>5, <3>1
      <3>2. CASE i # Len(x.matrix) + 1
        <4>1. i \in DOMAIN x.matrix /\ y.matrix[i] = x.matrix[i]
          BY <2>3, <2>5, <3>2
        <4> QED BY <1>3, <2>3, <2>5, <4>1 DEF AskedFor
      <3> QED BY <3>1, <3>2
    <2>8. AskedFor(y, asked')
      BY <1>3, <2>2, <2>3, <2>5, <2>6, <2>7 DEF AskedFor
    <2> QED BY <1>4, <2>2, <2>5, <2>8
  <1>8. CASE Conclude(c)
    <2>1. /\ Only(c) /\ y.op = x.op /\ y.n = x.n /\ y.inventory = x.inventory
          /\ y.matrix = x.matrix /\ x.pc = "target"
          /\ Len(x.inventory) <= Len(x.matrix) /\ UNCHANGED asked
      BY <1>2, <1>8, ConcludeDoes DEF Concluded
    <2>2. /\ x.op \in FleetOps /\ x.matrix \in Seq(Rows)
          /\ x.inventory \in Inventories
      BY <1>3, <2>1 DEF CommandInv
    <2>3. Len(x.inventory) \in Nat /\ Len(x.matrix) \in Nat
      BY <2>2, RunsAssumption
    <2>4. Len(y.matrix) = Len(y.inventory)
      BY <1>3, <2>1, <2>2, <2>3 DEF AskedFor
    <2>5. AskedFor(y, asked')
      BY <1>3, <2>1, <2>2, <2>4 DEF AskedFor
    <2> QED BY <1>4, <2>1, <2>5
  <1>9. CASE Truncate(c) \/ Fill(c) \/ Seal(c)
    <2>1. Same(c) /\ UNCHANGED asked
      BY <1>9, TruncateDoes, FillDoes, SealDoes
    <2>2. AskedFor(y, asked')
      BY <1>2, <1>3, <2>1 DEF AskedFor, Same
    <2> QED BY <1>4, <2>1, <2>2 DEF Same
  <1>10. CASE Reject(c) \/ Return(c) \/ Kill(c)
    <2>1. y = Idle /\ Only(c) /\ UNCHANGED asked
      BY <1>2, <1>10, StopDoes DEF Stopped
    <2>2. AskedFor(y, asked')
      BY <2>1, IdleIs DEF AskedFor, FleetOps
    <2> QED BY <1>4, <2>1, <2>2
  <1> QED BY <1>1, <1>5, <1>6, <1>7, <1>8, <1>9, <1>10

(* The evidence that a command is about to write is complete.              *)
LEMMA EvidenceCompletes ==
    ASSUME NEW x, CommandInv(x), FinalTodo(x), NEW past, AskedFor(x, past)
    PROVE  Complete(FleetEvidence(x.n, x.matrix), past)
  <1> DEFINE v == FleetEvidence(x.n, x.matrix)
  <1>1. PICK k \in DOMAIN past :
            /\ past[k] = <<x.n, x.inventory>>
            /\ \A i \in DOMAIN x.matrix : x.matrix[i].target = x.inventory[i].id
            /\ Len(x.matrix) = Len(x.inventory)
    BY DEF AskedFor, FinalTodo
  <1>2. v.by = x.n /\ v.matrix = x.matrix
        /\ v.debts = {<<row.target, row.status>> : row \in FailuresOf(x.matrix)}
    BY DEF FleetEvidence
  <1> HIDE DEF v
  <1>3. ASSUME NEW i \in DOMAIN x.matrix, x.matrix[i].status # "captured"
        PROVE  <<x.matrix[i].target, x.matrix[i].status>> \in v.debts
    BY <1>2, <1>3 DEF FailuresOf, Range
  <1>4. /\ past[k][1] = v.by /\ Len(v.matrix) = Len(past[k][2])
        /\ \A i \in DOMAIN v.matrix : v.matrix[i].target = past[k][2][i].id
    BY <1>1, <1>2
  <1>5. \A i \in DOMAIN v.matrix :
            \/ v.matrix[i].status = "captured"
            \/ <<v.matrix[i].target, v.matrix[i].status>> \in v.debts
    BY <1>2, <1>3
  <1>6. Complete(v, past)
    BY <1>4, <1>5 DEF Complete
  <1> QED BY <1>6 DEF v

(* The property, of a disk and of what was asked for.                      *)
AllComplete(d, past) ==
    \A f \in FleetIds, name \in FleetNames :
        d[FleetFile(f, name)].is = "file" =>
            Complete(d[FleetFile(f, name)].value, past)

(* It is what the property says, before a step and after it.               *)
LEMMA CompleteIs ==
    /\ FleetEvidenceComplete <=> AllComplete(disk, asked)
    /\ FleetEvidenceComplete' <=> AllComplete(disk', asked')
  <1>1. FleetEvidenceComplete <=> AllComplete(disk, asked)
    BY DEF FleetEvidenceComplete, AllComplete, Complete, FleetNames
  <1>2. FleetEvidenceComplete' <=> AllComplete(disk', asked')
    BY DEF FleetEvidenceComplete, AllComplete, Complete, FleetNames
  <1> QED BY <1>1, <1>2

(* Every step keeps the fleet evidences on disk complete.                  *)
LEMMA CompleteStep ==
    ASSUME TypeInv, AskedInv, FleetEvidenceComplete, Next
    PROVE  FleetEvidenceComplete'
  <1>1. /\ AllComplete(disk, asked)
        /\ AllComplete(disk', asked') => FleetEvidenceComplete'
    BY CompleteIs
  <1>2. \A f \in FleetIds, name \in FleetNames : FleetFile(f, name) \in Files
    BY DEF Files, FleetNames
  <1>3. PICK c \in Clients :
            \/ StartRun(c) \/ StartFleet(c) \/ Report(c) \/ Conclude(c)
            \/ Truncate(c) \/ Fill(c) \/ Seal(c)
            \/ Reject(c) \/ Return(c) \/ Kill(c)
    BY DEF Next, Report
  <1>4. CASE StartRun(c) \/ StartFleet(c) \/ Report(c) \/ Conclude(c)
             \/ Seal(c) \/ Reject(c) \/ Return(c) \/ Kill(c)
    <2>1. /\ disk' = disk
          /\ \/ asked' = asked
             \/ \E e \in Nat \X Inventories : asked' = Append(asked, e)
      <3>1. CASE StartRun(c)
        BY <3>1, StartRunDoes DEF StartedRun
      <3>2. CASE StartFleet(c)
        <4>1. PICK f \in FleetIds, inventory \in Inventories :
                  StartedFleet(c, f, inventory)
          BY <3>2, StartFleetDoes
        <4>2. <<requests + 1, inventory>> \in Nat \X Inventories
          BY DEF TypeInv
        <4> QED BY <4>1, <4>2 DEF StartedFleet
      <3>3. CASE Report(c)
        BY <3>3, ReportDoes
      <3>4. CASE \/ Conclude(c) \/ Seal(c)
                 \/ Reject(c) \/ Return(c) \/ Kill(c)
        BY <3>4, ConcludeDoes, SealDoes, StopDoes
      <3> QED BY <1>4, <3>1, <3>2, <3>3, <3>4
    <2>2. \A v : Complete(v, asked) => Complete(v, asked')
      BY <2>1, AskedGrows DEF TypeInv
    <2> QED BY <1>1, <2>1, <2>2 DEF AllComplete
  <1>5. CASE Truncate(c) \/ Fill(c)
    <2> DEFINE g == NextWrite(c).file
    <2>1. asked' = asked
      BY <1>5, TruncateDoes, FillDoes
    <2>2. ASSUME NEW f \in FleetIds, NEW name \in FleetNames,
                 disk'[FleetFile(f, name)].is = "file"
          PROVE  Complete(disk'[FleetFile(f, name)].value, asked)
      <3>1. CASE g # FleetFile(f, name)
        <4>1. disk'[FleetFile(f, name)] = disk[FleetFile(f, name)]
          BY <1>2, <1>5, <3>1, WriteAt
        <4> QED BY <1>1, <2>2, <4>1 DEF AllComplete
      <3>2. CASE g = FleetFile(f, name) /\ Truncate(c)
        BY <2>2, <3>2, WriteAt DEF Torn
      <3>3. CASE g = FleetFile(f, name) /\ Fill(c)
        <4>1. /\ CommandInv(client[c]) /\ client[c].pc \in Writing
              /\ client[c].at \in DOMAIN client[c].todo
              /\ NextWrite(c) = client[c].todo[client[c].at]
              /\ disk'[g] = File(NextWrite(c).value)
          BY <3>3, WriteAt
        <4>2. FinalTodo(client[c]) /\ client[c].at = 1
          BY <3>3, <4>1, FleetWriter
        <4>3. NextWrite(c).value = FleetEvidence(client[c].n, client[c].matrix)
          BY <4>1, <4>2, FinalTodoIs
        <4>4. AskedFor(client[c], asked)
          BY DEF AskedInv
        <4>5. Complete(NextWrite(c).value, asked)
          BY <4>1, <4>2, <4>3, <4>4, EvidenceCompletes
        <4>6. disk'[FleetFile(f, name)].value = NextWrite(c).value
          BY <3>3, <4>1 DEF File
        <4> QED BY <4>5, <4>6
      <3> QED BY <1>5, <3>1, <3>2, <3>3
    <2>3. AllComplete(disk', asked')
      BY <2>1, <2>2 DEF AllComplete
    <2> QED BY <1>1, <2>3
  <1> QED BY <1>3, <1>4, <1>5

----------------------------------------------------------------------------
(* A run whose id was used once.                                           *)

HashesOn(d, r) == [name \in Range(RunFiles) |-> d[RunFile(r, name)]]

(* All its files but the manifest are there, made by one command.          *)
Whole(d, r) ==
    /\ \A name \in Range(RunFiles) : d[RunFile(r, name)].is = "file"
    /\ \A name, other \in Range(RunFiles) :
            d[RunFile(r, name)].value.by = d[RunFile(r, other)].value.by

Makes(x, r) == x.run = r
Seals(x, r) == \E k \in DOMAIN x.todo : x.todo[k].file = RunFile(r, "manifest")
Has(x, r)   == Makes(x, r) \/ Seals(x, r)

(* Who makes it has written the files before the one it is at, and who     *)
(* seals it has the hashes of what is there.                               *)
Making(x, d, r) ==
    Makes(x, r) =>
        /\ d[RunFile(r, "manifest")] = Absent
        /\ \A k \in DOMAIN x.todo : k < x.at =>
            d[RunFile(r, RunFiles[k])] = File(x.todo[k].value)
        /\ x.pc = "seal" => Whole(d, r)

Sealing(x, d, r) ==
    Seals(x, r) => Whole(d, r) /\ x.todo[1].value = HashesOn(d, r)

Sealed(d, r) ==
    LET manifest == d[RunFile(r, "manifest")]
    IN  manifest.is # "absent" =>
            /\ Whole(d, r)
            /\ manifest.is = "file" => manifest.value = HashesOn(d, r)

RunInv(r) ==
    /\ captures[r] = 0 =>
        /\ \A c \in Clients : ~ Has(client[c], r)
        /\ disk[RunFile(r, "manifest")] = Absent
    /\ captures[r] = 1 =>
        /\ \A c, e \in Clients : Has(client[c], r) /\ Has(client[e], r) => c = e
        /\ \A c \in Clients :
            Making(client[c], disk, r) /\ Sealing(client[c], disk, r)
        /\ Sealed(disk, r)

RunsInv == \A r \in Runs : RunInv(r)

(* The invariant says what is wanted.                                      *)
LEMMA RunsInvSuffices ==
    ASSUME TypeInv, RunsInv
    PROVE  SealedRunIntact
  <1> SUFFICES ASSUME NEW r \in Listed, captures[r] = 1
               PROVE  LET manifest == disk[RunFile(r, "manifest")]
                      IN  /\ \A name \in Range(RunFiles) :
                              /\ disk[RunFile(r, name)].is = "file"
                              /\ manifest.is = "file" =>
                                  /\ name \in DOMAIN manifest.value
                                  /\ manifest.value[name] = disk[RunFile(r, name)]
                          /\ \A name, other \in Range(RunFiles) :
                              disk[RunFile(r, name)].value.by =
                                  disk[RunFile(r, other)].value.by
    BY DEF SealedRunIntact
  <1> DEFINE manifest == disk[RunFile(r, "manifest")]
  <1>1. r \in Runs /\ manifest.is # "absent"
    BY DEF Listed
  <1>2. Whole(disk, r) /\ (manifest.is = "file" => manifest.value = HashesOn(disk, r))
    BY <1>1 DEF RunsInv, RunInv, Sealed
  <1>3. \A name \in Range(RunFiles) : disk[RunFile(r, name)].is = "file"
    BY <1>2 DEF Whole
  <1>4. ASSUME NEW name \in Range(RunFiles), manifest.is = "file"
        PROVE  /\ name \in DOMAIN manifest.value
               /\ manifest.value[name] = disk[RunFile(r, name)]
    <2>1. /\ name \in DOMAIN HashesOn(disk, r)
          /\ HashesOn(disk, r)[name] = disk[RunFile(r, name)]
      BY DEF HashesOn
    <2> QED BY <1>2, <1>4, <2>1
  <1>5. \A name, other \in Range(RunFiles) :
          disk[RunFile(r, name)].value.by = disk[RunFile(r, other)].value.by
    BY <1>2 DEF Whole
  <1> QED BY <1>3, <1>4, <1>5

(* No run has been begun.                                                  *)
LEMMA RunsInit ==
    ASSUME Init
    PROVE  RunsInv
  <1> SUFFICES ASSUME NEW r \in Runs PROVE RunInv(r)
    BY DEF RunsInv
  <1>1. captures[r] = 0
    BY DEF Init
  <1>2. RunFile(r, "manifest") \in Files
    BY DEF Files
  <1>3. disk[RunFile(r, "manifest")] = Absent
    BY <1>2 DEF Init
  <1>4. r # NoRun
    BY RunIdsAssumption
  <1>5. ASSUME NEW c \in Clients PROVE ~ Has(client[c], r)
    <2>1. client[c] = Idle
      BY DEF Init
    <2> QED BY <1>4, <2>1, IdleIs DEF Has, Makes, Seals
  <1> QED BY <1>1, <1>3, <1>5 DEF RunInv

(* The files of a run.                                                     *)
LEMMA RunFilesAre ==
    /\ Range(RunFiles) = {"raw", "evidence_index", "overhead_report"}
    /\ RunFiles[1] = "raw" /\ RunFiles[2] = "evidence_index"
    /\ RunFiles[3] = "overhead_report"
  <1>1. /\ DOMAIN RunFiles = 1 .. 3
        /\ RunFiles[1] = "raw" /\ RunFiles[2] = "evidence_index"
        /\ RunFiles[3] = "overhead_report"
    BY DEF RunFiles
  <1>2. \A k \in 1 .. 3 : k = 1 \/ k = 2 \/ k = 3
    OBVIOUS
  <1> QED BY <1>1, <1>2 DEF Range

(* They have names of their own.                                           *)
LEMMA RunFilesDiffer ==
    ASSUME NEW q, NEW r, NEW m, NEW n
    PROVE  RunFile(q, m) = RunFile(r, n) <=> q = r /\ m = n
  BY DEF RunFile

(* A disk that agrees on them.                                             *)
LEMMA WholeStays ==
    ASSUME NEW d, NEW e, NEW r,
           \A name \in Range(RunFiles) : e[RunFile(r, name)] = d[RunFile(r, name)]
    PROVE  (Whole(d, r) => Whole(e, r)) /\ HashesOn(e, r) = HashesOn(d, r)
  <1>1. Whole(d, r) => Whole(e, r)
    BY DEF Whole
  <1>2. HashesOn(e, r) = HashesOn(d, r)
    BY DEF HashesOn
  <1> QED BY <1>1, <1>2

(* A step that leaves the files of a run alone, and after which only who   *)
(* had it has it.                                                          *)
LEMMA RunStays ==
    ASSUME TypeInv, NEW r \in Runs, RunInv(r), NEW c \in Clients, Only(c),
           captures'[r] = captures[r],
           disk'[RunFile(r, "manifest")] = disk[RunFile(r, "manifest")],
           \A name \in Range(RunFiles) :
                disk'[RunFile(r, name)] = disk[RunFile(r, name)],
           Has(client'[c], r) => Has(client[c], r),
           captures[r] = 1 =>
                Making(client'[c], disk', r) /\ Sealing(client'[c], disk', r)
    PROVE  RunInv(r)'
  <1>0. PICK d, y : d = disk' /\ y = client'
    OBVIOUS
  <1>1. \A name \in Range(RunFiles) : d[RunFile(r, name)] = disk[RunFile(r, name)]
    BY <1>0
  <1>2. (Whole(disk, r) => Whole(d, r)) /\ HashesOn(d, r) = HashesOn(disk, r)
    BY <1>1, WholeStays
  <1>3. \A e \in Clients : Has(y[e], r) => Has(client[e], r)
    BY <1>0 DEF Only
  <1>4. CASE captures[r] = 0
    <2>1. \A e \in Clients : ~ Has(y[e], r)
      BY <1>3, <1>4 DEF RunInv
    <2>2. d[RunFile(r, "manifest")] = Absent
      BY <1>0, <1>4 DEF RunInv
    <2> QED BY <1>0, <1>4, <2>1, <2>2 DEF RunInv
  <1>5. CASE captures[r] = 1
    <2>1. \A a, e \in Clients : Has(y[a], r) /\ Has(y[e], r) => a = e
      BY <1>3, <1>5 DEF RunInv
    <2>2. ASSUME NEW e \in Clients
          PROVE  Making(y[e], d, r) /\ Sealing(y[e], d, r)
      <3>1. CASE e = c
        BY <1>0, <1>5, <3>1
      <3>2. CASE e # c
        <4>1. y[e] = client[e]
          BY <1>0, <3>2 DEF Only
        <4>2. Making(client[e], disk, r) /\ Sealing(client[e], disk, r)
          BY <1>5 DEF RunInv
        <4>3. Sealing(client[e], d, r)
          BY <1>2, <4>2 DEF Sealing
        <4>4. Making(client[e], d, r)
          <5> SUFFICES ASSUME Makes(client[e], r)
                       PROVE  Making(client[e], d, r)
            BY DEF Making
          <5>1. d[RunFile(r, "manifest")] = Absent
            BY <1>0, <4>2 DEF Making
          <5>2. CommandInv(client[e]) /\ r # NoRun
            BY RunIdsAssumption DEF TypeInv
          <5>3. \A k \in DOMAIN client[e].todo : RunFiles[k] \in Range(RunFiles)
            <6>1. CASE client[e].pc \in Writing
              <7>1. RunTodo(client[e])
                BY <5>2, <6>1 DEF CommandInv, SealTodo, TargetTodo, FinalTodo, Makes
              <7>2. DOMAIN client[e].todo = 1 .. 3
                BY <7>1, RunTodoIs
              <7>3. \A k \in 1 .. 3 : k = 1 \/ k = 2 \/ k = 3
                OBVIOUS
              <7> QED BY <7>2, <7>3, RunFilesAre
            <6>2. CASE client[e].pc \notin Writing
              BY <5>2, <6>2 DEF CommandInv
            <6> QED BY <6>1, <6>2
          <5>4. \A k \in DOMAIN client[e].todo : k < client[e].at =>
                    d[RunFile(r, RunFiles[k])] = File(client[e].todo[k].value)
            BY <1>1, <4>2, <5>3 DEF Making
          <5>5. client[e].pc = "seal" => Whole(d, r)
            BY <1>2, <4>2 DEF Making
          <5> QED BY <5>1, <5>4, <5>5 DEF Making
        <4> QED BY <4>1, <4>3, <4>4
      <3> QED BY <3>1, <3>2
    <2>3. d[RunFile(r, "manifest")] = disk[RunFile(r, "manifest")]
      BY <1>0
    <2>4. Sealed(d, r)
      BY <1>2, <1>5, <2>3 DEF RunInv, Sealed
    <2> QED BY <1>0, <1>5, <2>1, <2>2, <2>4 DEF RunInv
  <1>6. CASE captures[r] # 0 /\ captures[r] # 1
    BY <1>6 DEF RunInv
  <1> QED BY <1>4, <1>5, <1>6

(* Somebody begins to make it.                                             *)
LEMMA RunBegins ==
    ASSUME TypeInv, NEW r \in Runs, RunInv(r), NEW c \in Clients, Only(c),
           captures' = [captures EXCEPT ![r] = @ + 1], UNCHANGED disk,
           NEW mode \in Modes, NEW seen \in Observations, NEW n,
           client'[c].todo = RunWrites(mode, r, n, seen),
           client'[c].at = 1, client'[c].pc = "write"
    PROVE  RunInv(r)'
  <1>0. PICK y : y = client'[c]
    OBVIOUS
  <1>1. captures \in [Runs -> Nat] /\ captures'[r] = captures[r] + 1
    BY DEF TypeInv
  <1>2. CASE captures[r] = 0
    <2>1. /\ \A e \in Clients : ~ Has(client[e], r)
          /\ disk[RunFile(r, "manifest")] = Absent
      BY <1>2 DEF RunInv
    <2>2. captures'[r] = 1
      BY <1>1, <1>2
    <2>3. \A e \in Clients \ {c} : ~ Has(client'[e], r)
      BY <2>1 DEF Only
    <2>4. DOMAIN y.todo = 1 .. 3 /\ ~ Seals(y, r)
      <3>1. /\ DOMAIN y.todo = 1 .. 3
            /\ y.todo[1].file = RunFile(r, "raw")
            /\ y.todo[2].file = RunFile(r, "evidence_index")
            /\ y.todo[3].file = RunFile(r, "overhead_report")
        BY <1>0, RunWritesAre
      <3>2. \A k \in 1 .. 3 : k = 1 \/ k = 2 \/ k = 3
        OBVIOUS
      <3> QED BY <3>1, <3>2 DEF Seals, RunFile
    <2>5. y.at = 1 /\ y.pc = "write"
      BY <1>0
    <2>6. \A k \in DOMAIN y.todo : ~ (k < y.at)
      BY <2>4, <2>5
    <2>7. Making(y, disk, r) /\ Sealing(y, disk, r)
      BY <2>1, <2>4, <2>5, <2>6 DEF Making, Sealing
    <2>8. \A e \in Clients :
            Making(client'[e], disk', r) /\ Sealing(client'[e], disk', r)
      BY <1>0, <2>3, <2>7 DEF Making, Sealing, Has
    <2>9. Sealed(disk', r)
      BY <2>1 DEF Sealed, Absent
    <2>10. \A a, e \in Clients : Has(client'[a], r) /\ Has(client'[e], r) => a = e
      BY <2>3
    <2> QED BY <2>2, <2>8, <2>9, <2>10 DEF RunInv
  <1>3. CASE captures[r] # 0
    <2>1. captures'[r] # 0 /\ captures'[r] # 1
      BY <1>1, <1>3
    <2> QED BY <2>1 DEF RunInv
  <1> QED BY <1>2, <1>3

(* A command that has nothing to do with a run.                            *)
LEMMA RunUntouched ==
    ASSUME TypeInv, NEW r \in Runs, RunInv(r), NEW c \in Clients, Only(c),
           captures'[r] = captures[r], UNCHANGED disk,
           ~ Has(client'[c], r)
    PROVE  RunInv(r)'
  <1>1. Making(client'[c], disk', r) /\ Sealing(client'[c], disk', r)
    BY DEF Making, Sealing, Has
  <1> QED BY <1>1, RunStays

(* What is Has of a list of files that names no manifest.                  *)
LEMMA HasNone ==
    ASSUME NEW x, NEW r \in Runs, x.run = NoRun, x.todo = <<>>
    PROVE  ~ Has(x, r)
  BY RunIdsAssumption DEF Has, Makes, Seals

(* A command that writes a run has that one and no other.                  *)
LEMMA HasRun ==
    ASSUME NEW x, RunTodo(x), NEW r
    PROVE  Has(x, r) <=> x.run = r
  <1>1. /\ DOMAIN x.todo = 1 .. 3
        /\ x.todo[1].file = RunFile(x.run, "raw")
        /\ x.todo[2].file = RunFile(x.run, "evidence_index")
        /\ x.todo[3].file = RunFile(x.run, "overhead_report")
    BY RunTodoIs
  <1>2. \A k \in 1 .. 3 : k = 1 \/ k = 2 \/ k = 3
    OBVIOUS
  <1>3. ~ Seals(x, r)
    BY <1>1, <1>2 DEF Seals, RunFile
  <1> QED BY <1>3 DEF Has, Makes

(* A command that writes a target's answer, or the evidence, has no run.   *)
LEMMA HasOther ==
    ASSUME NEW x, CommandInv(x), x.pc \in Writing,
           TargetTodo(x) \/ FinalTodo(x), NEW r \in Runs
    PROVE  ~ Has(x, r)
  <1>1. x.run = NoRun
    BY DEF TargetTodo, FinalTodo
  <1>2. ~ SealTodo(x)
    <2> SUFFICES ASSUME SealTodo(x) PROVE FALSE
      OBVIOUS
    <2>1. PICK s : DOMAIN x.todo = 1 .. 1 /\ x.todo[1].file = RunFile(s, "manifest")
      BY SealTodoIs
    <2>2. 1 \in DOMAIN x.todo
      BY <2>1
    <2>4. ~ FinalTodo(x)
      BY <2>1, FinalTodoIs DEF FleetFile, RunFile
    <2>5. ~ TargetTodo(x)
      BY <2>1, TargetTodoIs DEF TargetFile, RunFile, ServiceState
    <2> QED BY <2>4, <2>5
  <1>3. ASSUME Seals(x, r) PROVE FALSE
    <2>1. PICK k \in DOMAIN x.todo : x.todo[k].file = RunFile(r, "manifest")
      BY <1>3 DEF Seals
    <2>2. SealTodo(x)
      BY <2>1, RunWriter
    <2> QED BY <1>2, <2>2
  <1> QED BY <1>1, <1>3, RunIdsAssumption DEF Has, Makes

(* A file is written by who has the run that it is of.                     *)
LEMMA RunWritten ==
    ASSUME TypeInv, NEW r \in Runs, RunInv(r), NEW c \in Clients,
           Truncate(c) \/ Fill(c)
    PROVE  RunInv(r)'
  <1> DEFINE x == client[c]
             g == NextWrite(c).file
             w == NextWrite(c)
  <1>0. PICK d, y : d = disk' /\ y = client'[c]
    OBVIOUS
  <1>1. /\ CommandInv(x) /\ x.pc \in Writing /\ x.at \in DOMAIN x.todo
        /\ w = x.todo[x.at]
        /\ \A h \in Files : h # g => d[h] = disk[h]
        /\ Truncate(c) => d[g] = Torn
        /\ Fill(c) => d[g] = File(w.value)
    BY <1>0, WriteAt
  <1>2. /\ Same(c) /\ y.run = x.run /\ captures' = captures
        /\ Truncate(c) => y.pc = "fill" /\ y.todo = x.todo /\ y.at = x.at
        /\ Fill(c) => More(c) \/ Last(c)
    <2>1. CASE Truncate(c)
      <3>1. ~ Fill(c)
        BY <2>1, TruncateDoes, FillDoes
      <3> QED BY <1>0, <2>1, <3>1, TruncateDoes
    <2>2. CASE Fill(c)
      <3>1. ~ Truncate(c)
        BY <2>2, TruncateDoes, FillDoes
      <3> QED BY <1>0, <2>2, <3>1, FillDoes
    <2> QED BY <2>1, <2>2
  <1>3. Fill(c) => \/ /\ x.at + 1 \in DOMAIN x.todo
                      /\ y.pc = "write" /\ y.at = x.at + 1 /\ y.todo = x.todo
                   \/ /\ x.at + 1 \notin DOMAIN x.todo
                      /\ y.pc = (IF x.run # NoRun THEN "seal" ELSE x.then)
                      /\ y.todo = <<>> /\ y.at = 1
    BY <1>0, <1>2 DEF More, Last
  <1>4. Only(c) /\ (Has(y, r) => Has(x, r))
    <2>1. y.todo = x.todo \/ y.todo = <<>>
      BY <1>2, <1>3
    <2> QED BY <1>2, <2>1 DEF Same, Has, Makes, Seals
  <1>5. /\ RunFile(r, "manifest") \in Files
        /\ \A name \in Range(RunFiles) : RunFile(r, name) \in Files
    BY DEF Files
  <1>6. r # NoRun
    BY RunIdsAssumption
  <1>7. CASE captures[r] # 0 /\ captures[r] # 1
    BY <1>2, <1>7 DEF RunInv
  <1>8. CASE ~ Has(x, r)
    <2>1. g # RunFile(r, "manifest")
      BY <1>1, <1>8 DEF Has, Seals
    <2>2. ASSUME NEW name \in Range(RunFiles), g = RunFile(r, name)
          PROVE  FALSE
      <3>1. name # "manifest"
        BY RunFilesAre
      <3>2. x.run = r
        BY <1>1, <2>2, <3>1, RunWriter
      <3> QED BY <1>8, <3>2 DEF Has, Makes
    <2>3. /\ d[RunFile(r, "manifest")] = disk[RunFile(r, "manifest")]
          /\ \A name \in Range(RunFiles) :
                d[RunFile(r, name)] = disk[RunFile(r, name)]
      BY <1>1, <1>5, <2>1, <2>2
    <2>4. Making(y, d, r) /\ Sealing(y, d, r)
      BY <1>4, <1>8 DEF Making, Sealing, Has
    <2> QED BY <1>0, <1>2, <1>4, <2>3, <2>4, RunStays
  <1>9. CASE Has(x, r) /\ captures[r] = 1
    <2>1. \A e \in Clients \ {c} : ~ Has(client'[e], r)
      BY <1>4, <1>9 DEF RunInv, Only
    <2>2. \A a, e \in Clients : Has(client'[a], r) /\ Has(client'[e], r) => a = e
      BY <2>1
    <2>3. Making(x, disk, r) /\ Sealing(x, disk, r)
      BY <1>9 DEF RunInv
    <2>4. ASSUME Making(y, d, r), Sealing(y, d, r), Sealed(d, r)
          PROVE  RunInv(r)'
      <3>1. \A e \in Clients :
              Making(client'[e], disk', r) /\ Sealing(client'[e], disk', r)
        BY <1>0, <2>1, <2>4 DEF Making, Sealing, Has
      <3> QED BY <1>0, <1>2, <1>9, <2>2, <2>4, <3>1 DEF RunInv
    <2>5. CASE Makes(x, r)
      <3>1. RunTodo(x)
        BY <1>1, <1>6, <2>5 DEF CommandInv, SealTodo, TargetTodo, FinalTodo, Makes
      <3>2. /\ DOMAIN x.todo = 1 .. 3 /\ x.run = r
            /\ x.todo[1].file = RunFile(r, "raw")
            /\ x.todo[2].file = RunFile(r, "evidence_index")
            /\ x.todo[3].file = RunFile(r, "overhead_report")
            /\ \A k \in 1 .. 3 : x.todo[k].value.by = x.n
        BY <2>5, <3>1, RunTodoIs DEF Makes
      <3>3. \A k \in 1 .. 3 : k = 1 \/ k = 2 \/ k = 3
        OBVIOUS
      <3>4. \A k \in 1 .. 3 : /\ x.todo[k].file = RunFile(r, RunFiles[k])
                              /\ RunFile(r, RunFiles[k]) \in Files
                              /\ RunFiles[k] # "manifest"
        BY <1>5, <3>2, <3>3, RunFilesAre
      <3>5. \A j, k \in 1 .. 3 : j # k =>
                RunFile(r, RunFiles[j]) # RunFile(r, RunFiles[k])
        BY <3>3, RunFilesAre DEF RunFile
      <3>6. x.at \in 1 .. 3 /\ g = RunFile(r, RunFiles[x.at]) /\ w = x.todo[x.at]
        BY <1>1, <3>2, <3>4
      <3>7. d[RunFile(r, "manifest")] = Absent
        <4>1. g # RunFile(r, "manifest")
          BY <3>4, <3>6, RunFilesDiffer
        <4> QED BY <1>1, <1>5, <2>3, <2>5, <4>1 DEF Making
      <3>8. \A k \in 1 .. 3 : k < x.at =>
                d[RunFile(r, RunFiles[k])] = File(x.todo[k].value)
        <4> SUFFICES ASSUME NEW k \in 1 .. 3, k < x.at
                     PROVE  d[RunFile(r, RunFiles[k])] = File(x.todo[k].value)
          OBVIOUS
        <4>1. k # x.at
          BY <3>6
        <4>2. d[RunFile(r, RunFiles[k])] = disk[RunFile(r, RunFiles[k])]
          BY <1>1, <3>4, <3>5, <3>6, <4>1
        <4> QED BY <2>3, <2>5, <3>2, <4>2 DEF Making
      <3>9. Sealed(d, r)
        BY <3>7 DEF Sealed, Absent
      <3>10. Makes(y, r)
        BY <1>2, <2>5 DEF Makes
      <3>11. Sealing(y, d, r)
        <4>1. ~ Seals(x, r)
          <5> SUFFICES ASSUME NEW k \in 1 .. 3,
                              x.todo[k].file = RunFile(r, "manifest")
                       PROVE  FALSE
            BY <3>2 DEF Seals
          <5>1. /\ x.todo[k].file = RunFile(r, RunFiles[k])
                /\ RunFiles[k] # "manifest"
            BY <3>4
          <5> QED BY <5>1, RunFilesDiffer
        <4>2. y.todo = x.todo \/ y.todo = <<>>
          BY <1>2, <1>3
        <4> QED BY <4>1, <4>2 DEF Sealing, Seals
      <3>12. CASE Truncate(c)
        <4>1. y.pc = "fill" /\ y.todo = x.todo /\ y.at = x.at
          BY <1>2, <3>12
        <4>2. Making(y, d, r)
          BY <3>2, <3>7, <3>8, <4>1 DEF Making
        <4> QED BY <2>4, <3>9, <3>11, <4>2
      <3>13. ASSUME Fill(c)
             PROVE  \A k \in 1 .. 3 : k <= x.at =>
                        d[RunFile(r, RunFiles[k])] = File(x.todo[k].value)
        <4> SUFFICES ASSUME NEW k \in 1 .. 3, k <= x.at
                     PROVE  d[RunFile(r, RunFiles[k])] = File(x.todo[k].value)
          OBVIOUS
        <4>1. CASE k = x.at
          BY <1>1, <3>6, <3>13, <4>1
        <4>2. CASE k # x.at
          <5>1. k < x.at
            BY <3>6, <4>2
          <5> QED BY <3>8, <5>1
        <4> QED BY <4>1, <4>2
      <3>14. CASE Fill(c) /\ x.at + 1 \in DOMAIN x.todo
        <4>1. y.pc = "write" /\ y.todo = x.todo /\ y.at = x.at + 1
          BY <1>3, <3>14
        <4>2. \A k \in 1 .. 3 : k < x.at + 1 => k <= x.at
          BY <3>6
        <4>3. Making(y, d, r)
          BY <3>2, <3>7, <3>13, <3>14, <4>1, <4>2 DEF Making
        <4> QED BY <2>4, <3>9, <3>11, <4>3
      <3>15. CASE Fill(c) /\ x.at + 1 \notin DOMAIN x.todo
        <4>1. x.at = 3
          BY <3>2, <3>6, <3>15
        <4>2. y.todo = <<>>
          BY <1>3, <3>15
        <4>3. \A k \in 1 .. 3 :
                d[RunFile(r, RunFiles[k])] = File(x.todo[k].value)
          BY <3>13, <3>15, <4>1
        <4>4. \A name \in Range(RunFiles) :
                \E k \in 1 .. 3 : name = RunFiles[k]
          BY RunFilesAre
        <4>5. \A name \in Range(RunFiles) :
                /\ d[RunFile(r, name)].is = "file"
                /\ d[RunFile(r, name)].value.by = x.n
          BY <3>2, <4>3, <4>4 DEF File
        <4>6. Whole(d, r)
          BY <4>5 DEF Whole
        <4>7. Making(y, d, r)
          BY <3>7, <4>2, <4>6 DEF Making
        <4> QED BY <2>4, <3>9, <3>11, <4>7
      <3> QED BY <3>12, <3>14, <3>15
    <2>6. CASE Seals(x, r)
      <3>1. PICK k \in DOMAIN x.todo : x.todo[k].file = RunFile(r, "manifest")
        BY <2>6 DEF Seals
      <3>2. SealTodo(x)
        BY <1>1, <3>1, RunWriter
      <3>3. DOMAIN x.todo = 1 .. 1 /\ x.run = NoRun
        BY <3>2, SealTodoIs
      <3>4. k = 1 /\ x.at = 1 /\ x.at + 1 \notin DOMAIN x.todo
        <4>1. k \in 1 .. 1 /\ x.at \in 1 .. 1
          BY <1>1, <3>1, <3>3
        <4> QED BY <3>3, <4>1
      <3>5. g = RunFile(r, "manifest") /\ w = x.todo[1]
        BY <1>1, <3>1, <3>4
      <3>6. \A name \in Range(RunFiles) :
                d[RunFile(r, name)] = disk[RunFile(r, name)]
        <4>1. \A name \in Range(RunFiles) : g # RunFile(r, name)
          BY <3>5, RunFilesAre DEF RunFile
        <4> QED BY <1>1, <1>5, <4>1
      <3>7. Whole(d, r) /\ HashesOn(d, r) = HashesOn(disk, r)
        BY <2>3, <2>6, <3>6, WholeStays DEF Sealing
      <3>8. w.value = HashesOn(d, r)
        BY <2>3, <2>6, <3>5, <3>7 DEF Sealing
      <3>9. ~ Makes(y, r)
        BY <1>2, <1>6, <3>3 DEF Makes
      <3>10. Making(y, d, r)
        BY <3>9 DEF Making
      <3>11. CASE Truncate(c)
        <4>1. d[RunFile(r, "manifest")] = Torn /\ y.todo = x.todo
          BY <1>1, <1>2, <3>5, <3>11
        <4>2. Sealed(d, r)
          BY <3>7, <4>1 DEF Sealed, Torn
        <4>3. Sealing(y, d, r)
          BY <3>5, <3>7, <3>8, <4>1 DEF Sealing
        <4> QED BY <2>4, <3>10, <4>2, <4>3
      <3>12. CASE Fill(c)
        <4>1. d[RunFile(r, "manifest")] = File(w.value)
          BY <1>1, <3>5, <3>12
        <4>2. y.todo = <<>>
          BY <1>3, <3>4, <3>12
        <4>3. Sealed(d, r)
          BY <3>7, <3>8, <4>1 DEF Sealed, File
        <4>4. Sealing(y, d, r)
          BY <4>2 DEF Sealing, Seals
        <4> QED BY <2>4, <3>10, <4>3, <4>4
      <3> QED BY <3>11, <3>12
    <2> QED BY <1>9, <2>5, <2>6 DEF Has
  <1>10. CASE Has(x, r) /\ captures[r] = 0
    BY <1>10 DEF RunInv
  <1> QED BY <1>7, <1>8, <1>9, <1>10

(* The hashes are taken of a whole run.                                    *)
LEMMA RunSealed ==
    ASSUME TypeInv, NEW r \in Runs, RunInv(r), NEW c \in Clients, Seal(c)
    PROVE  RunInv(r)'
  <1> DEFINE x == client[c]
  <1>0. PICK y : y = client'[c]
    OBVIOUS
  <1>1. /\ Only(c) /\ x.pc = "seal" /\ x.run \in Runs
        /\ y.run = NoRun
        /\ y.todo = <<Write(RunFile(x.run, "manifest"), Hashes(x.run))>>
        /\ UNCHANGED <<disk, captures>>
    BY <1>0, SealDoes DEF Same
  <1>2. /\ DOMAIN y.todo = 1 .. 1
        /\ y.todo[1] = Write(RunFile(x.run, "manifest"), Hashes(x.run))
    BY <1>1
  <1>3. /\ y.todo[1].file = RunFile(x.run, "manifest")
        /\ y.todo[1].value = Hashes(x.run)
    BY <1>2 DEF Write
  <1>4. Has(y, r) => x.run = r
    <2>1. ~ Makes(y, r)
      BY <1>1, RunIdsAssumption DEF Makes
    <2>2. ASSUME Seals(y, r) PROVE x.run = r
      <3>1. RunFile(x.run, "manifest") = RunFile(r, "manifest")
        BY <1>2, <1>3, <2>2 DEF Seals
      <3> QED BY <3>1, RunFilesDiffer
    <2> QED BY <2>1, <2>2 DEF Has
  <1>5. CASE x.run # r
    BY <1>0, <1>1, <1>4, <1>5, RunUntouched
  <1>6. CASE x.run = r
    <2>1. Has(x, r)
      BY <1>6 DEF Has, Makes
    <2>2. ASSUME captures[r] = 1
          PROVE  Making(y, disk, r) /\ Sealing(y, disk, r)
      <3>1. Whole(disk, r)
        BY <1>1, <1>6, <2>2 DEF RunInv, Making, Makes
      <3>2. y.todo[1].value = HashesOn(disk, r)
        BY <1>3, <1>6 DEF Hashes, HashesOn
      <3>3. ~ Makes(y, r)
        BY <1>1, RunIdsAssumption DEF Makes
      <3> QED BY <3>1, <3>2, <3>3 DEF Making, Sealing
    <2> QED BY <1>0, <1>1, <2>1, <2>2, RunStays
  <1> QED BY <1>5, <1>6

(* Every step keeps every run.                                             *)
LEMMA RunsStep ==
    ASSUME TypeInv, TypeInv', RunsInv, Next
    PROVE  RunsInv'
  <1> SUFFICES ASSUME NEW r \in Runs PROVE RunInv(r)'
    BY DEF RunsInv
  <1>0. RunInv(r) /\ captures \in [Runs -> Nat]
    BY DEF RunsInv, TypeInv
  <1>1. PICK c \in Clients :
            \/ StartRun(c) \/ StartFleet(c) \/ Report(c) \/ Conclude(c)
            \/ Truncate(c) \/ Fill(c) \/ Seal(c)
            \/ Reject(c) \/ Return(c) \/ Kill(c)
    BY DEF Next, Report
  <1>2. PICK y : y = client'[c]
    OBVIOUS
  <1>3. CommandInv(y)
    BY <1>2 DEF TypeInv
  <1>4. CASE StartRun(c)
    <2>1. PICK s \in LocalRuns : StartedRun(c, s)
      BY <1>4, StartRunDoes
    <2>2. PICK mode \in Modes, seen \in Observations :
              y.todo = RunWrites(mode, s, y.n, seen)
      BY <1>2, <2>1 DEF StartedRun
    <2>3. /\ Only(c) /\ y.at = 1 /\ y.pc = "write" /\ y.run = s
          /\ captures' = [captures EXCEPT ![s] = @ + 1] /\ UNCHANGED disk
      BY <1>2, <2>1 DEF StartedRun
    <2>4. s \in Runs
      BY DEF Runs
    <2>5. CASE s = r
      BY <1>0, <1>2, <2>2, <2>3, <2>5, RunBegins
    <2>6. CASE s # r
      <3>1. RunTodo(y)
        BY <2>2, <2>3, <2>4 DEF RunTodo
      <3>2. ~ Has(y, r) /\ captures'[r] = captures[r]
        BY <1>0, <2>3, <2>6, <3>1, HasRun
      <3> QED BY <1>0, <1>2, <2>3, <3>2, RunUntouched
    <2> QED BY <2>5, <2>6
  <1>5. CASE StartFleet(c)
    <2>1. Only(c) /\ y.run = NoRun /\ y.todo = <<>> /\ UNCHANGED <<disk, captures>>
      BY <1>2, <1>5, StartFleetDoes DEF StartedFleet
    <2>2. ~ Has(y, r)
      BY <2>1, HasNone
    <2> QED BY <1>0, <1>2, <2>1, <2>2, RunUntouched
  <1>6. CASE Report(c)
    <2>1. PICK row :
              CapturedHere(c, row) \/ Answered(c, row) \/ Missed(c, row)
      BY <1>6, ReportDoes
    <2>2. UNCHANGED disk /\ Pending(c)
      BY <1>6, ReportDoes
    <2>3. Grown(c, row)
      BY <2>1 DEF CapturedHere, Answered, Missed
    <2>4. Only(c) /\ y.at = 1 /\ y.n = client[c].n /\ y.then = "target"
          /\ y.fleet = client[c].fleet /\ y.op = client[c].op
          /\ y.pc = IF y.todo = <<>> THEN "target" ELSE "write"
      BY <1>2, <2>3 DEF Grown
    <2>5. CASE CapturedHere(c, row)
      <3> DEFINE s == RunName(client[c].fleet, CurrentTarget(c).id)
      <3>1. PICK mode \in Modes, seen \in Observations :
                y.todo = RunWrites(mode, s, y.n, seen)
        BY <1>2, <2>4, <2>5 DEF CapturedHere
      <3>2. y.run = s /\ captures' = [captures EXCEPT ![s] = @ + 1]
        BY <1>2, <2>5 DEF CapturedHere
      <3>3. s \in Runs
        BY <2>2, TargetAt, RefsAreFiles
      <3> HIDE DEF s
      <3>4. y.pc = "write"
        BY <2>4, <3>1, RunWritesAre
      <3>5. CASE s = r
        BY <1>0, <1>2, <2>2, <2>4, <3>1, <3>2, <3>4, <3>5, RunBegins
      <3>6. CASE s # r
        <4>1. RunTodo(y)
          BY <3>1, <3>2, <3>3 DEF RunTodo
        <4>2. ~ Has(y, r) /\ captures'[r] = captures[r]
          BY <1>0, <3>2, <3>6, <4>1, HasRun
        <4> QED BY <1>0, <1>2, <2>2, <2>4, <4>2, RunUntouched
      <3> QED BY <3>5, <3>6
    <2>6. CASE Answered(c, row)
      <3>1. y.run = NoRun /\ UNCHANGED captures
        BY <1>2, <2>6 DEF Answered
      <3>2. ~ Has(y, r)
        <4>1. TargetTodo(y) /\ y.pc \in Writing
          BY <1>2, <2>2, <2>6, AnsweredTodo DEF Writing
        <4> QED BY <1>3, <4>1, HasOther
      <3> QED BY <1>0, <1>2, <2>2, <2>4, <3>1, <3>2, RunUntouched
    <2>7. CASE Missed(c, row)
      <3>1. y.run = NoRun /\ y.todo = <<>> /\ UNCHANGED captures
        BY <1>2, <2>7 DEF Missed
      <3>2. ~ Has(y, r)
        BY <3>1, HasNone
      <3> QED BY <1>0, <1>2, <2>2, <2>4, <3>1, <3>2, RunUntouched
    <2> QED BY <2>1, <2>5, <2>6, <2>7
  <1>7. CASE Conclude(c)
    <2>1. Concluded(c) /\ UNCHANGED <<disk, captures>>
      BY <1>7, ConcludeDoes
    <2>2. /\ Only(c) /\ y.run = NoRun /\ y.then = "done"
          /\ y.pc = IF y.todo = <<>> THEN "done" ELSE "write"
          /\ y.n = client[c].n /\ y.fleet = client[c].fleet
          /\ y.op = client[c].op /\ y.matrix = client[c].matrix
          /\ client[c].pc = "target"
      BY <1>2, <2>1 DEF Concluded
    <2>3. CASE y.todo = <<>>
      <3>1. ~ Has(y, r)
        BY <2>2, <2>3, HasNone
      <3> QED BY <1>0, <1>2, <2>1, <2>2, <3>1, RunUntouched
    <2>4. CASE y.todo # <<>>
      <3>1. PICK name \in FleetNames :
                y.todo = <<Write(FleetFile(y.fleet, name),
                                 FleetEvidence(y.n, y.matrix))>>
        BY <1>2, <2>1, <2>2, <2>4 DEF Concluded
      <3>2. y.op \in FleetOps
        BY <2>2 DEF TypeInv, CommandInv
      <3>3. FinalTodo(y) /\ y.pc \in Writing
        BY <2>2, <2>4, <3>1, <3>2 DEF FinalTodo, Writing
      <3>4. ~ Has(y, r)
        BY <1>3, <3>3, HasOther
      <3> QED BY <1>0, <1>2, <2>1, <2>2, <3>4, RunUntouched
    <2> QED BY <2>3, <2>4
  <1>8. CASE Reject(c) \/ Return(c) \/ Kill(c)
    <2>1. y = Idle /\ Only(c) /\ UNCHANGED <<disk, captures>>
      BY <1>2, <1>8, StopDoes DEF Stopped
    <2>2. ~ Has(y, r)
      BY <2>1, IdleIs, HasNone
    <2> QED BY <1>0, <1>2, <2>1, <2>2, RunUntouched
  <1> QED BY <1>0, <1>1, <1>4, <1>5, <1>6, <1>7, <1>8, RunWritten, RunSealed

----------------------------------------------------------------------------
(* A fleet run whose id was used once.                                     *)

Works(x, f) == x.op \in FleetOps /\ x.fleet = f

(* The command is still to write the file, and it will be its own.         *)
Naming(x, g) == \E k \in DOMAIN x.todo : x.at <= k /\ x.todo[k].file = g
Coming(x, g) ==
    \E k \in DOMAIN x.todo :
        x.at <= k /\ x.todo[k].file = g /\ x.todo[k].value.by = x.n

(* The file is there and nobody is about to write it.                      *)
Kept(d, cl, g, n) ==
    /\ d[g].is = "file" /\ d[g].value.by = n
    /\ \A c \in Clients : ~ Naming(cl[c], g)

(* A row that the property is about: it refers to what its target has      *)
(* answered, or to the evidence of a run that was made once.               *)
Counts(cap, f, row) ==
    row.status = "captured" /\ cap[RunName(f, row.target)] <= 1

Stands(cap, f, row) ==
    \/ \E name \in TargetNames : row.ref = TargetFile(f, row.target, name)
    \/ /\ row.ref = RunFile(RunName(f, row.target), "evidence_index")
       /\ cap[RunName(f, row.target)] = 1

(* What the rows of a command refer to is there or comes, and what those   *)
(* of a fleet evidence refer to is there.                                  *)
Backing(x, d, cl, cap, f) ==
    Works(x, f) =>
        \A i \in DOMAIN x.matrix :
            Counts(cap, f, x.matrix[i]) =>
                /\ Stands(cap, f, x.matrix[i])
                /\ \/ Coming(x, x.matrix[i].ref)
                   \/ Kept(d, cl, x.matrix[i].ref, x.n)

Backed(v, d, cl, cap, f) ==
    \A i \in DOMAIN v.matrix :
        /\ v.matrix[i] \in Rows
        /\ Counts(cap, f, v.matrix[i]) =>
            /\ Stands(cap, f, v.matrix[i])
            /\ Kept(d, cl, v.matrix[i].ref, v.by)

Unwritten(d, f) == \A name \in FleetNames : d[FleetFile(f, name)] = Absent

FleetInv(f) ==
    /\ fleets[f] = 0 =>
        /\ \A c \in Clients : ~ Works(client[c], f)
        /\ Unwritten(disk, f)
    /\ fleets[f] = 1 =>
        /\ \A c, e \in Clients :
            Works(client[c], f) /\ Works(client[e], f) => c = e
        /\ \A c \in Clients :
            Works(client[c], f) /\ client[c].then = "target" => Unwritten(disk, f)
        /\ \A c \in Clients : Backing(client[c], disk, client, captures, f)
        /\ \A name \in FleetNames :
            disk[FleetFile(f, name)].is = "file" =>
                Backed(disk[FleetFile(f, name)].value, disk, client, captures, f)

FleetsInv == \A f \in FleetIds : FleetInv(f)

(* The invariant says what is wanted.                                      *)
LEMMA FleetsInvSuffices ==
    ASSUME TypeInv, FleetsInv
    PROVE  FleetEvidenceBacked
  <1> SUFFICES ASSUME NEW f \in FleetIds, NEW name \in FleetNames,
                      disk[FleetFile(f, name)].is = "file", fleets[f] = 1,
                      NEW row \in Range(disk[FleetFile(f, name)].value.matrix),
                      row.status = "captured",
                      captures[RunName(f, row.target)] <= 1
               PROVE  /\ row.ref \in Files
                      /\ disk[row.ref].is = "file"
                      /\ disk[row.ref].value.by = disk[FleetFile(f, name)].value.by
    BY DEF FleetEvidenceBacked, FleetNames
  <1> DEFINE v == disk[FleetFile(f, name)].value
  <1>1. PICK i \in DOMAIN v.matrix : row = v.matrix[i]
    BY DEF Range
  <1>2. Backed(v, disk, client, captures, f)
    BY DEF FleetsInv, FleetInv
  <1> HIDE DEF v
  <1>3. /\ row \in Rows /\ Stands(captures, f, row)
        /\ Kept(disk, client, row.ref, v.by)
    BY <1>1, <1>2 DEF Backed, Counts
  <1>4. row.target \in TargetIds
    BY <1>3 DEF Rows
  <1>5. row.ref \in Files
    BY <1>3, <1>4, RefsAreFiles DEF Stands
  <1> QED BY <1>3, <1>5 DEF Kept, v

(* No fleet run has been begun.                                            *)
LEMMA FleetsInit ==
    ASSUME Init
    PROVE  FleetsInv
  <1> SUFFICES ASSUME NEW f \in FleetIds PROVE FleetInv(f)
    BY DEF FleetsInv
  <1>1. fleets[f] = 0
    BY DEF Init
  <1>2. \A name \in FleetNames : FleetFile(f, name) \in Files
    BY DEF Files, FleetNames
  <1>3. Unwritten(disk, f)
    BY <1>2 DEF Init, Unwritten
  <1>4. \A c \in Clients : ~ Works(client[c], f)
    BY IdleIs DEF Init, Works, FleetOps
  <1> QED BY <1>1, <1>3, <1>4 DEF FleetInv

(* Ids are only ever used more often.                                      *)
Grows(cap, cap_) == \A r \in Runs : cap_[r] = cap[r] \/ cap_[r] = cap[r] + 1

(* A step counts at most one more capture of a run, and forgets none.      *)
LEMMA CapturesGrow ==
    ASSUME TypeInv, Next
    PROVE  Grows(captures, captures')
  <1>1. PICK c \in Clients :
            \/ StartRun(c) \/ StartFleet(c) \/ Report(c) \/ Conclude(c)
            \/ Truncate(c) \/ Fill(c) \/ Seal(c)
            \/ Reject(c) \/ Return(c) \/ Kill(c)
    BY DEF Next, Report
  <1>2. captures \in [Runs -> Nat]
    BY DEF TypeInv
  <1>3. \/ captures' = captures
        \/ \E r \in Runs : captures' = [captures EXCEPT ![r] = @ + 1]
    <2>1. CASE StartRun(c)
      BY <2>1, StartRunDoes DEF StartedRun, Runs
    <2>2. CASE StartFleet(c)
      BY <2>2, StartFleetDoes DEF StartedFleet
    <2>3. CASE Report(c)
      <3>1. PICK row : CapturedHere(c, row) \/ Answered(c, row) \/ Missed(c, row)
        BY <2>3, ReportDoes
      <3>2. RunName(client[c].fleet, CurrentTarget(c).id) \in Runs
        BY <2>3, ReportDoes, TargetAt, RefsAreFiles
      <3> QED BY <3>1, <3>2 DEF CapturedHere, Answered, Missed
    <2>4. CASE \/ Conclude(c) \/ Truncate(c) \/ Fill(c) \/ Seal(c)
               \/ Reject(c) \/ Return(c) \/ Kill(c)
      BY <2>4, ConcludeDoes, TruncateDoes, FillDoes, SealDoes, StopDoes
    <2> QED BY <1>1, <2>1, <2>2, <2>3, <2>4
  <1> QED BY <1>2, <1>3 DEF Grows

(* A row that still counts counted before, and still stands.               *)
LEMMA StandsStays ==
    ASSUME NEW cap \in [Runs -> Nat], NEW cap_ \in [Runs -> Nat], Grows(cap, cap_),
           NEW f \in FleetIds, NEW row, row.target \in TargetIds,
           Counts(cap_, f, row)
    PROVE  /\ Counts(cap, f, row)
           /\ Stands(cap, f, row) => Stands(cap_, f, row)
  <1> DEFINE r == RunName(f, row.target)
  <1>1. r \in Runs
    BY RefsAreFiles
  <1> HIDE DEF r
  <1>2. cap[r] \in Nat /\ cap_[r] \in Nat /\ (cap_[r] = cap[r] \/ cap_[r] = cap[r] + 1)
    BY <1>1 DEF Grows
  <1>3. cap_[r] <= 1
    BY DEF Counts, r
  <1>4. cap[r] <= 1 /\ (cap[r] = 1 => cap_[r] = 1)
    BY <1>2, <1>3
  <1>5. Counts(cap, f, row)
    BY <1>4 DEF Counts, r
  <1>6. ASSUME Stands(cap, f, row) PROVE Stands(cap_, f, row)
    BY <1>4, <1>6 DEF Stands, r
  <1> QED BY <1>5, <1>6

(* What is named is written next.                                          *)
LEMMA NamingIs ==
    ASSUME NEW x, CommandInv(x), NEW g, Naming(x, g)
    PROVE  /\ x.pc \in Writing
           /\ \E k \in DOMAIN x.todo : x.at <= k /\ x.todo[k].file = g
  BY DEF Naming, CommandInv

(* What a command is about to write of a fleet run is its own, and so is   *)
(* the evidence of a run that it is about to write.                        *)
LEMMA NamingTarget ==
    ASSUME NEW x, CommandInv(x), NEW f, NEW t, NEW name,
           Naming(x, TargetFile(f, t, name))
    PROVE  Works(x, f) /\ x.then = "target" /\ Coming(x, TargetFile(f, t, name))
  <1>1. PICK k \in DOMAIN x.todo :
            x.at <= k /\ x.todo[k].file = TargetFile(f, t, name)
    BY DEF Naming
  <1>2. x.pc \in Writing
    BY NamingIs
  <1>3. TargetTodo(x) /\ x.fleet = f /\ x.todo[k].value.by = x.n
    BY <1>1, <1>2, TargetWriter
  <1> QED BY <1>1, <1>3 DEF TargetTodo, Works, Coming

(* Who is to write the evidence of a run makes that run.                   *)
LEMMA NamingRun ==
    ASSUME NEW x, CommandInv(x), NEW r,
           Naming(x, RunFile(r, "evidence_index"))
    PROVE  Makes(x, r) /\ x.run \in Runs
  <1>1. PICK k \in DOMAIN x.todo :
            x.at <= k /\ x.todo[k].file = RunFile(r, "evidence_index")
    BY DEF Naming
  <1>2. x.pc \in Writing
    BY NamingIs
  <1>3. RunTodo(x) /\ x.run = r
    BY <1>1, <1>2, RunWriter
  <1> QED BY <1>3 DEF Makes, RunTodo

(* A file that is kept, and that the command that moves does not set out   *)
(* to write.                                                               *)
LEMMA KeptStays ==
    ASSUME NEW c \in Clients, Only(c), NEW g, NEW n,
           Kept(disk, client, g, n), disk'[g] = disk[g],
           ~ Naming(client'[c], g)
    PROVE  Kept(disk', client', g, n)
  <1>0. PICK d, cl : d = disk' /\ cl = client'
    OBVIOUS
  <1>1. \A e \in Clients : ~ Naming(cl[e], g)
    BY <1>0 DEF Kept, Only
  <1>2. d[g].is = "file" /\ d[g].value.by = n
    BY <1>0 DEF Kept
  <1>3. Kept(d, cl, g, n)
    BY <1>1, <1>2 DEF Kept
  <1> QED BY <1>0, <1>3

(* A step that writes nothing: a row that was backed is, or its command    *)
(* sets out to write the file itself.                                      *)
LEMMA RowStays ==
    ASSUME TypeInv, TypeInv', Grows(captures, captures'),
           NEW c \in Clients, Only(c), UNCHANGED disk,
           client'[c].run \in Runs =>
                captures'[client'[c].run] = captures[client'[c].run] + 1,
           NEW f \in FleetIds, NEW row, row.target \in TargetIds, NEW n,
           Counts(captures', f, row), Stands(captures, f, row),
           Kept(disk, client, row.ref, n)
    PROVE  \/ Kept(disk', client', row.ref, n)
           \/ /\ Works(client'[c], f) /\ client'[c].then = "target"
              /\ Coming(client'[c], row.ref)
  <1>0. PICK y, cap_ : y = client'[c] /\ cap_ = captures'
    OBVIOUS
  <1>1. CommandInv(y) /\ captures \in [Runs -> Nat] /\ cap_ \in [Runs -> Nat]
    BY <1>0 DEF TypeInv
  <1>2. CASE ~ Naming(y, row.ref)
    BY <1>0, <1>2, KeptStays
  <1>3. CASE Naming(y, row.ref) /\
             \E name \in TargetNames : row.ref = TargetFile(f, row.target, name)
    BY <1>0, <1>1, <1>3, NamingTarget
  <1>4. CASE Naming(y, row.ref) /\
             ~ \E name \in TargetNames : row.ref = TargetFile(f, row.target, name)
    <2> DEFINE r == RunName(f, row.target)
    <2>1. row.ref = RunFile(r, "evidence_index") /\ captures[r] = 1
      BY <1>4 DEF Stands
    <2>2. cap_[r] <= 1
      BY <1>0 DEF Counts
    <2> HIDE DEF r
    <2>3. y.run = r /\ r \in Runs
      BY <1>1, <1>4, <2>1, NamingRun DEF Makes
    <2>4. cap_[r] = captures[r] + 1
      BY <1>0, <2>3
    <2> QED BY <2>1, <2>2, <2>4
  <1> QED BY <1>2, <1>3, <1>4

(* A step that writes nothing and begins no fleet run of f.                *)
LEMMA FleetStays ==
    ASSUME TypeInv, TypeInv', Grows(captures, captures'),
           NEW c \in Clients, Only(c), UNCHANGED disk,
           client'[c].run \in Runs =>
                captures'[client'[c].run] = captures[client'[c].run] + 1,
           NEW f \in FleetIds, FleetInv(f), fleets'[f] = fleets[f],
           Works(client'[c], f) => Works(client[c], f),
           Works(client'[c], f) /\ client'[c].then = "target" =>
                client[c].then = "target",
           fleets[f] = 1 => Backing(client'[c], disk', client', captures', f)
    PROVE  FleetInv(f)'
  <1>0. PICK d, cl, cap, y :
            d = disk' /\ cl = client' /\ cap = captures' /\ y = client'[c]
    OBVIOUS
  <1>1. \A e \in Clients \ {c} : cl[e] = client[e]
    BY <1>0 DEF Only
  <1>2. y = cl[c] /\ (Works(y, f) => Works(client[c], f))
    BY <1>0
  <1>3. \A e \in Clients : Works(cl[e], f) => Works(client[e], f)
    BY <1>1, <1>2
  <1>4. CASE fleets[f] = 0
    <2>1. \A e \in Clients : ~ Works(cl[e], f)
      BY <1>3, <1>4 DEF FleetInv
    <2>2. Unwritten(d, f)
      BY <1>0, <1>4 DEF FleetInv
    <2> QED BY <1>0, <1>4, <2>1, <2>2 DEF FleetInv
  <1>5. CASE fleets[f] = 1
    <2>1. \A a, e \in Clients : Works(cl[a], f) /\ Works(cl[e], f) => a = e
      BY <1>3, <1>5 DEF FleetInv
    <2>2. \A e \in Clients :
            Works(cl[e], f) /\ cl[e].then = "target" =>
                Works(client[e], f) /\ client[e].then = "target"
      BY <1>0, <1>1, <1>2
    <2>3. \A e \in Clients :
            Works(cl[e], f) /\ cl[e].then = "target" => Unwritten(d, f)
      BY <1>0, <1>5, <2>2 DEF FleetInv
    <2>4. captures \in [Runs -> Nat] /\ cap \in [Runs -> Nat] /\ Grows(captures, cap)
      BY <1>0 DEF TypeInv
    <2>5. ASSUME NEW e \in Clients
          PROVE  Backing(cl[e], d, cl, cap, f)
      <3>1. CASE e = c
        BY <1>0, <1>5, <3>1
      <3>2. CASE e # c
        <4> DEFINE x == client[e]
        <4> SUFFICES ASSUME Works(x, f), NEW i \in DOMAIN x.matrix,
                            Counts(cap, f, x.matrix[i])
                     PROVE  /\ Stands(cap, f, x.matrix[i])
                            /\ \/ Coming(x, x.matrix[i].ref)
                               \/ Kept(d, cl, x.matrix[i].ref, x.n)
          BY <1>1, <3>2 DEF Backing
        <4>1. PICK row : row = x.matrix[i]
          OBVIOUS
        <4>2. row \in Rows /\ row.target \in TargetIds
          <5>1. x.matrix \in Seq(Rows)
            BY DEF TypeInv, CommandInv
          <5>2. row \in Rows
            BY <4>1, <5>1
          <5> QED BY <5>2 DEF Rows
        <4>3. Counts(cap, f, row) /\ Counts(captures, f, row)
          BY <2>4, <4>1, <4>2, StandsStays
        <4>4. /\ Stands(captures, f, row)
              /\ \/ Coming(x, row.ref)
                 \/ Kept(disk, client, row.ref, x.n)
          BY <1>5, <4>1, <4>3 DEF FleetInv, Backing
        <4>5. Stands(cap, f, row)
          BY <2>4, <4>2, <4>3, <4>4, StandsStays
        <4>6. CASE Kept(disk, client, row.ref, x.n)
          <5>1. ~ Works(y, f)
            BY <1>2, <1>5, <3>2 DEF FleetInv
          <5>2. Kept(d, cl, row.ref, x.n)
            BY <1>0, <4>2, <4>3, <4>4, <4>6, <5>1, RowStays
          <5> QED BY <4>1, <4>5, <5>2
        <4> QED BY <4>1, <4>4, <4>5, <4>6
      <3> QED BY <3>1, <3>2
    <2>6. ASSUME NEW name \in FleetNames, d[FleetFile(f, name)].is = "file"
          PROVE  Backed(d[FleetFile(f, name)].value, d, cl, cap, f)
      <3>0. PICK v : v = d[FleetFile(f, name)].value
        OBVIOUS
      <3>1. Backed(v, disk, client, captures, f)
        BY <1>0, <1>5, <2>6, <3>0 DEF FleetInv
      <3>2. ~ (Works(y, f) /\ y.then = "target")
        <4>1. ~ Unwritten(d, f)
          BY <2>6 DEF Unwritten, Absent
        <4> QED BY <1>2, <2>3, <4>1
      <3>3. \A i \in DOMAIN v.matrix : v.matrix[i] \in Rows
        BY <3>1 DEF Backed
      <3>4. ASSUME NEW i \in DOMAIN v.matrix, Counts(cap, f, v.matrix[i])
            PROVE  /\ Stands(cap, f, v.matrix[i])
                   /\ Kept(d, cl, v.matrix[i].ref, v.by)
        <4>1. PICK row : row = v.matrix[i]
          OBVIOUS
        <4>2. row.target \in TargetIds
          BY <3>3, <4>1 DEF Rows
        <4>3. Counts(cap, f, row) /\ Counts(captures, f, row)
          BY <2>4, <3>4, <4>1, <4>2, StandsStays
        <4>4. Stands(captures, f, row) /\ Kept(disk, client, row.ref, v.by)
          BY <3>1, <4>1, <4>3 DEF Backed
        <4>5. Stands(cap, f, row)
          BY <2>4, <4>2, <4>3, <4>4, StandsStays
        <4>6. Kept(d, cl, row.ref, v.by)
          BY <1>0, <3>2, <4>2, <4>3, <4>4, RowStays
        <4> QED BY <4>1, <4>5, <4>6
      <3> QED BY <3>0, <3>3, <3>4 DEF Backed
    <2> QED BY <1>0, <1>5, <2>1, <2>3, <2>5, <2>6 DEF FleetInv
  <1>6. CASE fleets[f] # 0 /\ fleets[f] # 1
    BY <1>6 DEF FleetInv
  <1> QED BY <1>4, <1>5, <1>6

(* The rows that a command had are still backed when it goes on, after its *)
(* files are written.                                                      *)
LEMMA RowsGoOn ==
    ASSUME TypeInv, TypeInv', Grows(captures, captures'),
           NEW c \in Clients, Only(c), UNCHANGED disk,
           client'[c].run \in Runs =>
                captures'[client'[c].run] = captures[client'[c].run] + 1,
           NEW f \in FleetIds, FleetInv(f), fleets[f] = 1,
           Works(client[c], f), client[c].todo = <<>>,
           client'[c].n = client[c].n,
           NEW i \in DOMAIN client[c].matrix,
           Counts(captures', f, client[c].matrix[i])
    PROVE  LET ref == client[c].matrix[i].ref
           IN  /\ Stands(captures', f, client[c].matrix[i])
               /\ \/ Coming(client'[c], ref)
                  \/ Kept(disk', client', ref, client'[c].n)
  <1> DEFINE x == client[c]
  <1>1. PICK row : row = x.matrix[i]
    OBVIOUS
  <1>2. row.target \in TargetIds
    <2>1. x.matrix \in Seq(Rows)
      BY DEF TypeInv, CommandInv
    <2>2. row \in Rows
      BY <1>1, <2>1
    <2> QED BY <2>2 DEF Rows
  <1>3. captures \in [Runs -> Nat] /\ captures' \in [Runs -> Nat]
    BY DEF TypeInv
  <1>4. Counts(captures', f, row) /\ Counts(captures, f, row)
    BY <1>1, <1>2, <1>3, StandsStays
  <1>5. ~ Coming(x, row.ref)
    BY DEF Coming
  <1>6. Stands(captures, f, row) /\ Kept(disk, client, row.ref, x.n)
    BY <1>1, <1>4, <1>5 DEF FleetInv, Backing
  <1>7. Stands(captures', f, row)
    BY <1>2, <1>3, <1>4, <1>6, StandsStays
  <1>8. \/ Coming(client'[c], row.ref)
        \/ Kept(disk', client', row.ref, x.n)
    BY <1>2, <1>4, <1>6, RowStays
  <1> QED BY <1>1, <1>7, <1>8

(* A target of f has its row.                                              *)
LEMMA FleetReports ==
    ASSUME TypeInv, TypeInv', Grows(captures, captures'),
           NEW f \in FleetIds, FleetInv(f), NEW c \in Clients, Report(c)
    PROVE  FleetInv(f)'
  <1> DEFINE x == client[c]
  <1>0. PICK y, d, cl, cap :
            y = client'[c] /\ d = disk' /\ cl = client' /\ cap = captures'
    OBVIOUS
  <1>1. Pending(c) /\ UNCHANGED <<disk, fleets>>
    BY ReportDoes
  <1>2. PICK row : CapturedHere(c, row) \/ Answered(c, row) \/ Missed(c, row)
    BY ReportDoes
  <1>3. Grown(c, row)
    BY <1>2 DEF CapturedHere, Answered, Missed
  <1>4. /\ Only(c) /\ y.n = x.n /\ y.op = x.op /\ y.fleet = x.fleet
        /\ y.matrix = Append(x.matrix, row) /\ y.then = "target" /\ y.at = 1
        /\ row \in Rows /\ row.target = CurrentTarget(c).id
    BY <1>0, <1>3 DEF Grown
  <1>5. /\ x.todo = <<>> /\ x.then = "target" /\ x.matrix \in Seq(Rows)
        /\ x.fleet \in FleetIds /\ CurrentTarget(c).id \in TargetIds
    BY <1>1, TargetAt
  <1>6. CommandInv(y) /\ captures \in [Runs -> Nat] /\ cap \in [Runs -> Nat]
    BY <1>0 DEF TypeInv
  <1>7. Works(y, f) <=> Works(x, f)
    BY <1>4 DEF Works
  <1>8. y.run \in Runs => cap[y.run] = captures[y.run] + 1
    <2>1. CASE CapturedHere(c, row)
      BY <1>0, <1>6, <2>1 DEF CapturedHere
    <2>2. CASE Answered(c, row) \/ Missed(c, row)
      BY <1>0, <2>2, RunIdsAssumption DEF Answered, Missed
    <2> QED BY <1>2, <2>1, <2>2
  <1>9. ASSUME Works(y, f), Counts(cap, f, row)
        PROVE  Stands(cap, f, row) /\ Coming(y, row.ref)
    <2> DEFINE t == CurrentTarget(c).id
    <2>1. x.fleet = f /\ row.target = t
      BY <1>4, <1>7, <1>9 DEF Works
    <2>2. CASE CapturedHere(c, row)
      <3> DEFINE r == RunName(f, t)
      <3>1. r \in Runs
        BY <1>5, RefsAreFiles
      <3>2. /\ y.run = r /\ row.ref = RunFile(r, "evidence_index")
            /\ \E mode \in Modes, seen \in Observations :
                  y.todo = RunWrites(mode, r, x.n, seen)
        BY <1>0, <2>1, <2>2 DEF CapturedHere
      <3>3. cap[r] = captures[r] + 1
        BY <1>8, <3>1, <3>2
      <3>4. cap[r] <= 1
        BY <1>9, <2>1 DEF Counts
      <3> HIDE DEF r
      <3>5. captures[r] \in Nat /\ cap[r] \in Nat
        BY <1>6, <3>1
      <3>6. cap[r] = 1
        BY <3>3, <3>4, <3>5
      <3>7. Stands(cap, f, row)
        BY <2>1, <3>2, <3>6 DEF Stands, r
      <3>8. /\ DOMAIN y.todo = 1 .. 3 /\ y.todo[2].file = row.ref
            /\ y.todo[2].value.by = y.n
        BY <1>4, <3>2, RunWritesAre
      <3>9. 2 \in DOMAIN y.todo /\ y.at <= 2
        BY <1>4, <3>8
      <3>10. Coming(y, row.ref)
        BY <3>8, <3>9 DEF Coming
      <3> QED BY <3>7, <3>10
    <2>3. CASE Answered(c, row)
      <3>1. PICK name \in TargetNames :
                /\ row.ref = TargetFile(f, t, name)
                /\ \/ y.todo = <<Pack(y, t, name)>>
                   \/ y.todo = <<Write(ServiceState, [by |-> y.n]),
                                 Write(ServicePack, [by |-> y.n]), Pack(y, t, name)>>
        BY <1>0, <1>4, <2>1, <2>3 DEF Answered, Pack
      <3>2. Stands(cap, f, row)
        BY <2>1, <3>1 DEF Stands
      <3>3. y.fleet = f
        BY <1>4, <2>1
      <3>4. PICK w : w = Pack(y, t, name)
        OBVIOUS
      <3>5. w.file = row.ref /\ w.value.by = y.n
        BY <3>1, <3>3, <3>4 DEF Pack, Write
      <3>6. \E k \in DOMAIN y.todo : 1 <= k /\ y.todo[k] = w
        <4>1. CASE y.todo = <<w>>
          <5>1. 1 \in DOMAIN y.todo /\ y.todo[1] = w
            BY <4>1
          <5> QED BY <5>1
        <4>2. ASSUME NEW a, NEW b, y.todo = <<a, b, w>>
              PROVE  \E k \in DOMAIN y.todo : 1 <= k /\ y.todo[k] = w
          <5>1. 3 \in DOMAIN y.todo /\ y.todo[3] = w
            BY <4>2
          <5> QED BY <5>1
        <4> QED BY <3>1, <3>4, <4>1, <4>2
      <3>7. Coming(y, row.ref)
        BY <1>4, <3>5, <3>6 DEF Coming
      <3> QED BY <3>2, <3>7
    <2>4. CASE Missed(c, row)
      BY <1>9, <2>4 DEF Missed, Counts
    <2> QED BY <1>2, <2>2, <2>3, <2>4
  <1>10. ASSUME fleets[f] = 1, Works(y, f)
         PROVE  Backing(y, d, cl, cap, f)
    <2> SUFFICES ASSUME NEW i \in DOMAIN y.matrix, Counts(cap, f, y.matrix[i])
                 PROVE  /\ Stands(cap, f, y.matrix[i])
                        /\ \/ Coming(y, y.matrix[i].ref)
                           \/ Kept(d, cl, y.matrix[i].ref, y.n)
      BY DEF Backing
    <2>1. CASE i = Len(x.matrix) + 1
      <3>1. y.matrix[i] = row
        BY <1>4, <1>5, <2>1
      <3> QED BY <1>9, <1>10, <3>1
    <2>2. CASE i # Len(x.matrix) + 1
      <3>1. i \in DOMAIN x.matrix /\ y.matrix[i] = x.matrix[i]
        BY <1>4, <1>5, <2>2
      <3>2. Works(x, f)
        BY <1>7, <1>10
      <3> QED BY <1>0, <1>1, <1>4, <1>5, <1>8, <1>10, <3>1, <3>2, RowsGoOn
    <2> QED BY <2>1, <2>2
  <1>11. fleets[f] = 1 => Backing(y, d, cl, cap, f)
    BY <1>10 DEF Backing
  <1> QED BY <1>0, <1>1, <1>4, <1>5, <1>7, <1>8, <1>11, FleetStays

(* All targets are done, or a run is sealed.                               *)
LEMMA FleetGoesOn ==
    ASSUME TypeInv, TypeInv', Grows(captures, captures'),
           NEW f \in FleetIds, FleetInv(f), NEW c \in Clients,
           Conclude(c) \/ Seal(c)
    PROVE  FleetInv(f)'
  <1> DEFINE x == client[c]
  <1>0. PICK y, d, cl, cap :
            y = client'[c] /\ d = disk' /\ cl = client' /\ cap = captures'
    OBVIOUS
  <1>1. /\ Only(c) /\ y.n = x.n /\ y.op = x.op /\ y.fleet = x.fleet
        /\ y.matrix = x.matrix /\ y.run = NoRun
        /\ y.then = "target" => x.then = "target"
        /\ x.pc \notin Writing
        /\ UNCHANGED <<disk, fleets>>
    <2>1. CASE Conclude(c)
      BY <1>0, <2>1, ConcludeDoes DEF Concluded, Writing
    <2>2. CASE Seal(c)
      BY <1>0, <2>2, SealDoes DEF Same, Writing
    <2> QED BY <2>1, <2>2
  <1>2. x.todo = <<>>
    BY <1>1 DEF TypeInv, CommandInv
  <1>3. y.run \notin Runs
    BY <1>1, RunIdsAssumption
  <1>4. Works(y, f) <=> Works(x, f)
    BY <1>1 DEF Works
  <1>5. ASSUME fleets[f] = 1, Works(y, f)
        PROVE  Backing(y, d, cl, cap, f)
    <2> SUFFICES ASSUME NEW i \in DOMAIN y.matrix, Counts(cap, f, y.matrix[i])
                 PROVE  /\ Stands(cap, f, y.matrix[i])
                        /\ \/ Coming(y, y.matrix[i].ref)
                           \/ Kept(d, cl, y.matrix[i].ref, y.n)
      BY DEF Backing
    <2>1. i \in DOMAIN x.matrix /\ y.matrix[i] = x.matrix[i] /\ Works(x, f)
      BY <1>1, <1>4, <1>5
    <2> QED BY <1>0, <1>1, <1>2, <1>3, <1>5, <2>1, RowsGoOn
  <1>6. fleets[f] = 1 => Backing(y, d, cl, cap, f)
    BY <1>5 DEF Backing
  <1> QED BY <1>0, <1>1, <1>3, <1>4, <1>6, FleetStays

(* Only one command is about to write a file that a row refers to.         *)
LEMMA OneNames ==
    ASSUME TypeInv, RunsInv, NEW f \in FleetIds,
           \A a, b \in Clients :
                Works(client[a], f) /\ Works(client[b], f) => a = b,
           NEW row, Stands(captures, f, row),
           NEW c \in Clients, NEW e \in Clients,
           Naming(client[c], row.ref), Naming(client[e], row.ref)
    PROVE  c = e
  <1>1. CommandInv(client[c]) /\ CommandInv(client[e])
    BY DEF TypeInv
  <1>2. CASE \E name \in TargetNames : row.ref = TargetFile(f, row.target, name)
    BY <1>1, <1>2, NamingTarget
  <1>3. CASE ~ \E name \in TargetNames : row.ref = TargetFile(f, row.target, name)
    <2> DEFINE r == RunName(f, row.target)
    <2>1. row.ref = RunFile(r, "evidence_index") /\ captures[r] = 1
      BY <1>3 DEF Stands
    <2> HIDE DEF r
    <2>2. Makes(client[c], r) /\ Makes(client[e], r) /\ r \in Runs
      BY <1>1, <2>1, NamingRun DEF Makes
    <2>3. RunInv(r)
      BY <2>2 DEF RunsInv
    <2> QED BY <2>1, <2>2, <2>3 DEF RunInv, Has
  <1> QED BY <1>2, <1>3

(* A step of the command c that writes: nothing is named that was not, and *)
(* what is not named stays on disk.                                        *)
LEMMA WritesOn ==
    ASSUME TypeInv, NEW c \in Clients, Truncate(c) \/ Fill(c)
    PROVE  /\ Same(c)
           /\ UNCHANGED <<captures, fleets>>
           /\ \A e \in Clients : \A g : Naming(client'[e], g) => Naming(client[e], g)
           /\ \A g \in Files : ~ Naming(client[c], g) => disk'[g] = disk[g]
           /\ \A g : Coming(client[c], g) =>
                \/ Coming(client'[c], g)
                \/ /\ g \in Files /\ disk'[g].is = "file"
                   /\ disk'[g].value.by = client[c].n
                   /\ ~ Naming(client'[c], g)
  <1> DEFINE x == client[c]
             w == NextWrite(c)
  <1>0. PICK y, d : y = client'[c] /\ d = disk'
    OBVIOUS
  <1>1. /\ CommandInv(x) /\ x.pc \in Writing /\ x.at \in DOMAIN x.todo
        /\ w = x.todo[x.at]
        /\ \A h \in Files : h # w.file => d[h] = disk[h]
        /\ Fill(c) => d[w.file] = File(w.value)
    BY <1>0, WriteAt
  <1>2. /\ DOMAIN x.todo \in {1 .. 1, 1 .. 3}
        /\ \A k \in DOMAIN x.todo : x.todo[k].file \in Files
        /\ \A j, k \in DOMAIN x.todo :
                j # k => x.todo[j].file # x.todo[k].file
    BY <1>1, TodoIs
  <1>3. Same(c) /\ UNCHANGED <<captures, fleets>>
    BY TruncateDoes, FillDoes
  <1>4. \A k \in DOMAIN x.todo : k \in Nat
    BY <1>2
  <1>5. \/ Truncate(c) /\ y.todo = x.todo /\ y.at = x.at
        \/ Fill(c) /\ y.todo = x.todo /\ y.at = x.at + 1
        \/ Fill(c) /\ y.todo = <<>> /\ x.at + 1 \notin DOMAIN x.todo
    BY <1>0, TruncateDoes, FillDoes DEF More, Last
  <1>6. ASSUME NEW k \in DOMAIN y.todo, y.at <= k
        PROVE  k \in DOMAIN x.todo /\ x.at <= k /\ y.todo[k] = x.todo[k]
    <2>1. k \in DOMAIN x.todo /\ y.todo = x.todo /\ (y.at = x.at \/ y.at = x.at + 1)
      BY <1>5
    <2>2. k \in Nat /\ x.at \in Nat
      BY <1>1, <1>4, <2>1
    <2> QED BY <1>6, <2>1, <2>2
  <1>7. \A g : Naming(y, g) => Naming(x, g)
    BY <1>6 DEF Naming
  <1>8. \A e \in Clients : \A g : Naming(client'[e], g) => Naming(client[e], g)
    BY <1>0, <1>3, <1>7 DEF Same, Only
  <1>9. Naming(x, w.file)
    <2>1. x.at <= x.at
      BY <1>1, <1>4
    <2> QED BY <1>1, <2>1 DEF Naming
  <1>10. \A g \in Files : ~ Naming(x, g) => d[g] = disk[g]
    BY <1>1, <1>9
  <1>11. ASSUME NEW g, Coming(x, g)
         PROVE  \/ Coming(y, g)
                \/ /\ g \in Files /\ d[g].is = "file" /\ d[g].value.by = x.n
                   /\ ~ Naming(y, g)
    <2>1. PICK k \in DOMAIN x.todo :
              x.at <= k /\ x.todo[k].file = g /\ x.todo[k].value.by = x.n
      BY <1>11 DEF Coming
    <2>2. k \in Nat /\ x.at \in Nat /\ y.n = x.n
      BY <1>0, <1>1, <1>3, <1>4, <2>1 DEF Same
    <2>3. CASE Truncate(c) /\ y.todo = x.todo /\ y.at = x.at
      BY <2>1, <2>2, <2>3 DEF Coming
    <2>4. CASE Fill(c) /\ k = x.at
      <3>1. g = w.file /\ d[g] = File(x.todo[k].value) /\ g \in Files
        BY <1>1, <1>2, <2>1, <2>4
      <3>2. d[g].is = "file" /\ d[g].value.by = x.n
        BY <2>1, <3>1 DEF File
      <3>3. ASSUME Naming(y, g) PROVE FALSE
        <4>1. PICK j \in DOMAIN y.todo : y.at <= j /\ y.todo[j].file = g
          BY <3>3 DEF Naming
        <4>2. j \in DOMAIN x.todo /\ y.todo = x.todo
              /\ (y.at = x.at + 1 \/ Truncate(c))
          BY <1>5, <4>1
        <4>3. ~ Truncate(c)
          BY <2>4, TruncateDoes, FillDoes
        <4>4. j \in Nat /\ j # k
          BY <1>4, <2>2, <2>4, <4>1, <4>2, <4>3
        <4> QED BY <1>2, <2>1, <4>1, <4>2, <4>4
      <3> QED BY <3>1, <3>2, <3>3
    <2>5. CASE Fill(c) /\ k # x.at
      <3>1. x.at + 1 <= k
        BY <2>1, <2>2, <2>5
      <3>2. x.at + 1 \in DOMAIN x.todo
        <4>1. x.at \in DOMAIN x.todo /\ k \in DOMAIN x.todo
          BY <1>1, <2>1
        <4> HIDE DEF x
        <4> QED BY <1>2, <3>1, <4>1
      <3>3. ~ Truncate(c)
        BY <2>5, TruncateDoes, FillDoes
      <3>4. y.todo = x.todo /\ y.at = x.at + 1
        BY <1>5, <3>2, <3>3
      <3> QED BY <2>1, <2>2, <3>1, <3>4 DEF Coming
    <2>6. \/ Fill(c)
          \/ Truncate(c) /\ y.todo = x.todo /\ y.at = x.at
      BY <1>5
    <2> QED BY <2>3, <2>4, <2>5, <2>6
  <1> QED BY <1>0, <1>3, <1>8, <1>10, <1>11

(* A write keeps what the rows refer to.                                   *)
LEMMA FleetWritten ==
    ASSUME TypeInv, RunsInv, NEW f \in FleetIds, FleetInv(f),
           NEW c \in Clients, Truncate(c) \/ Fill(c)
    PROVE  FleetInv(f)'
  <1> DEFINE x == client[c]
             w == NextWrite(c)
  <1>0. PICK d, cl, y : d = disk' /\ cl = client' /\ y = cl[c]
    OBVIOUS
  <1>1. /\ Same(c) /\ Only(c) /\ UNCHANGED <<captures, fleets>>
        /\ \A e \in Clients : \A g : Naming(cl[e], g) => Naming(client[e], g)
        /\ \A g \in Files : ~ Naming(x, g) => d[g] = disk[g]
        /\ \A g : Coming(x, g) =>
                \/ Coming(y, g)
                \/ /\ g \in Files /\ d[g].is = "file" /\ d[g].value.by = x.n
                   /\ ~ Naming(y, g)
    BY <1>0, WritesOn DEF Same
  <1>2. /\ \A e \in Clients \ {c} : cl[e] = client[e]
        /\ y.n = x.n /\ y.op = x.op /\ y.fleet = x.fleet
        /\ y.matrix = x.matrix /\ y.then = x.then
    BY <1>0, <1>1 DEF Same, Only
  <1>3. \A e \in Clients :
            /\ Works(cl[e], f) <=> Works(client[e], f)
            /\ cl[e].then = client[e].then
    BY <1>0, <1>2 DEF Works
  <1>4. /\ CommandInv(x) /\ x.pc \in Writing /\ x.at \in DOMAIN x.todo
        /\ w = x.todo[x.at] /\ w.file \in Files
        /\ \A h \in Files : h # w.file => d[h] = disk[h]
        /\ Truncate(c) => d[w.file] = Torn
        /\ Fill(c) => d[w.file] = File(w.value)
    BY <1>0, WriteAt
  <1>5. \A name \in FleetNames : FleetFile(f, name) \in Files
    BY DEF Files, FleetNames
  <1>6. \A name \in FleetNames :
            w.file = FleetFile(f, name) =>
                FinalTodo(x) /\ x.at = 1 /\ Works(x, f) /\ x.then = "done"
    BY <1>4, FleetWriter DEF FinalTodo, Works
  <1>7. ASSUME Unwritten(disk, f), ~ (Works(x, f) /\ x.then = "done")
        PROVE  Unwritten(d, f)
    BY <1>4, <1>5, <1>6, <1>7 DEF Unwritten
  <1>8. CASE fleets[f] = 0
    <2>1. \A e \in Clients : ~ Works(cl[e], f)
      BY <1>3, <1>8 DEF FleetInv
    <2>2. Unwritten(d, f)
      BY <1>7, <1>8 DEF FleetInv
    <2> QED BY <1>0, <1>1, <1>8, <2>1, <2>2 DEF FleetInv
  <1>9. CASE fleets[f] = 1
    <2>1. \A a, e \in Clients : Works(client[a], f) /\ Works(client[e], f) => a = e
      BY <1>9 DEF FleetInv
    <2>2. \A a, e \in Clients : Works(cl[a], f) /\ Works(cl[e], f) => a = e
      BY <1>3, <2>1
    <2>3. ASSUME NEW e \in Clients, Works(cl[e], f), cl[e].then = "target"
          PROVE  Unwritten(d, f)
      <3>1. Unwritten(disk, f)
        BY <1>3, <1>9, <2>3 DEF FleetInv
      <3>2. ASSUME Works(x, f), x.then = "done" PROVE FALSE
        <4>1. e = c
          BY <1>3, <2>1, <2>3, <3>2
        <4> QED BY <1>3, <2>3, <3>2, <4>1
      <3> QED BY <1>7, <3>1, <3>2
    <2>4. ASSUME NEW g \in Files, NEW n, Kept(disk, client, g, n)
          PROVE  Kept(d, cl, g, n)
      <3>1. d[g] = disk[g]
        BY <1>1, <2>4 DEF Kept
      <3>2. \A e \in Clients : ~ Naming(cl[e], g)
        BY <1>1, <2>4 DEF Kept
      <3> QED BY <2>4, <3>1, <3>2 DEF Kept
    <2>5. ASSUME NEW row, row \in Rows, Stands(captures, f, row)
          PROVE  row.ref \in Files
      BY <2>5, RefsAreFiles DEF Stands, Rows
    <2>6. ASSUME NEW e \in Clients
          PROVE  Backing(cl[e], d, cl, captures, f)
      <3> DEFINE z == client[e]
      <3>0. PICK u : u = cl[e]
        OBVIOUS
      <3>1. u.matrix = z.matrix /\ u.n = z.n /\ (Works(u, f) <=> Works(z, f))
        BY <1>0, <1>2, <1>3, <3>0
      <3> SUFFICES ASSUME Works(z, f), NEW i \in DOMAIN z.matrix,
                          Counts(captures, f, z.matrix[i])
                   PROVE  /\ Stands(captures, f, z.matrix[i])
                          /\ \/ Coming(u, z.matrix[i].ref)
                             \/ Kept(d, cl, z.matrix[i].ref, z.n)
        BY <3>0, <3>1 DEF Backing
      <3>2. PICK row : row = z.matrix[i]
        OBVIOUS
      <3>3. row \in Rows
        <4>1. z.matrix \in Seq(Rows)
          BY DEF TypeInv, CommandInv
        <4> QED BY <3>2, <4>1
      <3>4. /\ Stands(captures, f, row)
            /\ Coming(z, row.ref) \/ Kept(disk, client, row.ref, z.n)
        BY <1>9, <3>2 DEF FleetInv, Backing
      <3>5. row.ref \in Files
        BY <2>5, <3>3, <3>4
      <3>6. CASE Kept(disk, client, row.ref, z.n)
        BY <2>4, <3>2, <3>4, <3>5, <3>6
      <3>7. CASE Coming(z, row.ref) /\ e # c
        BY <1>2, <3>0, <3>2, <3>4, <3>7
      <3>8. CASE Coming(x, row.ref) /\ e = c
        <4>1. CASE Coming(y, row.ref)
          BY <1>0, <3>0, <3>2, <3>4, <3>8, <4>1
        <4>2. CASE ~ Coming(y, row.ref)
          <5>1. /\ d[row.ref].is = "file" /\ d[row.ref].value.by = x.n
                /\ ~ Naming(y, row.ref)
            BY <1>1, <3>8, <4>2
          <5>2. Naming(x, row.ref)
            BY <3>8 DEF Coming, Naming
          <5>3. \A a \in Clients : ~ Naming(cl[a], row.ref)
            <6> SUFFICES ASSUME NEW a \in Clients, Naming(cl[a], row.ref)
                         PROVE  FALSE
              OBVIOUS
            <6>1. Naming(client[a], row.ref)
              BY <1>1
            <6>2. a = c
              BY <2>1, <3>4, <5>2, <6>1, OneNames
            <6> QED BY <1>0, <5>1, <6>2
          <5>4. Kept(d, cl, row.ref, x.n)
            BY <5>1, <5>3 DEF Kept
          <5> QED BY <3>2, <3>4, <3>8, <5>4
        <4> QED BY <4>1, <4>2
      <3> QED BY <3>4, <3>6, <3>7, <3>8
    <2>7. ASSUME NEW name \in FleetNames, d[FleetFile(f, name)].is = "file"
          PROVE  Backed(d[FleetFile(f, name)].value, d, cl, captures, f)
      <3> DEFINE h == FleetFile(f, name)
      <3>0. PICK v : v = d[h].value
        OBVIOUS
      <3>1. ASSUME Backed(v, disk, client, captures, f)
            PROVE  Backed(v, d, cl, captures, f)
        <4> SUFFICES ASSUME NEW i \in DOMAIN v.matrix
                     PROVE  /\ v.matrix[i] \in Rows
                            /\ Counts(captures, f, v.matrix[i]) =>
                                /\ Stands(captures, f, v.matrix[i])
                                /\ Kept(d, cl, v.matrix[i].ref, v.by)
          BY DEF Backed
        <4>1. /\ v.matrix[i] \in Rows
              /\ Counts(captures, f, v.matrix[i]) =>
                    /\ Stands(captures, f, v.matrix[i])
                    /\ Kept(disk, client, v.matrix[i].ref, v.by)
          BY <3>1 DEF Backed
        <4> QED BY <2>4, <2>5, <4>1
      <3>2. CASE w.file # h
        <4>1. d[h] = disk[h]
          BY <1>4, <1>5, <3>2
        <4>2. Backed(v, disk, client, captures, f)
          BY <1>9, <2>7, <3>0, <4>1 DEF FleetInv
        <4> QED BY <3>0, <3>1, <4>2
      <3>3. CASE w.file = h /\ Truncate(c)
        BY <1>4, <2>7, <3>3 DEF Torn
      <3>4. CASE w.file = h /\ Fill(c)
        <4>1. FinalTodo(x) /\ x.at = 1 /\ Works(x, f)
          BY <1>6, <3>4
        <4>2. w.value = FleetEvidence(x.n, x.matrix)
          BY <1>4, <4>1, FinalTodoIs
        <4>3. v = FleetEvidence(x.n, x.matrix)
          BY <1>4, <3>0, <3>4, <4>2 DEF File
        <4>4. v.by = x.n /\ v.matrix = x.matrix
          BY <4>3 DEF FleetEvidence
        <4>5. ASSUME NEW i \in DOMAIN x.matrix
              PROVE  /\ x.matrix[i] \in Rows
                     /\ Counts(captures, f, x.matrix[i]) =>
                          /\ Stands(captures, f, x.matrix[i])
                          /\ Kept(disk, client, x.matrix[i].ref, x.n)
          <5>1. PICK row : row = x.matrix[i]
            OBVIOUS
          <5>2. x.matrix \in Seq(Rows)
            BY <1>4 DEF CommandInv
          <5>3. row \in Rows
            BY <5>1, <5>2
          <5>4. ASSUME Counts(captures, f, row)
                PROVE  /\ Stands(captures, f, row)
                       /\ Coming(x, row.ref) \/ Kept(disk, client, row.ref, x.n)
            BY <1>9, <4>1, <5>1, <5>4 DEF FleetInv, Backing
          <5>5. ASSUME Stands(captures, f, row), Coming(x, row.ref)
                PROVE  FALSE
            <6>1. PICK k \in DOMAIN x.todo : x.todo[k].file = row.ref
              BY <5>5 DEF Coming
            <6>2. \E m : row.ref = FleetFile(x.fleet, m)
              <7>1. \A j \in 1 .. 1 : j = 1
                OBVIOUS
              <7> QED BY <4>1, <6>1, <7>1, FinalTodoIs
            <6> QED BY <5>5, <6>2 DEF Stands, FleetFile, TargetFile, RunFile
          <5> QED BY <5>1, <5>3, <5>4, <5>5
        <4>6. Backed(v, disk, client, captures, f)
          BY <4>4, <4>5 DEF Backed
        <4> QED BY <3>0, <3>1, <4>6
      <3> QED BY <3>2, <3>3, <3>4
    <2>8. captures' = captures /\ fleets' = fleets
      BY <1>1
    <2> QED BY <1>0, <1>9, <2>2, <2>3, <2>6, <2>7, <2>8 DEF FleetInv
  <1>10. CASE fleets[f] # 0 /\ fleets[f] # 1
    BY <1>1, <1>10 DEF FleetInv
  <1> QED BY <1>8, <1>9, <1>10

(* A fleet run begins.                                                     *)
LEMMA FleetBegins ==
    ASSUME TypeInv, TypeInv', Grows(captures, captures'),
           NEW f \in FleetIds, FleetInv(f), NEW c \in Clients, StartFleet(c)
    PROVE  FleetInv(f)'
  <1> DEFINE x == client[c]
  <1>1. PICK h \in FleetIds, inventory \in Inventories :
            StartedFleet(c, h, inventory)
    BY StartFleetDoes
  <1>2. PICK y, cl : y = client'[c] /\ cl = client'
    OBVIOUS
  <1>3. /\ Only(c) /\ y.fleet = h /\ y.matrix = <<>> /\ y.todo = <<>>
        /\ y.run = NoRun /\ fleets' = [fleets EXCEPT ![h] = @ + 1]
        /\ UNCHANGED <<disk, captures>>
    BY <1>1, <1>2 DEF StartedFleet
  <1>4. y.run \notin Runs /\ fleets \in [FleetIds -> Nat]
    BY <1>3, RunIdsAssumption DEF TypeInv
  <1>5. CASE h # f
    <2>1. ~ Works(y, f) /\ fleets'[f] = fleets[f]
      BY <1>3, <1>4, <1>5 DEF Works
    <2>2. Backing(y, disk', client', captures', f)
      BY <2>1 DEF Backing
    <2> QED BY <1>2, <1>3, <1>4, <2>1, <2>2, FleetStays
  <1>6. CASE h = f /\ fleets[f] = 0
    <2>1. \A e \in Clients \ {c} : ~ Works(cl[e], f)
      BY <1>2, <1>3, <1>6 DEF FleetInv, Only
    <2>2. Unwritten(disk, f)
      BY <1>6 DEF FleetInv
    <2>3. \A a, e \in Clients : Works(cl[a], f) /\ Works(cl[e], f) => a = e
      BY <2>1
    <2>4. Backing(y, disk, cl, captures, f)
      <3>1. DOMAIN y.matrix = {}
        BY <1>3
      <3> QED BY <3>1 DEF Backing
    <2>5. \A e \in Clients : Backing(cl[e], disk, cl, captures, f)
      BY <1>2, <2>1, <2>4 DEF Backing
    <2>6. \A name \in FleetNames : disk[FleetFile(f, name)].is # "file"
      BY <2>2 DEF Unwritten, Absent
    <2>7. fleets'[f] = 1
      BY <1>3, <1>4, <1>6
    <2> QED BY <1>2, <1>3, <2>2, <2>3, <2>5, <2>6, <2>7 DEF FleetInv
  <1>7. CASE h = f /\ fleets[f] # 0
    <2>1. fleets'[f] # 0 /\ fleets'[f] # 1
      BY <1>3, <1>4, <1>7
    <2> QED BY <2>1 DEF FleetInv
  <1> QED BY <1>5, <1>6, <1>7

(* A command that works on no fleet run.                                   *)
LEMMA FleetUntouched ==
    ASSUME TypeInv, TypeInv', Grows(captures, captures'),
           NEW f \in FleetIds, FleetInv(f), NEW c \in Clients,
           StartRun(c) \/ Reject(c) \/ Return(c) \/ Kill(c)
    PROVE  FleetInv(f)'
  <1>0. PICK y, cap : y = client'[c] /\ cap = captures'
    OBVIOUS
  <1>1. Only(c) /\ UNCHANGED <<disk, fleets>> /\ y.op \notin FleetOps
    <2>1. CASE StartRun(c)
      BY <1>0, <2>1, StartRunDoes DEF StartedRun, FleetOps
    <2>2. CASE Reject(c) \/ Return(c) \/ Kill(c)
      BY <1>0, <2>2, StopDoes, IdleIs DEF Stopped, FleetOps
    <2> QED BY <2>1, <2>2
  <1>2. y.run \in Runs => cap[y.run] = captures[y.run] + 1
    <2>1. CASE StartRun(c)
      <3>1. PICK r \in LocalRuns : StartedRun(c, r)
        BY <2>1, StartRunDoes
      <3>2. r \in Runs /\ captures \in [Runs -> Nat]
        BY DEF Runs, TypeInv
      <3> QED BY <1>0, <3>1, <3>2 DEF StartedRun
    <2>2. CASE Reject(c) \/ Return(c) \/ Kill(c)
      BY <1>0, <2>2, StopDoes, IdleIs, RunIdsAssumption DEF Stopped
    <2> QED BY <2>1, <2>2
  <1>3. ~ Works(y, f)
    BY <1>1 DEF Works
  <1>4. Backing(y, disk', client', captures', f)
    BY <1>3 DEF Backing
  <1> QED BY <1>0, <1>1, <1>2, <1>3, <1>4, FleetStays

(* Every step keeps every fleet run.                                       *)
LEMMA FleetsStep ==
    ASSUME TypeInv, TypeInv', RunsInv, FleetsInv, Next
    PROVE  FleetsInv'
  <1> SUFFICES ASSUME NEW f \in FleetIds PROVE FleetInv(f)'
    BY DEF FleetsInv
  <1>1. PICK c \in Clients :
            \/ StartRun(c) \/ StartFleet(c) \/ Report(c) \/ Conclude(c)
            \/ Truncate(c) \/ Fill(c) \/ Seal(c)
            \/ Reject(c) \/ Return(c) \/ Kill(c)
    BY DEF Next, Report
  <1>2. FleetInv(f) /\ Grows(captures, captures')
    BY CapturesGrow DEF FleetsInv
  <1> QED BY <1>1, <1>2, FleetBegins, FleetUntouched, FleetReports,
             FleetGoesOn, FleetWritten

----------------------------------------------------------------------------
(* The theorems.                                                           *)

Inv == /\ TypeInv
       /\ AskedInv /\ FleetEvidenceComplete
       /\ RunsInv /\ FleetsInv

(* The invariant holds at first,                                           *)
LEMMA InvInit == Init => Inv
  <1> SUFFICES ASSUME Init PROVE Inv
    OBVIOUS
  <1>1. AskedInv
    BY IdleIs DEF Init, AskedInv, AskedFor, FleetOps
  <1>2. FleetEvidenceComplete
    <2>1. \A f \in FleetIds, name \in {"fleet_evidence", "service_investigation"} :
            FleetFile(f, name) \in Files
      BY DEF Files
    <2>2. \A f \in FleetIds, name \in {"fleet_evidence", "service_investigation"} :
            disk[FleetFile(f, name)] = Absent
      BY <2>1 DEF Init
    <2> QED BY <2>2 DEF FleetEvidenceComplete, Absent
  <1> QED BY <1>1, <1>2, TypeInit, RunsInit, FleetsInit DEF Inv

(* and every step keeps it.                                                *)
LEMMA InvNext ==
    ASSUME Inv, [Next]_vars
    PROVE  Inv'
  <1>1. CASE Next
    <2>1. TypeInv'
      BY <1>1, TypeStep DEF Inv
    <2>2. AskedInv' /\ FleetEvidenceComplete'
      BY <1>1, AskedStep, CompleteStep DEF Inv
    <2>3. RunsInv' /\ FleetsInv'
      BY <1>1, <2>1, RunsStep, FleetsStep DEF Inv
    <2> QED BY <2>1, <2>2, <2>3 DEF Inv
  <1>2. CASE UNCHANGED vars
    <2>1. /\ disk' = disk /\ client' = client /\ requests' = requests
          /\ captures' = captures /\ fleets' = fleets /\ asked' = asked
      BY <1>2 DEF vars, history
    <2>2. TypeInv' /\ AskedInv' /\ FleetEvidenceComplete'
      <3>1. TypeInv'
        BY <2>1 DEF Inv, TypeInv
      <3>2. AskedInv'
        BY <2>1 DEF Inv, AskedInv
      <3>3. FleetEvidenceComplete'
        BY <2>1, CompleteIs DEF Inv
      <3> QED BY <3>1, <3>2, <3>3
    <2>3. RunsInv' /\ FleetsInv'
      <3>1. RunsInv'
        BY <2>1 DEF Inv, RunsInv, RunInv
      <3>2. FleetsInv'
        BY <2>1 DEF Inv, FleetsInv, FleetInv
      <3> QED BY <3>1, <3>2
    <2> QED BY <2>2, <2>3 DEF Inv
  <1> QED BY <1>1, <1>2

(* Every reachable state satisfies the inductive invariant: the types, what *)
(* was asked for, the evidences complete, the runs and the fleet runs kept. *)
THEOREM RunsInvariant == Spec => []Inv
  <1>1. Init => Inv
    BY InvInit
  <1>2. Inv /\ [Next]_vars => Inv'
    BY InvNext
  <1> QED BY <1>1, <1>2, PTL DEF Spec

(* A run with a manifest, whose id was used once, has all its files, all of *)
(* them made by one command, and the manifest, if whole, has the hashes    *)
(* of the files that are on disk: capture_run and snapshot seal last, and  *)
(* nobody writes over a sealed run.                                        *)
THEOREM SealedRunIsIntact == Spec => []SealedRunIntact
  <1>1. Inv => SealedRunIntact
    BY RunsInvSuffices DEF Inv
  <1> QED BY <1>1, RunsInvariant, PTL

(* A fleet evidence on disk has one row for each target of the inventory that *)
(* its command was started with, in order, whatever the targets answered and *)
(* whoever was killed meanwhile.                                           *)
THEOREM FleetEvidenceIsComplete == Spec => []FleetEvidenceComplete
  <1>1. Inv => FleetEvidenceComplete
    BY DEF Inv
  <1> QED BY <1>1, RunsInvariant, PTL

(* A row that says captured refers to a file that is there, written by the *)
(* command of the evidence, unless a fleet id or a run id was used twice.  *)
THEOREM FleetEvidenceIsBacked == Spec => []FleetEvidenceBacked
  <1>1. Inv => FleetEvidenceBacked
    BY FleetsInvSuffices DEF Inv
  <1> QED BY <1>1, RunsInvariant, PTL

=============================================================================

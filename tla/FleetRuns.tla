-------------------------------- MODULE FleetRuns --------------------------------
(***************************************************************************)
(* The run directories that captures, snapshots and the triggers of the    *)
(* daemon leave behind, and the fleet runs that are put together from them *)
(* and from the answers of the remote targets.  Commands and the daemon    *)
(* are processes of their own and share the artifact root without a lock;  *)
(* an identifier may be used again.  Nothing is undone: a command that is  *)
(* killed, cannot write, or meets an error of one target leaves what it    *)
(* has written so far.                                                     *)
(*                                                                         *)
(* Of the evidence the model keeps which sources it reports as observed    *)
(* and which as missing.  Files are written one after the other, each      *)
(* truncated first.                                                        *)
(***************************************************************************)
EXTENDS Naturals, Sequences, Functions

CONSTANTS
    Clients,       \* processes that run commands
    LocalRuns,     \* run ids of captures and snapshots that are no fleet's
    FleetIds,      \* fleet run ids
    Inventories,   \* sequences of targets: [id, transport]
    Observations,  \* what the sources may deliver: [source -> how often]
    Statuses,      \* how a remote target may fail
    MaxRequests,   \* bound: commands
    MaxCrashes     \* bound: kills and failing writes

CaptureSources  == {"cpu", "memory", "network"}
SnapshotSources == CaptureSources \cup {"system", "capability"}

(* Over the samples of a capture; "off" is a source whose collector is not *)
(* configured, or left out by the power mode.                              *)
Delivery == {"always", "sometimes", "never", "off"}

(* A trigger that fires keeps the sample that it fired on, a semantic one   *)
(* or a line of the kernel log.                                            *)
Modes == {"capture", "snapshot", "trigger", "kmsg"}

SourcesOf(mode) ==
    CASE mode = "snapshot" -> SnapshotSources
      [] mode = "kmsg"     -> {"kmsg"}
      [] OTHER             -> CaptureSources

Transports == {"local", "remote", "unsupported", "malformed"}
Targets    == [id : STRING, transport : Transports]

ASSUME RunsAssumption ==
    /\ \A inventory \in Inventories : inventory \in Seq(Targets)
    /\ Observations \subseteq [SnapshotSources -> Delivery]
    /\ "captured" \notin Statuses
    /\ MaxRequests \in Nat /\ MaxCrashes \in Nat

TargetIds == UNION {{inventory[i].id : i \in DOMAIN inventory} :
                        inventory \in Inventories}

RunName(f, t) == f \o "-" \o t
NoRun         == ""

Runs == LocalRuns \cup {RunName(f, t) : f \in FleetIds, t \in TargetIds}

ASSUME RunIdsAssumption == NoRun \notin Runs  \* validate_run_id

RunFile(r, name)       == <<"runs", r, name>>
TargetFile(f, t, name) == <<"targets", f, t, name>>
FleetFile(f, name)     == <<"fleet_runs", f, name>>
ServiceState           == <<"service_investigations", "state">>
ServicePack            == <<"service_investigations", "pack">>

(* The files of a run, in the order of the code; "raw" stands for the file  *)
(* of each source, the timeline and the windows.                           *)
RunFiles == <<"raw", "evidence_index", "overhead_report">>

Files ==
    {RunFile(r, name) : r \in Runs, name \in Range(RunFiles) \cup {"manifest"}}
    \cup {TargetFile(f, t, name) : f \in FleetIds, t \in TargetIds,
            name \in {"evidence_index", "service_investigation"}}
    \cup {FleetFile(f, name) : f \in FleetIds,
            name \in {"fleet_evidence", "service_investigation"}}
    \cup {ServiceState, ServicePack}

Absent  == [is |-> "absent"]
Torn    == [is |-> "torn"]
File(v) == [is |-> "file", value |-> v]

VARIABLES
    disk,      \* content of every file
    client,    \* what every process is doing
    requests,  \* number of commands, which also numbers them
    crashes,   \* number of kills
    captures,  \* history: how often a run id was used
    fleets,    \* history: how often a fleet run id was used
    asked      \* history: the inventory of each command

history == <<captures, fleets, asked>>
vars    == <<disk, client, requests, crashes, history>>

(* What a process does: a command, the fleet run it is for, the rows that  *)
(* are done, and the files to write: the next one, the run to seal after   *)
(* them, and where to go on.                                               *)
Idle ==
    [pc |-> "idle", n |-> 0, op |-> "none",
     fleet |-> NoRun, inventory |-> <<>>, matrix |-> <<>>,
     todo |-> <<>>, at |-> 1, run |-> NoRun, then |-> "done"]

Active == {c \in Clients : client[c].pc # "idle"}
At(c, pc) == client[c].pc = pc

Write(file, value) == [file |-> file, value |-> value]

----------------------------------------------------------------------------
(* Evidence.                                                               *)

(* Only a capture takes more than one sample, a snapshot reads all of its  *)
(* sources, and a rule fires on what it has seen.                          *)
MayObserve(mode, seen) ==
    /\ mode # "capture" => \A s \in SourcesOf(mode) \cap DOMAIN seen :
                              seen[s] # "sometimes"
    /\ mode = "snapshot" => \A s \in SnapshotSources : seen[s] # "off"
    /\ mode = "trigger" => \E s \in CaptureSources : seen[s] = "always"

(* A capture and a trigger have an event for each sample that a source     *)
(* delivered, a snapshot one for each source, whether it delivered or not. *)
Observed(mode, seen) ==
    IF mode \in {"snapshot", "kmsg"} THEN SourcesOf(mode)
    ELSE {s \in CaptureSources : seen[s] \in {"always", "sometimes"}}

(* A source that is ever missing is missing in the data quality; one that  *)
(* nobody reads is neither observed nor missing.                           *)
Missing(mode, seen) ==
    {s \in SourcesOf(mode) \cap DOMAIN seen : seen[s] \in {"sometimes", "never"}}

(* The facts are those of the sources with events, and what is missing is  *)
(* an information debt.                                                    *)
Evidence(mode, seen) ==
    [mode |-> mode, facts |-> Observed(mode, seen),
     debts |-> Missing(mode, seen)]

(* The files of a run, all but the manifest, in the order of the code.     *)
RunWrites(mode, r, n, seen) ==
    [k \in DOMAIN RunFiles |->
        Write(RunFile(r, RunFiles[k]),
              IF RunFiles[k] = "evidence_index"
              THEN [by |-> n, evidence |-> Evidence(mode, seen)]
              ELSE [by |-> n])]

(* What a fleet run reports of a target.                                   *)
RowUnchecked(t, status, ref) ==  \* mutant of Row
    [target |-> t, status |-> "captured", ref |-> ref]

Row(t, status, ref) == [target |-> t, status |-> status, ref |-> ref]
NoRef == <<>>

FailuresOf(matrix) == {row \in Range(matrix) : row.status # "captured"}

(* The evidence of a fleet run: what its targets are missing themselves is *)
(* not taken over from their evidence.                                     *)
FleetEvidence(n, matrix) ==
    [by       |-> n,
     matrix   |-> matrix,
     debts    |-> {<<row.target, row.status>> : row \in FailuresOf(matrix)}]

----------------------------------------------------------------------------
(* Commands.                                                               *)

Begin(c) ==
    /\ At(c, "idle")
    /\ requests < MaxRequests
    /\ requests' = requests + 1
    /\ UNCHANGED <<disk, crashes>>

Goto(c, pc) == client' = [client EXCEPT ![c].pc = pc]
Fail(c)     == client' = [client EXCEPT ![c] = Idle]

(* The files are written; a run, if any, is then sealed.                   *)
Doing(x, todo, run, then) ==
    [x EXCEPT !.pc = IF todo = <<>> THEN then ELSE "write",
              !.todo = todo, !.at = 1, !.run = run, !.then = then]

(* adc capture, adc snapshot, or a trigger of the daemon that fires: the   *)
(* observation comes first.                                                *)
StartRun(c) ==
    \E r \in LocalRuns, mode \in Modes, seen \in Observations :
        /\ MayObserve(mode, seen)
        /\ Begin(c)
        /\ client' = [client EXCEPT ![c] =
                        Doing([@ EXCEPT !.op = "run", !.n = requests + 1],
                              RunWrites(mode, r, requests + 1, seen), r, "done")]
        /\ captures' = [captures EXCEPT ![r] = @ + 1]
        /\ UNCHANGED <<fleets, asked>>

(* adc fleet capture, snapshot, investigate and preflight: an empty        *)
(* inventory is an error.                                                  *)
StartFleet(c) ==
    \E f \in FleetIds, inventory \in Inventories,
       op \in {"capture", "snapshot", "investigate", "preflight"} :
        /\ inventory # <<>>
        /\ Begin(c)
        /\ client' = [client EXCEPT ![c] =
                        [@ EXCEPT !.pc = "target", !.op = op, !.n = requests + 1,
                                  !.fleet = f, !.inventory = inventory,
                                  !.then = "target"]]
        /\ fleets' = [fleets EXCEPT ![f] = @ + 1]
        /\ asked' = Append(asked, <<requests + 1, inventory>>)
        /\ UNCHANGED captures

Reported(c, row, todo, run) ==
    client' = [client EXCEPT ![c] =
                Doing([@ EXCEPT !.matrix = Append(client[c].matrix, row)],
                      todo, run, "target")]

Pending(c) ==
    /\ At(c, "target")
    /\ Len(client[c].matrix) < Len(client[c].inventory)

CurrentTarget(c) == client[c].inventory[Len(client[c].matrix) + 1]

(* A local target is captured here, into a run of its own.                 *)
RunLocal(c) ==
    /\ Pending(c)
    /\ client[c].op \in {"capture", "snapshot"}
    /\ CurrentTarget(c).transport = "local"
    /\ \E seen \in Observations :
        LET t    == CurrentTarget(c).id
            mode == client[c].op
            r    == RunName(client[c].fleet, t)
        IN  /\ MayObserve(mode, seen)
            /\ Reported(c, Row(t, "captured", RunFile(r, "evidence_index")),
                        RunWrites(mode, r, client[c].n, seen), r)
            /\ captures' = [captures EXCEPT ![r] = @ + 1]
    /\ UNCHANGED <<disk, requests, crashes, fleets, asked>>

(* A remote target answers with its evidence or fails in its own way, and  *)
(* an unsupported one fails; the others go on.                             *)
RunRemote(c) ==
    /\ Pending(c)
    /\ client[c].op \in {"capture", "snapshot"}
    /\ CurrentTarget(c).transport \in {"remote", "unsupported"}
    /\ LET t    == CurrentTarget(c).id
           file == TargetFile(client[c].fleet, t, "evidence_index")
       IN  \/ /\ CurrentTarget(c).transport = "remote"
              /\ Reported(c, Row(t, "captured", file),
                          <<Write(file, [by |-> client[c].n])>>, NoRun)
           \/ /\ CurrentTarget(c).transport = "remote"
              /\ \E s \in Statuses :
                    Reported(c, Row(t, s, NoRef), <<>>, NoRun)
           \/ /\ CurrentTarget(c).transport = "unsupported"
              /\ Reported(c, Row(t, "unsupported", NoRef), <<>>, NoRun)
    /\ UNCHANGED <<disk, requests, crashes, history>>

(* A service is investigated here, through the pack that all runs share,   *)
(* or on the target; the pack is kept with the fleet run.                  *)
Investigate(c) ==
    /\ Pending(c)
    /\ client[c].op = "investigate"
    /\ CurrentTarget(c).transport # "malformed"
    /\ LET t     == CurrentTarget(c).id
           file  == TargetFile(client[c].fleet, t, "service_investigation")
           pack  == Write(file, [by |-> client[c].n])
           local == <<Write(ServiceState, [by |-> client[c].n]),
                      Write(ServicePack, [by |-> client[c].n]), pack>>
       IN  \/ /\ CurrentTarget(c).transport \in {"local", "remote"}
              /\ Reported(c, Row(t, "captured", file),
                          IF CurrentTarget(c).transport = "local"
                          THEN local ELSE <<pack>>, NoRun)
           \/ \E s \in CASE CurrentTarget(c).transport = "local" ->
                                {"collector_failed"}
                         [] CurrentTarget(c).transport = "remote" -> Statuses
                         [] OTHER -> {"unsupported"} :
                    Reported(c, Row(t, s, NoRef), <<>>, NoRun)
    /\ UNCHANGED <<disk, requests, crashes, history>>

(* A preflight asks every target and writes nothing.                       *)
Preflight(c) ==
    /\ Pending(c)
    /\ client[c].op = "preflight"
    /\ CurrentTarget(c).transport # "malformed"
    /\ \E s \in CASE CurrentTarget(c).transport = "local"  -> {"ready"}
                   [] CurrentTarget(c).transport = "remote" ->
                        {"ready"} \cup Statuses
                   [] OTHER -> {"unsupported"} :
            Reported(c, Row(CurrentTarget(c).id, s, NoRef), <<>>, NoRun)
    /\ UNCHANGED <<disk, requests, crashes, history>>

(* A target whose id or transport is no path segment ends the command.     *)
Reject(c) ==
    /\ Pending(c)
    /\ CurrentTarget(c).transport = "malformed"
    /\ Fail(c)
    /\ UNCHANGED <<disk, requests, crashes, history>>

CapturedOnly(matrix) ==  \* mutant of Matrix
    SelectSeq(matrix, LAMBDA row : row.status = "captured")

Matrix(matrix) == matrix

(* The evidence of the fleet run is written last.                          *)
Conclusion(c) ==
    LET file == FleetFile(client[c].fleet,
                          IF client[c].op = "investigate"
                          THEN "service_investigation" ELSE "fleet_evidence")
    IN  IF client[c].op = "preflight" THEN <<>>
        ELSE <<Write(file, FleetEvidence(client[c].n, Matrix(client[c].matrix)))>>

Conclude(c) ==
    /\ At(c, "target") /\ ~Pending(c)
    /\ client' = [client EXCEPT ![c] = Doing(@, Conclusion(c), NoRun, "done")]
    /\ UNCHANGED <<disk, requests, crashes, history>>

----------------------------------------------------------------------------
(* Writing.                                                                *)

NextWrite(c) == client[c].todo[client[c].at]

Truncate(c) ==
    /\ At(c, "write")
    /\ disk' = [disk EXCEPT ![NextWrite(c).file] = Torn]
    /\ Goto(c, "fill")
    /\ UNCHANGED <<requests, crashes, history>>

(* The next file, or what comes after the last one.                        *)
Written(x) ==
    IF x.at + 1 \in DOMAIN x.todo
    THEN [x EXCEPT !.pc = "write", !.at = x.at + 1]
    ELSE [x EXCEPT !.pc = IF x.run # NoRun THEN "seal" ELSE x.then,
                   !.todo = <<>>, !.at = 1]

Fill(c) ==
    /\ At(c, "fill")
    /\ disk' = [disk EXCEPT ![NextWrite(c).file] = File(NextWrite(c).value)]
    /\ client' = [client EXCEPT ![c] = Written(@)]
    /\ UNCHANGED <<requests, crashes, history>>

(* add_file: the files as they are now, whoever wrote them last.           *)
HashesOfRaw(r) ==  \* mutant of Hashes
    [name \in {"raw"} |-> disk[RunFile(r, name)]]

Hashes(r) == [name \in Range(RunFiles) |-> disk[RunFile(r, name)]]

(* The manifest is written when all other files are.                       *)
Seal(c) ==
    /\ At(c, "seal")
    /\ LET r == client[c].run
       IN  client' = [client EXCEPT ![c] =
                Doing(@, <<Write(RunFile(r, "manifest"), Hashes(r))>>,
                      NoRun, client[c].then)]
    /\ UNCHANGED <<disk, requests, crashes, history>>

Return(c) ==
    /\ At(c, "done")
    /\ Fail(c)
    /\ UNCHANGED <<disk, requests, crashes, history>>

(* A kill, or a write that fails.                                          *)
Kill(c) ==
    /\ c \in Active
    /\ crashes < MaxCrashes
    /\ crashes' = crashes + 1
    /\ Fail(c)
    /\ UNCHANGED <<disk, requests, history>>

Init ==
    /\ disk = [f \in Files |-> Absent]
    /\ client = [c \in Clients |-> Idle]
    /\ requests = 0 /\ crashes = 0
    /\ captures = [r \in Runs |-> 0]
    /\ fleets = [f \in FleetIds |-> 0]
    /\ asked = <<>>

Next ==
    \E c \in Clients :
        \/ StartRun(c) \/ StartFleet(c)
        \/ RunLocal(c) \/ RunRemote(c) \/ Investigate(c) \/ Preflight(c)
        \/ Reject(c)
        \/ Conclude(c) \/ Truncate(c) \/ Fill(c) \/ Seal(c) \/ Return(c)
        \/ Kill(c)

Spec == Init /\ [][Next]_vars

----------------------------------------------------------------------------
(* Properties.                                                             *)

(* list_runs: the directories with a manifest.                             *)
Listed == {r \in Runs : disk[RunFile(r, "manifest")].is # "absent"}

(* A run that is listed is whole, though the command that made it may have *)
(* been killed and others write next to it: its manifest, when it can be   *)
(* read, names every file of the run as it is on disk, and all of them are *)
(* the work of one command, unless the id of the run was used again        *)
(* (capture_for_target, create_snapshot_for_target).                       *)
SealedRunIntact ==
    \A r \in Listed :
        LET manifest == disk[RunFile(r, "manifest")]
        IN  captures[r] = 1 =>
            /\ \A name \in Range(RunFiles) :
                /\ disk[RunFile(r, name)].is = "file"
                /\ manifest.is = "file" =>
                    /\ name \in DOMAIN manifest.value
                    /\ manifest.value[name] = disk[RunFile(r, name)]
            /\ \A name, other \in Range(RunFiles) :
                disk[RunFile(r, name)].value.by = disk[RunFile(r, other)].value.by

(* The evidence of a fleet run, however often its id was used, accounts for *)
(* every target of the inventory its command was given, in order: captured *)
(* or missing, and the targets after a failed one as well                  *)
(* (capture_fleet_with_runner, investigate_fleet_service).                 *)
FleetEvidenceComplete ==
    \A f \in FleetIds, name \in {"fleet_evidence", "service_investigation"} :
        LET file == disk[FleetFile(f, name)]
        IN  file.is = "file" =>
            \E k \in DOMAIN asked :
                /\ asked[k][1] = file.value.by
                /\ Len(file.value.matrix) = Len(asked[k][2])
                /\ \A i \in DOMAIN file.value.matrix :
                    LET row == file.value.matrix[i]
                    IN  /\ row.target = asked[k][2][i].id
                        /\ row.status = "captured" \/
                           <<row.target, row.status>> \in file.value.debts

(* What it says was captured is there: the file it refers to is the one    *)
(* that this command wrote, as long as neither the fleet run id nor the id *)
(* of the target's run was used again.                                     *)
FleetEvidenceBacked ==
    \A f \in FleetIds, name \in {"fleet_evidence", "service_investigation"} :
        LET file == disk[FleetFile(f, name)]
        IN  file.is = "file" /\ fleets[f] = 1 =>
            \A row \in Range(file.value.matrix) :
                /\ row.status = "captured"
                /\ captures[RunName(f, row.target)] <= 1
                => /\ row.ref \in Files
                   /\ disk[row.ref].is = "file"
                   /\ disk[row.ref].value.by = file.value.by

=============================================================================

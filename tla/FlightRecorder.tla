---------------------------- MODULE FlightRecorder ----------------------------
(***************************************************************************)
(* The marker queue, the freeze admission and the incident bundles of the  *)
(* flight recorder, as several processes see them through the artifact     *)
(* root: the command `adc recorder mark` queues markers, every running     *)
(* adc-targetd drains them, admits or refuses each freeze under the        *)
(* admission lock file, and writes the incident bundle file by file.  The  *)
(* daemon may be killed between any two file system calls, may fail on     *)
(* one, and is restarted by systemd.                                       *)
(*                                                                         *)
(* A request is what a freeze is made for: a marker id, or the time of the *)
(* sample on which a trigger fired.  Each has one incident directory       *)
(* (INC-<marker_id>, INC-TRIGGER-<time>), so a request also names its      *)
(* incident.  Both may come again: an id is chosen by whoever marks, and   *)
(* the time is that of a clock with ticks of 10 ms, which all daemons      *)
(* share, which is 0 when it cannot be read and starts anew with the       *)
(* machine.                                                                *)
(***************************************************************************)
EXTENDS Naturals, Sequences, FiniteSets

CONSTANTS
    Daemons,             \* the adc-targetd processes on one artifact root
    Markers,             \* marker ids; their order is the order of the file names
    Triggers,            \* times of samples on which triggers fire
    MaxFrozenIncidents,  \* RecorderBudget.max_frozen_incidents
    MaxMarks,            \* bound: marks per marker id (above 1 the id is reused)
    MaxFirings,          \* bound: firings per time (above 1 the time is reused)
    MaxFaults,           \* bound: crashes, kills and failed system calls
    Absent, Torn         \* contents of a missing and of an unparsable file

Requests == Markers \cup Triggers

ASSUME RequestsAssumption ==
    /\ Markers \subseteq Nat
    /\ Triggers \subseteq Nat
    /\ Markers \cap Triggers = {}
    /\ IsFiniteSet(Requests)

ASSUME BoundsAssumption ==
    /\ MaxFrozenIncidents \in Nat
    /\ MaxMarks \in Nat
    /\ MaxFirings \in Nat
    /\ MaxFaults \in Nat

(* The marks of one id, or the firings at one time, are numbered.          *)
Marks == Nat \ {0}

(* What distinguishes two freezes of one request: the mark or firing that  *)
(* asked for it and whether a log snapshot was included.                   *)
Generations == [mark : Marks, log : BOOLEAN]

ASSUME ContentsAssumption ==
    /\ Absent # Torn
    /\ {Absent, Torn} \cap (Marks \cup Generations) = {}

VARIABLES
    \* the artifact root
    marks,     \* marks[m]: marks of id m issued so far
    cli,       \* cli[m]: progress of the `adc recorder mark` call for m
    pending,   \* pending[m]: recorder/markers/pending/<m>.json
    result,    \* result[r]: markers/results/<m>.json, or the refusal of a trigger
    dirs,      \* the directories under recorder/incidents
    bundle,    \* bundle[r][f]: content of file f of the incident of r
    lockFile,  \* recorder/.freeze_admission.lock exists
    \* the daemon processes
    pc,        \* pc[d]: where run_service_for of d is
    paths,     \* paths[d]: pending files listed by the current drain, not yet taken
    batch,     \* batch[d][m]: drained mark of m waiting for its freeze, 0 for none
    job,       \* job[d]: the request and generation d is working on
    at,        \* at[d]: next step of the freeze: 0 the directory, k the k-th file
    \* bounds
    fired,     \* fired[t]: firings at time t so far
    faults     \* faults injected so far

rootVars   == <<marks, cli, pending, result, dirs, bundle, lockFile>>
daemonVars == <<pc, paths, batch, job, at>>
vars       == <<rootVars, daemonVars, fired, faults>>

-----------------------------------------------------------------------------
(* The files of a bundle, in the order the freezer writes them.  The       *)
(* frozen window refers to all of them; incident.json is always the last.  *)

MarkerFiles == <<"marker", "samples", "loss_report", "coverage",
                 "frozen_window", "incident">>
MarkerFilesWithLog == <<"marker", "samples", "loss_report", "coverage",
                        "log_events", "log_source_status", "blackout_report",
                        "frozen_window", "incident">>
TriggerFiles == <<"trigger_event", "trigger_decision", "samples",
                  "loss_report", "coverage", "frozen_window", "incident">>

Files == {"marker", "trigger_event", "trigger_decision", "samples",
          "loss_report", "coverage", "log_events", "log_source_status",
          "blackout_report", "frozen_window", "incident"}

LayoutIncidentFirst(r, g) ==  \* mutant of Layout
    IF r \in Triggers THEN <<"incident">> \o SubSeq(TriggerFiles, 1, 6)
    ELSE <<"incident">> \o SubSeq(MarkerFiles, 1, 5)

Layout(r, g) ==
    IF r \in Triggers THEN TriggerFiles
    ELSE IF g.log THEN MarkerFilesWithLog ELSE MarkerFiles

(* The budget inventory: an incident directory is valid if its             *)
(* incident.json parses, and malformed otherwise.                          *)
Valid     == {r \in dirs : bundle[r]["incident"] \notin {Absent, Torn}}
Malformed == dirs \ Valid

(* Every file the bundle of r refers to is there, from one freeze.         *)
Coherent(r) ==
    LET g == bundle[r]["incident"]
        L == Layout(r, g)
    IN  \A k \in 1 .. Len(L) : bundle[r][L[k]] = g

AdmissibleOffByOne ==  \* mutant of Admissible
    Malformed = {} /\ Cardinality(Valid) <= MaxFrozenIncidents

AdmissibleIfCounted ==  \* mutant of Admissible
    Cardinality(Valid) < MaxFrozenIncidents

Admissible ==
    /\ Malformed = {}
    /\ Cardinality(Valid) < MaxFrozenIncidents

-----------------------------------------------------------------------------
NoAnswer == [status |-> "none", mark |-> 0]
Answers  == {NoAnswer} \cup
            [status : {"queued", "frozen", "refused"}, mark : Marks]

NoJob == [req |-> 0, gen |-> [mark |-> 1, log |-> FALSE]]
Jobs  == {NoJob} \cup [req : Requests, gen : Generations]

Locations == {"off", "idle", "drain", "remove", "markers", "fired", "admit",
              "refuse", "freeze", "report", "unlock"}

(* The locations inside the life of RecorderAdmissionLock.                 *)
Critical == {"admit", "refuse", "freeze", "report", "unlock"}

EmptyBatch == [m \in Markers |-> 0]

Init ==
    /\ marks    = [m \in Markers |-> 0]
    /\ cli      = [m \in Markers |-> "idle"]
    /\ pending  = [m \in Markers |-> Absent]
    /\ result   = [r \in Requests |-> NoAnswer]
    /\ dirs     = {}
    /\ bundle   = [r \in Requests |-> [f \in Files |-> Absent]]
    /\ lockFile = FALSE
    /\ pc       = [d \in Daemons |-> "idle"]
    /\ paths    = [d \in Daemons |-> {}]
    /\ batch    = [d \in Daemons |-> EmptyBatch]
    /\ job      = [d \in Daemons |-> NoJob]
    /\ at       = [d \in Daemons |-> 0]
    /\ fired    = [t \in Triggers |-> 0]
    /\ faults   = 0

-----------------------------------------------------------------------------
(* `adc recorder mark`: fs::write of the pending marker is an open that    *)
(* creates or truncates the file and a write; the queued result follows.   *)

MarkOpen(m) ==
    /\ cli[m] = "idle"
    /\ marks[m] < MaxMarks
    /\ marks'   = [marks EXCEPT ![m] = @ + 1]
    /\ cli'     = [cli EXCEPT ![m] = "opened"]
    /\ pending' = [pending EXCEPT ![m] = Torn]
    /\ UNCHANGED <<result, dirs, bundle, lockFile, daemonVars, fired, faults>>

(* If a daemon removed the file meanwhile, the bytes go to an unlinked     *)
(* inode.                                                                  *)
MarkWrite(m) ==
    /\ cli[m] = "opened"
    /\ cli'     = [cli EXCEPT ![m] = "written"]
    /\ pending' = [pending EXCEPT ![m] = IF @ = Absent THEN Absent ELSE marks[m]]
    /\ UNCHANGED <<marks, result, dirs, bundle, lockFile, daemonVars, fired, faults>>

MarkResult(m) ==
    /\ cli[m] = "written"
    /\ cli'    = [cli EXCEPT ![m] = "idle"]
    /\ result' = [result EXCEPT ![m] = [status |-> "queued", mark |-> marks[m]]]
    /\ UNCHANGED <<marks, pending, dirs, bundle, lockFile, daemonVars, fired, faults>>

(* The command is killed before it wrote the marker or before the result.  *)
MarkKilled(m) ==
    /\ cli[m] # "idle"
    /\ faults < MaxFaults
    /\ faults' = faults + 1
    /\ cli'    = [cli EXCEPT ![m] = "idle"]
    /\ UNCHANGED <<marks, pending, result, dirs, bundle, lockFile, daemonVars, fired>>

-----------------------------------------------------------------------------
(* A daemon run that ends, by an error or by a crash, loses its memory.    *)
(* The error path drops RecorderAdmissionLock and so removes the lock      *)
(* file if the run held it; a crash leaves it.                             *)

Forget(d) ==
    /\ pc'    = [pc EXCEPT ![d] = "off"]
    /\ paths' = [paths EXCEPT ![d] = {}]
    /\ batch' = [batch EXCEPT ![d] = EmptyBatch]
    /\ job'   = [job EXCEPT ![d] = NoJob]
    /\ at'    = [at EXCEPT ![d] = 0]

ExitWithError(d) ==
    /\ Forget(d)
    /\ UNCHANGED <<rootVars, fired, faults>>

(* drain_pending_recorder_markers: list the files ...                      *)
DrainList(d) ==
    /\ pc[d] = "idle"
    /\ paths' = [paths EXCEPT ![d] = {m \in Markers : pending[m] # Absent}]
    /\ pc'    = [pc EXCEPT ![d] = "drain"]
    /\ UNCHANGED <<rootVars, batch, job, at, fired, faults>>

IsFirstPath(d, m) ==
    /\ m \in paths[d]
    /\ \A n \in paths[d] : m <= n

DrainReadUnparsed(d) ==  \* mutant of DrainRead
    /\ pc[d] = "drain"
    /\ \E m \in Markers :
        /\ IsFirstPath(d, m)
        /\ pending[m] # Absent
        /\ job' = [job EXCEPT ![d] =
                     [req |-> m, gen |-> [mark |-> pending[m], log |-> FALSE]]]
    /\ pc' = [pc EXCEPT ![d] = "remove"]
    /\ UNCHANGED <<rootVars, paths, batch, at, fired, faults>>

(* ... read each, in name order; one that is gone or does not parse ends   *)
(* the whole drain with an error ...                                       *)
DrainRead(d) ==
    /\ pc[d] = "drain"
    /\ \E m \in Markers :
        /\ IsFirstPath(d, m)
        /\ pending[m] \in Marks
        /\ job' = [job EXCEPT ![d] =
                     [req |-> m, gen |-> [mark |-> pending[m], log |-> FALSE]]]
    /\ pc' = [pc EXCEPT ![d] = "remove"]
    /\ UNCHANGED <<rootVars, paths, batch, at, fired, faults>>

DrainReadFails(d) ==
    /\ pc[d] = "drain"
    /\ \E m \in Markers : IsFirstPath(d, m) /\ pending[m] \in {Absent, Torn}
    /\ ExitWithError(d)

DrainRemoveWith(d, pending1) ==
    /\ pending' = pending1
    /\ paths'   = [paths EXCEPT ![d] = @ \ {job[d].req}]
    /\ batch'   = [batch EXCEPT ![d][job[d].req] = job[d].gen.mark]
    /\ job'     = [job EXCEPT ![d] = NoJob]
    /\ pc'      = [pc EXCEPT ![d] = "drain"]
    /\ UNCHANGED <<marks, cli, result, dirs, bundle, lockFile, at, fired, faults>>

DrainRemoveUnchecked(d) ==  \* mutant of DrainRemove
    pc[d] = "remove" /\ DrainRemoveWith(d, [pending EXCEPT ![job[d].req] = Absent])

DrainRemoveForgotten(d) ==  \* mutant of DrainRemove
    pc[d] = "remove" /\ DrainRemoveWith(d, pending)

(* ... and remove it.                                                      *)
DrainRemove(d) ==
    /\ pc[d] = "remove"
    /\ pending[job[d].req] # Absent
    /\ DrainRemoveWith(d, [pending EXCEPT ![job[d].req] = Absent])

DrainRemoveFails(d) ==
    /\ pc[d] = "remove"
    /\ pending[job[d].req] = Absent
    /\ ExitWithError(d)

DrainDone(d) ==
    /\ pc[d] = "drain"
    /\ paths[d] = {}
    /\ pc' = [pc EXCEPT ![d] = "markers"]
    /\ UNCHANGED <<rootVars, paths, batch, job, at, fired, faults>>

-----------------------------------------------------------------------------
(* acquire_recorder_admission_lock: create_new of the lock file, which     *)
(* fails at once if the file exists.                                       *)

IsFirstInBatch(d, m) ==
    /\ batch[d][m] # 0
    /\ \A n \in Markers : batch[d][n] # 0 => m <= n

AcquireAnyway == lockFile' = TRUE  \* mutant of Acquire

Acquire == ~ lockFile /\ lockFile' = TRUE

(* The next drained marker; the freezer will include the log snapshot of   *)
(* the run if there is one.                                                *)
LockForMarker(d) ==
    /\ pc[d] = "markers"
    /\ Acquire
    /\ \E m \in Markers, hasLog \in BOOLEAN :
        /\ IsFirstInBatch(d, m)
        /\ job'   = [job EXCEPT ![d] =
                       [req |-> m, gen |-> [mark |-> batch[d][m], log |-> hasLog]]]
        /\ batch' = [batch EXCEPT ![d][m] = 0]
    /\ pc' = [pc EXCEPT ![d] = "admit"]
    /\ UNCHANGED <<marks, cli, pending, result, dirs, bundle, paths, at, fired, faults>>

LockForMarkerFails(d) ==
    /\ pc[d] = "markers"
    /\ batch[d] # EmptyBatch
    /\ lockFile
    /\ ExitWithError(d)

(* All markers of this iteration are done and a trigger rule fires.  The   *)
(* time of its sample may be that of an earlier firing, of this daemon or  *)
(* of another.                                                             *)
TriggerFires(d) ==
    /\ pc[d] = "markers"
    /\ batch[d] = EmptyBatch
    /\ \E t \in Triggers :
        /\ fired[t] < MaxFirings
        /\ fired' = [fired EXCEPT ![t] = @ + 1]
        /\ job'   = [job EXCEPT ![d] =
                       [req |-> t, gen |-> [mark |-> fired[t] + 1, log |-> FALSE]]]
    /\ pc' = [pc EXCEPT ![d] = "fired"]
    /\ UNCHANGED <<rootVars, paths, batch, at, faults>>

NoTrigger(d) ==
    /\ pc[d] = "markers"
    /\ batch[d] = EmptyBatch
    /\ pc' = [pc EXCEPT ![d] = "idle"]
    /\ UNCHANGED <<rootVars, paths, batch, job, at, fired, faults>>

LockForTrigger(d) ==
    /\ pc[d] = "fired"
    /\ Acquire
    /\ pc' = [pc EXCEPT ![d] = "admit"]
    /\ UNCHANGED <<marks, cli, pending, result, dirs, bundle, paths, batch, job,
                   at, fired, faults>>

LockForTriggerFails(d) ==
    /\ pc[d] = "fired"
    /\ lockFile
    /\ ExitWithError(d)

-----------------------------------------------------------------------------
(* recorder_incident_budget_status and what follows from its decision.     *)

AdmitAfterMkdir(d) ==  \* mutant of Admit
    /\ pc[d] = "admit"
    /\ dirs' = dirs \cup {job[d].req}
    /\ pc' = [pc EXCEPT ![d] = IF Admissible THEN "freeze" ELSE "refuse"]
    /\ UNCHANGED <<marks, cli, pending, result, bundle, lockFile, paths, batch, job,
                   at, fired, faults>>

Admit(d) ==
    /\ pc[d] = "admit"
    /\ pc' = [pc EXCEPT ![d] = IF Admissible THEN "freeze" ELSE "refuse"]
    /\ UNCHANGED <<rootVars, paths, batch, job, at, fired, faults>>

Answer(d, status) ==
    result' = [result EXCEPT ![job[d].req] =
                 [status |-> status, mark |-> job[d].gen.mark]]

(* The refused marker result, or the recorder_freeze_decision.json of the  *)
(* trigger's run.                                                          *)
Refuse(d) ==
    /\ pc[d] = "refuse"
    /\ Answer(d, "refused")
    /\ pc' = [pc EXCEPT ![d] = "unlock"]
    /\ UNCHANGED <<marks, cli, pending, dirs, bundle, lockFile, paths, batch, job,
                   at, fired, faults>>

FreezeMkdir(d) ==
    /\ pc[d] = "freeze"
    /\ at[d] = 0
    /\ dirs' = dirs \cup {job[d].req}
    /\ at'   = [at EXCEPT ![d] = 1]
    /\ UNCHANGED <<marks, cli, pending, result, bundle, lockFile, pc, paths, batch,
                   job, fired, faults>>

FreezeWrite(d) ==
    LET r == job[d].req
        L == Layout(r, job[d].gen)
    IN  /\ pc[d] = "freeze"
        /\ at[d] \in 1 .. Len(L)
        /\ bundle' = [bundle EXCEPT ![r][L[at[d]]] = job[d].gen]
        /\ at' = [at EXCEPT ![d] = IF at[d] = Len(L) THEN 0 ELSE @ + 1]
        /\ pc' = [pc EXCEPT ![d] =
                    IF at[d] < Len(L) THEN "freeze"
                    ELSE IF r \in Markers THEN "report" ELSE "unlock"]
        /\ UNCHANGED <<marks, cli, pending, result, dirs, lockFile, paths, batch,
                       job, fired, faults>>

Report(d) ==
    /\ pc[d] = "report"
    /\ Answer(d, "frozen")
    /\ pc' = [pc EXCEPT ![d] = "unlock"]
    /\ UNCHANGED <<marks, cli, pending, dirs, bundle, lockFile, paths, batch, job,
                   at, fired, faults>>

UnlockForgotten(d) ==  \* mutant of Unlock
    /\ pc[d] = "unlock"
    /\ pc'  = [pc EXCEPT ![d] = IF job[d].req \in Markers THEN "markers" ELSE "idle"]
    /\ job' = [job EXCEPT ![d] = NoJob]
    /\ UNCHANGED <<rootVars, paths, batch, at, fired, faults>>

(* The lock guard is dropped at the end of the loop body.  A trigger ends  *)
(* the service run, and the next one starts with nothing in memory.        *)
Unlock(d) ==
    /\ pc[d] = "unlock"
    /\ lockFile' = FALSE
    /\ pc'  = [pc EXCEPT ![d] = IF job[d].req \in Markers THEN "markers" ELSE "idle"]
    /\ job' = [job EXCEPT ![d] = NoJob]
    /\ UNCHANGED <<marks, cli, pending, result, dirs, bundle, paths, batch, at,
                   fired, faults>>

-----------------------------------------------------------------------------
(* Faults.  fs::write truncates before it writes, so the file a freeze     *)
(* was writing when it stopped may be left unparsable.                     *)

MayTear(d) ==
    LET r == job[d].req
        L == Layout(r, job[d].gen)
    IN  \/ UNCHANGED bundle
        \/ /\ pc[d] = "freeze"
           /\ at[d] \in 1 .. Len(L)
           /\ bundle' = [bundle EXCEPT ![r][L[at[d]]] = Torn]

Crash(d) ==
    /\ pc[d] # "off"
    /\ faults < MaxFaults
    /\ faults' = faults + 1
    /\ MayTear(d)
    /\ Forget(d)
    /\ UNCHANGED <<marks, cli, pending, result, dirs, lockFile, fired>>

(* A system call of the freeze fails (a full disk): the run ends with an   *)
(* error, which releases the lock.                                         *)
FreezeFails(d) ==
    /\ pc[d] \in Critical
    /\ faults < MaxFaults
    /\ faults'   = faults + 1
    /\ lockFile' = FALSE
    /\ MayTear(d)
    /\ Forget(d)
    /\ UNCHANGED <<marks, cli, pending, result, dirs, fired>>

(* systemd: Restart=on-failure.                                            *)
Restart(d) ==
    /\ pc[d] = "off"
    /\ pc' = [pc EXCEPT ![d] = "idle"]
    /\ UNCHANGED <<rootVars, paths, batch, job, at, fired, faults>>

-----------------------------------------------------------------------------
MarkNext(m) ==
    MarkOpen(m) \/ MarkWrite(m) \/ MarkResult(m) \/ MarkKilled(m)

(* The steps of a healthy daemon.                                          *)
DaemonStep(d) ==
    \/ DrainList(d) \/ DrainRead(d) \/ DrainReadFails(d)
    \/ DrainRemove(d) \/ DrainRemoveFails(d) \/ DrainDone(d)
    \/ LockForMarker(d) \/ LockForMarkerFails(d)
    \/ TriggerFires(d) \/ NoTrigger(d)
    \/ LockForTrigger(d) \/ LockForTriggerFails(d)
    \/ Admit(d) \/ Refuse(d) \/ FreezeMkdir(d) \/ FreezeWrite(d)
    \/ Report(d) \/ Unlock(d) \/ Restart(d)

DaemonFault(d) == Crash(d) \/ FreezeFails(d)

Next ==
    \/ \E m \in Markers : MarkNext(m)
    \/ \E d \in Daemons : DaemonStep(d) \/ DaemonFault(d)

Spec == Init /\ [][Next]_vars

(* A started command finishes unless it is killed, and a daemon that has   *)
(* something to do does it: its loop never blocks.                         *)
Fairness ==
    /\ \A m \in Markers : WF_vars(MarkWrite(m) \/ MarkResult(m))
    /\ \A d \in Daemons : WF_vars(DaemonStep(d))

FairSpec == Spec /\ Fairness

-----------------------------------------------------------------------------
(* Properties.                                                             *)

TypeOK ==
    /\ marks \in [Markers -> 0 .. MaxMarks]
    /\ cli \in [Markers -> {"idle", "opened", "written"}]
    /\ pending \in [Markers -> Marks \cup {Absent, Torn}]
    /\ result \in [Requests -> Answers]
    /\ dirs \subseteq Requests
    /\ bundle \in [Requests -> [Files -> Generations \cup {Absent, Torn}]]
    /\ lockFile \in BOOLEAN
    /\ pc \in [Daemons -> Locations]
    /\ paths \in [Daemons -> SUBSET Markers]
    /\ batch \in [Daemons -> [Markers -> Nat]]
    /\ job \in [Daemons -> Jobs]
    /\ at \in [Daemons -> Nat]
    /\ fired \in [Triggers -> 0 .. MaxFirings]
    /\ faults \in 0 .. MaxFaults

(* The lock file admits one daemon at a time to the section that counts    *)
(* the incidents and writes a new one, whatever crashes in between.        *)
AdmissionExclusive ==
    \A d, e \in Daemons : pc[d] \in Critical /\ pc[e] \in Critical => d = e

(* max_frozen_incidents bounds the bundles on disk, across restarts and    *)
(* across the daemons that share the artifact root.                        *)
BudgetRespected == Cardinality(Valid) <= MaxFrozenIncidents

(* However many freezes are interrupted, at most one incomplete bundle     *)
(* exists: it makes the inventory unreliable and blocks the next.          *)
OneIncompleteBundle == \A i, j \in Malformed : i = j

(* A request asked for once: its marker id, or the time of its sample, was *)
(* not used again.                                                         *)
AskedOnce(r) == IF r \in Triggers THEN fired[r] <= 1 ELSE marks[r] <= 1

(* A bundle whose incident.json parses is complete: each file its frozen   *)
(* window refers to is present and from the same freeze, even if the       *)
(* daemon was killed in the middle of the freeze, unless its name was used *)
(* again: the freezer then writes into the directory that is there.        *)
ValidBundleCoherent == \A r \in Valid : AskedOnce(r) => Coherent(r)

(* A marker reported frozen has its complete bundle, and a request         *)
(* reported refused left nothing in the incident inventory, as long as the *)
(* name is not used again.                                                 *)
AnswerMatchesInventory ==
    \A r \in Requests : AskedOnce(r) =>
        /\ result[r].status = "frozen" => r \in Valid /\ Coherent(r)
        /\ result[r].status = "refused" => r \notin dirs

(* What is frozen stays as it was frozen: no second freeze of a marker     *)
(* that two daemons drained, no half-rewritten bundle, as long as its name *)
(* is not used again.                                                      *)
FrozenUntouched ==
    [][\A r \in Valid : AskedOnce(r)' => r \in Valid' /\ bundle'[r] = bundle[r]]_vars

Answered(m) == result[m].status \in {"frozen", "refused"}

(* A marker in the pending directory is frozen or refused at some time     *)
(* after, as docs/architecture/adc-flight-recorder.md lines 841-843 say.   *)
PendingMarkerAnswered ==
    \A m \in Markers : pending[m] \in Marks ~> Answered(m)

(* It still is after every fault has happened: the daemon that systemd     *)
(* restarted (packaging/systemd/adc-targetd.service line 9) serves on.     *)
MarkerAnsweredAfterRestart ==
    \A m \in Markers :
        pending[m] \in Marks /\ faults = MaxFaults ~> Answered(m)

(* A pending file does not stay for ever: a file torn by a concurrent mark *)
(* ends the run of the daemon, which comes back for it.                    *)
PendingDrained ==
    \A m \in Markers : pending[m] # Absent ~> pending[m] = Absent

(* The admission lock is always released, so no daemon is refused it for   *)
(* ever.                                                                   *)
LockReleased == lockFile ~> ~ lockFile

IncidentState(r) ==
    IF r \notin dirs THEN "absent"
    ELSE IF r \in Valid THEN "frozen" ELSE "incomplete"

Inventory == [r \in Requests |-> IncidentState(r)]

Store == INSTANCE IncidentStore WITH
           Incidents <- Requests,
           Capacity  <- MaxFrozenIncidents,
           incident  <- Inventory

(* The incident directory is a bounded incident store: every step of the   *)
(* commands, the daemons and the faults is a step of IncidentStore or      *)
(* leaves it alone.                                                        *)
ImplementsIncidentStore == Store!Spec

=============================================================================

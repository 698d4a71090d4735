# Formal model of agent-debug-compass

agent-debug-compass (ADC) records what happens on edge targets for debugging
agents. Its daemon, `adc-targetd`, keeps a small ring of samples in memory; a
marker or a trigger rule freezes the ring into an incident bundle on disk; the
`adc` command and the `adc-mcp` server read the bundles, capture runs, arm
profiles and talk to fleets of targets. This directory holds TLA+ models of the
parts whose correctness depends on interleavings, failures and restarts, the
TLC configurations that check them, and TLAPS proofs of their main invariants.

`tlc -config X.cfg M.tla` repeats a run (the module of each is in the table of
runs), `tlapm M.tla` repeats the proofs of a `*Proofs` module.

## 1. Inventory

All processes meet in the artifact root (`ADC_HOME`), a directory tree without a
database or a broker; most of what is hard comes from that.

| Component | State | Operations | Interacts with |
|---|---|---|---|
| Marker queue, freeze admission, incident bundles (`recorder/marker.rs`, `budget.rs`, `freezer.rs`, `daemon.rs`, `cli/recorder.rs`) | `markers/pending`, `markers/results`, `incidents/`, `.freeze_admission.lock` | mark, drain, lock, admit or refuse, freeze, answer, unlock | `adc recorder mark` and every daemon, through files |
| Memory ring and loss report (`ring.rs`, `loss.rs`, `coverage.rs`, `daemon.rs`) | samples, drop counters, governor | sample, throttle, push, evict, profile switch, export | the service loop; its export goes into a bundle |
| Triggers (`trigger.rs`, `daemon.rs`) | last firings, previous sample, written decisions | evaluate, suppress, skip, fire, refuse | the ring (coverage), the freeze admission, the control state |
| Control state (`daemon.rs`, callers in `adc`, `adc-mcp`) | `daemon/state.json` | initialize, arm, disarm, record a run | all processes, through one file |
| Log cursor (`logs.rs`) | offset, identity, retained events | poll | an application and logrotate, through a log file |
| Recorder status and resource policy (`status.rs`, `resource.rs`) | a report file, last write | write at a bounded rate | service loop |
| Profiles, collectors, capture, snapshot, evidence | run directories with fresh ids | load, collect, write | CLI, MCP, daemon |
| Routing, symptoms, facts, comparison | none | pure functions of reports | CLI, MCP |
| Investigation sessions (`agent_context/`, `investigation_state.rs`) | route, manifest, two files per session, a service pack that all runs share | start, continue, clean up | MCP tools and CLI, through files |
| Runs and fleet runs (`capture.rs`, `snapshot.rs`, `fleet/mod.rs`) | run directories with a manifest, the files of a fleet run | capture, snapshot, preflight, investigate | target by target, here or over the transport |
| Target transport (`fleet/transport.rs`) | an ssh process, its streams and reader threads, or an HTTP exchange | a plan of tool calls with a deadline each | ssh, the network, a target's MCP server or listener |
| Managed fleet (`managed_fleet.rs`) | registry, invites, controller identity, generated inventories | initialize, enroll, invite, consume, select | CLI and fleet commands, through files |
| MCP server (`adc-mcp`) | connections | dispatch, authenticate | all of the above |
| Kernel probe (`kernel/adc_sensor_probe`) | armed flag, sequence number under a mutex | arm, disarm, self-test, read | debugfs |

What is hard, and where:

* **several processes, no lock or a lock file**: two daemons share a queue; every
  command rewrites `state.json`; the admission lock outlives its holder;
* **non-atomic files**: `fs::write` truncates and then writes, so a reader or a
  kill sees a torn file; a bundle is six to nine files;
* **partial failure**: one bad file fails a whole drain, one failed write ends a
  freeze half-way, one bad target ends a fleet capture;
* **memory that does not last**: a service run ends after a minute or at the first
  firing and forgets ring, cooldown, drained markers and log offset;
* **loss that must be told**: samples leave by capacity, by age, by throttling
  and by the byte budget of a freeze, log lines by rotation and by size;
* **a clock that may fail**: `monotonic_now_ns` is 0 if `/proc/uptime` is not
  readable and otherwise has a resolution of 10 ms.

`PROJECT.json` lists each hazard at its line with the properties that watch it.

What makes each component correct, in a sentence: *incidents*: never more than
the budget, never half of one reported as whole, every marker answered once;
*ring*: newest samples kept, every lost one counted, coverage claimed only where
nothing is missing; *triggers*: a firing has evidence and leaves an incident or
a recorded refusal; *control state*: what was armed stays armed; *log cursor*:
silence is claimed only where nothing can have been missed; *sessions*: a
continuation builds on the step before it, and a clean-up leaves no more than its limits;
*transport*: a tool is called in order and never twice, nothing is left behind,
and a call ends; *fleet*: every target has its row, and what is said to be captured
is there; *runs*: what is listed is whole; *managed fleet*: an enrolled target stays
enrolled, an invite is good once, and a command runs on the targets it names.

## 2. Modules

| Module | What it is |
|---|---|
| `IncidentStore` | abstract: a bounded store with at most one incomplete incident |
| `FlightRecorder` | queue, admission and bundles with commands, daemons and faults; implements `IncidentStore` |
| `RecorderRing` | ring, governor, and what a freeze exports, loses and covers |
| `TriggerService` | the control loop's evaluation of trigger rules over several service runs |
| `ControlState` | `state.json` under concurrent read-modify-write |
| `LogCursor` | the poll of an append-only log under rotation |
| `InvestigationRoute` | pure: the routes of a run and of a fleet run, facts, branch conditions, next actions |
| `InvestigationSession` | start, continue and clean-up of sessions by concurrent clients, file by file |
| `TargetCall` | abstract: tools called in order, executed at most once, answered from an execution |
| `TargetTransport` | a request to a target over ssh or HTTP; implements `TargetCall` |
| `FleetRuns` | run directories and fleet runs that are put together from targets |
| `ManagedFleet` | registry, identity, invites and inventories under concurrent commands |
| `MC*` | values for TLC: sets of processes, markers, signals, rules |
| `*Proofs` | theorems checked by TLAPS |

The control loop `run_service_for` appears in several modules, each with the rest
of the loop abstracted. `FlightRecorder` leaves to chance whether a rule fires;
`TriggerService` decides it and takes from the ring only which signals retain a
sample, and from the freeze only that it adds an incident or is refused;
`ControlState` keeps of the loop its reads and writes of the state file;
`RecorderRing` covers the ring of one run, `LogCursor` the cursor. They interact
through exactly these interfaces: the incidents of an admission (`Admissible` in
`FlightRecorder`, `Admitted` in `TriggerService`), the signals in the ring
(`Retained` and `retained`), the armed profile (`file.profile` and `active`).

### FlightRecorder

State: `pending`, `result`, `dirs`, `bundle`, `lockFile` are the files;
`pc`, `paths`, `batch`, `job`, `at` the locals of `run_service_for`; `cli`,
`marks` the progress of mark commands. One action is one system call that another
process can see: `MarkOpen` (creates or truncates the pending file), `MarkWrite`,
`MarkResult`; `DrainList`, `DrainRead`, `DrainRemove` per file; `LockForMarker`
and `LockForTrigger` (`create_new`); `Admit` (the inventory); `FreezeMkdir` and
one `FreezeWrite` per file in the freezer's order; `Refuse` or `Report`; `Unlock`.
The `...Fails` actions are the `?` returns that the state forces: a torn or
missing pending file, a lock file that is there. `Crash` is a kill between any
two calls, `FreezeFails` a system call that fails inside the lock, `Restart` is
systemd's; the last file that was being written may be left torn.

The content of a bundle's file is the *generation* of the freeze that wrote it, so
"the files belong together" is equality. A marker id may be marked `MaxMarks`
times. A trigger's incident is named after the time of the sample it fired on
(`INC-TRIGGER-<time>`), which may come `MaxFirings` times: the clock has ticks of
10 ms, reads 0 when it fails, starts anew with the machine and is the same for all
daemons, and a run that has fired is restarted at once without its cooldown. A
request in the sense of the model is such a name, whatever it was used for. The
status file, the run directory of a trigger and the byte accounting have no effect
on these files and are left out. The model takes a profile as armed: without one
the loop does not reach the drain. A run's end after a minute loses nothing that
the model keeps at `idle`.

### RecorderRing

`samples`, `dropped`, `last` are the fields of the ring and of the governor;
`pushed` is a history variable. `Push` is one `RecorderRing::push`: room by
capacity, append, eviction by age, counted per signal. `SemanticSample` and
`ThrottledSample` are the two outcomes of the governor, `EventSample` is kmsg or
the application log, which pass it by, `SwitchProfile` makes a new ring. A clock
read gives the time or, with `ClockFails`, 0. `Taken`, `LossReasons` and
`CoverageState` compute what a freeze in this state would report, so every
reachable state is tried as a freeze. A sample weighs one byte and one for each
signal. Power modes (which only add reasons) and the throttling notes are left out.

### TriggerService

One `Iterate` is one turn of the loop: sampling, the choice of the sample to
evaluate, the rules in order up to the first decisive one (`Decisive`), then
`Quiet`, `Materialize` or `Fire`. `Decision` is `trigger_decision_for_rule` and
the suppression by cooldown and hysteresis. A firing or `EndRun` forgets all
memory of the run. Rules are records; a `relative` rule observes a difference, as
the cpu percentage and the delta rules do. The comparison is `>=` for all rules.

### ControlState

A command is read (`Read`), truncate (`Open`), write (`Write`), and for all but
`initialize_state` a second truncate and write of its own change. A write that
starts in a file another process has written meanwhile may leave a foreign tail
(`Garbled`). The daemon reads without writing, initializes what it cannot
parse, records a trigger's run and initializes at the end of a run. `base` and
`alone` are history.

### LogCursor

The log is a stream of numbered units, two to a line. `Stat` and `ReadChunk` are
the two halves of a poll, with anything in between. A replaced file has a new
inode or, as file systems may do, the old one. `seen`, `got` and `losses` are
history.

### InvestigationRoute and InvestigationSession

`InvestigationRoute` has no state. `Route` gives the steps of a run or of a fleet
run from its evidence, numbered anew when a step does not apply (while its
branches keep the step names they were written with); `FactsOf` what a
reference tells when it is opened; `TypedStatus` and `TextStatus` the two ways in
which a condition is evaluated, with `AnyOf`, `AllOf` and `Negate` as in
`route_conditions.rs`; `NextActions` what the agent is told to do. Evidence is
kept as far as a condition or a step depends on it.

`InvestigationSession` has the files in `disk` and one record for each client.
`Start` builds a route (`BuildRoute`), after refreshing the service pack that all
runs share if a service is named; `Continue` reads the manifest (`ReadContext`),
the route (`ReadRoute`), opens the references of the step (`OpenStep`), reads the
state (`ReadState`) and then writes pack and state; `CleanUp` lists (`ListFiles`) and
removes (`Delete`). Every write is `Truncate`, `Fill` and, for files of a run,
`Enter`, the unlocked read-modify-write of the manifest. `Kill` may come between
any two of them, `Age` lets a file pass `max_age_days`. `alone`, `before` and
`overlap` are history. Every client has the same record (`Idle` when it has no
request): the files `todo` and where it goes on `then`, and the fields of a
continuation and of a clean-up, which the other requests leave as they are. A
clean-up keeps the set of what is to be deleted (`doomed`) and takes the `First` of
it by name (`Place`): that is the order of the code, since the excess are the first
files by name and those that are only too old come after them in the same order.

### TargetTransport and TargetCall

One request: a plan of tool calls (capture, snapshot, service investigation,
preflight). Over ssh the parties are the controller (`Spawn`, `Initialize`,
`AwaitInitialize`, `Initialized`, `CallTool`, `AwaitCall`, then `Kill` or `Reap`,
and `Join`), the thread that reads stdout (`ReadLine`, `ReadEnd`), the ssh process
(`Connect`, `Close`, `Exit`: its streams end a moment before it can be waited for)
and the server (`ReadInput`, `Execute`, `Babble`). Over HTTP they are `Dial`,
`Send` and `ReadResponse`, and the listener (`Listen`, `Execute`). A response may
come bit by bit and never be complete (`Trickle`, `ReadBytes`), as babbling over
ssh may go on for ever. `Expire` is the deadline of the current call, and over
HTTP the timeout of one read, which starts anew with every byte; how much time has
passed is left out, so it may strike at any moment. The thread that reads stderr
only matters to the join and is part of `holder`: somebody else, as a grandchild,
that keeps the streams open. `Classified` is the classification by stderr, exit
code and kill. `TargetCall` is what all this promises; its five variables are
variables of `TargetTransport`, so that the refinement mapping is the identity.

### FleetRuns

`disk` has the files of run directories, of fleet runs and of their targets; a
file's content is the number of the command that wrote it, and for an evidence
index which sources it reports as observed and as missing (a source whose collector
is not configured, or that the power mode leaves out, is neither). `StartRun` is a
capture, a snapshot or a firing trigger; `StartFleet` a fleet command, which takes
its inventory target by target: `RunLocal`, `RunRemote`, `Investigate`, `Preflight`,
`Reject` (an error that ends the command), then `Conclude`. Files are written by
`Truncate` and `Fill`; `Seal` hashes them into the manifest, which is written
last. `Kill` is a kill or a failed write. `captures`, `fleets` and `asked` are history.
Every process has the same record (`Idle` when it runs no command): the targets
that have their row, the files `todo` with the one it is `at`, the `run` to seal
after them and where to go on `then`. `RunIdsAssumption` is `validate_run_id`: no
run has an empty id.

### ManagedFleet

One command per process: init, enroll, invite, consume, or a fleet command with
a selector, each as its reads and writes of the registry, the controller
identity, an invite and the inventory generated for the selector
(`InventoryName` lets two selectors share a file name, as characters other than
letters and digits become dashes). `Answer` is the moment at which a command's
success is known. `enrolled`, `issued`, `accepted`, `overlap` and `alone` are history.

`TargetTransport` delivers to `FleetRuns` exactly the outcome of `RunRemote`,
`Investigate` and `Preflight`: an answer or one of the failure statuses. `FleetRuns`
delivers to `InvestigationRoute` the evidence of a fleet run, which the session model
takes as fixed; `ManagedFleet` delivers the inventory. The service pack of
`FleetRuns` is the one that `InvestigationSession` reads and refreshes.

## 3. Properties and runs

Runs that pass:

| Run | Module | Bounds | Shows |
|---|---|---|---|
| `FlightRecorder` | `MCFlightRecorder` | 2 daemons (symmetric), 2 markers with 1 mark, 1 trigger time with 2 firings, budget 2, 1 fault (2.8 million states) | `AdmissionExclusive`, `BudgetRespected`, `OneIncompleteBundle`, `ValidBundleCoherent`, `AnswerMatchesInventory`, `FrozenUntouched`, and that the recorder implements `IncidentStore` |
| `FlightRecorderLive` | `MCFlightRecorder` | as above, 1 firing, no faults, with fairness | `PendingDrained`, `LockReleased` |
| `RecorderRing` | `MCRecorderRing` | 2 semantic signals and 1 event signal, capacity 3, retention 3, time to 6, 5 pushes per profile, clock may fail | `DropsCounted`, `KeepsWindow`, `GovernedApart`, `ExportsNewest`, `CoverageHonest`, `AbsenceDistinguished` |
| `TriggerService` | `MCTriggerService` | the rules of two shipped profiles, 2 values, budget 1, time to 1, 2 firings | `FiringsHaveEvidence`, `WritesBounded` |
| `ControlState` | `MCControlState` | 2 clients and the daemon, 1 profile, 1 run, 2 commands, 1 kill, with fairness | `StatusCoherent`, `LoneCommandTakesEffect`, `UnreadableHeals` |
| `LogCursor` | `MCLogCursor` | 3 units per read, 2 events retained, 7 units, 2 rotations, with fairness | `ExportsNewest`, `ContinuityMeansDrained`, `RotationReported`, `CatchesUp` |
| `InvestigationSession` | `MCInvestigationSession` | 2 clients, 1 session, 4 evidences, 2 requests, 1 kill, limit of 1 file (1.4 million states) | `LoneContinuationKept`, `PackLeads`, `LoneCleanUpBounds` |
| `TargetTransport` | `MCTargetTransport` | all 4 plans, both transports, all endpoints, 2 lines under way, with fairness (172 thousand states) | `NoLeftovers`, `CallEnds`, and that the transport implements `TargetCall` |
| `ManagedFleet` | `MCManagedFleet` | 2 clients, 2 targets whose inventories share a name, 3 selectors, 2 invites, 3 commands, 1 kill, time to 2 (870 thousand states) | `EnrollmentKept`, `SelectionCurrent`, `InvitesHold` |
| `FleetRuns` | `MCFleetRuns` | 2 clients, 1 local run, 2 fleet ids, 3 inventories with 2 targets, 2 commands, 1 kill or failed write (2.3 million states) | `SealedRunIntact`, `FleetEvidenceComplete`, `FleetEvidenceBacked` |

Every property comes with a mutant of the code's translation that breaks it;
the mutants are defined beside the definitions they change.

What the properties of the sessions and of the managed fleet say of *lone* requests,
or as long as nothing overlapped, is deliberate: nothing is locked, and without
that condition each of them fails (section 6). What is checked is that this is the only
condition: kills, torn files, reused names and the files of earlier requests do
not break them.

Why the bounds are enough: the budget of 2 is below the 3 requests, so refusal and
the last free slot both occur; the second firing at one time is the second freeze
into one directory, after the first was finished, refused or interrupted; two
daemons and two markers give every collision on one file and on the lock; one
fault suffices for each property to meet its worst case (a torn bundle, a stale
lock, a marker forgotten), and the proofs cover the rest. In the ring, capacity,
retention, interval and byte budget all bind within five pushes, in every order.
In `TriggerService` the second firing is the refused one. In `ControlState` two
commands and the daemon's own initialization are three concurrent writers. In the
log, seven units exceed a read and what is retained, and two rotations cover a
rotation before and after a poll as well as removal and re-creation. Two session
requests are a start or a continuation under another, or a continuation of what an
earlier one left; the evidences give routes of one, two and three steps, with
steps left out in front. Two lines under way suffice for a line without meaning to
come before, between and after the responses, again and again; the proofs cover
any number of them. Three commands of the managed fleet are an enrollment, a
selection and one between them; the two targets make both selectors and file names
collide. The two fleet ids and the target ids make one run id in two ways, so that
a run is rewritten under another fleet's evidence.

Runs that show a disagreement between the code and what its documents say (the
details and quotations are under "findings" in `PROJECT.json`):

| Run | Property | What happens |
|---|---|---|
| `FlightRecorderLostMarker` | `PendingMarkerAnswered` | a torn pending file makes the drain forget the markers it has removed |
| `FlightRecorderStaleLock` | `MarkerAnsweredAfterRestart` | the lock file of a killed daemon blocks every later freeze |

The other disagreements that the models show are in section 6.

Fairness. `FlightRecorder`: weak fairness of each daemon's step, since its loop
never blocks (the lock is tried, not awaited) and systemd restarts it, and of a
started mark command; none for new marks, triggers and faults. `FlightRecorderLive`
has no faults: with a crash, the lock is *not* always released, which is what
`FlightRecorderStaleLock` shows. `ControlState`: weak fairness of the daemon, whose
loop reads the state every tick; none for clients. `LogCursor`: weak fairness of
`Poll`, once per iteration of the loop; none for the application.
`TargetTransport`: weak fairness of the controller's and the reader's steps, which
are threads of this program, and of the deadline; none for ssh, the network and the
target, which may hang at any point. `CallEnds` has an assumption of its own,
`StopsSending`: over HTTP the code limits each read, but not all of them together,
so a listener that never stops sending holds the request for ever. Without the
assumption TLC finds that loop of `Trickle` and `ReadBytes`. Over ssh nothing like
it is assumed, as the deadline covers the whole call. `CatchesUp` speaks of a log
that can be read whenever it exists: a lasting error of `open` is not modelled.

Deadlock is checked where the system runs for ever: the daemon's loop and the
clock of a profile switch always have a next step. In `InvestigationSession`,
`TargetTransport`, `ManagedFleet` and `FleetRuns` it is not: requests and commands end,
and when the bounded number of them is done nothing is left to do.

## 4. Proofs

TLAPS proves, for every value of the constants:

`FlightRecorderProofs` (any number of daemons, markers, trigger times, marks,
firings and faults):
`TypeCorrect`, `AdmissionIsExclusive`, `BudgetIsRespected`, `AtMostOneIncomplete`,
`IncidentStoreImplemented`. The inductive invariant is `TypeInv /\ LockInv /\
StoreInv`. `TypeInv` adds to `TypeOK` that a command under way has a mark and a
job is a real request. `LockInv` says that a daemon in the section holds the lock
file; with `create_new` that gives exclusion, and a stale lock only makes it
stronger. `BudgetRespected` is not inductive: between `Admit` and the last file
the decision is in the past. `StoreInv` therefore adds that a request without a
directory has no files, and that the one daemon that was admitted and has not
finished still finds the room it was promised (`FreezeAdmitted`): no other
incident is incomplete and, unless its own is counted already, there is room for
one more. The refinement proof maps the step that creates the directory to
`Open`, the one that writes `incident.json` to `Seal`, a fault that tears it to
`Reopen` or a stutter, and all others to stutters.

Its second part: `ValidBundlesCohere`, `AnswersMatchInventory`,
`FrozenIsUntouched`. All three are about names that have been used only once
(`AskedOnce`: one mark of the marker id, one firing at the trigger time), which is
the condition under which the code keeps them: a second freeze of a name writes
into the directory of the first. None of the three is inductive: that a bundle is
complete rests on who may write to it. `BundleInv` follows one such request from
hand to hand. While it waits (its firing has not happened, its pending file is
there) nothing was done for it and nobody holds it. Then one daemon holds it, in
one place, and what is on disk is what that daemon has done: the files before the
next one, and no `incident.json` before the last. It is handed on by the one call
that only one daemon can win, the removal of the pending file, which is why a
second daemon that has read the marker does no harm; a fault drops it for ever.
`Frame` says that a step which touches neither the files of a request nor who
holds it keeps its invariant, so that each action is looked at for its own request
only.

`RecorderRingProofs` (any capacity, retention, interval, signals; the clock may
fail): `RingTypeCorrect`, `DropsAreCounted`, `CapacityIsKept`,
`GovernorKeepsApart`, `RingKeepsWindow`, `FreezeExportsNewest`, `CoverageIsHonest`,
`AbsenceIsDistinguished`. `CapacityIsKept` states an invariant that no run repeats.
They rest on lemmas about sequences: the newest `n` of a
concatenation, counting over a concatenation, and that eviction leaves the newest
part. The invariant of the governor says that `last` is not before any semantic
sample of the history. `RingKeepsWindow` looks at a push whose clock is sound: what
was evicted before is older than what is evicted now, so the longest part that
fits is the longest of what was left. The last three are about the freeze that any
state would make. Its sums are recursive functions, and what they compute for
every sequence is proved without an induction theorem: `UpTo` takes the least
number that a set of naturals lacks, `RecursionExists` that a function which is
given step by step exists. With them `BytesGrow` (more samples take no fewer
bytes) and `TakenIs` say that the walk from the newest sample back stops at the
budget, `TotalIsBytes` that summing in the other direction gives the same, and
`Accounts` that exported, truncated and dropped samples add up to all.

`DaemonProofs` has the theorems of `ControlState` and of `TriggerService`, two
modules without a common state, the latter with names of its own
(`TriggerSpec`, `TriggerInit`, `TriggerNext`).

Of `ControlState` (any number of clients, profiles, runs, commands, kills):
`ControlTypeCorrect`, `StatusIsCoherent`, `LoneCommandCorrect`. `CoherentInv` says
that every copy in memory that may be written is coherent; `LoneInv` relates the
copy of a process that is alone to the file it began with, step by step.

Of `TriggerService` (any profiles, rules, values, runs and order of arming):
`FiringsAreEvident`, `WritesAreBounded`. The bound on the writes counts the rule
names that were written in this run, which are no more than the rules of the
profile that was loaded: a change of the profile starts a new count.

`TargetTransportProofs` (any plans, of any length, and any output of the target):
`CallsInOrder`, `EveryRequestCleansUp`, `TransportImplementsCall`. `Inv` has seven
parts. `Counters` says which of `called`, `answered` and `executed` may differ at
each place of the controller, `Calls` that a call on its way to the server is the last
line and not yet received, `Answers` that a response on its way back is that of the
current call, which has been executed: this is what makes taking any response
with the right id sound although a stream is never drained. `Exchange` says the same
of an HTTP exchange, `Apart` that an HTTP request has no streams, `Leftovers` where
there may be a process and a reader. None of them is inductive alone: `Answers`
needs that a call is executed only after it was sent, `Calls` that it is not sent
twice, `Counters` that what the controller takes as an answer is one. The proofs
have lemmas on what each helper does to the state (`GiveUpDoes`, `WriteLineDoes`,
`ConsiderDoes`), on streams (`NoAnswerLeft`, `LineRead`, `LineWritten`) and one for
each part of `Inv`, with a step for each action.

`ManagedFleetProofs` (any number of clients, targets, selectors, invites, commands
and kills): `SpecEnrollmentKept`, `SpecInvitesHold`, `SpecSelectionCurrent`. `Inv`
says what a command knows that nobody overlaps. `Alone`: it is the only active one,
and stays so until another begins. `Stages`: what it may write at each place.
`Enrolled`: a registry that is about to be written has all that was enrolled, which
makes it safe to truncate the file, and an enrollment that is not yet acknowledged
is in it. `Pinned`: an identity is written only before the first invite. `Accepted`:
an invite that was accepted is on disk as used or torn, never absent, so a kill
costs an invite but never gives it away twice. `Selection`: the registry is
still the one that was selected from. `NextDoes` reduces the ten actions to seven kinds of
steps, by which each part of `Inv` is shown to be kept.

`LogCursorProofs` (any read limit, retention, length and number of rotations):
`CursorExportsNewest`, `CursorDrains`, `CursorReportsRotation`. `Drained` and
`Reported` strengthen the properties with what the poll knows between its stat and
its read: that it saw more than it had read, and that as long as a loss is not
reported the cursor still has the identity of another file. That dropping the old
after every poll exports the same as dropping it once (`NewestOfNewest`) is a lemma
about sequences.

`FleetRunsProofs` (any number of commands, targets, inventories, observations and
kills, and ids that are used again): `RunsInvariant`, `SealedRunIsIntact`,
`FleetEvidenceIsComplete`, `FleetEvidenceIsBacked`. The first is the inductive
invariant `Inv`, of which only `FleetEvidenceComplete` is a property by itself.
`TypeInv` says of every command which files it is about to write: those of a run,
a manifest, what a target answered, or the evidence of a fleet run, which is what
makes two commands meet on a file only if they use one id. `AskedInv` ties the
matrix of a command to the inventory that it was given, row by row. `SealedRunIntact`
is not inductive, as it says nothing of a run before its manifest is there, and it
asks that all its files are of one command. `RunInv`
follows a run id that was used once: before its use nobody has it and there is no
manifest; afterwards one command has it, which has written the files before the one
it is `at` (`Making`) and, when it seals, holds the hashes of what is on disk
(`Sealing`); whoever lets go of the run leaves it whole or without a manifest.
`FleetInv` does the same for a fleet id. A row that says captured was added before
its file is on disk, and is backed as long as the file is still to come (`Coming`)
or there with nobody about to write it (`Kept`); when the evidence itself is
written, nothing is to come any more. A file that is named by two commands takes a
run id or fleet id used twice (`OneNames`), which the property excludes by
`captures` and `fleets`. `NextWrite` is the only place at which the disk changes
(`WritesOn`), so the other actions keep both by `RunStays` and `FleetStays`.

`InvestigationSessionProofs` (any number of clients, sessions, requests, kills and
labels, any evidence, any limit): `SessionTypeCorrect`, `SessionPackLeads`,
`SessionContinuationKept`, `SessionCleanUpBounds`. None of the last three is
inductive: they speak of the moment at which a request is done. The inductive
invariant is `TypeInv /\ AloneInv /\ LoneInv /\ PackLeads`. `TypeInv` says what each
file may hold and, of a client at each place, what it may still have to write:
nothing, one file, or two; session files only at the end of a continuation.
`AloneInv`: a client that is alone is the only active one, and without any overlap
every active client is alone; so nobody else changes a file until another request
begins, which ends its being alone. `LoneInv` follows such a client. A continuation
first finds its state as it was when it began (`Reads`); then it has a pack and a
state to write that `Agree` and that `Remember` what was there, and step by step
they are on disk and in the manifest instead (`WritesPack`, `EntersPack`,
`WritesState`, `EntersState`, `Leaves`). That the manifest has *both* files as they
are needs at each of these places that the entry of the pack is not lost when the
state is entered: the manifest is read whole (`Whole`) and written with what it had
(`Has`). `PackLeads` rests on this: a writer without overlap is alone, and its pack
has all the evaluations of the state before the state is touched. A clean-up that
is alone deletes only what is doomed, and what is not doomed is within the limit
(`Cleans`); `ExcessLeaves` is the lemma on counting that the first files by name,
all but `MaxSessions`, leave `MaxSessions` at most, for which session files must have
places and be finitely many. The steps fall into those of a client
that is not alone, which `LoneInv` does not speak of, and those of one that is.

Assumptions are only those named `...Assumption` in the modules (finiteness,
disjointness of names, natural numbers); TLC evaluates them in the runs.

Every safety invariant and action property of the passing runs is a theorem, and
so are both refinements. Only model-checked are the liveness properties
(`PendingDrained`, `LockReleased`, `UnreadableHeals`, `CatchesUp`, `CallEnds`), since
liveness under fairness and ENABLED are out of the prover's reach. The induction
theorems of the library cannot be instantiated by the installed provers; where a
proof needs an induction over a number it takes a least counterexample instead, as
above.

## 5. Not modelled

* Power policy, status file, overhead accounting: tables and reports that nothing
  reads back.
* Profiles and collectors: parsing and validation of YAML, reading of `/proc` and
  `/sys`. What collectors deliver is a value of `FleetRuns`.
* Symptom routes, route packs, probe packs and the route compiler, which add,
  order and extend steps by tables; `compare`, which relates two reports;
  rendering, contracts and schemas.
* The choice of the `latest` run, the resolution of references and the validation
  of names in sessions.
* The dispatch of the MCP server: one request at a time over stdio. The managed
  listener is modelled by what a controller sees of it; certificates, tokens and
  their comparison are the outcomes of `Dial` and `Listen`.
* Argument parsing and printing of the CLI, the privileged helper, the workload
  and the demo, which are sequential; the kernel probe, whose handlers one mutex
  serialises; scripts and packaging, but for the restart of the unit file.
* Rules of type burst, baseline_deviation and sequence_pattern, which the code never
  matches, and the errors of an invalid rule.
* A log truncated in place that has grown past the offset: the cursor has
  nothing to tell it by, and `RotationReported` excludes it explicitly. It also
  leaves out an inode that comes back after two replacements, with the same effect.
  A log that exists and cannot be read for good.

## 6. Known divergences

Where the models do what the code does and a reader might expect something else.
The first two are runs and findings of `PROJECT.json`.

Flight recorder and control state:

* A torn pending file makes the drain forget the markers it has removed. The lock
  file of a killed daemon blocks every later freeze.
* A name that is used again rewrites the frozen incident in place, and a kill in
  between leaves files of both freezes (`Reopen`). This holds for marker ids and for
  triggers: daemon.rs:531 names an incident after the time of its sample, and two
  firings share it within one tick of 10 ms, from two daemons, after a reboot, or
  as INC-TRIGGER-0 when the clock cannot be read. `ValidBundleCoherent`,
  `AnswerMatchesInventory` and `FrozenUntouched` exclude exactly the names that are
  used again; the budget, the single incomplete bundle and the refinement hold for
  them too.
* A late "queued" result overwrites a frozen one (`MarkResult` after `Report`).
* A rule that cannot be evaluated hides the rules behind it (`Decisive`); the
  cooldown is memory of the run that its firing ends; a `threshold_duration` rule
  takes its observed duration from itself.
* Samples that leave by age are reported as `ring_capacity_drop_oldest`.
* A command that overlaps `adc arm` may restore the profile before it.

Sessions:

* Overlapping continuations of one session lose what the earlier one added; a
  start in between renumbers the steps under a session, and two writers of the
  manifest lose an entry.
* Steps that are numbered anew keep the literal names of the steps in their
  branches, which may then name another step or none.
* A session's first evaluation of a branch stays, even when a later continuation
  evaluates it otherwise; its unknowns are never removed.
* A torn state file blocks its session; a torn manifest or route blocks the run.
* The clean-up counts files, of which a session has two, in the order of their
  names, so that it may leave a state without its pack; it leaves their manifest
  entries, and a file that is gone ends it.
* The service pack is shared by all runs, and a start rewrites it for the others.

Transport and fleet:

* The end of stdout may be seen before ssh can be waited for. The controller then
  kills it at once, and the status is `unreachable` although the target answered
  something else (`Kill` in state `closing`).
* A timeout is `unreachable` over ssh and `mcp_transport_failed` over HTTP; a
  service investigation of a target without a host is `invalid_inventory`, other
  requests say `unreachable`.
* ssh is killed at the deadline, and the tool may still be executed on the target.
* A process that inherits the streams of ssh holds up the join beyond any deadline
  (`holder`); `CallEnds` excludes it.
* The read over HTTP has a timeout for each `read` and loops to the end of the
  stream, without a deadline or a limit of size (transport.rs:1005-1017, 1032-1034):
  a listener that keeps sending holds the request for ever (`ReadBytes`).
  `CallEnds` excludes it by `StopsSending`.
* A service investigation over ssh does not validate the host before it starts ssh
  (`HostUnchecked`); the other plans do.
* An error of one target that is no status, such as an id that is no path segment or a
  file that cannot be written, ends a fleet command without its evidence.
* The run id of a local target joins fleet id and target id with a dash, so two
  pairs may share a run; a reused id rewrites files under an old manifest.
* A snapshot reports a source as observed that delivered nothing; a fleet's debts
  leave out what its captured targets are missing themselves.

Managed fleet:

* Overlapping enrollments lose one of the targets, overlapping consumptions accept
  an invite twice, and overlapping first commands draw two identities, so that
  an invite carries a pin that is no longer the controller's.
* Selectors whose names differ only in other characters share an inventory file.
* A torn registry or identity blocks every later command that needs it.

## 7. Plan

Done, in this order: `IncidentStore`, `FlightRecorder` and its proofs;
`RecorderRing` and its proofs; `TriggerService`, `ControlState` and their proofs;
`LogCursor` and its proofs; `InvestigationRoute`, `InvestigationSession` and its
proofs; `TargetCall`, `TargetTransport` and its proofs;
`ManagedFleet` and its proofs; `FleetRuns` and its proofs; the window and the
freeze of `RecorderRing`.

Later modules: symptom routes, and a composition of `RecorderRing` with the freeze
of `FlightRecorder`, so that a bundle's coverage is about the ring at the time of
the freeze.

------------------------- MODULE InvestigationSession -------------------------
(***************************************************************************)
(* Investigation sessions of one run (or fleet run) on disk: clients start *)
(* an investigation, continue a session at a step of its route, and clean  *)
(* up the session files, each in a process or server thread of its own.    *)
(* Nothing is locked: a file is read at one moment and written, truncated  *)
(* first, at later ones.  One action is one call on a file.  A client may  *)
(* be killed between any two of them.                                      *)
(***************************************************************************)
EXTENDS InvestigationRoute

CONSTANTS
    Clients,      \* processes and threads that investigate
    SessionOrder, \* the session names that are used, in name order
    Evidences,    \* evidence that the run or fleet run may have
    Unopenable,   \* sets of references that may fail to open
    Refreshed,    \* what a refreshed service pack may say
    ExtraRefs,    \* references that a client opens besides the step's own
    MaxLabels,    \* bound: labels by which a client picks of a step's refs
    MaxSessions,  \* max_sessions of a clean-up
    MaxRequests,  \* bound: requests of all clients
    MaxCrashes    \* bound: kills

Sessions == {SessionOrder[k] : k \in DOMAIN SessionOrder}

ASSUME SessionAssumption ==
    /\ SessionOrder \in Seq(Sessions)
    /\ \A j, k \in DOMAIN SessionOrder :
          SessionOrder[j] = SessionOrder[k] => j = k
    /\ \A e \in Evidences : e.scope \in {"run", "fleet"}
    /\ Refreshed \subseteq Availability
    /\ MaxLabels \in Nat /\ MaxSessions \in Nat
    /\ MaxRequests \in Nat /\ MaxCrashes \in Nat

Pack(s)  == <<s, "pack">>     \* <session>.json
State(s) == <<s, "state">>    \* <session>.state.json
SessionFiles == {Pack(s) : s \in Sessions} \cup {State(s) : s \in Sessions}
RouteFile    == <<"investigation_route", "json">>
ManifestFile == <<"manifest", "json">>
DiffFile     == <<"fleet_semantic_diff", "json">>
ServiceState == <<"service", "service_state">>  \* service_investigations/<name>
ServicePack  == <<"service", "service_pack">>
Files == SessionFiles \cup {RouteFile, ManifestFile, DiffFile, ServiceState,
                            ServicePack}

Absent == [is |-> "absent"]
Torn   == [is |-> "torn"]
File(v) == [is |-> "file", value |-> v]

VARIABLES
    evidence,  \* of the run: what was captured, and never changes again
    broken,    \* references that cannot be opened
    disk,      \* content of every file
    aged,      \* session files older than max_age_days
    client,    \* what every client is doing
    requests,  \* number of requests
    crashes,   \* number of kills
    overlap    \* history: two requests have been active at a time

vars == <<evidence, broken, disk, aged, client, requests, crashes, overlap>>

(* What a client is doing: todo are the files it has still to write, then  *)
(* is where it goes on when they are written; alone is history: no other   *)
(* request overlapped this one.  The fields of the other requests are not  *)
(* set.                                                                    *)
Idle ==
    [pc |-> "idle", op |-> "none", alone |-> FALSE, named |-> FALSE,
     todo |-> <<>>, then |-> "done",
     \* continue: the step, what is known of the route, what was opened,
     \* and, as history, the session state as it was
     session |-> "none", id |-> "none", route |-> <<>>, opening |-> <<>>,
     before |-> Absent,
     \* cleanup: as history what is too old, and what is to be deleted
     byAge |-> FALSE, old |-> {}, doomed |-> {}]

Active == {c \in Clients : client[c].pc # "idle"}
At(c, pc) == client[c].pc = pc

Write(file, value) == [file |-> file, value |-> value]

----------------------------------------------------------------------------
(* Reading.                                                                *)

(* The evidence as a client sees it that asks for the service by name, or  *)
(* finds its name in the facts.                                            *)
SeenWith(named, pack) ==
    IF evidence.scope = "fleet" THEN evidence
    ELSE [evidence EXCEPT !.pack =
            IF named \/ evidence.service # NoService THEN pack ELSE NoService]

(* An unreadable pack is no pack.                                          *)
Seen(named) ==
    SeenWith(named, IF disk[ServicePack].is = "file"
                    THEN disk[ServicePack].value ELSE NoService)

CannotOpen(ref) ==
    \/ ref \in broken
    \/ ref = "pack.service_state" /\ disk[ServiceState].is = "absent"
    \/ ref = "semantic_diff" /\ disk[DiffFile].is = "absent"

(* A reference to a torn file opens, as a text without any signal.         *)
OpenedFacts(ref) ==
    CASE ref = "pack.service_state" ->
            IF disk[ServiceState].is = "file"
            THEN ServiceFacts(disk[ServiceState].value)
            ELSE SignalFacts("quiet")
      [] ref = "semantic_diff" ->
            IF disk[DiffFile].is = "file" THEN FleetFacts(disk[DiffFile].value)
            ELSE SignalFacts("quiet")
      [] OTHER -> FactsOf(evidence, ref)

OpenRefs(refs) ==
    LET failed == {r \in refs : CannotOpen(r)}
    IN  [refs |-> refs, failed |-> failed,
         facts |-> UNION {OpenedFacts(r) : r \in refs \ failed}]

----------------------------------------------------------------------------
(* The session state after a continuation.  An evaluation of a branch that *)
(* the session already has stays as it is; the actions are replaced.       *)

EmptyState == [steps |-> {}, refs |-> {}, evaluations |-> {},
               unknowns |-> {}, actions |-> {}]

BranchOf(b) == <<b.step, b.when, b.next>>

ContinuedAfresh(previous, step, opening, remaining) ==  \* mutant of Continued
    LET new == Evaluations(step, opening, remaining)
    IN  [steps |-> {step.id}, refs |-> opening.refs, evaluations |-> new,
         unknowns |-> {BranchOf(b) : b \in {x \in new : x.status = "unknown"}},
         actions |-> NextActions(new, remaining)]

Continued(previous, step, opening, remaining) ==
    LET new == Evaluations(step, opening, remaining)
        old == previous.evaluations
    IN  [steps |-> previous.steps \cup {step.id},
         refs  |-> previous.refs \cup opening.refs,
         evaluations |->
            old \cup {b \in new : \A p \in old : BranchOf(p) # BranchOf(b)},
         unknowns |-> previous.unknowns
                      \cup {BranchOf(b) : b \in {x \in new :
                                                    x.status = "unknown"}},
         actions |-> NextActions(new, remaining)]

ContinuationPack(state, step, remaining) ==
    [step |-> step.id, route |-> remaining, evaluations |-> state.evaluations,
     actions |-> state.actions]

----------------------------------------------------------------------------
(* Requests.                                                               *)

Begin(c, request) ==
    /\ At(c, "idle")
    /\ requests < MaxRequests
    /\ requests' = requests + 1
    /\ overlap' = (overlap \/ Active # {})
    /\ client' = [d \in Clients |->
                    IF d = c THEN [request EXCEPT !.alone = (Active = {})]
                    ELSE IF d \in Active THEN [client[d] EXCEPT !.alone = FALSE]
                    ELSE client[d]]
    /\ UNCHANGED <<evidence, broken, disk, aged, crashes>>

(* The files are written before the client goes on.                        *)
Doing(x, todo, then) ==
    [x EXCEPT !.pc = IF todo = <<>> THEN then ELSE "write",
              !.todo = todo, !.then = then]

Goto(c, pc) == client' = [client EXCEPT ![c].pc = pc]
Fail(c)     == client' = [client EXCEPT ![c] = Idle]
Prepare(c, todo, then) ==
    client' = [client EXCEPT ![c] = Doing(@, todo, then)]
OnlyClient == UNCHANGED <<evidence, broken, disk, aged, requests, crashes,
                          overlap>>

(* start: a service that is named is investigated first, which rewrites    *)
(* the pack that all runs share.                                           *)
Start(c) ==
    \E named \in BOOLEAN, a \in Refreshed :
        LET refresh == named /\ evidence.scope = "run"
            todo    == IF refresh THEN <<Write(ServiceState, a),
                                         Write(ServicePack, a)>>
                       ELSE <<>>
        IN  Begin(c, Doing([Idle EXCEPT !.op = "start", !.named = named],
                           todo, "build"))

FleetComparison ==
    IF evidence.scope = "fleet" /\ evidence.compared # <<>>
    THEN <<Write(DiffFile, FieldStatus(evidence.compared))>> ELSE <<>>

(* The context is built, with the manifest read on the way, and the route  *)
(* is written; a fleet's semantic comparison follows the route.            *)
BuildRoute(c) ==
    /\ At(c, "build")
    /\ IF disk[ManifestFile].is = "torn" THEN Fail(c)
       ELSE Prepare(c, <<Write(RouteFile, Route(Seen(client[c].named)))>>
                       \o FleetComparison, "done")
    /\ OnlyClient

Continue(c) ==
    \E s \in Sessions, id \in {"IR001", "IR002", "IR003", "IR-DQ"},
       named \in BOOLEAN :
        Begin(c, [Idle EXCEPT !.op = "continue", !.pc = "context",
                              !.named = named, !.session = s, !.id = id,
                              !.before = disk[State(s)]])

(* The context is built here too, for the case that there is no route yet. *)
ReadContext(c) ==
    /\ At(c, "context")
    /\ IF disk[ManifestFile].is = "torn" THEN Fail(c)
       ELSE client' = [client EXCEPT ![c].pc = "route",
                                     ![c].route = Route(Seen(client[c].named))]
    /\ OnlyClient

ReadRoute(c) ==
    /\ At(c, "route")
    /\ IF disk[RouteFile].is = "torn" THEN Fail(c)
       ELSE client' = [client EXCEPT ![c] =
                Doing([@ EXCEPT !.route = IF disk[RouteFile].is = "file"
                                          THEN disk[RouteFile].value
                                          ELSE client[c].route],
                      FleetComparison, "refs")]
    /\ OnlyClient

(* All references of the step, or those whose labels were asked for.       *)
RefChoices(refs) ==
    {own \cup extra : own \in {refs} \cup {l \in SUBSET refs :
                                             Cardinality(l) <= MaxLabels},
                      extra \in SUBSET ExtraRefs}

(* A step id that the route does not have ends the request.                *)
OpenStep(c) ==
    /\ At(c, "refs")
    /\ LET route == client[c].route
           id    == client[c].id
       IN  IF id \notin StepIds(route) THEN Fail(c)
           ELSE \E refs \in RefChoices(route[StepAt(route, id)].refs) :
                    client' = [client EXCEPT ![c].pc = "state",
                                             ![c].opening = OpenRefs(refs)]
    /\ OnlyClient

StateFirst(s, pack, state) ==  \* mutant of SessionWrites
    <<Write(State(s), state), Write(Pack(s), pack)>>

SessionWrites(s, pack, state) == <<Write(Pack(s), pack), Write(State(s), state)>>

(* The previous state is read last, and what is to be written is computed  *)
(* from it: the pack first, then the state.                                *)
ReadState(c) ==
    /\ At(c, "state")
    /\ LET s         == client[c].session
           route     == client[c].route
           step      == route[StepAt(route, client[c].id)]
           opening   == client[c].opening
           remaining == RouteAfterStep(route, step.id, opening.failed)
           previous  == IF disk[State(s)].is = "file" THEN disk[State(s)].value
                        ELSE EmptyState
           state     == Continued(previous, step, opening, remaining)
       IN  IF disk[State(s)].is = "torn" THEN Fail(c)
           ELSE Prepare(c, SessionWrites(s, ContinuationPack(state, step,
                                                             remaining), state),
                        "done")
    /\ OnlyClient

----------------------------------------------------------------------------
(* Writing: a file is truncated and then filled; a file of a run is        *)
(* entered into the manifest after it was written.                         *)

Truncate(c) ==
    /\ At(c, "write")
    /\ disk' = [disk EXCEPT ![Head(client[c].todo).file] = Torn]
    /\ Goto(c, "fill")
    /\ UNCHANGED <<evidence, broken, aged, requests, crashes, overlap>>

Entered(file) ==
    evidence.scope = "run" /\ file \in SessionFiles \cup {RouteFile}

Fill(c) ==
    /\ At(c, "fill")
    /\ LET w == Head(client[c].todo)
       IN  /\ disk' = [disk EXCEPT ![w.file] = File(w.value)]
           /\ aged' = aged \ {w.file}
           /\ IF Entered(w.file) THEN Goto(c, "enter")
              ELSE Prepare(c, Tail(client[c].todo), client[c].then)
    /\ UNCHANGED <<evidence, broken, requests, crashes, overlap>>

With(f, x, v) == [y \in DOMAIN f \cup {x} |-> IF y = x THEN v ELSE f[y]]

(* add_run_manifest_entry: the manifest is read, the file that was just    *)
(* written is hashed as it is now, and the manifest is written back.       *)
Enter(c) ==
    /\ At(c, "enter")
    /\ LET file     == Head(client[c].todo).file
           rest     == Tail(client[c].todo)
           manifest == disk[ManifestFile]
       IN  CASE manifest.is = "absent" -> Prepare(c, rest, client[c].then)
             [] manifest.is = "torn"
                \/ (manifest.is = "file" /\ disk[file].is = "absent") -> Fail(c)
             [] OTHER ->
                    Prepare(c, <<Write(ManifestFile, With(manifest.value, file,
                                                          disk[file]))>>
                               \o rest, client[c].then)
    /\ OnlyClient

Return(c) ==
    /\ At(c, "done")
    /\ client' = [client EXCEPT ![c] = Idle]
    /\ OnlyClient

----------------------------------------------------------------------------
(* Cleaning up.  The limit counts files, of which a session has two, and   *)
(* takes the first ones by name; files that are too old follow.            *)

Place(f) ==
    2 * (CHOOSE k \in DOMAIN SessionOrder : SessionOrder[k] = f[1])
    + IF f = Pack(f[1]) THEN 0 ELSE 1

(* The files from f on, in the order of their names.                       *)
From(files, f) == {g \in files : Place(g) >= Place(f)}

Listed == {f \in SessionFiles : disk[f].is # "absent"}

ExcessLate(files) ==  \* mutant of Excess
    {f \in files : Cardinality(From(files, f)) > MaxSessions + 1}

(* All but the last MaxSessions files.                                     *)
Excess(files) == {f \in files : Cardinality(From(files, f)) > MaxSessions}

CleanUp(c) ==
    \E byAge \in BOOLEAN :
        Begin(c, [Idle EXCEPT !.op = "cleanup", !.pc = "list",
                              !.byAge = byAge])

ListFiles(c) ==
    /\ At(c, "list")
    /\ client' = [client EXCEPT ![c].pc = "delete",
                    ![c].old = aged,
                    ![c].doomed = Excess(Listed) \cup
                                  IF client[c].byAge THEN Listed \cap aged
                                  ELSE {}]
    /\ OnlyClient

(* The candidates are deleted in the order of their names: those that are  *)
(* only too old come after the excess.  A file that another clean-up has   *)
(* removed ends this one.                                                  *)
First(files) == CHOOSE f \in files : \A g \in files : Place(f) <= Place(g)

Delete(c) ==
    /\ At(c, "delete")
    /\ IF client[c].doomed = {} THEN Goto(c, "done") /\ UNCHANGED <<disk, aged>>
       ELSE LET file == First(client[c].doomed)
            IN  /\ IF disk[file].is = "absent" THEN Fail(c)
                   ELSE client' = [client EXCEPT ![c].doomed = @ \ {file}]
                /\ disk' = [disk EXCEPT ![file] = Absent]
                /\ aged' = aged \ {file}
    /\ UNCHANGED <<evidence, broken, requests, crashes, overlap>>

----------------------------------------------------------------------------
(* The environment.                                                        *)

Age(f) ==
    /\ Active = {}          \* an age is of days, a request of seconds
    /\ f \notin aged
    /\ disk[f].is # "absent"
    /\ aged' = aged \cup {f}
    /\ UNCHANGED <<evidence, broken, disk, client, requests, crashes, overlap>>

Kill(c) ==
    /\ c \in Active
    /\ crashes < MaxCrashes
    /\ crashes' = crashes + 1
    /\ Fail(c)
    /\ UNCHANGED <<evidence, broken, disk, aged, requests, overlap>>

(* The disk after the capture and, perhaps, a first start.                 *)
Captured(started) ==
    LET route == File(Route(IF evidence.scope = "fleet" THEN evidence
                            ELSE SeenWith(FALSE, evidence.pack)))
    IN  [f \in Files |->
            CASE f = RouteFile /\ started -> route
              [] f = DiffFile /\ started /\ FleetComparison # <<>> ->
                    File(FieldStatus(evidence.compared))
              [] f = ManifestFile /\ evidence.scope = "run" ->
                    File(IF started THEN With(<<>>, RouteFile, route)
                         ELSE <<>>)
              [] f \in {ServiceState, ServicePack}
                 /\ evidence.scope = "run" /\ evidence.pack # NoService ->
                    File(evidence.pack)
              [] OTHER -> Absent]

Init ==
    /\ evidence \in Evidences
    /\ broken \in Unopenable
    /\ disk \in {Captured(started) : started \in BOOLEAN}
    /\ aged = {}
    /\ client = [c \in Clients |-> Idle]
    /\ requests = 0
    /\ crashes = 0
    /\ overlap = FALSE

ClientStep(c) ==
    \/ BuildRoute(c) \/ ReadContext(c) \/ ReadRoute(c) \/ OpenStep(c)
    \/ ReadState(c) \/ Truncate(c) \/ Fill(c) \/ Enter(c)
    \/ Return(c) \/ ListFiles(c) \/ Delete(c)

Next ==
    \/ \E c \in Clients :
        Start(c) \/ Continue(c) \/ CleanUp(c) \/ ClientStep(c) \/ Kill(c)
    \/ \E f \in SessionFiles : Age(f)

Spec == Init /\ [][Next]_vars

----------------------------------------------------------------------------
(* Properties.                                                             *)

(* The files hold what their readers expect of them.                       *)
TypeOK ==
    /\ evidence \in Evidences
    /\ \A f \in Files : disk[f].is \in {"absent", "torn", "file"}
    /\ disk[RouteFile].is = "file" =>
        \A k \in DOMAIN disk[RouteFile].value :
            disk[RouteFile].value[k].id \in {"IR001", "IR002", "IR003", "IR-DQ"}
    /\ \A s \in Sessions : disk[State(s)].is = "file" =>
        DOMAIN disk[State(s)].value = DOMAIN EmptyState
    /\ aged \subseteq SessionFiles
    /\ requests \in 0 .. MaxRequests /\ crashes \in 0 .. MaxCrashes

(* A continuation that no other request overlapped leaves a session that   *)
(* remembers everything it knew, this step and the references it opened;   *)
(* the pack it returns says the same as the state it wrote, and the        *)
(* manifest has both as they are (continue_investigation).                 *)
LoneContinuationKept ==
    \A c \in Clients :
        At(c, "done") /\ client[c].op = "continue" /\ client[c].alone =>
            LET s      == client[c].session
                before == IF client[c].before.is = "file"
                          THEN client[c].before.value ELSE EmptyState
                state  == disk[State(s)].value
                pack   == disk[Pack(s)].value
            IN  /\ state.steps = before.steps \cup {client[c].id}
                /\ state.refs = before.refs \cup client[c].opening.refs
                /\ before.evaluations \subseteq state.evaluations
                /\ before.unknowns \subseteq state.unknowns
                /\ pack.evaluations = state.evaluations
                /\ pack.actions = state.actions
                /\ evidence.scope = "run" =>
                    \A f \in {Pack(s), State(s)} :
                        disk[ManifestFile].value[f] = disk[f]

(* Without overlapping requests a kill at any moment leaves the pack of a  *)
(* session at least as new as its state: the state never has an            *)
(* evaluation that the last pack did not report.                           *)
PackLeads ==
    \A s \in Sessions :
        ~overlap /\ disk[Pack(s)].is = "file" /\ disk[State(s)].is = "file" =>
            disk[State(s)].value.evaluations \subseteq
                disk[Pack(s)].value.evaluations

(* A clean-up that nothing overlapped leaves no more files than its limit  *)
(* and none that was too old when it listed them.                          *)
LoneCleanUpBounds ==
    \A c \in Clients :
        At(c, "done") /\ client[c].op = "cleanup" /\ client[c].alone =>
            /\ Cardinality(Listed) <= MaxSessions
            /\ client[c].byAge => \A f \in client[c].old : disk[f].is = "absent"

=============================================================================

-------------------------- MODULE InvestigationRoute --------------------------
(***************************************************************************)
(* The investigation route that agent_context builds from the evidence of  *)
(* a run or of a fleet run, the evaluation of a step's branch conditions   *)
(* on the references that were opened, and the actions that follow from    *)
(* it.  Everything here is a pure function of its arguments; who reads and *)
(* writes the files it comes from is InvestigationSession.                 *)
(*                                                                         *)
(* Titles, purposes and reasons of steps and actions are left out; a       *)
(* branch condition is named by what it asks.                              *)
(***************************************************************************)
EXTENDS Integers, Sequences, FiniteSets

(* What a service_state.json or a service pack says.                       *)
Availability == {"available", "unavailable", "unknown"}
NoService    == "none"

(* What a log, a domain event file or a journal has to say: nothing was    *)
(* staged, no line has a signal word, some line has one.                   *)
SignalKinds   == {"log", "domain", "journald"}
SignalContent == {"none", "quiet", "words"}

RunEvidence ==
    [scope   : {"run"},
     service : Availability \cup {NoService},  \* raw/service_state.json
     pack    : Availability \cup {NoService},  \* the pack of that service
     signals : [SignalKinds -> SignalContent],
     runtime : BOOLEAN,                        \* some resource reference
     missing : BOOLEAN]                        \* data_quality.missing

(* One target of a fleet service investigation.                            *)
TargetResult ==
    [status  : {"captured", "unreachable", "permission_denied", "failed"},
     pack    : Availability \cup {NoService},
     missing : SUBSET {"permission", "collector"}]

FleetEvidence(targets) ==
    [scope    : {"fleet"},
     captured : BOOLEAN,                       \* some evidence reference
     compared : {<<>>} \cup [targets -> TargetResult],
     missing  : BOOLEAN]                       \* of the fleet or a target

----------------------------------------------------------------------------
(* Steps.                                                                  *)

Branch(when, next) == [when |-> when, next |-> next]

Step(id, topic, refs, branches) ==
    [id |-> id, topic |-> topic, refs |-> refs, branches |-> branches]

StepIf(condition, step) == IF condition THEN <<step>> ELSE <<>>

PackRefs == {"pack.journal_leads", "pack.process_summary",
             "pack.port_summary"}

(* The service state of the run comes before that of the pack.             *)
ServiceRefs(e) ==
    (IF e.service # NoService THEN {"service_state"}
     ELSE IF e.pack # NoService THEN {"pack.service_state"} ELSE {})
    \cup (IF e.pack # NoService THEN PackRefs ELSE {})

ServiceStep(e) ==
    StepIf(ServiceRefs(e) # {},
           Step("IR001", "service", ServiceRefs(e),
                <<Branch("service_missing", "IR-DQ"),
                  Branch("service_available", "IR002")>>))

SignalRefs(e) == {k \in SignalKinds : e.signals[k] # "none"}

SignalStep(e) ==
    StepIf(SignalRefs(e) # {},
           Step("IR002", "signals", SignalRefs(e),
                <<Branch("markers_named", "IR003"),
                  Branch("markers_empty", "IR-DQ")>>))

RuntimeStep(e) ==
    StepIf(e.runtime,
           Step("IR003", "runtime", {"runtime"},
                <<Branch("runtime_gaps", "IR-DQ"),
                  Branch("runtime_sufficient", "IR-END")>>))

QualityStep == Step("IR-DQ", "quality", {}, <<Branch("gaps_block", "IR-END")>>)

FallbackStep == Step("IR001", "first", {"first"},
                     <<Branch("first_empty", "IR-DQ")>>)

(* The steps get the numbers of their places; the branches keep the ids    *)
(* they were written with.                                                 *)
NumberedFromZero(steps) ==  \* mutant of Numbered
    [k \in DOMAIN steps |->
        IF k = 1 /\ steps[k].id # "IR-DQ" THEN [steps[k] EXCEPT !.id = "IR000"]
        ELSE steps[k]]

Numbered(steps) ==
    LET place(k) == Cardinality({j \in 1 .. k : steps[j].id # "IR-DQ"})
        name(n)  == CASE n = 1 -> "IR001" [] n = 2 -> "IR002"
                      [] OTHER -> "IR003"
    IN  [k \in DOMAIN steps |->
            IF steps[k].id = "IR-DQ" THEN steps[k]
            ELSE [steps[k] EXCEPT !.id = name(place(k))]]

RunRoute(e) ==
    LET steps == ServiceStep(e) \o SignalStep(e) \o RuntimeStep(e)
                 \o StepIf(e.missing, QualityStep)
    IN  Numbered(IF steps = <<>> THEN <<FallbackStep>> ELSE steps)

MatrixStep(e) ==
    Step("IR001", "matrix", IF e.captured THEN {"evidence"} ELSE {},
         <<Branch("targets_failed", "IR-DQ"),
           Branch("target_captured", "IR002")>>)

ComparisonStep(e) ==
    StepIf(e.compared # <<>>,
           Step("IR002", "comparison", {"semantic_diff"},
                <<Branch("service_differs", "IR003"),
                  Branch("service_partial", "IR-DQ")>>))

CapturedStep(e) ==
    StepIf(e.captured,
           Step("IR003", "captured", {"evidence"},
                <<Branch("target_gaps", "IR-DQ")>>))

FleetRoute(e) ==
    Numbered(<<MatrixStep(e)>> \o ComparisonStep(e) \o CapturedStep(e)
             \o StepIf(e.missing, QualityStep))

Route(e) == IF e.scope = "run" THEN RunRoute(e) ELSE FleetRoute(e)

StepIds(route) == {route[k].id : k \in DOMAIN route}

(* The first step of that id, as find() returns it.                        *)
StepAt(route, id) ==
    CHOOSE k \in DOMAIN route :
        /\ route[k].id = id
        /\ \A j \in 1 .. k - 1 : route[j].id # id

----------------------------------------------------------------------------
(* The semantic comparison of a service across the targets of a fleet.     *)

QualityClass(t) ==
    CASE t.status = "unreachable" -> "unreachable"
      [] t.status = "permission_denied" \/ "permission" \in t.missing ->
            "permission_denied"
      [] t.status = "failed" -> "collector_failed"
      [] t.status = "captured" /\ (t.pack = NoService \/ t.missing # {}) ->
            "missing"
      [] OTHER -> "ok"

(* One target that is not ok makes a field partial, whatever the values.   *)
FieldStatus(compared) ==
    IF \E t \in DOMAIN compared : QualityClass(compared[t]) # "ok"
    THEN "partial"
    ELSE IF \E s, t \in DOMAIN compared : compared[s].pack # compared[t].pack
         THEN "different" ELSE "same"

----------------------------------------------------------------------------
(* Typed facts of an opened reference, those that a condition asks about.  *)

Fact(id, value) == [id |-> id, value |-> value]

ServiceFacts(availability) == {Fact("service.availability", availability)}

SignalFacts(content) ==
    {Fact("signal.signal_line_count",
          IF content = "words" THEN "some" ELSE "zero"),
     Fact("signal.has_signal_words",
          IF content = "words" THEN "true" ELSE "false")}

FleetFacts(status) ==
    {Fact("fleet.different_field_count",
          IF status = "different" THEN "some" ELSE "zero"),
     Fact("fleet.partial_field_count",
          IF status = "partial" THEN "some" ELSE "zero")}

FactsOf(e, ref) ==
    CASE ref = "service_state"      -> ServiceFacts(e.service)
      [] ref = "pack.service_state" -> ServiceFacts(e.pack)
      [] ref \in SignalKinds        -> SignalFacts(e.signals[ref])
      [] ref = "semantic_diff"      -> FleetFacts(FieldStatus(e.compared))
      [] OTHER                      -> {}

----------------------------------------------------------------------------
(* Three-valued conditions.                                                *)

Statuses == {"matched", "not_matched", "unknown"}

(* Without a fact of that id the condition is unknown; one fact with the   *)
(* value is enough.                                                        *)
FactMatch(facts, id, value) ==
    LET matching == {f \in facts : f.id = id}
    IN  IF matching = {} THEN "unknown"
        ELSE IF \E f \in matching : f.value = value THEN "matched"
             ELSE "not_matched"

AnyOf(statuses) ==
    IF "matched" \in statuses THEN "matched"
    ELSE IF "unknown" \in statuses THEN "unknown" ELSE "not_matched"

AllOf(statuses) ==
    IF "not_matched" \in statuses THEN "not_matched"
    ELSE IF "unknown" \in statuses THEN "unknown" ELSE "matched"

Negate(status) ==
    CASE status = "matched"     -> "not_matched"
      [] status = "not_matched" -> "matched"
      [] OTHER                  -> "unknown"

(* The typed predicate of a condition.  The text of first_empty is         *)
(* compared with what the opened service states say, to the same effect.   *)
TypedStatus(when, facts) ==
    CASE when \in {"service_missing", "first_empty"} ->
            AnyOf({FactMatch(facts, "service.availability", "unavailable"),
                   FactMatch(facts, "service.availability", "unknown")})
      [] when = "service_available" ->
            FactMatch(facts, "service.availability", "available")
      [] when = "markers_named" ->
            FactMatch(facts, "signal.signal_line_count", "some")
      [] when = "markers_empty" ->
            FactMatch(facts, "signal.has_signal_words", "false")
      [] when = "service_differs" ->
            FactMatch(facts, "fleet.different_field_count", "some")
      [] when = "service_partial" ->
            FactMatch(facts, "fleet.partial_field_count", "some")

Typed == {"service_missing", "first_empty", "service_available",
          "markers_named", "markers_empty", "service_differs",
          "service_partial"}

(* What was opened: the references, those of them that failed to open, and *)
(* the facts of the others.                                                *)
Opening(e, refs, failed) ==
    [refs |-> refs, failed |-> failed,
     facts |-> UNION {FactsOf(e, r) : r \in refs \ failed}]

(* Conditions without a predicate are decided by their text.               *)
TextStatus(when, opening, remaining) ==
    CASE when = "targets_failed" ->
            IF opening.failed # {} THEN "matched"
            ELSE IF opening.refs # {} THEN "not_matched" ELSE "unknown"
      [] when = "target_captured" ->
            IF \E k \in DOMAIN remaining : remaining[k].refs # {}
            THEN "matched" ELSE "unknown"
      [] OTHER ->
            IF opening.failed # {} \/ opening.refs = {} THEN "unknown"
            ELSE "not_matched"

Status(when, opening, remaining) ==
    IF when \in Typed THEN TypedStatus(when, opening.facts)
    ELSE TextStatus(when, opening, remaining)

----------------------------------------------------------------------------
(* What is left of the route after a step, and what to do next.            *)

RouteAfterStep(route, id, failed) ==
    LET rest == SubSeq(route, StepAt(route, id) + 1, Len(route))
    IN  IF rest = <<>> /\ failed # {} THEN <<QualityStep>> ELSE rest

Evaluations(step, opening, remaining) ==
    {[step |-> step.id, when |-> step.branches[k].when,
      next |-> step.branches[k].next,
      status |-> Status(step.branches[k].when, opening, remaining)] :
        k \in DOMAIN step.branches}

(* The targets of the matched branches, else of the unknown ones, else all *)
(* remaining steps; an id that is no remaining step becomes a review of    *)
(* the data quality.                                                       *)
Selected(evaluations, remaining) ==
    LET nexts(status) == {b.next : b \in {c \in evaluations :
                                            c.status = status}}
    IN  IF nexts("matched") # {} THEN nexts("matched")
        ELSE IF nexts("unknown") # {} THEN nexts("unknown")
             ELSE StepIds(remaining)

NextActions(evaluations, remaining) ==
    {[step |-> id,
      action |-> IF id \in StepIds(remaining) THEN "open" ELSE "review"] :
        id \in Selected(evaluations, remaining)}

=============================================================================

---------------------------- MODULE TriggerService ----------------------------
(***************************************************************************)
(* The trigger rules of an armed profile, as the control loop of           *)
(* run_service_for evaluates them over and over: one iteration samples,    *)
(* picks the sample to evaluate, goes through the rules up to the first    *)
(* one with something to say, and records a decision or fires.  A firing   *)
(* freezes an incident or is refused, and ends the service run with all    *)
(* its memory.  What the ring keeps is abstracted to the signals of which  *)
(* it retains a sample (RecorderRing), the freeze to the incident          *)
(* directory it leaves (FlightRecorder).                                   *)
(***************************************************************************)
EXTENDS Integers, Sequences, FiniteSets

CONSTANTS
    Profiles,            \* profiles that may be armed
    Rules,               \* Rules[p]: the triggers of profile p, in order
    Collected,           \* Collected[p]: signals that p's collectors yield
    Semantic,            \* signals of the semantic samples
    Kmsg,                \* the signal of the event samples
    Values,              \* values of a signal
    NoProfile,           \* no profile is armed or loaded
    MaxFrozenIncidents,  \* RecorderBudget.max_frozen_incidents
    LastTime,            \* bound: the clock stops here
    MaxFirings           \* bound: firings of all rules

Signals == Semantic \cup {Kmsg}

(* A rule compares with value what it observes of its signal: the sampled  *)
(* value, or, if relative, its change since the previous sample.  Without  *)
(* hysteresis, clearBelow is above all values.                             *)
RuleTypes == {"threshold", "threshold_duration", "delta", "kmsg_pattern",
              "missing_sample"}

ASSUME ProfilesAssumption ==
    /\ NoProfile \notin Profiles
    /\ Kmsg \notin Semantic
    /\ \A p \in Profiles :
        /\ Collected[p] \subseteq Signals
        /\ Rules[p] \in Seq({Rules[p][k] : k \in DOMAIN Rules[p]})
        /\ \A k \in DOMAIN Rules[p] :
            /\ Rules[p][k].type \in RuleTypes
            /\ Rules[p][k].signal \in Signals
            /\ Rules[p][k].relative \in BOOLEAN
            /\ Rules[p][k].value \in Int
            /\ Rules[p][k].duration \in Nat
            /\ Rules[p][k].cooldown \in Nat
            /\ Rules[p][k].clearBelow \in Int

ASSUME NumbersAssumption ==
    /\ Values \subseteq Int
    /\ MaxFrozenIncidents \in Nat
    /\ LastTime \in Nat
    /\ MaxFirings \in Nat

Times == 0 .. LastTime
Never == LastTime + 1
Names == UNION {{Rules[p][k].name : k \in DOMAIN Rules[p]} : p \in Profiles}

(* What a sample has: some of the signals, with their values.              *)
ReadingsOf(signals) == UNION {[S -> Values] : S \in SUBSET signals}
Nothing  == [x \in {} |-> 0]

VARIABLES
    now,        \* the monotonic clock, as coarse as /proc/uptime
    active,     \* DaemonState.active_profile
    decisions,  \* trigger_decisions/<rule>.json on disk
    incidents,  \* recorder/incidents/INC-TRIGGER-<time> on disk
    \* memory of the service run
    loaded,     \* recorder_profile_id
    retained,   \* signals with a sample in the ring
    previous,   \* previous_sample: its time and readings
    lastFired,  \* TriggerRuntimeState.last_fired_mono_ns_by_rule
    written,    \* materialized_trigger_decisions
    \* history
    writes,     \* decisions written since the profile was loaded
    firings     \* the firings so far

runVars     == <<loaded, retained, previous, lastFired, written, writes>>
triggerVars == <<now, active, decisions, incidents, runVars, firings>>

NoSample == [time |-> 0, readings |-> Nothing]
Unfired  == [n \in Names |-> Never]

-----------------------------------------------------------------------------
(* trigger_input, evaluate_trigger, trigger_decision_with_runtime_state    *)

HasInput(r, prev, cur) ==
    /\ r.signal \in DOMAIN cur
    /\ r.relative => r.signal \in DOMAIN prev

Observed(r, prev, cur) ==
    cur[r.signal] - (IF r.relative THEN prev[r.signal] ELSE 0)

(* The duration that a threshold_duration rule requires is what its input  *)
(* says was observed; a missing_sample rule needs an input without value.  *)
Matches(r, prev, cur) ==
    /\ r.type # "missing_sample"
    /\ Observed(r, prev, cur) >= r.value

CoolingDown(r, fired) ==
    fired[r.name] # Never /\ now - fired[r.name] < r.cooldown

NotCleared(r, prev, cur, fired) ==
    /\ fired[r.name] # Never
    /\ r.type # "kmsg_pattern"
    /\ Observed(r, prev, cur) >= r.clearBelow

DecisionUncovered(r, prev, cur, ring, fired) ==  \* mutant of Decision
    IF ~ HasInput(r, prev, cur) THEN "skipped_policy_invalid"
    ELSE IF Matches(r, prev, cur) THEN "fired" ELSE "not_fired"

Decision(r, prev, cur, ring, fired) ==
    IF r.signal \notin ring THEN "skipped_missing_coverage"
    ELSE IF ~ HasInput(r, prev, cur) THEN "skipped_policy_invalid"
    ELSE IF ~ Matches(r, prev, cur) THEN "not_fired"
    ELSE IF CoolingDown(r, fired) THEN "suppressed_cooldown"
    ELSE IF NotCleared(r, prev, cur, fired) THEN "suppressed_hysteresis"
    ELSE "fired"

-----------------------------------------------------------------------------
(* What one iteration finds in memory: a newly armed profile starts with   *)
(* an empty ring, no firings and no written decisions, but keeps the       *)
(* previous sample.                                                        *)

Switched == loaded # active

RingNow    == IF Switched THEN {} ELSE retained
FiredNow   == IF Switched THEN Unfired ELSE lastFired
WrittenNow == IF Switched THEN {} ELSE written
WritesNow  == IF Switched THEN 0 ELSE writes

(* The sampling of one iteration: a semantic sample, which the rate        *)
(* governor may keep out of the ring, then an event sample, then perhaps   *)
(* one of the application log.  A push may evict anything but the last     *)
(* sample.                                                                 *)
Sampled(sem, event, throttled, ring) ==
    LET into == (IF throttled THEN {} ELSE DOMAIN sem) \cup DOMAIN event
        last == IF event # Nothing THEN DOMAIN event ELSE into
    IN  /\ throttled => sem # Nothing
        /\ last \subseteq ring
        /\ ring \subseteq RingNow \cup into

(* sample_for_triggers: the event sample takes the place of the semantic   *)
(* one.                                                                    *)
Current(sem, event) == IF event # Nothing THEN event ELSE sem

DecisionOf(k, cur, ring) ==
    Decision(Rules[active][k], previous.readings, cur, ring, FiredNow)

(* evaluate_live_triggers stops at the first rule that has something else  *)
(* to say than not_fired.                                                  *)
Decisive(k, cur, ring) ==
    /\ DecisionOf(k, cur, ring) # "not_fired"
    /\ \A j \in 1 .. k - 1 : DecisionOf(j, cur, ring) = "not_fired"

Continue(cur, ring) ==
    /\ loaded'    = active
    /\ retained'  = ring
    /\ previous'  = IF cur = Nothing THEN previous ELSE [time |-> now, readings |-> cur]
    /\ lastFired' = FiredNow
    /\ UNCHANGED <<now, active, incidents, firings>>

Quiet(cur, ring) ==
    /\ cur = Nothing \/ \A k \in DOMAIN Rules[active] : ~ Decisive(k, cur, ring)
    /\ Continue(cur, ring)
    /\ written' = WrittenNow
    /\ writes'  = WritesNow
    /\ UNCHANGED decisions

MaterializeAlways(k, cur, ring) ==  \* mutant of Materialize
    LET n == Rules[active][k].name
    IN  /\ cur # Nothing
        /\ Decisive(k, cur, ring)
        /\ DecisionOf(k, cur, ring) # "fired"
        /\ Continue(cur, ring)
        /\ written'   = WrittenNow \cup {n}
        /\ writes'    = WritesNow + 1
        /\ decisions' = [decisions EXCEPT ![n] = DecisionOf(k, cur, ring)]

(* A suppressed or skipped decision is written once per rule.              *)
Materialize(k, cur, ring) ==
    LET n == Rules[active][k].name
        d == DecisionOf(k, cur, ring)
    IN  /\ cur # Nothing
        /\ Decisive(k, cur, ring)
        /\ d # "fired"
        /\ Continue(cur, ring)
        /\ written' = WrittenNow \cup {n}
        /\ IF n \in WrittenNow
           THEN writes' = WritesNow /\ UNCHANGED decisions
           ELSE /\ writes'    = WritesNow + 1
                /\ decisions' = [decisions EXCEPT ![n] = d]

ForgetRun ==
    /\ loaded'    = NoProfile
    /\ retained'  = {}
    /\ previous'  = NoSample
    /\ lastFired' = Unfired
    /\ written'   = {}
    /\ writes'    = 0

Admitted == Cardinality(incidents) < MaxFrozenIncidents

Refuse(n) == decisions' = [decisions EXCEPT ![n] = "skipped_budget_exhausted"]

(* The rule fires: the incident is frozen, or its refusal is written, and  *)
(* the service run ends.                                                   *)
Fire(k, cur, ring) ==
    LET r == Rules[active][k]
    IN  /\ Len(firings) < MaxFirings
        /\ cur # Nothing
        /\ Decisive(k, cur, ring)
        /\ DecisionOf(k, cur, ring) = "fired"
        /\ firings' = Append(firings, [rule |-> r, time |-> now, frozen |-> Admitted,
                                       evidence |-> ring \cap {r.signal}])
        /\ IF Admitted
           THEN incidents' = incidents \cup {now} /\ UNCHANGED decisions
           ELSE Refuse(r.name) /\ UNCHANGED incidents
        /\ ForgetRun
        /\ UNCHANGED <<now, active>>

-----------------------------------------------------------------------------
TriggerInit ==
    /\ now       = 0
    /\ active    = NoProfile
    /\ decisions = [n \in Names |-> "none"]
    /\ incidents = {}
    /\ loaded    = NoProfile
    /\ retained  = {}
    /\ previous  = NoSample
    /\ lastFired = Unfired
    /\ written   = {}
    /\ writes    = 0
    /\ firings   = <<>>

Tick ==
    /\ now < LastTime
    /\ now' = now + 1
    /\ UNCHANGED <<active, decisions, incidents, runVars, firings>>

(* `adc arm` and `adc disarm`; the loop reads the state at each iteration. *)
Arm(p) ==
    /\ active' = p
    /\ UNCHANGED <<now, decisions, incidents, runVars, firings>>

Iterate ==
    /\ active # NoProfile
    /\ \E sem \in ReadingsOf(Collected[active] \cap Semantic),
          event \in ReadingsOf(Collected[active] \cap {Kmsg}),
          throttled \in BOOLEAN, ring \in SUBSET (RingNow \cup Collected[active]) :
        /\ Sampled(sem, event, throttled, ring)
        /\ \/ Quiet(Current(sem, event), ring)
           \/ \E k \in DOMAIN Rules[active] :
                \/ Materialize(k, Current(sem, event), ring)
                \/ Fire(k, Current(sem, event), ring)

(* The minute of the service run is over, or the daemon dies and is        *)
(* restarted.                                                              *)
EndRun ==
    /\ ForgetRun
    /\ UNCHANGED <<now, active, decisions, incidents, firings>>

TriggerNext ==
    \/ Tick
    \/ \E p \in Profiles \cup {NoProfile} : Arm(p)
    \/ Iterate
    \/ EndRun

TriggerSpec == TriggerInit /\ [][TriggerNext]_triggerVars

-----------------------------------------------------------------------------
(* Properties.                                                             *)

(* A firing has evidence: at that moment the ring retains a sample of the  *)
(* rule's signal for the freeze to export, even if the sample that matched *)
(* was throttled.                                                          *)
FiringsHaveEvidence ==
    \A i \in DOMAIN firings : firings[i].evidence # {}

(* Evaluations that do not fire are no continuous write path: a profile    *)
(* writes no more decisions than it has rules, however long it stays       *)
(* armed.  docs/plans/execplan-adc-flight-recorder.md line 530.            *)
WritesBounded ==
    writes <= IF loaded = NoProfile THEN 0 ELSE Len(Rules[loaded])

=============================================================================

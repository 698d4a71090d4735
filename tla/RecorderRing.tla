----------------------------- MODULE RecorderRing -----------------------------
(***************************************************************************)
(* The memory ring of one service run: what is sampled, throttled,         *)
(* retained and dropped, and what a freeze then exports and reports as     *)
(* lost.  The semantic samples (cpu, memory, network) pass the sample rate *)
(* governor; the event samples (kmsg, app_log) go straight to the ring.    *)
(* A sample bears the time its clock read returned, which is 0 when        *)
(* /proc/uptime cannot be read.                                            *)
(***************************************************************************)
EXTENDS Naturals, Sequences, FiniteSets

CONSTANTS
    Semantic,     \* signals of the semantic samples
    Events,       \* signals that come one at a time
    Capacity,     \* recorder_ring_capacity_for_budget
    Retention,    \* RecorderBudget.max_retention_ms, in clock units
    MinInterval,  \* least distance of two semantic samples
    MaxBytes,     \* the lesser of max_freeze_bytes and max_disk_bytes
    ClockFails,   \* whether a clock read may fail
    LastTime,     \* bound: the clock stops here
    MaxPushes     \* bound: samples pushed under one profile

Signals == Semantic \cup Events

ASSUME SignalsAssumption ==
    /\ Semantic \cap Events = {}
    /\ IsFiniteSet(Signals)

ASSUME NumbersAssumption ==
    /\ Capacity \in Nat
    /\ Retention \in Nat
    /\ MinInterval \in Nat \ {0}
    /\ MaxBytes \in Nat \ {0}
    /\ ClockFails \in BOOLEAN
    /\ LastTime \in Nat
    /\ MaxPushes \in Nat

Times   == 0 .. LastTime
Samples == [time : Times, signals : SUBSET Signals]
Never   == LastTime + 1  \* no semantic sample yet

VARIABLES
    now,        \* the monotonic clock
    expected,   \* signals the active profile expects
    samples,    \* RecorderRing.samples, oldest first
    dropped,    \* RecorderRing.dropped_by_signal
    throttled,  \* RecorderRing.throttled_sample_count > 0
    last,       \* RecorderSampleRateGovernor.last_sample_mono_ns
    pushed      \* history: the samples pushed since the profile was loaded

vars == <<now, expected, samples, dropped, throttled, last, pushed>>

-----------------------------------------------------------------------------
a \ominus b == IF a > b THEN a - b ELSE 0  \* u64::saturating_sub

Limit == IF Capacity = 0 THEN 1 ELSE Capacity

(* How many samples of S have the signal x.                                *)
Count(S, x) == Cardinality({i \in DOMAIN S : x \in S[i].signals})

Newest(S, n) == SubSeq(S, Len(S) - n + 1, Len(S))
Oldest(S, n) == SubSeq(S, 1, n)

ExpiredAtCutoff(S, i) ==  \* mutant of Expired
    i < Len(S) /\ S[i].time <= S[Len(S)].time \ominus Retention

Expired(S, i) == S[i].time < S[Len(S)].time \ominus Retention

(* The expired samples leave from the front, up to the first that is not.  *)
Evict(S) ==
    LET kept == {i \in 1 .. Len(S) : ~ Expired(S, i)}
        from == CHOOSE i \in kept : \A j \in kept : i <= j
    IN  SubSeq(S, from, Len(S))

Room == Newest(samples, IF Len(samples) < Limit THEN Len(samples) ELSE Limit - 1)

PushUncounted(s) ==  \* mutant of Push
    LET kept == Evict(Append(Room, s))
        lost == Oldest(samples, Len(samples) - Len(Room))
    IN  /\ Len(pushed) < MaxPushes
        /\ samples' = kept
        /\ dropped' = [x \in Signals |-> dropped[x] + Count(lost, x)]
        /\ pushed'  = Append(pushed, s)

Push(s) ==
    LET kept == Evict(Append(Room, s))
        lost == Oldest(samples, Len(samples) + 1 - Len(kept))
    IN  /\ Len(pushed) < MaxPushes
        /\ samples' = kept
        /\ dropped' = [x \in Signals |-> dropped[x] + Count(lost, x)]
        /\ pushed'  = Append(pushed, s)

-----------------------------------------------------------------------------
Init ==
    /\ now = 0
    /\ expected \in SUBSET Signals
    /\ samples   = <<>>
    /\ dropped   = [x \in Signals |-> 0]
    /\ throttled = FALSE
    /\ last      = Never
    /\ pushed    = <<>>

Tick ==
    /\ now < LastTime
    /\ now' = now + 1
    /\ UNCHANGED <<expected, samples, dropped, throttled, last, pushed>>

(* monotonic_now_ns *)
Readings == {now} \cup (IF ClockFails THEN {0} ELSE {})

ShouldRecord(t) == last = Never \/ t \ominus last >= MinInterval

SemanticSampleStale(t, signals) ==  \* mutant of SemanticSample
    /\ ShouldRecord(t)
    /\ Push([time |-> t, signals |-> signals])
    /\ last' = IF last = Never THEN t ELSE last
    /\ UNCHANGED <<now, expected, throttled>>

SemanticSampleDue(t, signals) ==  \* mutant of SemanticSample
    /\ ShouldRecord(t)
    /\ Push([time |-> t, signals |-> signals])
    /\ last' = t + MinInterval
    /\ UNCHANGED <<now, expected, throttled>>

SemanticSample(t, signals) ==
    /\ ShouldRecord(t)
    /\ Push([time |-> t, signals |-> signals])
    /\ last' = t
    /\ UNCHANGED <<now, expected, throttled>>

ThrottledSample(t) ==
    /\ ~ ShouldRecord(t)
    /\ throttled' = TRUE
    /\ UNCHANGED <<now, expected, samples, dropped, last, pushed>>

EventSample(t, x) ==
    /\ Push([time |-> t, signals |-> {x}])
    /\ UNCHANGED <<now, expected, throttled, last>>

(* Another profile is armed: a new ring and a new governor.                *)
SwitchProfile ==
    /\ expected' \in SUBSET Signals
    /\ samples'   = <<>>
    /\ dropped'   = [x \in Signals |-> 0]
    /\ throttled' = FALSE
    /\ last'      = Never
    /\ pushed'    = <<>>
    /\ UNCHANGED now

(* A collector that fails leaves its signal out; without any signal there  *)
(* is no sample.                                                           *)
Next ==
    \/ Tick
    \/ \E t \in Readings :
        \/ \E signals \in SUBSET (Semantic \cap expected) \ {{}} :
            SemanticSample(t, signals) \/ ThrottledSample(t)
        \/ \E x \in Events \cap expected : EventSample(t, x)
    \/ SwitchProfile

Spec == Init /\ [][Next]_vars

-----------------------------------------------------------------------------
(* What a freeze at this moment exports and reports.                       *)

LineBytes(s) == 1 + Cardinality(s.signals)

(* bytes[n]: bytes of the n newest samples.                                *)
bytes[n \in 0 .. Len(samples)] ==
    IF n = 0 THEN 0 ELSE bytes[n - 1] + LineBytes(samples[Len(samples) + 1 - n])

TakenSkipping ==  \* mutant of Taken
    Cardinality({n \in 1 .. Len(samples) :
                   LineBytes(samples[Len(samples) + 1 - n]) <= MaxBytes})

(* samples_within_freeze_budget: newest first while the bytes last.        *)
Taken ==
    LET taken[n \in 0 .. Len(samples)] ==
          IF n = 0 THEN 0
          ELSE IF taken[n - 1] = n - 1 /\ bytes[n] <= MaxBytes THEN n
          ELSE taken[n - 1]
    IN  taken[Len(samples)]

Exported(x) == Count(Newest(samples, Taken), x)
Retained(x) == Count(samples, x)
Truncated(x) == Retained(x) \ominus Exported(x)

(* The signals of RecorderBufferStatus, and so of the loss report and of   *)
(* the observation coverage.                                               *)
Reported == expected \cup {x \in Signals : Retained(x) > 0 \/ dropped[x] > 0}

ExpectedButAbsent(x) == x \in expected /\ Retained(x) = 0 /\ dropped[x] = 0

ReasonsIgnoringFreeze(x) ==  \* mutant of LossReasons
    {r \in {"ring_capacity_drop_oldest", "collector_absent_or_no_samples",
            "expected_signal_missing"} :
       \/ r = "ring_capacity_drop_oldest" /\ dropped[x] > 0
       \/ r = "collector_absent_or_no_samples" /\ Exported(x) = 0
       \/ r = "expected_signal_missing" /\ ExpectedButAbsent(x)}

LossReasons(x) ==
    {r \in {"ring_capacity_drop_oldest", "collector_absent_or_no_samples",
            "freeze_byte_budget_truncated", "expected_signal_missing"} :
       \/ r = "ring_capacity_drop_oldest" /\ dropped[x] > 0
       \/ r = "collector_absent_or_no_samples" /\ Exported(x) = 0
       \/ r = "freeze_byte_budget_truncated" /\ Truncated(x) > 0
       \/ r = "expected_signal_missing" /\ ExpectedButAbsent(x)}

Degraded(x) == dropped[x] > 0 \/ ExpectedButAbsent(x)

CoverageIgnoringFreeze(x) ==  \* mutant of CoverageState
    IF Exported(x) = 0 THEN "missing"
    ELSE IF dropped[x] > 0 \/ Degraded(x) THEN "partial" ELSE "covered"

CoverageState(x) ==
    IF Exported(x) = 0 THEN "missing"
    ELSE IF dropped[x] > 0 \/ Truncated(x) > 0 \/ Degraded(x) THEN "partial"
    ELSE "covered"

-----------------------------------------------------------------------------
(* Properties.                                                             *)

TypeOK ==
    /\ now \in Times
    /\ expected \subseteq Signals
    /\ samples \in Seq(Samples)
    /\ dropped \in [Signals -> Nat]
    /\ throttled \in BOOLEAN
    /\ last \in Times \cup {Never}
    /\ pushed \in Seq(Samples)

Gone == Len(pushed) - Len(samples)

(* Nothing is lost without being counted, and nothing is kept out of       *)
(* order: the ring is the newest part of what was pushed, and the drop     *)
(* counters count exactly the rest, even if the clock jumps to 0.          *)
DropsCounted ==
    /\ Len(samples) <= Len(pushed)
    /\ samples = Newest(pushed, Len(samples))
    /\ \A x \in Signals : dropped[x] = Count(Oldest(pushed, Gone), x)

Fits(n) ==
    /\ n <= Limit
    /\ \A i \in 1 .. Len(pushed) :
        i > Len(pushed) - n =>
          pushed[i].time + Retention >= pushed[Len(pushed)].time

ClockWasSound ==
    \A i, j \in 1 .. Len(pushed) : i < j => pushed[i].time <= pushed[j].time

(* As long as no clock read failed, the ring keeps as much as it may: the  *)
(* longest newest part of the history that fits the capacity and of which  *)
(* nothing is older than the retention time.                               *)
KeepsWindow ==
    ClockWasSound =>
        /\ Fits(Len(samples))
        /\ \A n \in 1 .. Len(pushed) : Fits(n) => n <= Len(samples)

(* The capacity holds whatever the clock reads.                            *)
WithinCapacity == Len(samples) <= Limit

IsSemantic(s) == s.signals \cap Semantic # {}

(* The governor keeps the semantic samples of a profile apart, whatever    *)
(* events come in between and whatever the clock reads.                    *)
GovernedApart ==
    \A i, j \in 1 .. Len(pushed) :
        i < j /\ IsSemantic(pushed[i]) /\ IsSemantic(pushed[j]) =>
          pushed[j].time >= pushed[i].time + MinInterval

TotalBytes(S) ==
    LET total[n \in 0 .. Len(S)] ==
          IF n = 0 THEN 0 ELSE total[n - 1] + LineBytes(S[n])
    IN  total[Len(S)]

(* A freeze exports as many of the newest samples as fit the byte budget.  *)
ExportsNewest ==
    /\ TotalBytes(Newest(samples, Taken)) <= MaxBytes
    /\ \A n \in 0 .. Len(samples) :
        TotalBytes(Newest(samples, n)) <= MaxBytes => n <= Taken

(* A signal is reported covered exactly if it was sampled and every sample *)
(* of it since the profile was loaded is in the bundle; and no signal that *)
(* was sampled or expected is left out of the report.                      *)
CoverageHonest ==
    /\ \A x \in Signals : Count(pushed, x) > 0 => x \in Reported
    /\ \A x \in Reported :
        /\ Exported(x) + Truncated(x) + dropped[x] = Count(pushed, x)
        /\ CoverageState(x) = "covered" <=>
             Count(pushed, x) > 0 /\ Exported(x) = Count(pushed, x)

(* Of a signal without any exported sample, the loss reasons tell if it    *)
(* was never sampled or if its samples were lost.                          *)
(* docs/architecture/adc-flight-recorder.md line 761.                      *)
AbsenceDistinguished ==
    \A x \in Reported :
        Exported(x) = 0 =>
          (Count(pushed, x) > 0 <=>
           LossReasons(x) \cap {"ring_capacity_drop_oldest",
                                "freeze_byte_budget_truncated"} # {})

=============================================================================

----------------------- MODULE InvestigationSessionProofs -----------------------
(***************************************************************************)
(* Theorems about InvestigationSession: the files are what their readers   *)
(* expect, and what a continuation or a clean-up that nothing overlapped   *)
(* leaves behind.                                                          *)
(*                                                                         *)
(* The inductive invariant says what a client that is alone has done so    *)
(* far: which files of its session are as it wrote them, and what it is    *)
(* still to write.  That needs no bound on requests, kills or sessions.    *)
(***************************************************************************)
EXTENDS InvestigationSession, FiniteSetTheorems, SequenceTheorems,
        WellFoundedInduction, TLAPS

(* The fields of a client.                                                 *)
Fields == {"pc", "op", "alone", "named", "todo", "then", "session", "id",
           "route", "opening", "before", "byAge", "old", "doomed"}

Writing == {"write", "fill", "enter"}
Looking == {"context", "route", "refs", "state"}
Ids     == {"IR001", "IR002", "IR003", "IR-DQ"}

RouteFits(route) ==
    /\ \E n \in Nat : DOMAIN route = 1 .. n
    /\ \A k \in DOMAIN route : route[k].id \in Ids

(* What may be written to a file, and what a file may hold.                *)
ValueFits(file, value) ==
    /\ file = RouteFile => RouteFits(value)
    /\ \A s \in Sessions : file = State(s) => DOMAIN value = DOMAIN EmptyState

WriteFits(w) == w.file \in Files /\ ValueFits(w.file, w.value)

TodoFits(todo) ==
    \/ todo = <<>>
    \/ \E u : WriteFits(u) /\ todo = <<u>>
    \/ \E u, v : WriteFits(u) /\ WriteFits(v) /\ todo = <<u, v>>

Plain(todo) == \A k \in DOMAIN todo : todo[k].file \notin SessionFiles

ContentFits(file, content) ==
    \/ content = Absent
    \/ content = Torn
    \/ content = File(content.value) /\ ValueFits(file, content.value)

ClientInv(x) ==
    /\ DOMAIN x = Fields
    /\ x.pc \in {"idle", "build", "list", "delete", "done"} \cup Looking \cup Writing
    /\ x.op \in {"none", "start", "continue", "cleanup"}
    /\ x.alone \in BOOLEAN
    /\ x.then \in {"build", "refs", "done"}
    /\ TodoFits(x.todo)
    /\ x.pc \in Writing => x.todo # <<>> /\ x.op \in {"start", "continue"}
    /\ x.pc = "build" => x.op = "start"
    /\ x.pc \in Looking => x.op = "continue"
    /\ x.pc \in {"list", "delete"} => x.op = "cleanup"
    /\ x.pc \in Writing /\ x.then = "build" => x.op = "start"
    /\ x.pc \in Writing /\ x.then = "refs" => x.op = "continue"
    /\ x.op = "continue" => x.session \in Sessions
    /\ Plain(x.todo) \/ (x.pc \in Writing /\ x.op = "continue" /\ x.then = "done")
    /\ RouteFits(x.route)
    /\ x.pc = "state" => x.id \in StepIds(x.route)
    /\ x.doomed \subseteq SessionFiles
    /\ x.pc = "idle" => x = Idle

TypeInv ==
    /\ evidence \in Evidences
    /\ DOMAIN disk = Files
    /\ \A f \in Files : ContentFits(f, disk[f])
    /\ evidence.scope = "run" => disk[ManifestFile] # Absent
    /\ aged \subseteq SessionFiles
    /\ requests \in 0 .. MaxRequests /\ crashes \in 0 .. MaxCrashes
    /\ overlap \in BOOLEAN
    /\ DOMAIN client = Clients
    /\ \A c \in Clients : client[c].pc = "enter" => evidence.scope = "run"
    /\ \A c \in Clients : ClientInv(client[c])

(* A client that is alone is the only active one, and without any overlap  *)
(* every active client is alone.                                           *)
AloneInv ==
    /\ \A c \in Clients : client[c].alone => Active = {c}
    /\ ~overlap => \A c \in Active : client[c].alone

(* What a continuation x knew when it began.                               *)
Before(x) == IF x.before.is = "file" THEN x.before.value ELSE EmptyState

(* The state it writes adds its step and the references it opened,         *)
Remembers(x, state) ==
    /\ state.steps = Before(x).steps \cup {x.id}
    /\ state.refs = Before(x).refs \cup x.opening.refs
    /\ Before(x).evaluations \subseteq state.evaluations
    /\ Before(x).unknowns \subseteq state.unknowns

(* and its pack says the same.                                             *)
Agree(pack, state) ==
    /\ pack.evaluations = state.evaluations
    /\ pack.actions = state.actions

(* The manifest m has the file f as it is on the disk d; e is the evidence *)
(* of a run or of a fleet run.                                             *)
Has(m, d, f) == f \in DOMAIN m /\ m[f] = d[f]

Whole(d, e) == e.scope = "run" => d[ManifestFile].is = "file"

Indexed(d, e, f) ==
    e.scope = "run" =>
        d[ManifestFile].is = "file" /\ Has(d[ManifestFile].value, d, f)

(* A continuation that is alone reads; its session is as it was.           *)
Reads(x, d, e) ==
    /\ x.pc \in Looking
       \/ (x.pc \in {"write", "fill"} /\ x.then = "refs"
           /\ \E v : x.todo = <<Write(DiffFile, v)>>)
    /\ d[State(x.session)] = x.before
    /\ x.pc # "context" => Whole(d, e)

(* Then it writes its pack,                                                *)
WritesPack(x, d, e) ==
    \E pack, state :
        /\ x.todo = <<Write(Pack(x.session), pack),
                      Write(State(x.session), state)>>
        /\ d[State(x.session)] = x.before /\ Whole(d, e)
        /\ Remembers(x, state) /\ Agree(pack, state)
        /\ x.pc = "enter" => d[Pack(x.session)] = File(pack)

(* enters it into the manifest,                                            *)
EntersPack(x, d, e) ==
    /\ e.scope = "run" /\ x.pc # "enter"
    /\ d[State(x.session)] = x.before
    /\ d[Pack(x.session)].is = "file"
    /\ \E manifest, state :
        /\ x.todo = <<Write(ManifestFile, manifest),
                      Write(State(x.session), state)>>
        /\ Remembers(x, state) /\ Agree(d[Pack(x.session)].value, state)
        /\ Has(manifest, d, Pack(x.session))

(* writes its state,                                                       *)
WritesState(x, d, e) ==
    /\ d[Pack(x.session)].is = "file"
    /\ Indexed(d, e, Pack(x.session))
    /\ \E state :
        /\ x.todo = <<Write(State(x.session), state)>>
        /\ Remembers(x, state) /\ Agree(d[Pack(x.session)].value, state)
        /\ x.pc = "enter" => d[State(x.session)] = File(state)

(* enters that too,                                                        *)
BothWritten(x, d) ==
    /\ d[Pack(x.session)].is = "file" /\ d[State(x.session)].is = "file"
    /\ Remembers(x, d[State(x.session)].value)
    /\ Agree(d[Pack(x.session)].value, d[State(x.session)].value)

EntersState(x, d, e) ==
    /\ e.scope = "run" /\ x.pc # "enter"
    /\ BothWritten(x, d)
    /\ \E manifest :
        /\ x.todo = <<Write(ManifestFile, manifest)>>
        /\ Has(manifest, d, Pack(x.session))
        /\ Has(manifest, d, State(x.session))

(* and is done.                                                            *)
Leaves(x, d, e) ==
    /\ x.pc = "done"
    /\ BothWritten(x, d)
    /\ Indexed(d, e, Pack(x.session)) /\ Indexed(d, e, State(x.session))

Writes(x, d, e) ==
    /\ x.pc \in Writing /\ x.then = "done"
    /\ \/ WritesPack(x, d, e)  \/ EntersPack(x, d, e)
       \/ WritesState(x, d, e) \/ EntersState(x, d, e)

Continues(x, d, e) == Reads(x, d, e) \/ Writes(x, d, e) \/ Leaves(x, d, e)

(* A clean-up that is alone has yet to delete what is doomed, and nothing  *)
(* else.                                                                   *)
Present(d) == {f \in SessionFiles : d[f].is # "absent"}

Cleans(x, d) ==
    x.pc \in {"delete", "done"} =>
        /\ x.doomed \subseteq Present(d)
        /\ Cardinality(Present(d) \ x.doomed) <= MaxSessions
        /\ x.byAge => \A f \in x.old : f \in x.doomed \/ d[f].is = "absent"
        /\ x.pc = "done" => x.doomed = {}

LoneFits(x, d, e) ==
    x.alone => /\ x.op = "continue" => Continues(x, d, e)
               /\ x.op = "cleanup" => Cleans(x, d)

LoneInv == \A c \in Clients : LoneFits(client[c], disk, evidence)

IInv == TypeInv /\ AloneInv /\ LoneInv /\ PackLeads

----------------------------------------------------------------------------
(* Files.                                                                  *)

(* The files of a session are session files.                               *)
LEMMA FilesOfSession ==
    ASSUME NEW s \in Sessions
    PROVE  /\ Pack(s) \in SessionFiles /\ State(s) \in SessionFiles
           /\ Pack(s) \in Files /\ State(s) \in Files
  BY DEF SessionFiles, Files

(* A session file is the pack or the state of a session.                   *)
LEMMA SessionFileIs ==
    ASSUME NEW f \in SessionFiles
    PROVE  \E s \in Sessions : f = Pack(s) \/ f = State(s)
  BY DEF SessionFiles

(* Different files have different names.                                   *)
LEMMA PacksDiffer ==
    ASSUME NEW s, NEW t
    PROVE  Pack(s) # State(t) /\ (Pack(s) = Pack(t) => s = t)
           /\ (State(s) = State(t) => s = t)
  BY DEF Pack, State

(* No other file is a session file.                                        *)
LEMMA OtherFiles ==
    /\ RouteFile \in Files /\ ManifestFile \in Files /\ DiffFile \in Files
    /\ ServiceState \in Files /\ ServicePack \in Files
    /\ RouteFile \notin SessionFiles /\ ManifestFile \notin SessionFiles
    /\ DiffFile \notin SessionFiles
    /\ ServiceState \notin SessionFiles /\ ServicePack \notin SessionFiles
    /\ RouteFile # ManifestFile /\ RouteFile # DiffFile
    /\ ManifestFile # DiffFile
    /\ RouteFile # ServiceState /\ RouteFile # ServicePack
    /\ ManifestFile # ServiceState /\ ManifestFile # ServicePack
  <1>1. /\ RouteFile \in Files /\ ManifestFile \in Files /\ DiffFile \in Files
        /\ ServiceState \in Files /\ ServicePack \in Files
    BY DEF Files
  <1>2. /\ RouteFile # ManifestFile /\ RouteFile # DiffFile
        /\ ManifestFile # DiffFile
        /\ RouteFile # ServiceState /\ RouteFile # ServicePack
        /\ ManifestFile # ServiceState /\ ManifestFile # ServicePack
    BY DEF RouteFile, ManifestFile, DiffFile, ServiceState, ServicePack
  <1>3. ASSUME NEW s
        PROVE  /\ RouteFile \notin {Pack(s), State(s)}
               /\ ManifestFile \notin {Pack(s), State(s)}
               /\ DiffFile \notin {Pack(s), State(s)}
    BY DEF RouteFile, ManifestFile, DiffFile, Pack, State
  <1>4. ASSUME NEW s
        PROVE  /\ ServiceState \notin {Pack(s), State(s)}
               /\ ServicePack \notin {Pack(s), State(s)}
    BY DEF ServiceState, ServicePack, Pack, State
  <1> QED BY <1>1, <1>2, <1>3, <1>4, SessionFileIs

(* What a function makes of a finite set is finite.                        *)
LEMMA FiniteImage ==
    ASSUME NEW S, IsFiniteSet(S), NEW T, NEW g \in [S -> T],
           \A t \in T : \E x \in S : g[x] = t
    PROVE  IsFiniteSet(T)
  <1>1. g \in Surjection(S, T)
    BY DEF Surjection
  <1> QED BY <1>1, FS_Surjection

(* There are finitely many session files.                                  *)
LEMMA FiniteFiles == IsFiniteSet(SessionFiles)
  <1> DEFINE D == 1 .. Len(SessionOrder)
             P == {Pack(s) : s \in Sessions}
             Q == {State(s) : s \in Sessions}
             p == [s \in Sessions |-> Pack(s)]
             q == [s \in Sessions |-> State(s)]
  <1>1. /\ Len(SessionOrder) \in Nat /\ D = DOMAIN SessionOrder
        /\ SessionOrder \in [D -> Sessions]
    BY SessionAssumption
  <1>2. IsFiniteSet(D)
    BY <1>1, FS_Interval
  <1>3. \A s \in Sessions : \E k \in D : SessionOrder[k] = s
    BY <1>1 DEF Sessions
  <1>4. IsFiniteSet(Sessions)
    BY <1>1, <1>2, <1>3, FiniteImage
  <1>5. p \in [Sessions -> P] /\ \A f \in P : \E s \in Sessions : p[s] = f
    OBVIOUS
  <1>6. q \in [Sessions -> Q] /\ \A f \in Q : \E s \in Sessions : q[s] = f
    OBVIOUS
  <1>7. IsFiniteSet(P) /\ IsFiniteSet(Q)
    <2> HIDE DEF p, q, P, Q
    <2>1. IsFiniteSet(P)
      BY <1>4, <1>5, FiniteImage
    <2> QED BY <2>1, <1>4, <1>6, FiniteImage
  <1> QED BY <1>7, FS_Union DEF SessionFiles

(* A set of naturals with a member has a least one.                        *)
LEMMA Least ==
    ASSUME NEW K, K \subseteq Nat, K # {}
    PROVE  \E i \in K : \A j \in K : i <= j
  <1>1. \E i \in K : \A j \in K : ~ (<<j, i>> \in OpToRel(<, Nat))
    BY NatLessThanWellFounded, WFMin
  <1>2. PICK i \in K : \A j \in K : ~ (<<j, i>> \in OpToRel(<, Nat))
    BY <1>1
  <1>3. ASSUME NEW j \in K
        PROVE  i <= j
    <2>1. ~ (j < i)
      BY <1>2, Zenon DEF OpToRel
    <2> QED BY <2>1
  <1> QED BY <1>3

(* Every session file has a place, a natural number.                       *)
LEMMA PlaceIs ==
    ASSUME NEW f \in SessionFiles
    PROVE  Place(f) \in Nat
  <1> DEFINE P(k) == SessionOrder[k] = f[1]
  <1>1. PICK s \in Sessions : f = Pack(s) \/ f = State(s)
    BY SessionFileIs
  <1>2. f[1] = s
    BY <1>1 DEF Pack, State
  <1>3. \E k \in DOMAIN SessionOrder : P(k)
    BY <1>2 DEF Sessions
  <1>4. (CHOOSE k \in DOMAIN SessionOrder : P(k)) \in DOMAIN SessionOrder
    BY <1>3
  <1>5. DOMAIN SessionOrder \subseteq Nat
    BY SessionAssumption
  <1>6. (CHOOSE k \in DOMAIN SessionOrder : P(k)) \in Nat
    BY <1>4, <1>5
  <1> QED BY <1>6 DEF Place

(* A set of session files has one that comes first.                        *)
LEMMA FirstIs ==
    ASSUME NEW F, F \subseteq SessionFiles, F # {}
    PROVE  /\ First(F) \in F
           /\ \A g \in F : Place(First(F)) <= Place(g)
  <1> DEFINE K == {Place(g) : g \in F}
  <1>1. K \subseteq Nat /\ K # {}
    BY PlaceIs
  <1>2. PICK i \in K : \A j \in K : i <= j
    BY <1>1, Least
  <1>3. \E f \in F : \A g \in F : Place(f) <= Place(g)
    BY <1>2
  <1> QED BY <1>3 DEF First

(* Without the excess no more than MaxSessions files are left: those from  *)
(* the first of them on.                                                   *)
LEMMA ExcessLeaves ==
    ASSUME NEW F, F \subseteq SessionFiles
    PROVE  /\ Excess(F) \subseteq F
           /\ Cardinality(F \ Excess(F)) <= MaxSessions
  <1> DEFINE rest == F \ Excess(F)
             f    == First(rest)
  <1>1. Excess(F) \subseteq F
    BY DEF Excess
  <1>2. CASE rest = {}
    <2>1. Cardinality(rest) = 0 /\ MaxSessions \in Nat
      BY <1>2, FS_EmptySet, SessionAssumption
    <2> QED BY <1>1, <2>1
  <1>3. CASE rest # {}
    <2>1. f \in rest /\ \A g \in rest : Place(f) <= Place(g)
      BY <1>3, FirstIs
    <2> HIDE DEF f
    <2>2. rest \subseteq From(F, f)
      <3>1. ASSUME NEW g \in rest
            PROVE  Place(g) >= Place(f)
        <4>1. Place(f) \in Nat /\ Place(g) \in Nat /\ Place(f) <= Place(g)
          BY <2>1, PlaceIs
        <4> QED BY <4>1
      <3> QED BY <3>1 DEF From
    <2>3. From(F, f) \subseteq SessionFiles
      BY DEF From
    <2>4. IsFiniteSet(From(F, f))
      BY <2>3, FiniteFiles, FS_Subset
    <2>5. Cardinality(rest) <= Cardinality(From(F, f))
      BY <2>2, <2>4, FS_Subset
    <2>6. IsFiniteSet(rest)
      BY <2>2, <2>4, FS_Subset
    <2>7. Cardinality(rest) \in Nat /\ Cardinality(From(F, f)) \in Nat
      BY <2>4, <2>6, FS_CardinalityType
    <2>8. ~ (Cardinality(From(F, f)) > MaxSessions)
      BY <2>1 DEF Excess
    <2>9. MaxSessions \in Nat
      BY SessionAssumption
    <2> QED BY <1>1, <2>5, <2>7, <2>8, <2>9
  <1> QED BY <1>2, <1>3

----------------------------------------------------------------------------
(* Routes.                                                                 *)

(* A list of at most one step is a list of steps.                          *)
LEMMA StepIfIs ==
    ASSUME NEW S, NEW step \in S, NEW condition
    PROVE  StepIf(condition, step) \in Seq(S)
  BY DEF StepIf

(* A step has an id.                                                       *)
LEMMA StepHasId ==
    ASSUME NEW id, NEW topic, NEW refs, NEW branches
    PROVE  "id" \in DOMAIN Step(id, topic, refs, branches)
  BY DEF Step

(* The numbers that steps get are the ids that a route may have.           *)
LEMMA NumberedFits ==
    ASSUME NEW S, \A x \in S : "id" \in DOMAIN x,
           NEW steps \in Seq(S)
    PROVE  RouteFits(Numbered(steps))
  <1> DEFINE place(k) == Cardinality({j \in 1 .. k : steps[j].id # "IR-DQ"})
             name(n)  == CASE n = 1 -> "IR001" [] n = 2 -> "IR002"
                           [] OTHER -> "IR003"
             route == Numbered(steps)
  <1>1. \A n : name(n) \in Ids
    BY DEF Ids
  <1> HIDE DEF name
  <1>2. /\ \E n \in Nat : DOMAIN steps = 1 .. n
        /\ \A k \in DOMAIN steps : steps[k] \in S
    OBVIOUS
  <1>3. route = [k \in DOMAIN steps |->
                    IF steps[k].id = "IR-DQ" THEN steps[k]
                    ELSE [steps[k] EXCEPT !.id = name(place(k))]]
    BY Zenon DEF Numbered, name
  <1>4. DOMAIN route = DOMAIN steps
    BY <1>3
  <1>5. ASSUME NEW k \in DOMAIN steps
        PROVE  route[k].id \in Ids
    <2>1. PICK x \in S : x = steps[k]
      BY <1>2
    <2>2. PICK v \in Ids : v = name(place(k))
      BY <1>1
    <2>3. route[k] = IF x.id = "IR-DQ" THEN x ELSE [x EXCEPT !.id = v]
      BY <1>3, <2>1, <2>2
    <2>4. "id" \in DOMAIN x /\ "IR-DQ" \in Ids
      BY DEF Ids
    <2> QED BY <2>3, <2>4
  <1> HIDE DEF route
  <1>6. RouteFits(route)
    BY <1>2, <1>4, <1>5 DEF RouteFits
  <1> QED BY <1>6 DEF route

(* Every route has ids of that kind, whatever the evidence.                *)
LEMMA RouteIs ==
    ASSUME NEW e
    PROVE  RouteFits(Route(e))
  <1>1. RouteFits(RunRoute(e))
    <2> DEFINE a == Step("IR001", "service", ServiceRefs(e),
                         <<Branch("service_missing", "IR-DQ"),
                           Branch("service_available", "IR002")>>)
               b == Step("IR002", "signals", SignalRefs(e),
                         <<Branch("markers_named", "IR003"),
                           Branch("markers_empty", "IR-DQ")>>)
               d == Step("IR003", "runtime", {"runtime"},
                         <<Branch("runtime_gaps", "IR-DQ"),
                           Branch("runtime_sufficient", "IR-END")>>)
               S == {a, b, d, QualityStep, FallbackStep}
               steps == ServiceStep(e) \o SignalStep(e) \o RuntimeStep(e)
                        \o StepIf(e.missing, QualityStep)
    <2>1. \A x \in S : "id" \in DOMAIN x
      BY StepHasId DEF QualityStep, FallbackStep
    <2>2. /\ ServiceStep(e) = StepIf(ServiceRefs(e) # {}, a)
          /\ SignalStep(e) = StepIf(SignalRefs(e) # {}, b)
          /\ RuntimeStep(e) = StepIf(e.runtime, d)
      BY DEF ServiceStep, SignalStep, RuntimeStep
    <2> HIDE DEF a, b, d
    <2>3. ServiceStep(e) \in Seq(S) /\ SignalStep(e) \in Seq(S)
      BY <2>2, StepIfIs
    <2>4. RuntimeStep(e) \in Seq(S) /\ StepIf(e.missing, QualityStep) \in Seq(S)
      BY <2>2, StepIfIs
    <2>5. steps \in Seq(S) /\ <<FallbackStep>> \in Seq(S)
      BY <2>3, <2>4, ConcatProperties
    <2> DEFINE all == IF steps = <<>> THEN <<FallbackStep>> ELSE steps
    <2>6. all \in Seq(S)
      BY <2>5
    <2>7. RunRoute(e) = Numbered(all)
      BY DEF RunRoute
    <2> HIDE DEF S, all
    <2> QED BY <2>1, <2>6, <2>7, NumberedFits
  <1>2. RouteFits(FleetRoute(e))
    <2> DEFINE a == MatrixStep(e)
               b == Step("IR002", "comparison", {"semantic_diff"},
                         <<Branch("service_differs", "IR003"),
                           Branch("service_partial", "IR-DQ")>>)
               d == Step("IR003", "captured", {"evidence"},
                         <<Branch("target_gaps", "IR-DQ")>>)
               S == {a, b, d, QualityStep}
               steps == <<a>> \o ComparisonStep(e) \o CapturedStep(e)
                        \o StepIf(e.missing, QualityStep)
    <2>1. \A x \in S : "id" \in DOMAIN x
      BY StepHasId DEF MatrixStep, QualityStep
    <2>2. /\ ComparisonStep(e) = StepIf(e.compared # <<>>, b)
          /\ CapturedStep(e) = StepIf(e.captured, d)
      BY DEF ComparisonStep, CapturedStep
    <2> HIDE DEF a, b, d
    <2>3. ComparisonStep(e) \in Seq(S) /\ CapturedStep(e) \in Seq(S)
      BY <2>2, StepIfIs
    <2>4. StepIf(e.missing, QualityStep) \in Seq(S)
      BY StepIfIs
    <2>5. <<a>> \in Seq(S)
      OBVIOUS
    <2>6. steps \in Seq(S)
      BY <2>3, <2>4, <2>5, ConcatProperties
    <2>7. FleetRoute(e) = Numbered(steps)
      BY DEF FleetRoute, a
    <2> HIDE DEF S, steps
    <2> QED BY <2>1, <2>6, <2>7, NumberedFits
  <1> QED BY <1>1, <1>2 DEF Route

(* A step that a route has is found.                                       *)
LEMMA StepAtIs ==
    ASSUME NEW route, RouteFits(route), NEW id \in StepIds(route)
    PROVE  StepAt(route, id) \in DOMAIN route /\ route[StepAt(route, id)].id = id
  <1> DEFINE K == {k \in DOMAIN route : route[k].id = id}
             P(k) == /\ route[k].id = id
                     /\ \A j \in 1 .. k - 1 : route[j].id # id
  <1>1. PICK n \in Nat : DOMAIN route = 1 .. n
    BY DEF RouteFits
  <1>2. K \subseteq Nat /\ K # {}
    BY <1>1 DEF StepIds
  <1>3. PICK i \in K : \A j \in K : i <= j
    BY <1>2, Least
  <1>4. i \in 1 .. n /\ route[i].id = id
    BY <1>1
  <1>5. ASSUME NEW j \in 1 .. i - 1
        PROVE  route[j].id # id
    <2>1. j \in DOMAIN route /\ ~ (i <= j)
      BY <1>1, <1>4
    <2> QED BY <1>3, <2>1
  <1>6. \E k \in DOMAIN route : P(k)
    BY <1>1, <1>4, <1>5
  <1>7. StepAt(route, id) = CHOOSE k \in DOMAIN route : P(k)
    BY DEF StepAt
  <1>8. /\ (CHOOSE k \in DOMAIN route : P(k)) \in DOMAIN route
        /\ P(CHOOSE k \in DOMAIN route : P(k))
    <2> HIDE DEF P
    <2> QED BY <1>6, Zenon
  <1> QED BY <1>7, <1>8

----------------------------------------------------------------------------
(* What the steps do.                                                      *)

(* A step of a client changes that client only.                            *)
Only(c) == /\ DOMAIN client' = Clients
           /\ \A d \in Clients \ {c} : client'[d] = client[d]

(* A step that reads leaves all files as they are.                         *)
Silent(c) == Only(c) /\ OnlyClient

(* The request of x and y is the same.                                     *)
Same(x, y) ==
    /\ DOMAIN y = Fields
    /\ y.op = x.op /\ y.alone = x.alone
    /\ y.session = x.session /\ y.id = x.id /\ y.before = x.before
    /\ y.byAge = x.byAge

(* What it has read is the same.                                           *)
SameRead(x, y) ==
    /\ y.route = x.route /\ y.opening = x.opening
    /\ y.old = x.old /\ y.doomed = x.doomed

SameTodo(x, y) == y.todo = x.todo /\ y.then = x.then

(* What EXCEPT does to the clients.                                        *)
LEMMA Turned ==
    ASSUME DOMAIN client = Clients, NEW c \in Clients, NEW y,
           client' = [client EXCEPT ![c] = y]
    PROVE  client'[c] = y /\ Only(c)
  BY DEF Only

(* Doing sets out on a list of files, or goes on at once.                  *)
LEMMA DoingIs ==
    ASSUME NEW x, DOMAIN x = Fields, NEW todo, NEW then,
           NEW y, y = Doing(x, todo, then)
    PROVE  /\ Same(x, y) /\ SameRead(x, y)
           /\ y.pc = IF todo = <<>> THEN then ELSE "write"
           /\ y.todo = todo /\ y.then = then
  BY DEF Doing, Fields, Same, SameRead

(* Going on changes nothing else.                                          *)
LEMMA GoneIs ==
    ASSUME NEW x, DOMAIN x = Fields, NEW pc,
           NEW y, y = [x EXCEPT !.pc = pc]
    PROVE  /\ Same(x, y) /\ SameRead(x, y) /\ SameTodo(x, y)
           /\ y.pc = pc
  BY DEF Fields, Same, SameRead, SameTodo

(* An idle client knows nothing.                                           *)
LEMMA IdleIs ==
    /\ DOMAIN Idle = Fields
    /\ Idle.pc = "idle" /\ Idle.op = "none" /\ Idle.alone = FALSE
    /\ Idle.todo = <<>> /\ Idle.then = "done"
    /\ Idle.route = <<>> /\ Idle.doomed = {}
  BY DEF Idle, Fields

(* The empty route is a route,                                             *)
LEMMA NoRouteFits == RouteFits(<<>>)
  <1>1. DOMAIN <<>> = 1 .. 0 /\ DOMAIN <<>> = {}
    OBVIOUS
  <1> QED BY <1>1 DEF RouteFits

(* and an idle client is well typed.                                       *)
LEMMA IdleFits == ClientInv(Idle)
  <1>1. Plain(<<>>) /\ TodoFits(<<>>)
    BY DEF Plain, TodoFits
  <1> QED BY <1>1, IdleIs, NoRouteFits DEF ClientInv, Looking, Writing

(* A prepared client sets out on its files, or goes on.                    *)
LEMMA PrepareDoes ==
    ASSUME TypeInv, NEW c \in Clients, NEW todo, NEW then,
           Prepare(c, todo, then)
    PROVE  LET x == client[c]
               y == client'[c]
           IN  /\ Only(c)
               /\ Same(x, y) /\ SameRead(x, y)
               /\ y.pc = IF todo = <<>> THEN then ELSE "write"
               /\ y.todo = todo /\ y.then = then
  <1> DEFINE x == client[c]
             z == Doing(x, todo, then)
  <1>1. client' = [client EXCEPT ![c] = z]
    BY DEF Prepare
  <1>2. DOMAIN client = Clients /\ DOMAIN x = Fields
    BY DEF TypeInv, ClientInv
  <1> HIDE DEF x, z
  <1>3. client'[c] = z /\ Only(c)
    BY <1>1, <1>2, Turned
  <1>4. /\ Same(x, z) /\ SameRead(x, z)
        /\ z.pc = IF todo = <<>> THEN then ELSE "write"
        /\ z.todo = todo /\ z.then = then
    BY <1>2, DoingIs DEF z
  <1> QED BY <1>3, <1>4 DEF x

(* Goto leaves all but the place.                                          *)
LEMMA GotoDoes ==
    ASSUME TypeInv, NEW c \in Clients, NEW pc, Goto(c, pc)
    PROVE  LET x == client[c]
               y == client'[c]
           IN  /\ Only(c)
               /\ Same(x, y) /\ SameRead(x, y) /\ SameTodo(x, y)
               /\ y.pc = pc
  <1> DEFINE x == client[c]
             z == [x EXCEPT !.pc = pc]
  <1>1. client' = [client EXCEPT ![c] = z]
    BY DEF Goto
  <1>2. DOMAIN client = Clients /\ DOMAIN x = Fields
    BY DEF TypeInv, ClientInv
  <1> HIDE DEF x
  <1>3. /\ Same(x, z) /\ SameRead(x, z) /\ SameTodo(x, z)
        /\ z.pc = pc
    BY <1>2, GoneIs
  <1> HIDE DEF z
  <1>4. client'[c] = z /\ Only(c)
    BY <1>1, <1>2, Turned
  <1> QED BY <1>3, <1>4 DEF x

(* A request that fails is forgotten.                                      *)
LEMMA FailDoes ==
    ASSUME TypeInv, NEW c \in Clients, Fail(c)
    PROVE  Only(c) /\ client'[c] = Idle
  <1>1. client' = [client EXCEPT ![c] = Idle] /\ DOMAIN client = Clients
    BY DEF Fail, TypeInv
  <1> QED BY <1>1, Turned

(* What a fleet adds to the files to write.                                *)
LEMMA ComparisonIs ==
    \/ FleetComparison = <<>>
    \/ \E v : FleetComparison = <<Write(DiffFile, v)>>
  BY DEF FleetComparison

(* A list of one file is followed by what is left to write.                *)
LEMMA OneBefore ==
    ASSUME NEW u, NEW v
    PROVE  <<u>> \o <<>> = <<u>> /\ <<u>> \o <<v>> = <<u, v>>
  <1>1. <<u>> \in Seq({u})
    OBVIOUS
  <1>2. <<u>> \o <<>> = <<u>>
    BY <1>1, ConcatEmptySeq
  <1> DEFINE S == {u, v}
             p == <<u>>
             q == <<v>>
             both == <<u, v>>
  <1>3. /\ p \in Seq(S) /\ Len(p) = 1 /\ p[1] = u
        /\ q \in Seq(S) /\ Len(q) = 1 /\ q[1] = v
    OBVIOUS
  <1>4. both \in Seq(S) /\ Len(both) = 2 /\ both[1] = u /\ both[2] = v
    OBVIOUS
  <1> HIDE DEF S, p, q, both
  <1>5. /\ p \o q \in Seq(S) /\ Len(p \o q) = 2
        /\ (p \o q)[1] = u /\ (p \o q)[2] = v
    BY <1>3, ConcatProperties
  <1>6. \A k \in 1 .. 2 : (p \o q)[k] = both[k]
    BY <1>4, <1>5
  <1>7. p \o q = both
    BY <1>4, <1>5, <1>6, SeqEqual
  <1> QED BY <1>2, <1>7 DEF p, q, both

(* BuildRoute sets out to write the route.                                 *)
RouteBuilt(x, y) ==
    /\ Same(x, y) /\ SameRead(x, y)
    /\ y.pc = "write" /\ y.then = "done"
    /\ \E route : RouteFits(route)
        /\ \/ y.todo = <<Write(RouteFile, route)>>
           \/ \E v : y.todo = <<Write(RouteFile, route), Write(DiffFile, v)>>

(* A start goes on to write its route, or fails.                           *)
LEMMA BuildRouteDoes ==
    ASSUME TypeInv, NEW c \in Clients, BuildRoute(c)
    PROVE  /\ client[c].pc = "build" /\ Silent(c)
           /\ client'[c] = Idle \/ RouteBuilt(client[c], client'[c])
  <1> DEFINE route == Route(Seen(client[c].named))
             w     == Write(RouteFile, route)
             todo  == <<w>> \o FleetComparison
  <1>1. client[c].pc = "build" /\ OnlyClient
    BY DEF BuildRoute, At
  <1>2. Fail(c) \/ Prepare(c, todo, "done")
    BY DEF BuildRoute
  <1>3. RouteFits(route)
    BY RouteIs
  <1> HIDE DEF route
  <1>4. todo = <<w>> \/ \E v : todo = <<w, Write(DiffFile, v)>>
    <2> HIDE DEF w
    <2>1. todo = <<w>> \o FleetComparison
      OBVIOUS
    <2> HIDE DEF todo
    <2>2. CASE FleetComparison = <<>>
      BY <2>1, <2>2, OneBefore
    <2>3. ASSUME NEW v, FleetComparison = <<Write(DiffFile, v)>>
          PROVE  todo = <<w, Write(DiffFile, v)>>
      <3>1. PICK u : u = Write(DiffFile, v)
        OBVIOUS
      <3>2. todo = <<w>> \o <<u>>
        BY <2>1, <2>3, <3>1
      <3> QED BY <3>1, <3>2, OneBefore
    <2> QED BY <2>2, <2>3, ComparisonIs
  <1>5. CASE Fail(c)
    BY <1>1, <1>5, FailDoes DEF Silent
  <1>6. CASE Prepare(c, todo, "done")
    <2>1. todo # <<>>
      BY <1>4
    <2> HIDE DEF todo
    <2>2. /\ Only(c) /\ Same(client[c], client'[c]) /\ SameRead(client[c], client'[c])
          /\ client'[c].pc = "write" /\ client'[c].then = "done"
          /\ client'[c].todo = todo
      BY <1>6, <2>1, PrepareDoes
    <2>3. RouteBuilt(client[c], client'[c])
      BY <1>3, <1>4, <2>2 DEF RouteBuilt
    <2> QED BY <1>1, <2>2, <2>3 DEF Silent
  <1> QED BY <1>2, <1>5, <1>6

(* ReadContext gives a continuation a route, and needs a whole manifest.   *)
ContextRead(x, y, d) ==
    /\ Same(x, y) /\ SameTodo(x, y)
    /\ y.opening = x.opening /\ y.old = x.old /\ y.doomed = x.doomed
    /\ y.pc = "route" /\ RouteFits(y.route)
    /\ d[ManifestFile].is # "torn"

(* A continuation that has read its context has a route.                   *)
LEMMA ReadContextDoes ==
    ASSUME TypeInv, NEW c \in Clients, ReadContext(c)
    PROVE  /\ client[c].pc = "context" /\ Silent(c)
           /\ client'[c] = Idle \/ ContextRead(client[c], client'[c], disk)
  <1> DEFINE x == client[c]
             route == Route(Seen(client[c].named))
             z == [x EXCEPT !.pc = "route", !.route = route]
  <1>1. x.pc = "context" /\ OnlyClient
    BY DEF ReadContext, At
  <1>2. DOMAIN client = Clients /\ DOMAIN x = Fields
    BY DEF TypeInv, ClientInv
  <1>3. CASE Fail(c)
    BY <1>1, <1>3, FailDoes DEF Silent
  <1>4. CASE ~ Fail(c)
    <2>1. disk[ManifestFile].is # "torn" /\ client' = [client EXCEPT ![c] = z]
      BY <1>4 DEF ReadContext
    <2>2. RouteFits(route)
      BY RouteIs
    <2> HIDE DEF x, route
    <2>3. /\ Same(x, z) /\ SameTodo(x, z)
          /\ z.opening = x.opening /\ z.old = x.old /\ z.doomed = x.doomed
          /\ z.pc = "route" /\ z.route = route
      BY <1>2 DEF Fields, Same, SameTodo
    <2> HIDE DEF z
    <2>4. client'[c] = z /\ Only(c)
      BY <1>2, <2>1, Turned
    <2>5. ContextRead(x, z, disk)
      BY <2>1, <2>2, <2>3 DEF ContextRead
    <2> QED BY <1>1, <2>4, <2>5 DEF Silent, x
  <1> QED BY <1>3, <1>4

(* ReadRoute takes the route from its file, and sets out to write a        *)
(* fleet's comparison.                                                     *)
RouteRead(x, y) ==
    /\ Same(x, y)
    /\ y.opening = x.opening /\ y.old = x.old /\ y.doomed = x.doomed
    /\ RouteFits(y.route) /\ y.then = "refs"
    /\ \/ y.pc = "refs" /\ y.todo = <<>>
       \/ y.pc = "write" /\ \E v : y.todo = <<Write(DiffFile, v)>>

(* A continuation that has read the route goes on with it.                 *)
LEMMA ReadRouteDoes ==
    ASSUME TypeInv, NEW c \in Clients, ReadRoute(c)
    PROVE  /\ client[c].pc = "route" /\ Silent(c)
           /\ client'[c] = Idle \/ RouteRead(client[c], client'[c])
  <1> DEFINE x == client[c]
             route == IF disk[RouteFile].is = "file" THEN disk[RouteFile].value
                      ELSE x.route
             z == [x EXCEPT !.route = route]
             y == Doing(z, FleetComparison, "refs")
  <1>1. x.pc = "route" /\ OnlyClient
    BY DEF ReadRoute, At
  <1>2. DOMAIN client = Clients /\ DOMAIN x = Fields /\ RouteFits(x.route)
    BY DEF TypeInv, ClientInv
  <1>3. CASE Fail(c)
    BY <1>1, <1>3, FailDoes DEF Silent
  <1>4. CASE ~ Fail(c)
    <2>1. client' = [client EXCEPT ![c] = y]
      BY <1>4 DEF ReadRoute
    <2>2. RouteFits(route)
      <3>1. CASE disk[RouteFile].is = "file"
        <4>1. ContentFits(RouteFile, disk[RouteFile])
          BY OtherFiles DEF TypeInv
        <4>2. ValueFits(RouteFile, disk[RouteFile].value)
          BY <3>1, <4>1 DEF ContentFits, Absent, Torn
        <4> QED BY <3>1, <4>2 DEF ValueFits
      <3>2. CASE disk[RouteFile].is # "file"
        BY <1>2, <3>2
      <3> QED BY <3>1, <3>2
    <2> HIDE DEF x, route
    <2>3. /\ Same(x, z) /\ SameTodo(x, z)
          /\ z.opening = x.opening /\ z.old = x.old /\ z.doomed = x.doomed
          /\ z.route = route
      BY <1>2 DEF Fields, Same, SameTodo
    <2> HIDE DEF z
    <2>4. DOMAIN z = Fields
      BY <2>3 DEF Same
    <2>5. /\ Same(z, y) /\ SameRead(z, y)
          /\ y.pc = IF FleetComparison = <<>> THEN "refs" ELSE "write"
          /\ y.todo = FleetComparison /\ y.then = "refs"
      BY <2>4, DoingIs
    <2> HIDE DEF y
    <2>6. client'[c] = y /\ Only(c)
      BY <1>2, <2>1, Turned
    <2>7. \/ y.pc = "refs" /\ y.todo = <<>>
          \/ y.pc = "write" /\ \E v : y.todo = <<Write(DiffFile, v)>>
      BY <2>5, ComparisonIs
    <2>8. Same(x, y) /\ RouteFits(y.route)
      BY <2>2, <2>3, <2>5 DEF Same, SameRead
    <2>9. RouteRead(x, y)
      BY <2>3, <2>5, <2>7, <2>8 DEF RouteRead, SameRead
    <2> QED BY <1>1, <2>6, <2>9 DEF Silent, x
  <1> QED BY <1>3, <1>4

(* OpenStep goes on only with a step that the route has.                   *)
StepOpened(x, y) ==
    /\ Same(x, y) /\ SameTodo(x, y)
    /\ y.route = x.route /\ y.old = x.old /\ y.doomed = x.doomed
    /\ y.pc = "state" /\ x.id \in StepIds(x.route)

(* A continuation opens the references of a step of its route.             *)
LEMMA OpenStepDoes ==
    ASSUME TypeInv, NEW c \in Clients, OpenStep(c)
    PROVE  /\ client[c].pc = "refs" /\ Silent(c)
           /\ client'[c] = Idle \/ StepOpened(client[c], client'[c])
  <1> DEFINE x == client[c]
  <1>1. x.pc = "refs" /\ OnlyClient
    BY DEF OpenStep, At
  <1>2. DOMAIN client = Clients /\ DOMAIN x = Fields
    BY DEF TypeInv, ClientInv
  <1>3. CASE Fail(c)
    BY <1>1, <1>3, FailDoes DEF Silent
  <1>4. CASE ~ Fail(c)
    <2>1. x.id \in StepIds(x.route)
      BY <1>4 DEF OpenStep
    <2>2. \E opening : client' = [client EXCEPT ![c].pc = "state",
                                                ![c].opening = opening]
      BY <1>4 DEF OpenStep
    <2>3. PICK opening : client' = [client EXCEPT ![c].pc = "state",
                                                  ![c].opening = opening]
      BY <2>2
    <2> DEFINE z == [x EXCEPT !.pc = "state", !.opening = opening]
    <2>4. client' = [client EXCEPT ![c] = z]
      BY <2>3
    <2> HIDE DEF x
    <2>5. /\ Same(x, z) /\ SameTodo(x, z)
          /\ z.route = x.route /\ z.old = x.old /\ z.doomed = x.doomed
          /\ z.pc = "state"
      BY <1>2 DEF Fields, Same, SameTodo
    <2> HIDE DEF z
    <2>6. client'[c] = z /\ Only(c)
      BY <1>2, <2>4, Turned
    <2>7. StepOpened(x, z)
      BY <2>1, <2>5 DEF StepOpened
    <2> QED BY <1>1, <2>6, <2>7 DEF Silent, x
  <1> QED BY <1>3, <1>4

(* ReadState sets out to write a pack and a state that say the same and    *)
(* remember what the disk d has of the session.                            *)
Known(content) ==
    IF content.is = "file" THEN content.value ELSE EmptyState

StateRead(x, y, d) ==
    /\ Same(x, y) /\ SameRead(x, y)
    /\ y.pc = "write" /\ y.then = "done"
    /\ \E pack, state :
        /\ y.todo = <<Write(Pack(x.session), pack),
                      Write(State(x.session), state)>>
        /\ Agree(pack, state)
        /\ DOMAIN state = DOMAIN EmptyState
        /\ state.steps = Known(d[State(x.session)]).steps \cup {x.id}
        /\ state.refs = Known(d[State(x.session)]).refs \cup x.opening.refs
        /\ Known(d[State(x.session)]).evaluations \subseteq state.evaluations
        /\ Known(d[State(x.session)]).unknowns \subseteq state.unknowns

(* A continuation goes on to write its session, or fails.                  *)
LEMMA ReadStateDoes ==
    ASSUME TypeInv, NEW c \in Clients, ReadState(c)
    PROVE  /\ client[c].pc = "state" /\ Silent(c)
           /\ client'[c] = Idle \/ StateRead(client[c], client'[c], disk)
  <1> DEFINE x         == client[c]
             s         == x.session
             step      == x.route[StepAt(x.route, x.id)]
             remaining == RouteAfterStep(x.route, step.id, x.opening.failed)
             previous  == Known(disk[State(s)])
             state     == Continued(previous, step, x.opening, remaining)
             pack      == ContinuationPack(state, step, remaining)
             todo      == SessionWrites(s, pack, state)
  <1>1. x.pc = "state" /\ OnlyClient
    BY DEF ReadState, At
  <1>2. x.id \in StepIds(x.route) /\ RouteFits(x.route)
    BY <1>1 DEF TypeInv, ClientInv
  <1>3. step.id = x.id
    BY <1>2, StepAtIs
  <1>4. CASE Fail(c)
    BY <1>1, <1>4, FailDoes DEF Silent
  <1>5. CASE ~ Fail(c)
    <2>1. Prepare(c, todo, "done")
      BY <1>5 DEF ReadState, Known
    <2> HIDE DEF remaining, step, previous
    <2>2. /\ state.steps = previous.steps \cup {x.id}
          /\ state.refs = previous.refs \cup x.opening.refs
          /\ previous.evaluations \subseteq state.evaluations
          /\ previous.unknowns \subseteq state.unknowns
      BY <1>3 DEF Continued
    <2>3. DOMAIN state = DOMAIN EmptyState
      BY DEF Continued, EmptyState
    <2>4. Agree(pack, state)
      BY DEF ContinuationPack, Agree
    <2> HIDE DEF state, pack
    <2>5. todo = <<Write(Pack(s), pack), Write(State(s), state)>>
      BY DEF SessionWrites
    <2>6. todo # <<>>
      BY <2>5
    <2> HIDE DEF todo
    <2>7. /\ Only(c) /\ Same(x, client'[c]) /\ SameRead(x, client'[c])
          /\ client'[c].pc = "write" /\ client'[c].then = "done"
          /\ client'[c].todo = todo
      BY <2>1, <2>6, PrepareDoes
    <2>8. StateRead(x, client'[c], disk)
      BY <2>2, <2>3, <2>4, <2>5, <2>7 DEF StateRead, previous
    <2> QED BY <1>1, <2>7, <2>8 DEF Silent
  <1> QED BY <1>4, <1>5

(* What is left to write, file by file.                                    *)
LEMMA TodoIs ==
    ASSUME NEW todo, TodoFits(todo), todo # <<>>
    PROVE  /\ Head(todo) = todo[1] /\ WriteFits(todo[1])
           /\ TodoFits(Tail(todo))
           /\ Plain(todo) => /\ todo[1].file \notin SessionFiles
                             /\ Plain(Tail(todo))
  <1>1. ASSUME NEW u, WriteFits(u), todo = <<u>>
        PROVE  /\ Head(todo) = todo[1] /\ WriteFits(todo[1])
               /\ Tail(todo) = <<>> /\ DOMAIN todo = {1}
    BY <1>1
  <1>2. ASSUME NEW u, NEW v, WriteFits(u), WriteFits(v), todo = <<u, v>>
        PROVE  /\ Head(todo) = todo[1] /\ WriteFits(todo[1])
               /\ Tail(todo) = <<v>> /\ DOMAIN todo = {1, 2} /\ todo[2] = v
               /\ TodoFits(<<v>>)
    BY <1>2 DEF TodoFits
  <1>3. Plain(<<>>) /\ TodoFits(<<>>)
    BY DEF Plain, TodoFits
  <1>4. ASSUME NEW v, v.file \notin SessionFiles
        PROVE  Plain(<<v>>)
    BY <1>4 DEF Plain
  <1>5. CASE \E u : WriteFits(u) /\ todo = <<u>>
    <2>1. PICK u : WriteFits(u) /\ todo = <<u>>
      BY <1>5
    <2> QED BY <1>1, <1>3, <2>1 DEF Plain
  <1>6. CASE \E u, v : WriteFits(u) /\ WriteFits(v) /\ todo = <<u, v>>
    <2>1. PICK u, v : WriteFits(u) /\ WriteFits(v) /\ todo = <<u, v>>
      BY <1>6
    <2>2. /\ Head(todo) = todo[1] /\ WriteFits(todo[1])
          /\ Tail(todo) = <<v>> /\ DOMAIN todo = {1, 2} /\ todo[2] = v
          /\ TodoFits(<<v>>)
      BY <1>2, <2>1
    <2>3. Plain(todo) => /\ todo[1].file \notin SessionFiles
                         /\ v.file \notin SessionFiles
      BY <2>2 DEF Plain
    <2> QED BY <1>4, <2>2, <2>3
  <1> QED BY <1>5, <1>6 DEF TodoFits

(* A client that writes has something to write.                            *)
LEMMA WriterHasTodo ==
    ASSUME NEW x, ClientInv(x), x.pc \in Writing
    PROVE  /\ TodoFits(x.todo) /\ x.todo # <<>>
           /\ Head(x.todo) = x.todo[1] /\ WriteFits(x.todo[1])
  <1>1. TodoFits(x.todo) /\ x.todo # <<>>
    BY DEF ClientInv
  <1> QED BY <1>1, TodoIs

(* Truncate empties the file,                                              *)
LEMMA TruncateDoes ==
    ASSUME TypeInv, NEW c \in Clients, Truncate(c)
    PROVE  LET x == client[c]
               y == client'[c]
           IN  /\ x.pc = "write" /\ Only(c)
               /\ Same(x, y) /\ SameRead(x, y) /\ SameTodo(x, y)
               /\ y.pc = "fill"
               /\ disk' = [disk EXCEPT ![x.todo[1].file] = Torn]
               /\ UNCHANGED <<evidence, aged, requests, crashes, overlap>>
  <1> DEFINE x == client[c]
  <1>1. x.pc = "write" /\ ClientInv(x)
    BY DEF Truncate, At, TypeInv
  <1>2. Head(x.todo) = x.todo[1]
    BY <1>1, WriterHasTodo DEF Writing
  <1>3. /\ disk' = [disk EXCEPT ![x.todo[1].file] = Torn]
        /\ UNCHANGED <<evidence, aged, requests, crashes, overlap>>
    BY <1>2 DEF Truncate
  <1>4. Goto(c, "fill")
    BY DEF Truncate
  <1> QED BY <1>1, <1>3, <1>4, GotoDoes

(* A client goes on to write what is todo, or to what comes after it.      *)
GoesOn(x, y, todo) ==
    /\ Same(x, y) /\ SameRead(x, y)
    /\ y.todo = todo /\ y.then = x.then
    /\ y.pc = IF todo = <<>> THEN x.then ELSE "write"

(* To prepare what is todo is to go on.                                    *)
LEMMA PrepareGoesOn ==
    ASSUME TypeInv, NEW c \in Clients, NEW todo,
           Prepare(c, todo, client[c].then)
    PROVE  Only(c) /\ GoesOn(client[c], client'[c], todo)
  <1> DEFINE then == client[c].then
  <1>1. /\ Only(c) /\ Same(client[c], client'[c]) /\ SameRead(client[c], client'[c])
        /\ client'[c].pc = IF todo = <<>> THEN then ELSE "write"
        /\ client'[c].todo = todo /\ client'[c].then = then
    <2> HIDE DEF then
    <2>1. Prepare(c, todo, then)
      BY DEF then
    <2> QED BY <2>1, PrepareDoes
  <1> QED BY <1>1 DEF GoesOn

(* and Fill writes it; what belongs into the manifest of a run goes there. *)
LEMMA FillDoes ==
    ASSUME TypeInv, NEW c \in Clients, Fill(c)
    PROVE  LET x == client[c]
               y == client'[c]
               w == x.todo[1]
               entered == /\ evidence.scope = "run"
                          /\ w.file \in SessionFiles \cup {RouteFile}
           IN  /\ x.pc = "fill" /\ Only(c)
               /\ disk' = [disk EXCEPT ![w.file] = File(w.value)]
               /\ aged' = aged \ {w.file}
               /\ UNCHANGED <<evidence, requests, crashes, overlap>>
               /\ \/ /\ entered /\ y.pc = "enter"
                     /\ Same(x, y) /\ SameRead(x, y) /\ SameTodo(x, y)
                  \/ ~entered /\ GoesOn(x, y, Tail(x.todo))
  <1> DEFINE x == client[c]
             w == x.todo[1]
  <1>1. x.pc = "fill" /\ ClientInv(x)
    BY DEF Fill, At, TypeInv
  <1>2. Head(x.todo) = w
    BY <1>1, WriterHasTodo DEF Writing
  <1>3. /\ disk' = [disk EXCEPT ![w.file] = File(w.value)]
        /\ aged' = aged \ {w.file}
        /\ UNCHANGED <<evidence, requests, crashes, overlap>>
    BY <1>2 DEF Fill
  <1>4. IF Entered(w.file) THEN Goto(c, "enter")
        ELSE Prepare(c, Tail(x.todo), x.then)
    BY <1>2 DEF Fill
  <1>5. Entered(w.file) <=> /\ evidence.scope = "run"
                            /\ w.file \in SessionFiles \cup {RouteFile}
    BY DEF Entered
  <1> HIDE DEF w
  <1>6. CASE Entered(w.file)
    <2>1. Goto(c, "enter")
      BY <1>4, <1>6
    <2>2. /\ Only(c) /\ client'[c].pc = "enter"
          /\ Same(x, client'[c]) /\ SameRead(x, client'[c])
          /\ SameTodo(x, client'[c])
      BY <2>1, GotoDoes
    <2> QED BY <1>1, <1>3, <1>5, <1>6, <2>2 DEF w
  <1>7. CASE ~Entered(w.file)
    <2>1. Prepare(c, Tail(x.todo), x.then)
      BY <1>4, <1>7
    <2>2. Only(c) /\ GoesOn(x, client'[c], Tail(x.todo))
      BY <2>1, PrepareGoesOn
    <2> QED BY <1>1, <1>3, <1>5, <1>7, <2>2 DEF w
  <1> QED BY <1>6, <1>7

(* Enter sets out to write the manifest with the file as it is now.        *)
Entry(d, f) == Write(ManifestFile, With(d[ManifestFile].value, f, d[f]))

(* A client goes on with an entry of its file, or fails.                   *)
LEMMA EnterDoes ==
    ASSUME TypeInv, NEW c \in Clients, Enter(c)
    PROVE  LET x == client[c]
               y == client'[c]
           IN  /\ x.pc = "enter" /\ Silent(c)
               /\ \/ y = Idle
                  \/ /\ disk[ManifestFile].is = "absent"
                     /\ GoesOn(x, y, Tail(x.todo))
                  \/ /\ disk[ManifestFile].is \notin {"absent", "torn"}
                     /\ GoesOn(x, y, <<Entry(disk, x.todo[1].file)>>
                                     \o Tail(x.todo))
  <1> DEFINE x == client[c]
             f == x.todo[1].file
             rest == Tail(x.todo)
             manifest == disk[ManifestFile]
             more == <<Entry(disk, f)>> \o rest
  <1>1. x.pc = "enter" /\ ClientInv(x) /\ OnlyClient
    BY DEF Enter, At, TypeInv
  <1>2. Head(x.todo) = x.todo[1]
    BY <1>1, WriterHasTodo DEF Writing
  <1>3. \/ Fail(c)
        \/ manifest.is = "absent" /\ Prepare(c, rest, x.then)
        \/ manifest.is \notin {"absent", "torn"} /\ Prepare(c, more, x.then)
    BY <1>2 DEF Enter, Entry
  <1>4. CASE Fail(c)
    BY <1>1, <1>4, FailDoes DEF Silent
  <1>5. CASE manifest.is = "absent" /\ Prepare(c, rest, x.then)
    <2>1. Only(c) /\ GoesOn(x, client'[c], rest)
      BY <1>5, PrepareGoesOn
    <2> QED BY <1>1, <1>5, <2>1 DEF Silent
  <1>6. CASE manifest.is \notin {"absent", "torn"} /\ Prepare(c, more, x.then)
    <2> HIDE DEF more
    <2>1. Only(c) /\ GoesOn(x, client'[c], more)
      BY <1>6, PrepareGoesOn
    <2> QED BY <1>1, <1>6, <2>1 DEF Silent, more
  <1> QED BY <1>3, <1>4, <1>5, <1>6

(* Return ends a request.                                                  *)
LEMMA ReturnDoes ==
    ASSUME TypeInv, NEW c \in Clients, Return(c)
    PROVE  client[c].pc = "done" /\ Silent(c) /\ client'[c] = Idle
  <1>1. Fail(c) /\ OnlyClient /\ client[c].pc = "done"
    BY DEF Return, Fail, At
  <1> QED BY <1>1, FailDoes DEF Silent

(* So does a kill.                                                         *)
LEMMA KillDoes ==
    ASSUME TypeInv, NEW c \in Clients, Kill(c)
    PROVE  /\ client[c].pc # "idle" /\ Only(c) /\ client'[c] = Idle
           /\ UNCHANGED <<evidence, disk, aged, requests, overlap>>
           /\ crashes < MaxCrashes /\ crashes' = crashes + 1
  <1>1. /\ Fail(c) /\ client[c].pc # "idle"
        /\ UNCHANGED <<evidence, disk, aged, requests, overlap>>
        /\ crashes < MaxCrashes /\ crashes' = crashes + 1
    BY DEF Kill, Active
  <1> QED BY <1>1, FailDoes

(* ListFiles decides what is to be deleted.                                *)
FilesListed(x, y, d, old) ==
    /\ Same(x, y) /\ SameTodo(x, y)
    /\ y.route = x.route /\ y.opening = x.opening
    /\ y.pc = "delete" /\ y.old = old
    /\ y.doomed = Excess(Present(d)) \cup
                  (IF x.byAge THEN Present(d) \cap old ELSE {})

(* A clean-up goes on to delete what it has listed.                        *)
LEMMA ListFilesDoes ==
    ASSUME TypeInv, NEW c \in Clients, ListFiles(c)
    PROVE  /\ client[c].pc = "list" /\ Silent(c)
           /\ FilesListed(client[c], client'[c], disk, aged)
  <1> DEFINE x == client[c]
             doomed == Excess(Listed) \cup
                       (IF x.byAge THEN Listed \cap aged ELSE {})
             z == [x EXCEPT !.pc = "delete", !.old = aged, !.doomed = doomed]
  <1>1. x.pc = "list" /\ OnlyClient
    BY DEF ListFiles, At
  <1>2. DOMAIN client = Clients /\ DOMAIN x = Fields
    BY DEF TypeInv, ClientInv
  <1>3. client' = [client EXCEPT ![c] = z]
    BY DEF ListFiles
  <1>4. Listed = Present(disk)
    BY DEF Listed, Present
  <1>5. doomed = Excess(Present(disk)) \cup
                 (IF x.byAge THEN Present(disk) \cap aged ELSE {})
    BY <1>4
  <1> HIDE DEF x, doomed
  <1>6. /\ Same(x, z) /\ SameTodo(x, z)
        /\ z.route = x.route /\ z.opening = x.opening
        /\ z.pc = "delete" /\ z.old = aged /\ z.doomed = doomed
    BY <1>2 DEF Fields, Same, SameTodo
  <1> HIDE DEF z
  <1>7. client'[c] = z /\ Only(c)
    BY <1>2, <1>3, Turned
  <1>8. FilesListed(x, z, disk, aged)
    BY <1>5, <1>6 DEF FilesListed
  <1> QED BY <1>1, <1>7, <1>8 DEF Silent, x

(* Delete removes one of the doomed files, or ends.                        *)
FileDeleted(x, y, d, f) ==
    \/ d[f].is = "absent" /\ y = Idle
    \/ /\ Same(x, y) /\ SameTodo(x, y)
       /\ y.route = x.route /\ y.opening = x.opening /\ y.old = x.old
       /\ y.pc = "delete" /\ y.doomed = x.doomed \ {f}

(* A clean-up deletes one file, and goes on, ends or fails.                *)
LEMMA DeleteDoes ==
    ASSUME TypeInv, NEW c \in Clients, Delete(c)
    PROVE  LET x == client[c]
               y == client'[c]
           IN  /\ x.pc = "delete" /\ Only(c)
               /\ UNCHANGED <<evidence, requests, crashes, overlap>>
               /\ \/ /\ x.doomed = {} /\ y.pc = "done"
                     /\ Same(x, y) /\ SameRead(x, y) /\ SameTodo(x, y)
                     /\ UNCHANGED <<disk, aged>>
                  \/ \E f \in x.doomed :
                        /\ FileDeleted(x, y, disk, f)
                        /\ disk' = [disk EXCEPT ![f] = Absent]
                        /\ aged' = aged \ {f}
  <1> DEFINE x == client[c]
  <1>1. x.pc = "delete" /\ UNCHANGED <<evidence, requests, crashes, overlap>>
    BY DEF Delete, At
  <1>2. /\ DOMAIN client = Clients /\ DOMAIN x = Fields
        /\ x.doomed \subseteq SessionFiles
    BY DEF TypeInv, ClientInv
  <1>3. CASE x.doomed = {}
    <2>1. Goto(c, "done") /\ UNCHANGED <<disk, aged>>
      BY <1>3 DEF Delete
    <2> QED BY <1>1, <1>3, <2>1, GotoDoes
  <1>4. CASE x.doomed # {}
    <2>1. PICK f \in x.doomed : f = First(x.doomed)
      BY <1>2, <1>4, FirstIs
    <2>2. /\ disk' = [disk EXCEPT ![f] = Absent] /\ aged' = aged \ {f}
          /\ IF disk[f].is = "absent" THEN Fail(c)
             ELSE client' = [client EXCEPT ![c].doomed = @ \ {f}]
      BY <1>4, <2>1 DEF Delete
    <2>3. CASE disk[f].is = "absent"
      <3>1. Only(c) /\ client'[c] = Idle
        BY <2>2, <2>3, FailDoes
      <3> QED BY <1>1, <2>2, <2>3, <3>1 DEF FileDeleted
    <2>4. CASE disk[f].is # "absent"
      <3> DEFINE z == [x EXCEPT !.doomed = x.doomed \ {f}]
      <3>1. client' = [client EXCEPT ![c] = z]
        BY <2>2, <2>4
      <3> HIDE DEF x
      <3>2. /\ Same(x, z) /\ SameTodo(x, z)
            /\ z.route = x.route /\ z.opening = x.opening /\ z.old = x.old
            /\ z.pc = x.pc /\ z.doomed = x.doomed \ {f}
        BY <1>2 DEF Fields, Same, SameTodo
      <3> HIDE DEF z
      <3>3. client'[c] = z /\ Only(c)
        BY <1>2, <3>1, Turned
      <3>4. FileDeleted(x, z, disk, f)
        BY <1>1, <3>2 DEF FileDeleted
      <3> QED BY <1>1, <2>2, <3>3, <3>4 DEF x
    <2> QED BY <2>3, <2>4
  <1> QED BY <1>3, <1>4

(* A request x begins well typed, and with its session as it is on the     *)
(* disk d.                                                                 *)
Fresh(x, d) ==
    /\ ClientInv(x) /\ x.pc \notin {"idle", "enter"}
    /\ x.op = "continue" => x.pc = "context" /\ d[State(x.session)] = x.before
    /\ x.op = "cleanup" => x.pc = "list"

(* Whoever else is active is no longer alone.                              *)
Overlapped(x) == IF x.pc = "idle" THEN x ELSE [x EXCEPT !.alone = FALSE]

(* A request begins, and overlaps whoever is active.                       *)
LEMMA BeginDoes ==
    ASSUME TypeInv, NEW c \in Clients, NEW request, Fresh(request, disk),
           Begin(c, request)
    PROVE  LET y == client'[c]
           IN  /\ client[c].pc = "idle" /\ DOMAIN client' = Clients
               /\ y.alone \in BOOLEAN /\ (y.alone <=> Active = {})
               /\ DOMAIN y = Fields /\ y = [request EXCEPT !.alone = y.alone]
               /\ \A d \in Clients \ {c} : client'[d] = Overlapped(client[d])
               /\ requests' = requests + 1 /\ requests < MaxRequests
               /\ overlap' = (overlap \/ Active # {})
               /\ UNCHANGED <<evidence, disk, aged, crashes>>
  <1>1. /\ client[c].pc = "idle"
        /\ requests' = requests + 1 /\ requests < MaxRequests
        /\ overlap' = (overlap \/ Active # {})
        /\ UNCHANGED <<evidence, disk, aged, crashes>>
    BY DEF Begin, At
  <1>2. PICK alone \in BOOLEAN : alone = (Active = {})
    OBVIOUS
  <1> DEFINE y == [request EXCEPT !.alone = alone]
             new(d) == IF d = c THEN y
                       ELSE IF d \in Active
                            THEN [client[d] EXCEPT !.alone = FALSE]
                            ELSE client[d]
  <1>3. client' = [d \in Clients |-> new(d)]
    BY <1>2 DEF Begin
  <1>4. DOMAIN request = Fields
    BY DEF Fresh, ClientInv
  <1>5. y.alone = alone /\ DOMAIN y = Fields
    BY <1>4 DEF Fields
  <1>6. DOMAIN client' = Clients /\ client'[c] = y
    <2> HIDE DEF y
    <2> QED BY <1>3
  <1>7. ASSUME NEW d \in Clients \ {c}
        PROVE  client'[d] = Overlapped(client[d])
    <2>1. d \in Active <=> client[d].pc # "idle"
      BY DEF Active
    <2>2. client'[d] = new(d)
      <3> HIDE DEF new
      <3> QED BY <1>3
    <2>3. new(d) = IF d \in Active THEN [client[d] EXCEPT !.alone = FALSE]
                   ELSE client[d]
      <3> HIDE DEF y
      <3> QED OBVIOUS
    <2> QED BY <2>1, <2>2, <2>3 DEF Overlapped
  <1> HIDE DEF y
  <1>8. client'[c].alone = alone /\ DOMAIN client'[c] = Fields
    BY <1>5, <1>6
  <1>9. client'[c] = [request EXCEPT !.alone = client'[c].alone]
    BY <1>6, <1>8 DEF y
  <1>10. client'[c].alone \in BOOLEAN /\ (client'[c].alone <=> Active = {})
    BY <1>2, <1>8, Zenon
  <1> QED BY <1>1, <1>6, <1>7, <1>8, <1>9, <1>10

(* A start that is fresh: it writes the service files first, or builds.    *)
LEMMA StartDoes ==
    ASSUME TypeInv, NEW c \in Clients, Start(c)
    PROVE  \E request : Fresh(request, disk) /\ Begin(c, request)
  <1>1. PICK named \in BOOLEAN, a \in Refreshed :
            LET refresh == named /\ evidence.scope = "run"
                todo    == IF refresh THEN <<Write(ServiceState, a),
                                             Write(ServicePack, a)>>
                           ELSE <<>>
            IN  Begin(c, Doing([Idle EXCEPT !.op = "start", !.named = named],
                               todo, "build"))
    BY DEF Start
  <1> DEFINE u == Write(ServiceState, a)
             v == Write(ServicePack, a)
             x == [Idle EXCEPT !.op = "start", !.named = named]
             todo == IF named /\ evidence.scope = "run" THEN <<u, v>> ELSE <<>>
             y == Doing(x, todo, "build")
  <1>2. Begin(c, y)
    BY <1>1
  <1>3. /\ DOMAIN x = Fields /\ x.op = "start" /\ x.pc = "idle"
        /\ x.alone = Idle.alone /\ x.route = Idle.route
        /\ x.doomed = Idle.doomed
    <2>1. PICK idle : idle = Idle
      OBVIOUS
    <2> QED BY <2>1, IdleIs DEF Fields
  <1> HIDE DEF x
  <1>4. /\ u.file = ServiceState /\ v.file = ServicePack
        /\ WriteFits(u) /\ WriteFits(v)
    <2>1. ServiceState \in Files /\ ServicePack \in Files
      BY OtherFiles
    <2>2. \A s \in Sessions : State(s) \in SessionFiles
      BY FilesOfSession
    <2>3. /\ ValueFits(ServiceState, a) /\ ValueFits(ServicePack, a)
      BY <2>2, OtherFiles DEF ValueFits
    <2> QED BY <2>1, <2>3 DEF WriteFits, Write
  <1> HIDE DEF u, v
  <1>5. TodoFits(todo) /\ Plain(todo)
    <2>1. TodoFits(<<>>) /\ TodoFits(<<u, v>>)
      BY <1>4 DEF TodoFits
    <2>2. Plain(<<>>) /\ Plain(<<u, v>>)
      BY <1>4, OtherFiles DEF Plain
    <2> QED BY <2>1, <2>2
  <1> HIDE DEF todo
  <1>6. /\ Same(x, y) /\ SameRead(x, y)
        /\ y.pc = IF todo = <<>> THEN "build" ELSE "write"
        /\ y.todo = todo /\ y.then = "build"
    BY <1>3, DoingIs
  <1> HIDE DEF y
  <1>7. /\ y.op = "start" /\ DOMAIN y = Fields /\ y.alone = FALSE
        /\ RouteFits(y.route) /\ y.doomed = {}
    BY <1>3, <1>6, IdleIs, NoRouteFits DEF Same, SameRead
  <1>8. ClientInv(y)
    BY <1>5, <1>6, <1>7 DEF ClientInv, Writing, Looking
  <1>9. Fresh(y, disk)
    BY <1>6, <1>7, <1>8 DEF Fresh
  <1> QED BY <1>2, <1>9

(* A continuation begins with the state of its session.                    *)
LEMMA ContinueDoes ==
    ASSUME TypeInv, NEW c \in Clients, Continue(c)
    PROVE  \E request : Fresh(request, disk) /\ Begin(c, request)
  <1>1. PICK s \in Sessions, id \in {"IR001", "IR002", "IR003", "IR-DQ"},
             named \in BOOLEAN :
            Begin(c, [Idle EXCEPT !.op = "continue", !.pc = "context",
                                  !.named = named, !.session = s, !.id = id,
                                  !.before = disk[State(s)]])
    BY DEF Continue
  <1>2. PICK idle, before : idle = Idle /\ before = disk[State(s)]
    OBVIOUS
  <1> DEFINE y == [idle EXCEPT !.op = "continue", !.pc = "context",
                               !.named = named, !.session = s, !.id = id,
                               !.before = before]
  <1>3. Begin(c, y)
    BY <1>1, <1>2
  <1>4. /\ DOMAIN y = Fields /\ y.op = "continue" /\ y.pc = "context"
        /\ y.session = s /\ y.before = before
        /\ y.alone = idle.alone /\ y.todo = idle.todo /\ y.then = idle.then
        /\ y.route = idle.route /\ y.doomed = idle.doomed
    BY <1>2, IdleIs DEF Fields
  <1> HIDE DEF y
  <1>5. Plain(<<>>) /\ TodoFits(<<>>)
    BY DEF Plain, TodoFits
  <1>6. ClientInv(y)
    BY <1>2, <1>4, <1>5, IdleIs, NoRouteFits DEF ClientInv, Writing, Looking
  <1>7. Fresh(y, disk)
    BY <1>2, <1>4, <1>6 DEF Fresh
  <1> QED BY <1>3, <1>7

(* A clean-up begins with the list.                                        *)
LEMMA CleanUpDoes ==
    ASSUME TypeInv, NEW c \in Clients, CleanUp(c)
    PROVE  \E request : Fresh(request, disk) /\ Begin(c, request)
  <1>1. PICK byAge \in BOOLEAN :
            Begin(c, [Idle EXCEPT !.op = "cleanup", !.pc = "list",
                                  !.byAge = byAge])
    BY DEF CleanUp
  <1>2. PICK idle : idle = Idle
    OBVIOUS
  <1> DEFINE y == [idle EXCEPT !.op = "cleanup", !.pc = "list",
                               !.byAge = byAge]
  <1>3. Begin(c, y)
    BY <1>1, <1>2
  <1>4. /\ DOMAIN y = Fields /\ y.op = "cleanup" /\ y.pc = "list"
        /\ y.alone = idle.alone /\ y.todo = idle.todo /\ y.then = idle.then
        /\ y.route = idle.route /\ y.doomed = idle.doomed
    BY <1>2, IdleIs DEF Fields
  <1> HIDE DEF y
  <1>5. Plain(<<>>) /\ TodoFits(<<>>)
    BY DEF Plain, TodoFits
  <1>6. ClientInv(y)
    BY <1>2, <1>4, <1>5, IdleIs, NoRouteFits DEF ClientInv, Writing, Looking
  <1>7. Fresh(y, disk)
    BY <1>4, <1>6 DEF Fresh
  <1> QED BY <1>3, <1>7

----------------------------------------------------------------------------
(* Type correctness.                                                       *)

(* In the first state nobody is active and the files are as captured.      *)
LEMMA InitTyped ==
    ASSUME Init
    PROVE  TypeInv
  <1>1. /\ evidence \in Evidences /\ aged = {} /\ overlap = FALSE
        /\ requests = 0 /\ crashes = 0
        /\ DOMAIN client = Clients /\ \A c \in Clients : client[c] = Idle
    BY DEF Init
  <1>2. MaxRequests \in Nat /\ MaxCrashes \in Nat
    BY SessionAssumption
  <1>3. \A c \in Clients : ClientInv(client[c]) /\ client[c].pc = "idle"
    BY <1>1, IdleFits, IdleIs
  <1>4. PICK started \in BOOLEAN : disk = Captured(started)
    BY DEF Init
  <1> DEFINE e == IF evidence.scope = "fleet" THEN evidence
                  ELSE SeenWith(FALSE, evidence.pack)
             route == Route(e)
             manifest == IF started THEN With(<<>>, RouteFile, File(route))
                         ELSE <<>>
  <1>5. DOMAIN disk = Files
    BY <1>4 DEF Captured
  <1>6. ASSUME NEW f \in Files
        PROVE  \/ f = RouteFile /\ disk[f] = File(route)
               \/ f = DiffFile /\ disk[f] = File(FieldStatus(evidence.compared))
               \/ f = ManifestFile /\ disk[f] = File(manifest)
               \/ /\ f \in {ServiceState, ServicePack}
                  /\ disk[f] = File(evidence.pack)
               \/ disk[f] = Absent /\ ~(f = ManifestFile /\ evidence.scope = "run")
    <2>1. disk[f] = CASE f = RouteFile /\ started -> File(route)
              [] f = DiffFile /\ started /\ FleetComparison # <<>> ->
                    File(FieldStatus(evidence.compared))
              [] f = ManifestFile /\ evidence.scope = "run" -> File(manifest)
              [] f \in {ServiceState, ServicePack}
                 /\ evidence.scope = "run" /\ evidence.pack # NoService ->
                    File(evidence.pack)
              [] OTHER -> Absent
      BY <1>4 DEF Captured
    <2> HIDE DEF route, manifest
    <2>2. CASE f = RouteFile
      <3>1. f # DiffFile /\ f # ManifestFile /\ f \notin {ServiceState, ServicePack}
        BY <2>2, OtherFiles
      <3> QED BY <2>1, <2>2, <3>1
    <2>3. CASE f = DiffFile
      <3>1. f # RouteFile /\ f # ManifestFile /\ f \notin {ServiceState, ServicePack}
        BY <2>3, OtherFiles DEF DiffFile, ServiceState, ServicePack
      <3> QED BY <2>1, <2>3, <3>1
    <2>4. CASE f = ManifestFile
      <3>1. f # RouteFile /\ f # DiffFile /\ f \notin {ServiceState, ServicePack}
        BY <2>4, OtherFiles
      <3> QED BY <2>1, <2>4, <3>1
    <2>5. CASE f \notin {RouteFile, DiffFile, ManifestFile}
      BY <2>1, <2>5
    <2> QED BY <2>2, <2>3, <2>4, <2>5
  <1>7. RouteFits(route)
    BY RouteIs
  <1> HIDE DEF route, manifest
  <1>8. \A f \in Files : ContentFits(f, disk[f])
    <2>1. ASSUME NEW f, f \notin SessionFiles, NEW v, f = RouteFile => RouteFits(v)
          PROVE  ContentFits(f, File(v))
      <3>1. File(v).value = v
        BY DEF File
      <3>2. ValueFits(f, v)
        BY <2>1, FilesOfSession DEF ValueFits
      <3> QED BY <3>1, <3>2 DEF ContentFits
    <2>2. \A f : ContentFits(f, Absent)
      BY DEF ContentFits
    <2> QED BY <1>6, <1>7, <2>1, <2>2, OtherFiles
  <1>9. evidence.scope = "run" => disk[ManifestFile] # Absent
    <2>1. \A v : File(v) # Absent
      <3>1. ASSUME NEW v
            PROVE  File(v).is # Absent.is
        BY DEF File, Absent
      <3> QED BY <3>1
    <2> QED BY <1>6, <2>1, OtherFiles
  <1>10. requests \in 0 .. MaxRequests /\ crashes \in 0 .. MaxCrashes
    BY <1>1, <1>2
  <1>11. aged \subseteq SessionFiles /\ overlap \in BOOLEAN
    BY <1>1
  <1>12. \A c \in Clients : ~(client[c].pc = "enter")
    BY <1>3
  <1> HIDE DEF e
  <1> QED BY <1>1, <1>3, <1>5, <1>8, <1>9, <1>10, <1>11, <1>12 DEF TypeInv

(* A client that reads leaves the types of all others as they are.         *)
LEMMA SilentTyped ==
    ASSUME TypeInv, NEW c \in Clients, Silent(c),
           ClientInv(client'[c]), client'[c].pc # "enter"
    PROVE  TypeInv'
  <1>1. UNCHANGED <<evidence, disk, aged, requests, crashes, overlap>>
    BY DEF Silent, OnlyClient
  <1>2. Only(c)
    BY DEF Silent
  <1> QED BY <1>1, <1>2 DEF Only, TypeInv

(* The same for one that changes a file.                                   *)
LEMMA FileTyped ==
    ASSUME TypeInv, NEW c \in Clients, Only(c),
           ClientInv(client'[c]),
           client'[c].pc = "enter" => evidence.scope = "run",
           NEW f \in Files, NEW content, ContentFits(f, content),
           f = ManifestFile => content # Absent,
           disk' = [disk EXCEPT ![f] = content],
           aged' \subseteq aged,
           UNCHANGED <<evidence, requests, crashes, overlap>>
    PROVE  TypeInv'
  <1>1. DOMAIN disk' = Files /\ \A g \in Files : ContentFits(g, disk'[g])
    BY DEF TypeInv
  <1>2. evidence.scope = "run" => disk'[ManifestFile] # Absent
    BY OtherFiles DEF TypeInv
  <1>3. /\ DOMAIN client' = Clients
        /\ \A d \in Clients : ClientInv(client'[d])
        /\ \A d \in Clients : client'[d].pc = "enter" => evidence.scope = "run"
    BY DEF Only, TypeInv
  <1>4. /\ evidence' \in Evidences /\ evidence' = evidence
        /\ aged' \subseteq SessionFiles
        /\ requests' \in 0 .. MaxRequests /\ crashes' \in 0 .. MaxCrashes
        /\ overlap' \in BOOLEAN
    BY DEF TypeInv
  <1> QED BY <1>1, <1>2, <1>3, <1>4 DEF TypeInv

(* Who is overlapped stays well typed.                                     *)
LEMMA OverlappedFits ==
    ASSUME NEW x, ClientInv(x)
    PROVE  ClientInv(Overlapped(x)) /\ Overlapped(x).pc = x.pc
  <1> DEFINE y == [x EXCEPT !.alone = FALSE]
  <1>1. CASE x.pc = "idle"
    BY <1>1 DEF Overlapped
  <1>2. CASE x.pc # "idle"
    <2>1. DOMAIN x = Fields
      BY DEF ClientInv
    <2>2. /\ DOMAIN y = Fields /\ y.alone = FALSE /\ y.pc = x.pc
          /\ y.op = x.op /\ y.then = x.then /\ y.todo = x.todo
          /\ y.session = x.session /\ y.id = x.id /\ y.route = x.route
          /\ y.doomed = x.doomed
      BY <2>1 DEF Fields
    <2>3. Overlapped(x) = y
      BY <1>2 DEF Overlapped
    <2> HIDE DEF y
    <2>4. ClientInv(y)
      BY <1>2, <2>2 DEF ClientInv
    <2> QED BY <2>2, <2>3, <2>4
  <1> QED BY <1>1, <1>2

(* What begins is the request, alone or not.                               *)
LEMMA BegunIs ==
    ASSUME NEW x, NEW d, Fresh(x, d), NEW y, y.alone \in BOOLEAN,
           DOMAIN y = Fields, y = [x EXCEPT !.alone = y.alone]
    PROVE  Fresh(y, d)
  <1>1. PICK alone \in BOOLEAN : alone = y.alone
    OBVIOUS
  <1>2. y = [x EXCEPT !.alone = alone] /\ DOMAIN x = Fields
    BY <1>1 DEF Fresh, ClientInv
  <1>3. /\ y.pc = x.pc /\ y.op = x.op /\ y.then = x.then /\ y.todo = x.todo
        /\ y.session = x.session /\ y.id = x.id /\ y.before = x.before
        /\ y.route = x.route /\ y.doomed = x.doomed
    BY <1>2 DEF Fields
  <1>4. ClientInv(y)
    BY <1>3 DEF Fresh, ClientInv
  <1> QED BY <1>3, <1>4 DEF Fresh

(* A request begins with the types right.                                  *)
LEMMA BeginTyped ==
    ASSUME TypeInv, NEW c \in Clients, NEW request, Fresh(request, disk),
           Begin(c, request)
    PROVE  TypeInv' /\ Fresh(client'[c], disk')
  <1>1. /\ DOMAIN client' = Clients /\ client'[c].alone \in BOOLEAN
        /\ DOMAIN client'[c] = Fields
        /\ client'[c] = [request EXCEPT !.alone = client'[c].alone]
        /\ \A d \in Clients \ {c} : client'[d] = Overlapped(client[d])
    BY BeginDoes
  <1>2. /\ requests' = requests + 1 /\ requests < MaxRequests
        /\ overlap' = (overlap \/ Active # {})
        /\ UNCHANGED <<evidence, disk, aged, crashes>>
    BY BeginDoes
  <1>3. PICK y : y = client'[c]
    OBVIOUS
  <1>4. Fresh(y, disk)
    BY <1>1, <1>3, BegunIs
  <1>5. \A d \in Clients : /\ ClientInv(client'[d])
                           /\ client'[d].pc = "enter" => evidence.scope = "run"
    BY <1>1, <1>3, <1>4, OverlappedFits DEF Fresh, TypeInv
  <1>6. requests' \in 0 .. MaxRequests
    BY <1>2, SessionAssumption DEF TypeInv
  <1>7. overlap' \in BOOLEAN
    BY <1>2
  <1>8. TypeInv'
    BY <1>1, <1>2, <1>5, <1>6, <1>7 DEF TypeInv
  <1> QED BY <1>2, <1>3, <1>4, <1>8

(* A client that goes on with what it has to write is well typed.          *)
LEMMA GoesOnFits ==
    ASSUME NEW x, ClientInv(x), x.pc \in Writing,
           NEW todo, TodoFits(todo), Plain(x.todo) => Plain(todo),
           NEW y, GoesOn(x, y, todo)
    PROVE  ClientInv(y) /\ y.pc # "enter"
  <1>1. /\ DOMAIN y = Fields /\ y.op = x.op /\ y.alone = x.alone
        /\ y.session = x.session /\ y.route = x.route /\ y.doomed = x.doomed
        /\ y.todo = todo /\ y.then = x.then
        /\ y.pc = IF todo = <<>> THEN x.then ELSE "write"
    BY DEF GoesOn, Same, SameRead
  <1>2. x.op \in {"start", "continue"} /\ x.then \in {"build", "refs", "done"}
    BY DEF ClientInv
  <1>3. Plain(<<>>)
    BY DEF Plain
  <1>4. /\ x.then = "build" => x.op = "start"
        /\ x.then = "refs" => x.op = "continue"
    BY DEF ClientInv
  <1>5. Plain(todo) \/ (y.pc = "write" /\ y.op = "continue" /\ y.then = "done")
    BY <1>1, <1>3 DEF ClientInv
  <1>6. CASE todo = <<>>
    <2>1. y.pc = x.then
      BY <1>1, <1>6
    <2> QED BY <1>1, <1>2, <1>4, <1>5, <2>1 DEF ClientInv, Writing, Looking
  <1>7. CASE todo # <<>>
    <2>1. y.pc = "write"
      BY <1>1, <1>7
    <2> QED BY <1>1, <1>2, <1>4, <1>5, <1>7, <2>1 DEF ClientInv, Writing, Looking
  <1> QED BY <1>6, <1>7

(* The manifest may be written before what is left.                        *)
LEMMA EntryFits ==
    ASSUME NEW todo, TodoFits(todo), todo # <<>>,
           NEW u, WriteFits(u), u.file \notin SessionFiles
    PROVE  /\ TodoFits(<<u>> \o Tail(todo))
           /\ Plain(todo) => Plain(<<u>> \o Tail(todo))
  <1>1. CASE \E w : WriteFits(w) /\ todo = <<w>>
    <2>1. PICK w : todo = <<w>>
      BY <1>1
    <2>2. Tail(todo) = <<>>
      BY <2>1
    <2>3. <<u>> \o Tail(todo) = <<u>>
      BY <2>2, OneBefore
    <2>4. TodoFits(<<u>>) /\ Plain(<<u>>)
      BY DEF TodoFits, Plain
    <2> QED BY <2>3, <2>4
  <1>2. CASE \E w, v : WriteFits(w) /\ WriteFits(v) /\ todo = <<w, v>>
    <2>1. PICK w, v : WriteFits(v) /\ todo = <<w, v>>
      BY <1>2
    <2>2. Tail(todo) = <<v>> /\ DOMAIN todo = {1, 2} /\ todo[2] = v
      BY <2>1
    <2>3. <<u>> \o Tail(todo) = <<u, v>>
      BY <2>2, OneBefore
    <2>4. TodoFits(<<u, v>>)
      BY <2>1 DEF TodoFits
    <2>5. Plain(todo) => v.file \notin SessionFiles
      BY <2>2 DEF Plain
    <2>6. v.file \notin SessionFiles => Plain(<<u, v>>)
      BY DEF Plain
    <2> QED BY <2>3, <2>4, <2>5, <2>6
  <1> QED BY <1>1, <1>2 DEF TodoFits

(* A client that sets out to write a route is well typed.                  *)
LEMMA BuildRouteTyped ==
    ASSUME TypeInv, NEW c \in Clients, BuildRoute(c)
    PROVE  TypeInv'
  <1>1. PICK x, y : x = client[c] /\ y = client'[c]
    OBVIOUS
  <1>2. /\ Silent(c) /\ ClientInv(x) /\ x.pc = "build"
        /\ y = Idle \/ RouteBuilt(x, y)
    BY <1>1, BuildRouteDoes DEF TypeInv
  <1>3. CASE RouteBuilt(x, y)
    <2>1. PICK route : RouteFits(route)
            /\ \/ y.todo = <<Write(RouteFile, route)>>
               \/ \E v : y.todo = <<Write(RouteFile, route), Write(DiffFile, v)>>
      BY <1>3 DEF RouteBuilt
    <2>2. \A s \in Sessions : State(s) \in SessionFiles
      BY FilesOfSession
    <2>3. PICK u : u = Write(RouteFile, route)
      OBVIOUS
    <2>4. WriteFits(u) /\ u.file = RouteFile
      BY <2>1, <2>2, <2>3, OtherFiles DEF WriteFits, ValueFits, Write
    <2>5. ASSUME NEW v
          PROVE  WriteFits(Write(DiffFile, v)) /\ Write(DiffFile, v).file = DiffFile
      BY <2>2, OtherFiles DEF WriteFits, ValueFits, Write
    <2>6. TodoFits(y.todo) /\ Plain(y.todo) /\ y.todo # <<>>
      <3>1. CASE y.todo = <<u>>
        BY <2>4, <3>1, OtherFiles DEF TodoFits, Plain
      <3>2. ASSUME NEW v, y.todo = <<u, Write(DiffFile, v)>>
            PROVE  TodoFits(y.todo) /\ Plain(y.todo) /\ y.todo # <<>>
        <4>1. PICK w : w = Write(DiffFile, v)
          OBVIOUS
        <4>2. WriteFits(w) /\ w.file = DiffFile /\ y.todo = <<u, w>>
          BY <2>5, <3>2, <4>1
        <4> QED BY <2>4, <4>2, OtherFiles DEF TodoFits, Plain
      <3> QED BY <2>1, <2>3, <3>1, <3>2
    <2>7. /\ DOMAIN y = Fields /\ y.op = x.op /\ y.alone = x.alone
          /\ y.session = x.session /\ y.route = x.route /\ y.doomed = x.doomed
          /\ y.then = "done" /\ y.pc = "write"
      BY <1>3 DEF RouteBuilt, Same, SameRead
    <2>8. x.op = "start"
      BY <1>2 DEF ClientInv
    <2>9. ClientInv(y) /\ y.pc # "enter"
      BY <1>2, <2>6, <2>7, <2>8 DEF ClientInv, Writing, Looking
    <2> QED BY <1>1, <1>2, <2>9, SilentTyped
  <1>4. CASE y = Idle
    BY <1>1, <1>2, <1>4, IdleFits, IdleIs, SilentTyped
  <1> QED BY <1>2, <1>3, <1>4

(* What a continuation reads leaves it well typed.                         *)
LEMMA ReadingTyped ==
    ASSUME TypeInv, NEW c \in Clients,
           ReadContext(c) \/ ReadRoute(c) \/ OpenStep(c)
    PROVE  TypeInv'
  <1>1. PICK x, y : x = client[c] /\ y = client'[c]
    OBVIOUS
  <1>2. Silent(c) /\ ClientInv(x)
    BY <1>1, ReadContextDoes, ReadRouteDoes, OpenStepDoes DEF TypeInv
  <1>3. CASE y = Idle
    BY <1>1, <1>2, <1>3, IdleFits, IdleIs, SilentTyped
  <1>4. CASE x.pc = "context" /\ ContextRead(x, y, disk)
    <2>1. /\ DOMAIN y = Fields /\ y.op = x.op /\ y.alone = x.alone
          /\ y.session = x.session /\ y.todo = x.todo /\ y.then = x.then
          /\ y.doomed = x.doomed /\ RouteFits(y.route) /\ y.pc = "route"
      BY <1>4 DEF ContextRead, Same, SameTodo
    <2>2. ClientInv(y) /\ y.pc # "enter"
      BY <1>2, <1>4, <2>1 DEF ClientInv, Writing, Looking
    <2> QED BY <1>1, <1>2, <2>2, SilentTyped
  <1>5. CASE x.pc = "route" /\ RouteRead(x, y)
    <2>1. /\ DOMAIN y = Fields /\ y.op = x.op /\ y.alone = x.alone
          /\ y.session = x.session
          /\ y.doomed = x.doomed /\ RouteFits(y.route) /\ y.then = "refs"
          /\ \/ y.pc = "refs" /\ y.todo = <<>>
             \/ y.pc = "write" /\ \E v : y.todo = <<Write(DiffFile, v)>>
      BY <1>5 DEF RouteRead, Same
    <2>2. x.op = "continue" /\ x.session \in Sessions /\ x.alone \in BOOLEAN
          /\ x.doomed \subseteq SessionFiles
      BY <1>2, <1>5 DEF ClientInv, Looking
    <2>3. CASE y.pc = "refs" /\ y.todo = <<>>
      <3>1. TodoFits(y.todo) /\ Plain(y.todo)
        BY <2>3 DEF TodoFits, Plain
      <3>2. ClientInv(y) /\ y.pc # "enter"
        BY <2>1, <2>2, <2>3, <3>1 DEF ClientInv, Writing, Looking
      <3> QED BY <1>1, <1>2, <3>2, SilentTyped
    <2>4. ASSUME NEW v, y.pc = "write", y.todo = <<Write(DiffFile, v)>>
          PROVE  TypeInv'
      <3>1. PICK w : w = Write(DiffFile, v)
        OBVIOUS
      <3>2. \A s \in Sessions : State(s) \in SessionFiles
        BY FilesOfSession
      <3>3. WriteFits(w) /\ w.file = DiffFile /\ y.todo = <<w>>
        BY <2>4, <3>1, <3>2, OtherFiles DEF WriteFits, ValueFits, Write
      <3>4. TodoFits(y.todo) /\ Plain(y.todo) /\ y.todo # <<>>
        BY <3>3, OtherFiles DEF TodoFits, Plain
      <3>5. ClientInv(y) /\ y.pc # "enter"
        BY <2>1, <2>2, <2>4, <3>4 DEF ClientInv, Writing, Looking
      <3> QED BY <1>1, <1>2, <3>5, SilentTyped
    <2> QED BY <2>1, <2>3, <2>4
  <1>6. CASE x.pc = "refs" /\ StepOpened(x, y)
    <2>1. /\ DOMAIN y = Fields /\ y.op = x.op /\ y.alone = x.alone
          /\ y.session = x.session /\ y.id = x.id
          /\ y.todo = x.todo /\ y.then = x.then /\ y.route = x.route
          /\ y.doomed = x.doomed /\ y.pc = "state"
          /\ x.id \in StepIds(x.route)
      BY <1>6 DEF StepOpened, Same, SameTodo
    <2>2. ClientInv(y) /\ y.pc # "enter"
      BY <1>2, <1>6, <2>1 DEF ClientInv, Writing, Looking
    <2> QED BY <1>1, <1>2, <2>2, SilentTyped
  <1> QED BY <1>1, <1>3, <1>4, <1>5, <1>6, ReadContextDoes, ReadRouteDoes,
             OpenStepDoes

(* What it sets out to write fits its files.                               *)
LEMMA ReadStateTyped ==
    ASSUME TypeInv, NEW c \in Clients, ReadState(c)
    PROVE  TypeInv'
  <1>1. PICK x, y : x = client[c] /\ y = client'[c]
    OBVIOUS
  <1>2. /\ Silent(c) /\ ClientInv(x) /\ x.pc = "state"
        /\ y = Idle \/ StateRead(x, y, disk)
    BY <1>1, ReadStateDoes DEF TypeInv
  <1>3. CASE y = Idle
    BY <1>1, <1>2, <1>3, IdleFits, IdleIs, SilentTyped
  <1>4. CASE StateRead(x, y, disk)
    <2>1. PICK pack, state :
            /\ y.todo = <<Write(Pack(x.session), pack),
                          Write(State(x.session), state)>>
            /\ DOMAIN state = DOMAIN EmptyState
      BY <1>4 DEF StateRead
    <2>2. x.op = "continue" /\ x.session \in Sessions
      BY <1>2 DEF ClientInv, Looking
    <2>3. PICK u, v : u = Write(Pack(x.session), pack)
                      /\ v = Write(State(x.session), state)
      OBVIOUS
    <2>4. WriteFits(u)
      <3>1. u.file = Pack(x.session) /\ u.value = pack
        BY <2>3 DEF Write
      <3>2. u.file \in Files /\ u.file # RouteFile
        BY <2>2, <3>1, FilesOfSession, OtherFiles
      <3>3. \A s \in Sessions : u.file # State(s)
        BY <3>1, PacksDiffer
      <3> QED BY <3>2, <3>3 DEF WriteFits, ValueFits
    <2>5. WriteFits(v)
      <3>1. v.file = State(x.session) /\ v.value = state
        BY <2>3 DEF Write
      <3>2. v.file \in Files /\ v.file # RouteFile
        BY <2>2, <3>1, FilesOfSession, OtherFiles
      <3> QED BY <2>1, <3>1, <3>2 DEF WriteFits, ValueFits
    <2>6. y.todo = <<u, v>>
      BY <2>1, <2>3
    <2>7. TodoFits(y.todo) /\ y.todo # <<>>
      BY <2>4, <2>5, <2>6 DEF TodoFits
    <2>8. /\ DOMAIN y = Fields /\ y.op = x.op /\ y.alone = x.alone
          /\ y.session = x.session /\ y.route = x.route
          /\ y.doomed = x.doomed /\ y.pc = "write" /\ y.then = "done"
      BY <1>4 DEF StateRead, Same, SameRead
    <2>9. ClientInv(y) /\ y.pc # "enter"
      BY <1>2, <2>2, <2>7, <2>8 DEF ClientInv, Writing, Looking
    <2> QED BY <1>1, <1>2, <2>9, SilentTyped
  <1> QED BY <1>2, <1>3, <1>4

(* A file that is truncated is torn, as files may be.                      *)
LEMMA TruncateTyped ==
    ASSUME TypeInv, NEW c \in Clients, Truncate(c)
    PROVE  TypeInv'
  <1>1. PICK x, y, f : x = client[c] /\ y = client'[c] /\ f = x.todo[1].file
    OBVIOUS
  <1>2. /\ x.pc = "write" /\ Only(c)
        /\ Same(x, y) /\ SameRead(x, y) /\ SameTodo(x, y)
        /\ y.pc = "fill"
        /\ disk' = [disk EXCEPT ![f] = Torn]
        /\ UNCHANGED <<evidence, aged, requests, crashes, overlap>>
    BY <1>1, TruncateDoes
  <1>3. ClientInv(x)
    BY <1>1 DEF TypeInv
  <1>4. f \in Files
    BY <1>1, <1>2, <1>3, WriterHasTodo DEF Writing, WriteFits
  <1>5. /\ DOMAIN y = Fields /\ y.op = x.op /\ y.alone = x.alone
        /\ y.session = x.session /\ y.todo = x.todo /\ y.then = x.then
        /\ y.route = x.route /\ y.doomed = x.doomed
    BY <1>2 DEF Same, SameRead, SameTodo
  <1>6. ClientInv(y) /\ y.pc # "enter"
    BY <1>2, <1>3, <1>5 DEF ClientInv, Writing, Looking
  <1>7. ContentFits(f, Torn) /\ Torn # Absent
    BY DEF ContentFits, Torn, Absent
  <1> QED BY <1>1, <1>2, <1>4, <1>6, <1>7, FileTyped

(* A file that is filled holds what was meant for it.                      *)
LEMMA FillTyped ==
    ASSUME TypeInv, NEW c \in Clients, Fill(c)
    PROVE  TypeInv'
  <1>1. PICK x, y, w : x = client[c] /\ y = client'[c] /\ w = x.todo[1]
    OBVIOUS
  <1>2. /\ x.pc = "fill" /\ Only(c)
        /\ disk' = [disk EXCEPT ![w.file] = File(w.value)]
        /\ aged' = aged \ {w.file}
        /\ UNCHANGED <<evidence, requests, crashes, overlap>>
        /\ \/ /\ evidence.scope = "run" /\ y.pc = "enter"
              /\ Same(x, y) /\ SameRead(x, y) /\ SameTodo(x, y)
           \/ GoesOn(x, y, Tail(x.todo))
    BY <1>1, FillDoes
  <1>3. ClientInv(x)
    BY <1>1 DEF TypeInv
  <1>4. TodoFits(x.todo) /\ x.todo # <<>> /\ WriteFits(w)
    BY <1>1, <1>2, <1>3, WriterHasTodo DEF Writing
  <1>5. ClientInv(y) /\ (y.pc = "enter" => evidence.scope = "run")
    <2>1. CASE GoesOn(x, y, Tail(x.todo))
      <3>1. TodoFits(Tail(x.todo)) /\ (Plain(x.todo) => Plain(Tail(x.todo)))
        BY <1>4, TodoIs
      <3>2. x.pc \in Writing
        BY <1>2 DEF Writing
      <3> QED BY <1>3, <2>1, <3>1, <3>2, GoesOnFits
    <2>2. CASE /\ evidence.scope = "run" /\ y.pc = "enter"
               /\ Same(x, y) /\ SameRead(x, y) /\ SameTodo(x, y)
      <3>1. /\ DOMAIN y = Fields /\ y.op = x.op /\ y.alone = x.alone
            /\ y.session = x.session /\ y.todo = x.todo /\ y.then = x.then
            /\ y.route = x.route /\ y.doomed = x.doomed
        BY <2>2 DEF Same, SameRead, SameTodo
      <3> QED BY <1>2, <1>3, <2>2, <3>1 DEF ClientInv, Writing, Looking
    <2> QED BY <1>2, <2>1, <2>2
  <1>6. PICK content : content = File(w.value)
    OBVIOUS
  <1>7. ContentFits(w.file, content) /\ content # Absent
    <2>1. content.value = w.value /\ content.is = "file" /\ Absent.is = "absent"
      BY <1>6 DEF File, Absent
    <2> QED BY <1>4, <1>6, <2>1 DEF ContentFits, WriteFits
  <1>8. w.file \in Files /\ aged' \subseteq aged
    BY <1>2, <1>4 DEF WriteFits
  <1>9. disk' = [disk EXCEPT ![w.file] = content]
    BY <1>2, <1>6
  <1>10. PICK f : f = w.file
    OBVIOUS
  <1> QED BY <1>1, <1>2, <1>5, <1>7, <1>8, <1>9, <1>10, FileTyped

(* The manifest is written as any other file.                              *)
LEMMA EnterTyped ==
    ASSUME TypeInv, NEW c \in Clients, Enter(c)
    PROVE  TypeInv'
  <1>1. PICK x, y, u : /\ x = client[c] /\ y = client'[c]
                       /\ u = Entry(disk, x.todo[1].file)
    OBVIOUS
  <1>2. /\ x.pc = "enter" /\ Silent(c)
        /\ \/ y = Idle
           \/ GoesOn(x, y, Tail(x.todo))
           \/ GoesOn(x, y, <<u>> \o Tail(x.todo))
    BY <1>1, EnterDoes
  <1>3. ClientInv(x) /\ x.pc \in Writing
    BY <1>1, <1>2 DEF TypeInv, Writing
  <1>4. TodoFits(x.todo) /\ x.todo # <<>>
    BY <1>3, WriterHasTodo
  <1>5. WriteFits(u) /\ u.file \notin SessionFiles
    <2>1. u.file = ManifestFile
      BY <1>1 DEF Entry, Write
    <2>2. \A s \in Sessions : State(s) \in SessionFiles
      BY FilesOfSession
    <2> QED BY <2>1, <2>2, OtherFiles DEF WriteFits, ValueFits
  <1>6. TodoFits(Tail(x.todo)) /\ (Plain(x.todo) => Plain(Tail(x.todo)))
    BY <1>4, TodoIs
  <1>7. /\ TodoFits(<<u>> \o Tail(x.todo))
        /\ Plain(x.todo) => Plain(<<u>> \o Tail(x.todo))
    BY <1>4, <1>5, EntryFits
  <1>8. ClientInv(y) /\ y.pc # "enter"
    <2>1. CASE y = Idle
      BY <2>1, IdleFits, IdleIs
    <2>2. CASE GoesOn(x, y, Tail(x.todo))
      BY <1>3, <1>6, <2>2, GoesOnFits
    <2>3. CASE GoesOn(x, y, <<u>> \o Tail(x.todo))
      BY <1>3, <1>7, <2>3, GoesOnFits
    <2> QED BY <1>2, <2>1, <2>2, <2>3
  <1> QED BY <1>1, <1>2, <1>8, SilentTyped

(* Only session files are to be deleted,                                   *)
LEMMA ListFilesTyped ==
    ASSUME TypeInv, NEW c \in Clients, ListFiles(c)
    PROVE  TypeInv'
  <1>1. PICK x, y : x = client[c] /\ y = client'[c]
    OBVIOUS
  <1>2. /\ Silent(c) /\ ClientInv(x) /\ x.pc = "list"
        /\ FilesListed(x, y, disk, aged)
    BY <1>1, ListFilesDoes DEF TypeInv
  <1>3. y.doomed \subseteq SessionFiles
    <2>1. Present(disk) \subseteq SessionFiles
      BY DEF Present
    <2>2. Excess(Present(disk)) \subseteq Present(disk)
      BY <2>1, ExcessLeaves
    <2> QED BY <1>2, <2>1, <2>2 DEF FilesListed
  <1>4. /\ DOMAIN y = Fields /\ y.op = x.op /\ y.alone = x.alone
        /\ y.session = x.session /\ y.todo = x.todo /\ y.then = x.then
        /\ y.route = x.route /\ y.pc = "delete"
    BY <1>2 DEF FilesListed, Same, SameTodo
  <1>5. ClientInv(y) /\ y.pc # "enter"
    BY <1>2, <1>3, <1>4 DEF ClientInv, Writing, Looking
  <1> QED BY <1>1, <1>2, <1>5, SilentTyped

(* and they are deleted one by one.                                        *)
LEMMA DeleteTyped ==
    ASSUME TypeInv, NEW c \in Clients, Delete(c)
    PROVE  TypeInv'
  <1>1. PICK x, y : x = client[c] /\ y = client'[c]
    OBVIOUS
  <1>2. /\ x.pc = "delete" /\ Only(c)
        /\ UNCHANGED <<evidence, requests, crashes, overlap>>
        /\ \/ /\ x.doomed = {} /\ y.pc = "done"
              /\ Same(x, y) /\ SameRead(x, y) /\ SameTodo(x, y)
              /\ UNCHANGED <<disk, aged>>
           \/ \E f \in x.doomed :
                 /\ FileDeleted(x, y, disk, f)
                 /\ disk' = [disk EXCEPT ![f] = Absent]
                 /\ aged' = aged \ {f}
    BY <1>1, DeleteDoes
  <1>3. ClientInv(x)
    BY <1>1 DEF TypeInv
  <1>4. CASE /\ x.doomed = {} /\ y.pc = "done"
             /\ Same(x, y) /\ SameRead(x, y) /\ SameTodo(x, y)
             /\ UNCHANGED <<disk, aged>>
    <2>1. /\ DOMAIN y = Fields /\ y.op = x.op /\ y.alone = x.alone
          /\ y.session = x.session /\ y.todo = x.todo /\ y.then = x.then
          /\ y.route = x.route /\ y.doomed = x.doomed
      BY <1>4 DEF Same, SameRead, SameTodo
    <2>2. ClientInv(y)
      BY <1>2, <1>3, <1>4, <2>1 DEF ClientInv, Writing, Looking
    <2> QED BY <1>1, <1>2, <1>4, <2>2 DEF Only, TypeInv
  <1>5. ASSUME NEW f \in x.doomed, FileDeleted(x, y, disk, f),
               disk' = [disk EXCEPT ![f] = Absent], aged' = aged \ {f}
        PROVE  TypeInv'
    <2>1. f \in SessionFiles
      BY <1>3 DEF ClientInv
    <2>2. f \in Files /\ f # ManifestFile
      BY <2>1, OtherFiles DEF Files
    <2>3. ClientInv(y) /\ y.pc # "enter"
      <3>1. CASE y = Idle
        BY <3>1, IdleFits, IdleIs
      <3>2. CASE y # Idle
        <4>1. /\ DOMAIN y = Fields /\ y.op = x.op /\ y.alone = x.alone
              /\ y.session = x.session /\ y.todo = x.todo /\ y.then = x.then
              /\ y.route = x.route /\ y.doomed \subseteq x.doomed
              /\ y.pc = "delete"
          BY <1>5, <3>2 DEF FileDeleted, Same, SameTodo
        <4> QED BY <1>2, <1>3, <4>1 DEF ClientInv, Writing, Looking
      <3> QED BY <3>1, <3>2
    <2>4. ContentFits(f, Absent)
      BY DEF ContentFits
    <2>5. aged' \subseteq aged
      BY <1>5
    <2> QED BY <1>1, <1>2, <1>5, <2>2, <2>3, <2>4, <2>5, FileTyped
  <1> QED BY <1>2, <1>4, <1>5

(* A client that stops is idle, and well typed.                            *)
LEMMA StopTyped ==
    ASSUME TypeInv, NEW c \in Clients, Return(c) \/ Kill(c)
    PROVE  TypeInv'
  <1>1. CASE Return(c)
    BY <1>1, ReturnDoes, IdleFits, IdleIs, SilentTyped
  <1>2. CASE Kill(c)
    <2>1. /\ Only(c) /\ client'[c] = Idle
          /\ UNCHANGED <<evidence, disk, aged, requests, overlap>>
          /\ crashes < MaxCrashes /\ crashes' = crashes + 1
      BY <1>2, KillDoes
    <2>2. crashes' \in 0 .. MaxCrashes
      BY <2>1, SessionAssumption DEF TypeInv
    <2>3. ClientInv(client'[c]) /\ client'[c].pc # "enter"
      BY <2>1, IdleFits, IdleIs
    <2> QED BY <2>1, <2>2, <2>3 DEF Only, TypeInv
  <1> QED BY <1>1, <1>2

(* Days pass only when nobody is active.                                   *)
LEMMA AgeDoes ==
    ASSUME NEW f \in SessionFiles, Age(f)
    PROVE  /\ Active = {} /\ aged' = aged \cup {f}
           /\ UNCHANGED <<evidence, disk, client, requests, crashes, overlap>>
  BY DEF Age

(* Next, with one name for each kind of step.                              *)
Begins(c) == \E request : Fresh(request, disk) /\ Begin(c, request)

Goes(c) ==
    \/ BuildRoute(c) \/ ReadContext(c) \/ ReadRoute(c) \/ OpenStep(c)
    \/ ReadState(c) \/ Truncate(c) \/ Fill(c) \/ Enter(c)
    \/ Return(c) \/ ListFiles(c) \/ Delete(c) \/ Kill(c)

(* Every step begins a request, or goes on with one, or days pass.         *)
LEMMA NextIs ==
    ASSUME TypeInv, Next
    PROVE  \/ \E c \in Clients : Begins(c) \/ Goes(c)
           \/ \E f \in SessionFiles : Age(f)
  <1>1. ASSUME NEW c \in Clients, Start(c) \/ Continue(c) \/ CleanUp(c)
        PROVE  Begins(c)
    BY <1>1, StartDoes, ContinueDoes, CleanUpDoes DEF Begins
  <1>2. ASSUME NEW c \in Clients, ClientStep(c) \/ Kill(c)
        PROVE  Goes(c)
    BY <1>2 DEF ClientStep, Goes
  <1> QED BY <1>1, <1>2 DEF Next

(* The types stay right.                                                   *)
LEMMA TypeStep ==
    ASSUME TypeInv, [Next]_vars
    PROVE  TypeInv'
  <1>1. CASE UNCHANGED vars
    BY <1>1 DEF vars, TypeInv
  <1>2. ASSUME NEW c \in Clients, Begins(c)
        PROVE  TypeInv'
    BY <1>2, BeginTyped DEF Begins
  <1>3. ASSUME NEW c \in Clients, Goes(c)
        PROVE  TypeInv'
    BY <1>3, BuildRouteTyped, ReadingTyped, ReadStateTyped, TruncateTyped,
       FillTyped, EnterTyped, ListFilesTyped, DeleteTyped, StopTyped DEF Goes
  <1>4. ASSUME NEW f \in SessionFiles, Age(f)
        PROVE  TypeInv'
    <2>1. /\ aged' = aged \cup {f}
          /\ UNCHANGED <<evidence, disk, client, requests, crashes, overlap>>
      BY <1>4, AgeDoes
    <2> QED BY <2>1 DEF TypeInv
  <1> QED BY <1>1, <1>2, <1>3, <1>4, NextIs

(* TypeInv says more than TypeOK.                                          *)
LEMMA TypeInvGives ==
    ASSUME TypeInv
    PROVE  TypeOK
  <1>1. \A f \in Files : ContentFits(f, disk[f])
    BY DEF TypeInv
  <1>2. ASSUME NEW f \in Files
        PROVE  /\ disk[f].is \in {"absent", "torn", "file"}
               /\ disk[f].is = "file" => ValueFits(f, disk[f].value)
    <2>1. PICK x : x = disk[f]
      OBVIOUS
    <2>2. CASE x = Absent
      BY <2>1, <2>2 DEF Absent
    <2>3. CASE x = Torn
      BY <2>1, <2>3 DEF Torn
    <2>4. CASE x = File(x.value) /\ ValueFits(f, x.value)
      <3>1. x.is = "file"
        BY <2>4 DEF File
      <3> QED BY <2>1, <2>4, <3>1
    <2> QED BY <1>1, <2>1, <2>2, <2>3, <2>4 DEF ContentFits
  <1>3. disk[RouteFile].is = "file" =>
            \A k \in DOMAIN disk[RouteFile].value :
                disk[RouteFile].value[k].id \in {"IR001", "IR002", "IR003", "IR-DQ"}
    BY <1>2, OtherFiles DEF ValueFits, RouteFits, Ids
  <1>4. \A s \in Sessions : disk[State(s)].is = "file" =>
            DOMAIN disk[State(s)].value = DOMAIN EmptyState
    BY <1>2, FilesOfSession DEF ValueFits
  <1>5. /\ evidence \in Evidences /\ aged \subseteq SessionFiles
        /\ requests \in 0 .. MaxRequests /\ crashes \in 0 .. MaxCrashes
    BY DEF TypeInv
  <1> QED BY <1>2, <1>3, <1>4, <1>5 DEF TypeOK

(* Every file is absent, torn or whole, a route has only ids that a step   *)
(* can have, and a session state only its own fields, whoever wrote them   *)
(* and was killed on the way.                                              *)
THEOREM SessionTypeCorrect == Spec => []TypeOK
  <1>1. Init => TypeInv
    BY InitTyped
  <1>2. TypeInv /\ [Next]_vars => TypeInv'
    BY TypeStep
  <1>3. TypeInv => TypeOK
    BY TypeInvGives
  <1> QED BY <1>1, <1>2, <1>3, PTL DEF Spec

----------------------------------------------------------------------------
(* Being alone.                                                            *)

(* A step of an active client leaves those alone that are.                 *)
LEMMA GoesAlone ==
    ASSUME TypeInv, AloneInv, NEW c \in Clients, client[c].pc # "idle",
           Only(c), overlap' = overlap,
           \/ client'[c] = Idle
           \/ client'[c].alone = client[c].alone /\ client'[c].pc # "idle"
    PROVE  AloneInv'
  <1>1. /\ DOMAIN client' = Clients
        /\ \A d \in Clients \ {c} : client'[d] = client[d]
    BY DEF Only
  <1>2. c \in Active
    BY DEF Active
  <1>3. \A d \in Clients \ {c} : ~(client[d].alone)
    BY <1>2 DEF AloneInv
  <1>4. Idle.alone = FALSE /\ Idle.pc = "idle"
    BY IdleIs
  <1>5. CASE client'[c] = Idle
    <2>1. \A d \in Clients : ~(client'[d].alone)
      BY <1>1, <1>3, <1>4, <1>5, Zenon
    <2>2. Active' \subseteq Active
      BY <1>1, <1>4, <1>5 DEF Active
    <2>3. c \notin Active'
      BY <1>4, <1>5 DEF Active
    <2>4. ~overlap => Active' = {}
      BY <1>2, <1>3, <2>2, <2>3 DEF AloneInv, Active
    <2> QED BY <2>1, <2>4 DEF AloneInv
  <1>6. CASE client'[c].alone = client[c].alone /\ client'[c].pc # "idle"
    <2>1. Active' = Active
      BY <1>1, <1>6 DEF Active
    <2>2. \A d \in Clients : client'[d].alone <=> client[d].alone
      BY <1>1, <1>6, Zenon
    <2> QED BY <2>1, <2>2 DEF AloneInv, Active
  <1> QED BY <1>5, <1>6

(* A request that begins is alone if nobody is active, and else leaves     *)
(* nobody alone.                                                           *)
LEMMA BeginAlone ==
    ASSUME TypeInv, AloneInv, NEW c \in Clients, Begins(c)
    PROVE  AloneInv'
  <1>1. PICK request : Fresh(request, disk) /\ Begin(c, request)
    BY DEF Begins
  <1>2. /\ client[c].pc = "idle" /\ DOMAIN client' = Clients
        /\ client'[c].alone \in BOOLEAN /\ (client'[c].alone <=> Active = {})
        /\ \A d \in Clients \ {c} : client'[d] = Overlapped(client[d])
        /\ overlap' = (overlap \/ Active # {})
    BY <1>1, BeginDoes
  <1>3. client'[c].pc # "idle"
    BY <1>1, BeginTyped DEF Fresh
  <1>4. ASSUME NEW d \in Clients \ {c}
        PROVE  /\ client'[d].alone = FALSE
               /\ client'[d].pc = client[d].pc
    <2>1. ClientInv(client[d])
      BY DEF TypeInv
    <2>2. client'[d].pc = client[d].pc
      BY <1>2, <2>1, OverlappedFits
    <2>3. CASE client[d].pc = "idle"
      <3>1. client'[d] = Idle
        BY <1>2, <2>1, <2>3 DEF ClientInv, Overlapped
      <3> QED BY <2>2, <3>1, IdleIs
    <2>4. CASE client[d].pc # "idle"
      <3>1. PICK x : x = client[d]
        OBVIOUS
      <3>2. DOMAIN x = Fields
        BY <2>1, <3>1 DEF ClientInv
      <3>3. client'[d] = [x EXCEPT !.alone = FALSE]
        BY <1>2, <2>4, <3>1 DEF Overlapped
      <3>4. client'[d].alone = FALSE
        BY <3>2, <3>3 DEF Fields
      <3> QED BY <2>2, <3>4
    <2> QED BY <2>3, <2>4
  <1>5. Active' = Active \cup {c}
    BY <1>2, <1>3, <1>4 DEF Active
  <1>6. CASE Active = {}
    <2>1. client'[c].alone
      BY <1>2, <1>6
    <2>2. Active' = {c}
      BY <1>5, <1>6
    <2>3. \A d \in Clients : client'[d].alone => d = c
      BY <1>4
    <2> QED BY <2>1, <2>2, <2>3 DEF AloneInv
  <1>7. CASE Active # {}
    <2>1. overlap'
      BY <1>2, <1>7
    <2>2. ~(client'[c].alone)
      BY <1>2, <1>7
    <2>3. \A d \in Clients : ~(client'[d].alone)
      BY <1>4, <2>2
    <2> QED BY <2>1, <2>3 DEF AloneInv
  <1> QED BY <1>6, <1>7

----------------------------------------------------------------------------
(* What a client that is alone leaves behind, step by step.  Here x is the *)
(* client and d the disk before the step, y and d2 are those after it.     *)

(* Only continuations and clean-ups are of interest.                       *)
LEMMA OthersLone ==
    ASSUME NEW x, x.op \notin {"continue", "cleanup"}, NEW d, NEW e
    PROVE  LoneFits(x, d, e)
  BY DEF LoneFits

(* An idle client does not matter.                                         *)
LEMMA IdleLone ==
    ASSUME NEW d, NEW e
    PROVE  LoneFits(Idle, d, e)
  BY IdleIs, OthersLone

(* A continuation that has begun or goes on reading has changed nothing.   *)
LEMMA ReadsOn ==
    ASSUME NEW x, NEW y, NEW d, NEW e, Same(x, y), Reads(x, d, e),
           y.pc \in Looking
           \/ (y.pc = "write" /\ y.then = "refs"
               /\ \E v : y.todo = <<Write(DiffFile, v)>>),
           x.pc = "context" => Whole(d, e)
    PROVE  Continues(y, d, e)
  <1>1. d[State(y.session)] = y.before /\ Whole(d, e)
    BY DEF Reads, Same
  <1> QED BY <1>1 DEF Reads, Continues

(* What it is to write remembers what it has read.                         *)
LEMMA StateReadLone ==
    ASSUME NEW x, NEW y, NEW d, NEW e, x.pc = "state", Reads(x, d, e),
           StateRead(x, y, d)
    PROVE  Continues(y, d, e)
  <1>1. PICK pack, state :
        /\ y.todo = <<Write(Pack(x.session), pack),
                      Write(State(x.session), state)>>
        /\ Agree(pack, state)
        /\ state.steps = Known(d[State(x.session)]).steps \cup {x.id}
        /\ state.refs = Known(d[State(x.session)]).refs \cup x.opening.refs
        /\ Known(d[State(x.session)]).evaluations \subseteq state.evaluations
        /\ Known(d[State(x.session)]).unknowns \subseteq state.unknowns
    BY DEF StateRead
  <1>2. d[State(x.session)] = x.before /\ Whole(d, e)
    BY DEF Reads
  <1>3. /\ y.session = x.session /\ y.id = x.id /\ y.before = x.before
        /\ y.opening = x.opening /\ y.pc = "write" /\ y.then = "done"
    BY DEF StateRead, Same, SameRead
  <1>4. Before(y) = Known(d[State(x.session)])
    BY <1>2, <1>3 DEF Before, Known
  <1>5. Remembers(y, state)
    BY <1>1, <1>3, <1>4 DEF Remembers
  <1>6. WritesPack(y, d, e)
    BY <1>1, <1>2, <1>3, <1>5 DEF WritesPack
  <1> QED BY <1>3, <1>6 DEF Writes, Continues, Writing

(* A change of another file is not seen.                                   *)
LEMMA OtherFile ==
    ASSUME NEW d, NEW f, NEW content, NEW d2, d2 = [d EXCEPT ![f] = content],
           NEW g, g # f
    PROVE  d2[g] = d[g]
  OBVIOUS

(* Requests that are the same remember the same.                           *)
LEMMA SameRemembers ==
    ASSUME NEW x, NEW y, Same(x, y), y.opening = x.opening, NEW state
    PROVE  Remembers(y, state) <=> Remembers(x, state)
  BY DEF Remembers, Before, Same

(* The three files that a continuation writes are different.               *)
LEMMA SessionFilesDiffer ==
    ASSUME NEW s \in Sessions
    PROVE  /\ Pack(s) # State(s) /\ Pack(s) # ManifestFile
           /\ State(s) # ManifestFile /\ Pack(s) # DiffFile
           /\ State(s) # DiffFile
  BY FilesOfSession, PacksDiffer, OtherFiles

(* A file that is truncated is the one that is to be written.              *)
LEMMA TruncateLone ==
    ASSUME NEW x, ClientInv(x), x.op = "continue", x.pc = "write",
           NEW y, Same(x, y), SameRead(x, y), SameTodo(x, y), y.pc = "fill",
           NEW d, DOMAIN d = Files, NEW e, Continues(x, d, e),
           NEW d2, d2 = [d EXCEPT ![x.todo[1].file] = Torn]
    PROVE  Continues(y, d2, e)
  <1>1. PICK s \in Sessions : s = x.session
    BY DEF ClientInv
  <1>2. /\ y.session = s /\ y.before = x.before /\ y.opening = x.opening
        /\ y.todo = x.todo /\ y.then = x.then
    BY <1>1 DEF Same, SameRead, SameTodo
  <1>3. /\ Pack(s) # State(s) /\ Pack(s) # ManifestFile
        /\ State(s) # ManifestFile /\ Pack(s) # DiffFile
        /\ State(s) # DiffFile /\ ManifestFile # DiffFile
    BY SessionFilesDiffer, OtherFiles
  <1>4. \A state : Remembers(y, state) <=> Remembers(x, state)
    BY <1>2, SameRemembers
  <1>5. ASSUME NEW f, NEW v, NEW rest, x.todo[1] = Write(f, v), NEW g, g # f
        PROVE  d2[g] = d[g]
    <2>1. x.todo[1].file = f
      BY <1>5 DEF Write
    <2> QED BY <1>5, <2>1, OtherFile
  <1>6. CASE Reads(x, d, e)
    <2>1. PICK v : x.then = "refs" /\ x.todo = <<Write(DiffFile, v)>>
      BY <1>6 DEF Reads, Looking
    <2>2. x.todo[1] = Write(DiffFile, v)
      BY <2>1
    <2>3. d2[State(s)] = d[State(s)] /\ d2[ManifestFile] = d[ManifestFile]
      BY <1>3, <1>5, <2>2
    <2>4. d[State(s)] = x.before /\ Whole(d, e)
      BY <1>1, <1>6 DEF Reads
    <2> QED BY <1>2, <2>1, <2>3, <2>4 DEF Reads, Whole, Continues
  <1>7. CASE Writes(x, d, e)
    <2>1. /\ x.then = "done"
          /\ \/ WritesPack(x, d, e)  \/ EntersPack(x, d, e)
             \/ WritesState(x, d, e) \/ EntersState(x, d, e)
      BY <1>7 DEF Writes
    <2>2. CASE WritesPack(x, d, e)
      <3>1. PICK pack, state :
            /\ x.todo = <<Write(Pack(s), pack), Write(State(s), state)>>
            /\ d[State(s)] = x.before /\ Whole(d, e)
            /\ Remembers(x, state) /\ Agree(pack, state)
        BY <1>1, <2>2 DEF WritesPack
      <3>2. x.todo[1] = Write(Pack(s), pack)
        BY <3>1
      <3>3. d2[State(s)] = d[State(s)] /\ d2[ManifestFile] = d[ManifestFile]
        BY <1>3, <1>5, <3>2
      <3>4. WritesPack(y, d2, e)
        BY <1>2, <1>4, <3>1, <3>3 DEF WritesPack, Whole
      <3> QED BY <1>2, <2>1, <3>4 DEF Writes, Writing, Continues
    <2>3. CASE EntersPack(x, d, e)
      <3>1. PICK manifest, state :
            /\ x.todo = <<Write(ManifestFile, manifest), Write(State(s), state)>>
            /\ Remembers(x, state) /\ Agree(d[Pack(s)].value, state)
            /\ Has(manifest, d, Pack(s))
        BY <1>1, <2>3 DEF EntersPack
      <3>2. e.scope = "run" /\ d[State(s)] = x.before /\ d[Pack(s)].is = "file"
        BY <1>1, <2>3 DEF EntersPack
      <3>3. x.todo[1] = Write(ManifestFile, manifest)
        BY <3>1
      <3>4. d2[State(s)] = d[State(s)] /\ d2[Pack(s)] = d[Pack(s)]
        BY <1>3, <1>5, <3>3
      <3>5. EntersPack(y, d2, e)
        BY <1>2, <1>4, <3>1, <3>2, <3>4 DEF EntersPack, Has
      <3> QED BY <1>2, <2>1, <3>5 DEF Writes, Writing, Continues
    <2>4. CASE WritesState(x, d, e)
      <3>1. PICK state :
            /\ x.todo = <<Write(State(s), state)>>
            /\ Remembers(x, state) /\ Agree(d[Pack(s)].value, state)
        BY <1>1, <2>4 DEF WritesState
      <3>2. d[Pack(s)].is = "file" /\ Indexed(d, e, Pack(s))
        BY <1>1, <2>4 DEF WritesState
      <3>3. x.todo[1] = Write(State(s), state)
        BY <3>1
      <3>4. d2[ManifestFile] = d[ManifestFile] /\ d2[Pack(s)] = d[Pack(s)]
        BY <1>3, <1>5, <3>3
      <3>5. WritesState(y, d2, e)
        BY <1>2, <1>4, <3>1, <3>2, <3>4 DEF WritesState, Indexed, Has
      <3> QED BY <1>2, <2>1, <3>5 DEF Writes, Writing, Continues
    <2>5. CASE EntersState(x, d, e)
      <3>1. PICK manifest :
            /\ x.todo = <<Write(ManifestFile, manifest)>>
            /\ Has(manifest, d, Pack(s)) /\ Has(manifest, d, State(s))
        BY <1>1, <2>5 DEF EntersState
      <3>2. /\ e.scope = "run" /\ d[Pack(s)].is = "file" /\ d[State(s)].is = "file"
            /\ Remembers(x, d[State(s)].value)
            /\ Agree(d[Pack(s)].value, d[State(s)].value)
        BY <1>1, <2>5 DEF EntersState, BothWritten
      <3>3. x.todo[1] = Write(ManifestFile, manifest)
        BY <3>1
      <3>4. d2[State(s)] = d[State(s)] /\ d2[Pack(s)] = d[Pack(s)]
        BY <1>3, <1>5, <3>3
      <3>5. BothWritten(y, d2)
        BY <1>2, <1>4, <3>2, <3>4 DEF BothWritten
      <3>6. EntersState(y, d2, e)
        BY <1>2, <3>1, <3>2, <3>4, <3>5 DEF EntersState, Has
      <3> QED BY <1>2, <2>1, <3>6 DEF Writes, Writing, Continues
    <2> QED BY <2>1, <2>2, <2>3, <2>4, <2>5
  <1>8. ~Leaves(x, d, e)
    BY DEF Leaves
  <1> QED BY <1>6, <1>7, <1>8 DEF Continues


(* Where a client goes when it has filled the file of w.                   *)
Filled(x, y, e, w) ==
    LET entered == e.scope = "run" /\ w.file \in SessionFiles \cup {RouteFile}
    IN  \/ /\ entered /\ y.pc = "enter"
           /\ Same(x, y) /\ SameRead(x, y) /\ SameTodo(x, y)
        \/ ~entered /\ GoesOn(x, y, Tail(x.todo))

(* It is the same request, whose session it goes on with.                  *)
LEMMA FilledSame ==
    ASSUME NEW x, NEW y, NEW e, NEW w, Filled(x, y, e, w)
    PROVE  /\ Same(x, y) /\ y.then = x.then
           /\ y.session = x.session /\ y.before = x.before
           /\ y.opening = x.opening
           /\ \A state : Remembers(y, state) <=> Remembers(x, state)
  <1>1. Same(x, y) /\ y.then = x.then /\ y.opening = x.opening
    BY DEF Filled, GoesOn, SameTodo, SameRead
  <1> QED BY <1>1, SameRemembers DEF Same

(* A file that the manifest does not have leads to the next one.           *)
LEMMA FilledOther ==
    ASSUME NEW x, NEW y, NEW e, NEW w, Filled(x, y, e, w),
           w.file \in {DiffFile, ManifestFile} \/ e.scope # "run"
    PROVE  /\ y.todo = Tail(x.todo)
           /\ y.pc = IF Tail(x.todo) = <<>> THEN x.then ELSE "write"
  <1>1. ~(e.scope = "run" /\ w.file \in SessionFiles \cup {RouteFile})
    BY OtherFiles
  <1> QED BY <1>1 DEF Filled, GoesOn

(* A file of the session of a run is entered.                              *)
LEMMA FilledSession ==
    ASSUME NEW x, NEW y, NEW e, NEW w, Filled(x, y, e, w),
           w.file \in SessionFiles, e.scope = "run"
    PROVE  y.todo = x.todo /\ y.pc = "enter"
  BY DEF Filled, SameTodo

(* What is first, and what is left, of one or two files.                   *)
LEMMA TodoAre ==
    ASSUME NEW u, NEW v
    PROVE  /\ <<u>>[1] = u /\ Tail(<<u>>) = <<>>
           /\ <<u, v>>[1] = u /\ Tail(<<u, v>>) = <<v>>
           /\ <<u>> # <<>> /\ <<u, v>> # <<>>
  OBVIOUS

(* The comparison does not touch the session.                              *)
LEMMA FillReadsLone ==
    ASSUME NEW x, ClientInv(x), x.op = "continue", x.pc = "fill",
           NEW d, DOMAIN d = Files, NEW e, Reads(x, d, e),
           NEW y, NEW w, w = x.todo[1], Filled(x, y, e, w),
           NEW d2, d2 = [d EXCEPT ![w.file] = File(w.value)]
    PROVE  Continues(y, d2, e)
  <1>1. PICK s \in Sessions : s = x.session
    BY DEF ClientInv
  <1>2. PICK v : x.then = "refs" /\ x.todo = <<Write(DiffFile, v)>>
    BY DEF Reads, Looking
  <1>3. PICK u : u = Write(DiffFile, v)
    OBVIOUS
  <1>4. w = u /\ Tail(x.todo) = <<>> /\ w.file = DiffFile
    <2>1. x.todo = <<u>>
      BY <1>2, <1>3
    <2>2. x.todo[1] = u /\ Tail(x.todo) = <<>>
      BY <2>1, TodoAre
    <2> QED BY <1>3, <2>2 DEF Write
  <1>5. d2[State(s)] = d[State(s)] /\ d2[ManifestFile] = d[ManifestFile]
    BY <1>4, SessionFilesDiffer, OtherFiles, OtherFile
  <1>6. y.pc = "refs"
    BY <1>2, <1>4, FilledOther
  <1>7. y.session = s /\ y.before = x.before
    BY <1>1, FilledSame
  <1>8. d[State(s)] = x.before /\ Whole(d, e)
    BY <1>1 DEF Reads
  <1> QED BY <1>5, <1>6, <1>7, <1>8 DEF Reads, Whole, Continues, Looking

(* The pack is as the client means it: it is entered, or the state is next.*)
LEMMA FillPackLone ==
    ASSUME NEW x, ClientInv(x), x.op = "continue", x.pc = "fill",
           x.then = "done",
           NEW d, DOMAIN d = Files, NEW e, WritesPack(x, d, e),
           NEW y, NEW w, w = x.todo[1], Filled(x, y, e, w),
           NEW d2, d2 = [d EXCEPT ![w.file] = File(w.value)]
    PROVE  Continues(y, d2, e)
  <1>1. PICK s \in Sessions : s = x.session
    BY DEF ClientInv
  <1>2. PICK pack, state :
        /\ x.todo = <<Write(Pack(s), pack), Write(State(s), state)>>
        /\ d[State(s)] = x.before /\ Whole(d, e)
        /\ Remembers(x, state) /\ Agree(pack, state)
    BY <1>1 DEF WritesPack
  <1>3. PICK u, v : u = Write(Pack(s), pack) /\ v = Write(State(s), state)
    OBVIOUS
  <1>4. x.todo = <<u, v>> /\ w = u /\ Tail(x.todo) = <<v>>
    <2>1. x.todo = <<u, v>>
      BY <1>2, <1>3
    <2> QED BY <2>1, TodoAre
  <1>5. w.file = Pack(s) /\ w.value = pack
    BY <1>3, <1>4 DEF Write
  <1>6. Pack(s) \in SessionFiles /\ Pack(s) \in Files
    BY FilesOfSession
  <1>7. /\ d2[State(s)] = d[State(s)] /\ d2[ManifestFile] = d[ManifestFile]
        /\ d2[Pack(s)] = File(pack)
    <2>1. State(s) # w.file /\ ManifestFile # w.file
      BY <1>5, SessionFilesDiffer
    <2> QED BY <1>5, <1>6, <2>1
  <1>8. /\ y.session = s /\ y.before = x.before /\ y.then = "done"
        /\ Remembers(y, state)
    BY <1>1, <1>2, FilledSame
  <1>9. CASE e.scope = "run"
    <2>1. y.todo = x.todo /\ y.pc = "enter"
      BY <1>5, <1>6, <1>9, FilledSession
    <2>2. WritesPack(y, d2, e)
      BY <1>2, <1>7, <1>8, <2>1 DEF WritesPack, Whole
    <2> QED BY <1>8, <2>1, <2>2 DEF Continues, Writes, Writing
  <1>10. CASE e.scope # "run"
    <2>1. y.todo = <<v>> /\ y.pc = "write"
      <3>1. /\ y.todo = Tail(x.todo)
            /\ y.pc = IF Tail(x.todo) = <<>> THEN x.then ELSE "write"
        BY <1>10, FilledOther
      <3>2. Tail(x.todo) = <<v>> /\ Tail(x.todo) # <<>>
        BY <1>4
      <3> QED BY <3>1, <3>2
    <2>2. d2[Pack(s)].is = "file" /\ d2[Pack(s)].value = pack
      BY <1>7 DEF File
    <2>3. Indexed(d2, e, Pack(s))
      BY <1>10 DEF Indexed
    <2>4. WritesState(y, d2, e)
      BY <1>2, <1>3, <1>8, <2>1, <2>2, <2>3 DEF WritesState
    <2> QED BY <1>8, <2>1, <2>4 DEF Continues, Writes, Writing
  <1> QED BY <1>9, <1>10

(* With the pack in the manifest the state is next.                        *)
LEMMA FillPackEntryLone ==
    ASSUME NEW x, ClientInv(x), x.op = "continue", x.pc = "fill",
           x.then = "done",
           NEW d, DOMAIN d = Files, NEW e, EntersPack(x, d, e),
           NEW y, NEW w, w = x.todo[1], Filled(x, y, e, w),
           NEW d2, d2 = [d EXCEPT ![w.file] = File(w.value)]
    PROVE  Continues(y, d2, e)
  <1>1. PICK s \in Sessions : s = x.session
    BY DEF ClientInv
  <1>2. PICK manifest, state :
        /\ x.todo = <<Write(ManifestFile, manifest), Write(State(s), state)>>
        /\ Remembers(x, state) /\ Agree(d[Pack(s)].value, state)
        /\ Has(manifest, d, Pack(s))
    BY <1>1 DEF EntersPack
  <1>3. d[Pack(s)].is = "file"
    BY <1>1 DEF EntersPack
  <1>4. PICK u, v : u = Write(ManifestFile, manifest) /\ v = Write(State(s), state)
    OBVIOUS
  <1>5. w = u /\ Tail(x.todo) = <<v>>
    <2>1. x.todo = <<u, v>>
      BY <1>2, <1>4
    <2> QED BY <2>1, TodoAre
  <1>6. w.file = ManifestFile /\ w.value = manifest
    BY <1>4, <1>5 DEF Write
  <1>7. d2[Pack(s)] = d[Pack(s)] /\ d2[ManifestFile] = File(manifest)
    <2>1. Pack(s) # w.file
      BY <1>6, SessionFilesDiffer
    <2>2. ManifestFile \in Files
      BY OtherFiles
    <2> QED BY <1>6, <2>1, <2>2
  <1>8. /\ y.session = s /\ y.before = x.before /\ y.then = "done"
        /\ Remembers(y, state)
    BY <1>1, <1>2, FilledSame
  <1>9. y.todo = <<v>> /\ y.pc = "write"
    <2>1. /\ y.todo = Tail(x.todo)
          /\ y.pc = IF Tail(x.todo) = <<>> THEN x.then ELSE "write"
      BY <1>6, FilledOther
    <2>2. Tail(x.todo) = <<v>> /\ Tail(x.todo) # <<>>
      BY <1>5
    <2> QED BY <2>1, <2>2
  <1>10. Indexed(d2, e, Pack(s))
    BY <1>2, <1>7 DEF Indexed, Has, File
  <1>11. WritesState(y, d2, e)
    BY <1>2, <1>3, <1>4, <1>7, <1>8, <1>9, <1>10 DEF WritesState
  <1> QED BY <1>8, <1>9, <1>11 DEF Continues, Writes, Writing

(* The state is as the client means it: it is entered, or all is done.     *)
LEMMA FillStateLone ==
    ASSUME NEW x, ClientInv(x), x.op = "continue", x.pc = "fill",
           x.then = "done",
           NEW d, DOMAIN d = Files, NEW e, WritesState(x, d, e),
           NEW y, NEW w, w = x.todo[1], Filled(x, y, e, w),
           NEW d2, d2 = [d EXCEPT ![w.file] = File(w.value)]
    PROVE  Continues(y, d2, e)
  <1>1. PICK s \in Sessions : s = x.session
    BY DEF ClientInv
  <1>2. PICK state :
        /\ x.todo = <<Write(State(s), state)>>
        /\ Remembers(x, state) /\ Agree(d[Pack(s)].value, state)
    BY <1>1 DEF WritesState
  <1>3. d[Pack(s)].is = "file" /\ Indexed(d, e, Pack(s))
    BY <1>1 DEF WritesState
  <1>4. PICK u : u = Write(State(s), state)
    OBVIOUS
  <1>5. w = u /\ Tail(x.todo) = <<>>
    <2>1. x.todo = <<u>>
      BY <1>2, <1>4
    <2> QED BY <2>1, TodoAre
  <1>6. w.file = State(s) /\ w.value = state
    BY <1>4, <1>5 DEF Write
  <1>7. State(s) \in SessionFiles /\ State(s) \in Files
    BY FilesOfSession
  <1>8. /\ d2[Pack(s)] = d[Pack(s)] /\ d2[ManifestFile] = d[ManifestFile]
        /\ d2[State(s)] = File(state)
    <2>1. Pack(s) # w.file /\ ManifestFile # w.file
      BY <1>6, SessionFilesDiffer
    <2> QED BY <1>6, <1>7, <2>1
  <1>9. /\ y.session = s /\ y.before = x.before /\ y.then = "done"
        /\ Remembers(y, state)
    BY <1>1, <1>2, FilledSame
  <1>10. Indexed(d2, e, Pack(s))
    BY <1>3, <1>8 DEF Indexed, Has
  <1>11. CASE e.scope = "run"
    <2>1. y.todo = x.todo /\ y.pc = "enter"
      BY <1>6, <1>7, <1>11, FilledSession
    <2>2. WritesState(y, d2, e)
      BY <1>2, <1>3, <1>8, <1>9, <1>10, <2>1 DEF WritesState
    <2> QED BY <1>9, <2>1, <2>2 DEF Continues, Writes, Writing
  <1>12. CASE e.scope # "run"
    <2>1. y.pc = "done"
      BY <1>5, <1>12, FilledOther
    <2>2. d2[State(s)].is = "file" /\ d2[State(s)].value = state
      BY <1>8 DEF File
    <2>3. BothWritten(y, d2)
      BY <1>2, <1>3, <1>8, <1>9, <2>2 DEF BothWritten
    <2>4. Leaves(y, d2, e)
      BY <1>12, <2>1, <2>3 DEF Leaves, Indexed
    <2> QED BY <2>4 DEF Continues
  <1> QED BY <1>11, <1>12

(* With both in the manifest all is done.                                  *)
LEMMA FillStateEntryLone ==
    ASSUME NEW x, ClientInv(x), x.op = "continue", x.pc = "fill",
           x.then = "done",
           NEW d, DOMAIN d = Files, NEW e, EntersState(x, d, e),
           NEW y, NEW w, w = x.todo[1], Filled(x, y, e, w),
           NEW d2, d2 = [d EXCEPT ![w.file] = File(w.value)]
    PROVE  Continues(y, d2, e)
  <1>1. PICK s \in Sessions : s = x.session
    BY DEF ClientInv
  <1>2. PICK manifest :
        /\ x.todo = <<Write(ManifestFile, manifest)>>
        /\ Has(manifest, d, Pack(s)) /\ Has(manifest, d, State(s))
    BY <1>1 DEF EntersState
  <1>3. /\ d[Pack(s)].is = "file" /\ d[State(s)].is = "file"
        /\ Remembers(x, d[State(s)].value)
        /\ Agree(d[Pack(s)].value, d[State(s)].value)
    BY <1>1 DEF EntersState, BothWritten
  <1>4. PICK u : u = Write(ManifestFile, manifest)
    OBVIOUS
  <1>5. w = u /\ Tail(x.todo) = <<>>
    <2>1. x.todo = <<u>>
      BY <1>2, <1>4
    <2> QED BY <2>1, TodoAre
  <1>6. w.file = ManifestFile /\ w.value = manifest
    BY <1>4, <1>5 DEF Write
  <1>7. /\ d2[Pack(s)] = d[Pack(s)] /\ d2[State(s)] = d[State(s)]
        /\ d2[ManifestFile] = File(manifest)
    <2>1. Pack(s) # w.file /\ State(s) # w.file
      BY <1>6, SessionFilesDiffer
    <2>2. ManifestFile \in Files
      BY OtherFiles
    <2> QED BY <1>6, <2>1, <2>2
  <1>8. /\ y.session = s /\ y.before = x.before
        /\ Remembers(y, d[State(s)].value)
    BY <1>1, <1>3, FilledSame
  <1>9. y.pc = "done"
    BY <1>5, <1>6, FilledOther
  <1>10. BothWritten(y, d2)
    BY <1>3, <1>7, <1>8 DEF BothWritten
  <1>11. Indexed(d2, e, Pack(s)) /\ Indexed(d2, e, State(s))
    BY <1>2, <1>7 DEF Indexed, Has, File
  <1>12. Leaves(y, d2, e)
    BY <1>8, <1>9, <1>10, <1>11 DEF Leaves
  <1> QED BY <1>12 DEF Continues

(* A file that is filled brings a continuation to its next file.           *)
LEMMA FillLone ==
    ASSUME NEW x, ClientInv(x), x.op = "continue", x.pc = "fill",
           NEW d, DOMAIN d = Files, NEW e, Continues(x, d, e),
           NEW y, NEW w, w = x.todo[1], Filled(x, y, e, w),
           NEW d2, d2 = [d EXCEPT ![w.file] = File(w.value)]
    PROVE  Continues(y, d2, e)
  <1>1. CASE Reads(x, d, e)
    BY <1>1, FillReadsLone
  <1>2. CASE Writes(x, d, e)
    <2>1. /\ x.then = "done"
          /\ \/ WritesPack(x, d, e)  \/ EntersPack(x, d, e)
             \/ WritesState(x, d, e) \/ EntersState(x, d, e)
      BY <1>2 DEF Writes
    <2> QED BY <2>1, FillPackLone, FillPackEntryLone, FillStateLone,
               FillStateEntryLone
  <1>3. ~Leaves(x, d, e)
    BY DEF Leaves
  <1> QED BY <1>1, <1>2, <1>3 DEF Continues

(* A file that is entered is written to the manifest next.                 *)
LEMMA EntryHas ==
    ASSUME NEW m, NEW d, NEW f
    PROVE  /\ Has(With(m, f, d[f]), d, f)
           /\ \A g : Has(m, d, g) => Has(With(m, f, d[f]), d, g)
  BY DEF Has, With

(* The manifest of a run is whole when nothing is on its way to it.        *)
LEMMA ManifestIs ==
    ASSUME NEW content, ContentFits(ManifestFile, content),
           content # Absent, content.is # "torn"
    PROVE  content.is = "file"
  <1>1. content = File(content.value)
    BY DEF ContentFits, Torn
  <1>2. \A v : File(v).is = "file"
    BY DEF File
  <1> QED BY <1>1, <1>2

(* The pack is entered,                                                    *)
LEMMA EnterPackLone ==
    ASSUME NEW x, ClientInv(x), x.op = "continue", x.pc = "enter",
           x.then = "done",
           NEW d, NEW e, e.scope = "run", WritesPack(x, d, e),
           NEW y, GoesOn(x, y, <<Entry(d, x.todo[1].file)>> \o Tail(x.todo))
    PROVE  Continues(y, d, e)
  <1>1. PICK s \in Sessions : s = x.session
    BY DEF ClientInv
  <1>2. PICK pack, state :
        /\ x.todo = <<Write(Pack(s), pack), Write(State(s), state)>>
        /\ d[State(s)] = x.before
        /\ Remembers(x, state) /\ Agree(pack, state)
        /\ d[Pack(s)] = File(pack)
    BY <1>1 DEF WritesPack
  <1>3. PICK u, v, m : /\ u = Write(Pack(s), pack) /\ v = Write(State(s), state)
                       /\ m = With(d[ManifestFile].value, Pack(s), d[Pack(s)])
    OBVIOUS
  <1>4. x.todo[1] = u /\ Tail(x.todo) = <<v>>
    <2>1. x.todo = <<u, v>>
      BY <1>2, <1>3
    <2> QED BY <2>1, TodoAre
  <1>5. x.todo[1].file = Pack(s)
    BY <1>3, <1>4 DEF Write
  <1>6. PICK w : w = Entry(d, x.todo[1].file)
    OBVIOUS
  <1>7. w = Write(ManifestFile, m)
    BY <1>3, <1>5, <1>6 DEF Entry
  <1>8. y.todo = <<w, v>> /\ y.pc = "write"
    <2>1. PICK todo : todo = <<w>> \o Tail(x.todo)
      OBVIOUS
    <2>2. GoesOn(x, y, todo)
      BY <1>6, <2>1
    <2>3. todo = <<w, v>>
      BY <1>4, <2>1, OneBefore
    <2>4. todo # <<>>
      BY <2>3
    <2> QED BY <2>2, <2>3, <2>4 DEF GoesOn
  <1>9. /\ y.session = s /\ y.before = x.before /\ y.then = "done"
        /\ Remembers(y, state)
    <2>1. Same(x, y) /\ y.opening = x.opening /\ y.then = x.then
      BY DEF GoesOn, SameRead
    <2> QED BY <1>1, <1>2, <2>1, SameRemembers DEF Same
  <1>10. Has(m, d, Pack(s))
    BY <1>3, EntryHas
  <1>11. d[Pack(s)].is = "file" /\ d[Pack(s)].value = pack
    BY <1>2 DEF File
  <1>12. EntersPack(y, d, e)
    BY <1>2, <1>3, <1>7, <1>8, <1>9, <1>10, <1>11 DEF EntersPack
  <1> QED BY <1>8, <1>9, <1>12 DEF Continues, Writes, Writing

(* and so is the state, beside the pack.                                   *)
LEMMA EnterStateLone ==
    ASSUME NEW x, ClientInv(x), x.op = "continue", x.pc = "enter",
           x.then = "done",
           NEW d, NEW e, e.scope = "run", WritesState(x, d, e),
           NEW y, GoesOn(x, y, <<Entry(d, x.todo[1].file)>> \o Tail(x.todo))
    PROVE  Continues(y, d, e)
  <1>1. PICK s \in Sessions : s = x.session
    BY DEF ClientInv
  <1>2. PICK state :
        /\ x.todo = <<Write(State(s), state)>>
        /\ Remembers(x, state) /\ Agree(d[Pack(s)].value, state)
        /\ d[State(s)] = File(state)
    BY <1>1 DEF WritesState
  <1>3. /\ d[Pack(s)].is = "file"
        /\ Has(d[ManifestFile].value, d, Pack(s))
    BY <1>1 DEF WritesState, Indexed
  <1>4. PICK u, m : /\ u = Write(State(s), state)
                    /\ m = With(d[ManifestFile].value, State(s), d[State(s)])
    OBVIOUS
  <1>5. x.todo[1] = u /\ Tail(x.todo) = <<>>
    <2>1. x.todo = <<u>>
      BY <1>2, <1>4
    <2> QED BY <2>1, TodoAre
  <1>6. x.todo[1].file = State(s)
    BY <1>4, <1>5 DEF Write
  <1>7. PICK w : w = Entry(d, x.todo[1].file)
    OBVIOUS
  <1>8. w = Write(ManifestFile, m)
    BY <1>4, <1>6, <1>7 DEF Entry
  <1>9. y.todo = <<w>> /\ y.pc = "write"
    <2>1. PICK todo : todo = <<w>> \o Tail(x.todo)
      OBVIOUS
    <2>2. GoesOn(x, y, todo)
      BY <1>7, <2>1
    <2>3. todo = <<w>>
      BY <1>5, <2>1, OneBefore
    <2>4. todo # <<>>
      BY <2>3
    <2> QED BY <2>2, <2>3, <2>4 DEF GoesOn
  <1>10. /\ y.session = s /\ y.before = x.before /\ y.then = "done"
         /\ Remembers(y, state)
    <2>1. Same(x, y) /\ y.opening = x.opening /\ y.then = x.then
      BY DEF GoesOn, SameRead
    <2> QED BY <1>1, <1>2, <2>1, SameRemembers DEF Same
  <1>11. Has(m, d, Pack(s)) /\ Has(m, d, State(s))
    BY <1>3, <1>4, EntryHas
  <1>12. d[State(s)].is = "file" /\ d[State(s)].value = state
    BY <1>2 DEF File
  <1>13. BothWritten(y, d)
    BY <1>2, <1>3, <1>10, <1>12 DEF BothWritten
  <1>14. EntersState(y, d, e)
    BY <1>8, <1>9, <1>10, <1>11, <1>13 DEF EntersState
  <1> QED BY <1>9, <1>10, <1>14 DEF Continues, Writes, Writing

(* Nothing else is entered by a continuation.                              *)
LEMMA EnterLone ==
    ASSUME NEW x, ClientInv(x), x.op = "continue", x.pc = "enter",
           NEW d, NEW e, e.scope = "run", Continues(x, d, e),
           NEW y, GoesOn(x, y, <<Entry(d, x.todo[1].file)>> \o Tail(x.todo))
    PROVE  Continues(y, d, e)
  <1>1. ~Reads(x, d, e) /\ ~Leaves(x, d, e)
    BY DEF Reads, Leaves, Looking
  <1>2. /\ x.then = "done"
        /\ WritesPack(x, d, e) \/ WritesState(x, d, e)
    BY <1>1 DEF Continues, Writes, EntersPack, EntersState
  <1> QED BY <1>2, EnterPackLone, EnterStateLone

----------------------------------------------------------------------------
(* Clean-ups.                                                              *)

(* What is listed leaves no more than the limit, and nothing that is too   *)
(* old.                                                                    *)
LEMMA ListFilesLone ==
    ASSUME NEW x, NEW y, NEW d, NEW old, old \subseteq SessionFiles,
           FilesListed(x, y, d, old)
    PROVE  Cleans(y, d)
  <1> DEFINE P == Present(d)
             aged1 == IF x.byAge THEN P \cap old ELSE {}
  <1>1. /\ y.pc = "delete" /\ y.old = old /\ y.byAge = x.byAge
        /\ y.doomed = Excess(P) \cup aged1
    BY DEF FilesListed, Same
  <1>2. P \subseteq SessionFiles
    BY DEF Present
  <1>3. Excess(P) \subseteq P /\ Cardinality(P \ Excess(P)) <= MaxSessions
    BY <1>2, ExcessLeaves
  <1>4. ASSUME NEW f \in old
        PROVE  f \in P \/ d[f].is = "absent"
    BY DEF Present
  <1> HIDE DEF P
  <1>5. y.doomed \subseteq P
    BY <1>1, <1>3
  <1>6. Cardinality(P \ y.doomed) <= MaxSessions
    <2>1. IsFiniteSet(P \ Excess(P))
      <3>1. P \ Excess(P) \subseteq SessionFiles
        BY <1>2
      <3> QED BY <3>1, FiniteFiles, FS_Subset
    <2>2. P \ y.doomed \subseteq P \ Excess(P)
      BY <1>1
    <2>3. /\ Cardinality(P \ y.doomed) <= Cardinality(P \ Excess(P))
          /\ IsFiniteSet(P \ y.doomed)
      BY <2>1, <2>2, FS_Subset
    <2>4. Cardinality(P \ y.doomed) \in Nat /\ Cardinality(P \ Excess(P)) \in Nat
      BY <2>1, <2>3, FS_CardinalityType
    <2>5. MaxSessions \in Nat
      BY SessionAssumption
    <2> QED BY <1>3, <2>3, <2>4, <2>5
  <1>7. y.byAge => \A f \in y.old : f \in y.doomed \/ d[f].is = "absent"
    BY <1>1, <1>4
  <1> QED BY <1>1, <1>5, <1>6, <1>7 DEF Cleans, P

(* A file that is deleted was doomed.                                      *)
LEMMA DeleteLone ==
    ASSUME NEW x, ClientInv(x), x.pc = "delete",
           NEW d, DOMAIN d = Files, Cleans(x, d),
           NEW f \in x.doomed, NEW y, FileDeleted(x, y, d, f), y # Idle,
           NEW d2, d2 = [d EXCEPT ![f] = Absent]
    PROVE  Cleans(y, d2)
  <1>1. /\ y.pc = "delete" /\ y.old = x.old /\ y.byAge = x.byAge
        /\ y.doomed = x.doomed \ {f}
    BY DEF FileDeleted, Same
  <1>2. f \in SessionFiles /\ f \in Files
    BY DEF ClientInv, Files
  <1>3. d2[f].is = "absent" /\ \A g : g # f => d2[g] = d[g]
    BY <1>2 DEF Absent
  <1>4. Present(d2) = Present(d) \ {f}
    <2>1. \A g \in SessionFiles : g \in Present(d2) <=> g \in Present(d) /\ g # f
      BY <1>3 DEF Present
    <2>2. Present(d2) \subseteq SessionFiles /\ Present(d) \subseteq SessionFiles
      BY DEF Present
    <2> QED BY <2>1, <2>2
  <1>5. /\ x.doomed \subseteq Present(d)
        /\ Cardinality(Present(d) \ x.doomed) <= MaxSessions
        /\ x.byAge => \A g \in x.old : g \in x.doomed \/ d[g].is = "absent"
    BY DEF Cleans
  <1>6. y.doomed \subseteq Present(d2)
    BY <1>1, <1>4, <1>5
  <1>7. Present(d2) \ y.doomed = Present(d) \ x.doomed
    BY <1>1, <1>4
  <1>8. y.byAge => \A g \in y.old : g \in y.doomed \/ d2[g].is = "absent"
    BY <1>1, <1>3, <1>5
  <1>9. Cardinality(Present(d2) \ y.doomed) <= MaxSessions
    BY <1>5, <1>7
  <1> QED BY <1>1, <1>6, <1>8, <1>9 DEF Cleans

----------------------------------------------------------------------------
(* Every step keeps that.                                                  *)

(* A step of an active client keeps LoneInv if it keeps it for itself: no  *)
(* other client is alone.                                                  *)
LEMMA OwnLone ==
    ASSUME AloneInv, NEW c \in Clients, client[c].pc # "idle",
           Only(c), evidence' = evidence,
           LoneFits(client'[c], disk', evidence)
    PROVE  LoneInv'
  <1>1. ASSUME NEW d \in Clients \ {c}
        PROVE  LoneFits(client'[d], disk', evidence)
    <2>1. client'[d] = client[d]
      BY DEF Only
    <2>2. c \in Active
      BY DEF Active
    <2>3. ~(client[d].alone)
      BY <2>2 DEF AloneInv
    <2> QED BY <2>1, <2>3 DEF LoneFits
  <1> QED BY <1>1 DEF LoneInv

(* The same request fits if it continues, or cleans up, as it should.      *)
LEMMA SameLone ==
    ASSUME NEW x, NEW y, Same(x, y), NEW d, NEW d2, NEW e, LoneFits(x, d, e),
           x.op = "continue" /\ Continues(x, d, e) => Continues(y, d2, e),
           x.op = "cleanup" /\ Cleans(x, d) => Cleans(y, d2)
    PROVE  LoneFits(y, d2, e)
  BY DEF LoneFits, Same

(* A continuation that looks around is reading.                            *)
LEMMA LookingReads ==
    ASSUME NEW x, NEW d, NEW e, x.pc \in Looking, Continues(x, d, e)
    PROVE  Reads(x, d, e)
  BY DEF Looking, Writing, Continues, Writes, Leaves

(* Who begins has changed nothing, and knows its session as it is.         *)
LEMMA BeginLone ==
    ASSUME TypeInv, NEW c \in Clients, Begins(c)
    PROVE  LoneInv'
  <1>1. PICK request : Fresh(request, disk) /\ Begin(c, request)
    BY DEF Begins
  <1>2. Fresh(client'[c], disk')
    BY <1>1, BeginTyped
  <1>3. /\ \A d \in Clients \ {c} : client'[d] = Overlapped(client[d])
        /\ evidence' = evidence
    BY <1>1, BeginDoes
  <1>4. PICK y : y = client'[c]
    OBVIOUS
  <1>5. LoneFits(y, disk', evidence)
    <2>1. y.op = "continue" => y.pc = "context" /\ disk'[State(y.session)] = y.before
      BY <1>2, <1>4 DEF Fresh
    <2>2. y.op = "cleanup" => y.pc = "list"
      BY <1>2, <1>4 DEF Fresh
    <2>3. y.op = "continue" => Reads(y, disk', evidence)
      BY <2>1 DEF Reads, Looking
    <2>4. y.op = "cleanup" => Cleans(y, disk')
      BY <2>2 DEF Cleans
    <2> QED BY <2>3, <2>4 DEF LoneFits, Continues
  <1>6. ASSUME NEW d \in Clients \ {c}
        PROVE  LoneFits(client'[d], disk', evidence)
    <2>1. PICK x : x = client[d]
      OBVIOUS
    <2>2. ClientInv(x)
      BY <2>1 DEF TypeInv
    <2>3. CASE x.pc = "idle"
      <3>1. client'[d] = Idle
        BY <1>3, <2>1, <2>2, <2>3 DEF ClientInv, Overlapped
      <3> QED BY <3>1, IdleLone
    <2>4. CASE x.pc # "idle"
      <3>1. client'[d] = [x EXCEPT !.alone = FALSE] /\ DOMAIN x = Fields
        BY <1>3, <2>1, <2>2, <2>4 DEF ClientInv, Overlapped
      <3>2. client'[d].alone = FALSE
        BY <3>1 DEF Fields
      <3> QED BY <3>2 DEF LoneFits
    <2> QED BY <2>3, <2>4
  <1> QED BY <1>3, <1>4, <1>5, <1>6 DEF LoneInv

(* What is read changes nothing.                                           *)
LEMMA BuildRouteLone ==
    ASSUME TypeInv, LoneInv, NEW c \in Clients, BuildRoute(c)
    PROVE  LoneFits(client'[c], disk', evidence)
  <1>1. PICK x, y : x = client[c] /\ y = client'[c]
    OBVIOUS
  <1>2. /\ ClientInv(x) /\ x.pc = "build"
        /\ y = Idle \/ RouteBuilt(x, y)
    BY <1>1, BuildRouteDoes DEF TypeInv
  <1>3. y = Idle \/ y.op = "start"
    BY <1>2 DEF RouteBuilt, Same, ClientInv
  <1> QED BY <1>1, <1>3, IdleLone, OthersLone

(* A continuation gets past the context with a manifest that is whole, and *)
(* reads on.                                                               *)
LEMMA ReadingLone ==
    ASSUME TypeInv, LoneInv, NEW c \in Clients,
           ReadContext(c) \/ ReadRoute(c) \/ OpenStep(c)
    PROVE  LoneFits(client'[c], disk', evidence)
  <1>1. PICK x, y : x = client[c] /\ y = client'[c]
    OBVIOUS
  <1>2. Silent(c) /\ ClientInv(x) /\ LoneFits(x, disk, evidence)
    BY <1>1, ReadContextDoes, ReadRouteDoes, OpenStepDoes DEF TypeInv, LoneInv
  <1>3. disk' = disk
    BY <1>2 DEF Silent, OnlyClient
  <1>4. CASE y = Idle
    BY <1>1, <1>4, IdleLone
  <1>5. CASE x.pc = "context" /\ ContextRead(x, y, disk)
    <2>1. Same(x, y) /\ y.pc = "route" /\ disk[ManifestFile].is # "torn"
      BY <1>5 DEF ContextRead
    <2>2. Whole(disk, evidence)
      <3>1. /\ ContentFits(ManifestFile, disk[ManifestFile])
            /\ evidence.scope = "run" => disk[ManifestFile] # Absent
        BY OtherFiles DEF TypeInv
      <3> QED BY <2>1, <3>1, ManifestIs DEF Whole
    <2>3. Continues(x, disk, evidence) => Continues(y, disk, evidence)
      <3>1. x.pc \in Looking /\ y.pc \in Looking
        BY <1>5, <2>1 DEF Looking
      <3> QED BY <2>1, <2>2, <3>1, LookingReads, ReadsOn
    <2>4. x.op = "continue"
      BY <1>2, <1>5 DEF ClientInv, Looking
    <2> QED BY <1>1, <1>2, <1>3, <2>1, <2>3, <2>4, SameLone
  <1>6. CASE x.pc = "route" /\ RouteRead(x, y)
    <2>1. /\ Same(x, y) /\ x.pc \in Looking
          /\ \/ y.pc \in Looking
             \/ (y.pc = "write" /\ y.then = "refs"
                 /\ \E v : y.todo = <<Write(DiffFile, v)>>)
      BY <1>6 DEF RouteRead, Looking
    <2>2. Continues(x, disk, evidence) => Continues(y, disk, evidence)
      BY <1>6, <2>1, LookingReads, ReadsOn
    <2>3. x.op = "continue"
      BY <1>2, <1>6 DEF ClientInv, Looking
    <2> QED BY <1>1, <1>2, <1>3, <2>1, <2>2, <2>3, SameLone
  <1>7. CASE x.pc = "refs" /\ StepOpened(x, y)
    <2>1. Same(x, y) /\ x.pc \in Looking /\ y.pc \in Looking
      BY <1>7 DEF StepOpened, Looking
    <2>2. Continues(x, disk, evidence) => Continues(y, disk, evidence)
      BY <1>7, <2>1, LookingReads, ReadsOn
    <2>3. x.op = "continue"
      BY <1>2, <1>7 DEF ClientInv, Looking
    <2> QED BY <1>1, <1>2, <1>3, <2>1, <2>2, <2>3, SameLone
  <1> QED BY <1>1, <1>4, <1>5, <1>6, <1>7, ReadContextDoes, ReadRouteDoes,
             OpenStepDoes

(* It sets out to write what remembers its session.                        *)
LEMMA ReadStateLone ==
    ASSUME TypeInv, LoneInv, NEW c \in Clients, ReadState(c)
    PROVE  LoneFits(client'[c], disk', evidence)
  <1>1. PICK x, y : x = client[c] /\ y = client'[c]
    OBVIOUS
  <1>2. /\ Silent(c) /\ ClientInv(x) /\ LoneFits(x, disk, evidence)
        /\ x.pc = "state"
        /\ y = Idle \/ StateRead(x, y, disk)
    BY <1>1, ReadStateDoes DEF TypeInv, LoneInv
  <1>3. disk' = disk
    BY <1>2 DEF Silent, OnlyClient
  <1>4. CASE y = Idle
    BY <1>1, <1>4, IdleLone
  <1>5. CASE StateRead(x, y, disk)
    <2>1. Same(x, y)
      BY <1>5 DEF StateRead
    <2>2. x.op = "continue" /\ x.pc \in Looking
      BY <1>2 DEF ClientInv, Looking
    <2>3. Continues(x, disk, evidence) => Continues(y, disk, evidence)
      BY <1>2, <1>5, <2>2, LookingReads, StateReadLone
    <2> QED BY <1>1, <1>2, <1>3, <2>1, <2>2, <2>3, SameLone
  <1> QED BY <1>2, <1>4, <1>5

(* The file that it truncates is the one that is next,                     *)
LEMMA TruncateKeepsLone ==
    ASSUME TypeInv, LoneInv, NEW c \in Clients, Truncate(c)
    PROVE  LoneFits(client'[c], disk', evidence)
  <1>1. PICK x, y, d, d2, e : /\ x = client[c] /\ y = client'[c]
                              /\ d = disk /\ d2 = disk' /\ e = evidence
    OBVIOUS
  <1>2. /\ ClientInv(x) /\ LoneFits(x, d, e) /\ DOMAIN d = Files
    BY <1>1 DEF TypeInv, LoneInv
  <1>3. /\ x.pc = "write"
        /\ Same(x, y) /\ SameRead(x, y) /\ SameTodo(x, y)
        /\ y.pc = "fill"
        /\ d2 = [d EXCEPT ![x.todo[1].file] = Torn]
    BY <1>1, TruncateDoes
  <1>4. x.op \in {"start", "continue"}
    BY <1>2, <1>3 DEF ClientInv, Writing
  <1>5. x.op = "continue" /\ Continues(x, d, e) => Continues(y, d2, e)
    BY <1>2, <1>3, TruncateLone
  <1> QED BY <1>1, <1>2, <1>3, <1>4, <1>5, SameLone

(* and it fills it with what it means to.                                  *)
LEMMA FillKeepsLone ==
    ASSUME TypeInv, LoneInv, NEW c \in Clients, Fill(c)
    PROVE  LoneFits(client'[c], disk', evidence)
  <1>1. PICK x, y, d, d2, e, w : /\ x = client[c] /\ y = client'[c]
                                 /\ d = disk /\ d2 = disk' /\ e = evidence
                                 /\ w = x.todo[1]
    OBVIOUS
  <1>2. /\ ClientInv(x) /\ LoneFits(x, d, e) /\ DOMAIN d = Files
    BY <1>1 DEF TypeInv, LoneInv
  <1>3. /\ x.pc = "fill" /\ d2 = [d EXCEPT ![w.file] = File(w.value)]
        /\ Filled(x, y, e, w)
    BY <1>1, FillDoes DEF Filled
  <1>4. x.op \in {"start", "continue"}
    BY <1>2, <1>3 DEF ClientInv, Writing
  <1>5. x.op = "continue" /\ Continues(x, d, e) => Continues(y, d2, e)
    <2>1. w = x.todo[1] /\ DOMAIN d = Files /\ ClientInv(x) /\ x.pc = "fill"
      BY <1>1, <1>2, <1>3
    <2>2. d2 = [d EXCEPT ![w.file] = File(w.value)] /\ Filled(x, y, e, w)
      BY <1>3
    <2> QED BY <2>1, <2>2, FillLone, Zenon
  <1>6. Same(x, y)
    BY <1>3, FilledSame
  <1> QED BY <1>1, <1>2, <1>4, <1>5, <1>6, SameLone

(* What is entered is as it was written.                                   *)
LEMMA EnterKeepsLone ==
    ASSUME TypeInv, LoneInv, NEW c \in Clients, Enter(c)
    PROVE  LoneFits(client'[c], disk', evidence)
  <1>1. PICK x, y, d, e : /\ x = client[c] /\ y = client'[c]
                          /\ d = disk /\ e = evidence
    OBVIOUS
  <1>2. /\ ClientInv(x) /\ LoneFits(x, d, e) /\ DOMAIN d = Files
    BY <1>1 DEF TypeInv, LoneInv
  <1>3. x.pc = "enter" /\ Silent(c)
    BY <1>1, EnterDoes
  <1>4. disk' = d
    BY <1>1, <1>3 DEF Silent, OnlyClient
  <1>5. e.scope = "run"
    BY <1>1, <1>3 DEF TypeInv
  <1>6. d[ManifestFile].is # "absent"
    <2>1. PICK content : content = d[ManifestFile]
      OBVIOUS
    <2>2. ContentFits(ManifestFile, content) /\ content # Absent
      BY <1>1, <1>5, <2>1, OtherFiles DEF TypeInv
    <2>3. Torn.is = "torn" /\ \A v : File(v).is = "file"
      BY DEF Torn, File
    <2>4. content = Torn \/ content = File(content.value)
      BY <2>2 DEF ContentFits
    <2>5. content.is # "absent"
      BY <2>3, <2>4
    <2> QED BY <2>1, <2>5
  <1>7. y = Idle \/ GoesOn(x, y, <<Entry(d, x.todo[1].file)>> \o Tail(x.todo))
    BY <1>1, <1>6, EnterDoes
  <1>8. CASE y = Idle
    BY <1>1, <1>8, IdleLone
  <1>9. CASE GoesOn(x, y, <<Entry(d, x.todo[1].file)>> \o Tail(x.todo))
    <2>1. Same(x, y)
      BY <1>9 DEF GoesOn
    <2>2. x.op \in {"start", "continue"}
      BY <1>2, <1>3 DEF ClientInv, Writing
    <2>3. x.op = "continue" /\ Continues(x, d, e) => Continues(y, d, e)
      BY <1>2, <1>3, <1>5, <1>9, EnterLone
    <2> QED BY <1>1, <1>2, <1>4, <2>1, <2>2, <2>3, SameLone
  <1> QED BY <1>7, <1>8, <1>9

(* A clean-up lists what it is to delete, and deletes it.                  *)
LEMMA CleaningLone ==
    ASSUME TypeInv, LoneInv, NEW c \in Clients, ListFiles(c) \/ Delete(c)
    PROVE  LoneFits(client'[c], disk', evidence)
  <1>1. PICK x, y, d, e : /\ x = client[c] /\ y = client'[c]
                          /\ d = disk /\ e = evidence
    OBVIOUS
  <1>2. /\ ClientInv(x) /\ LoneFits(x, d, e) /\ DOMAIN d = Files
        /\ aged \subseteq SessionFiles
    BY <1>1 DEF TypeInv, LoneInv
  <1>3. CASE ListFiles(c)
    <2>1. Silent(c) /\ x.pc = "list" /\ FilesListed(x, y, d, aged)
      BY <1>1, <1>3, ListFilesDoes
    <2>2. x.op = "cleanup" /\ disk' = d /\ Same(x, y)
      BY <1>1, <1>2, <2>1 DEF ClientInv, Silent, OnlyClient, FilesListed
    <2>3. Cleans(y, d)
      BY <1>2, <2>1, ListFilesLone
    <2> QED BY <1>1, <1>2, <2>2, <2>3, SameLone
  <1>4. CASE Delete(c)
    <2>1. /\ x.pc = "delete"
          /\ \/ /\ x.doomed = {} /\ y.pc = "done"
                /\ Same(x, y) /\ SameRead(x, y) /\ SameTodo(x, y)
                /\ UNCHANGED <<disk, aged>>
             \/ \E f \in x.doomed :
                   /\ FileDeleted(x, y, d, f)
                   /\ disk' = [d EXCEPT ![f] = Absent]
      BY <1>1, <1>4, DeleteDoes
    <2>2. x.op = "cleanup"
      BY <1>2, <2>1 DEF ClientInv
    <2>3. CASE /\ x.doomed = {} /\ y.pc = "done"
               /\ Same(x, y) /\ SameRead(x, y) /\ SameTodo(x, y)
               /\ UNCHANGED <<disk, aged>>
      <3>1. Cleans(x, d) => Cleans(y, d)
        BY <2>1, <2>3 DEF Cleans, Same, SameRead
      <3> QED BY <1>1, <1>2, <2>2, <2>3, <3>1, SameLone
    <2>4. ASSUME NEW f \in x.doomed, FileDeleted(x, y, d, f),
                 disk' = [d EXCEPT ![f] = Absent]
          PROVE  LoneFits(y, disk', e)
      <3>1. CASE y = Idle
        BY <3>1, IdleLone
      <3>2. CASE y # Idle
        <4>1. Same(x, y)
          BY <2>4, <3>2 DEF FileDeleted
        <4>2. PICK d2 : d2 = disk'
          OBVIOUS
        <4>3. Cleans(x, d) => Cleans(y, d2)
          BY <1>2, <2>1, <2>4, <3>2, <4>2, DeleteLone
        <4> QED BY <1>2, <2>2, <4>1, <4>2, <4>3, SameLone
      <3> QED BY <3>1, <3>2
    <2> QED BY <1>1, <2>1, <2>3, <2>4
  <1> QED BY <1>3, <1>4

(* A step of a client is of one that is active, and leaves it idle or with *)
(* the same request.                                                       *)
LEMMA GoesDoes ==
    ASSUME TypeInv, NEW c \in Clients, Goes(c)
    PROVE  /\ client[c].pc # "idle" /\ Only(c)
           /\ UNCHANGED <<evidence, overlap>>
           /\ client'[c] = Idle \/ Same(client[c], client'[c])
  <1>1. PICK x, y : x = client[c] /\ y = client'[c]
    OBVIOUS
  <1>2. ASSUME Silent(c)
        PROVE  Only(c) /\ UNCHANGED <<evidence, overlap>>
    BY <1>2 DEF Silent, OnlyClient
  <1>3. CASE BuildRoute(c) \/ ReadContext(c) \/ ReadRoute(c)
    BY <1>1, <1>2, <1>3, BuildRouteDoes, ReadContextDoes, ReadRouteDoes
       DEF RouteBuilt, ContextRead, RouteRead
  <1>4. CASE OpenStep(c) \/ ReadState(c)
    BY <1>1, <1>2, <1>4, OpenStepDoes, ReadStateDoes DEF StepOpened, StateRead
  <1>5. CASE Truncate(c)
    BY <1>1, <1>5, TruncateDoes
  <1>6. CASE Fill(c)
    <2>1. /\ client[c].pc = "fill" /\ Only(c) /\ UNCHANGED <<evidence, overlap>>
          /\ Filled(x, y, evidence, x.todo[1])
      BY <1>1, <1>6, FillDoes DEF Filled
    <2> QED BY <1>1, <2>1, FilledSame
  <1>7. CASE Enter(c)
    BY <1>1, <1>2, <1>7, EnterDoes DEF GoesOn
  <1>8. CASE ListFiles(c) \/ Delete(c)
    BY <1>1, <1>2, <1>8, ListFilesDoes, DeleteDoes DEF FilesListed, FileDeleted
  <1>9. CASE Return(c) \/ Kill(c)
    BY <1>2, <1>9, ReturnDoes, KillDoes
  <1> QED BY <1>3, <1>4, <1>5, <1>6, <1>7, <1>8, <1>9 DEF Goes

(* AloneInv and LoneInv stay true.                                         *)
LEMMA LoneStep ==
    ASSUME TypeInv, AloneInv, LoneInv, [Next]_vars
    PROVE  AloneInv' /\ LoneInv'
  <1>1. TypeInv'
    BY TypeStep
  <1>2. CASE UNCHANGED vars
    BY <1>2 DEF vars, AloneInv, LoneInv, Active
  <1>3. ASSUME NEW c \in Clients, Begins(c)
        PROVE  AloneInv' /\ LoneInv'
    BY <1>3, BeginAlone, BeginLone
  <1>4. ASSUME NEW c \in Clients, Goes(c)
        PROVE  AloneInv' /\ LoneInv'
    <2>1. /\ client[c].pc # "idle" /\ Only(c)
          /\ UNCHANGED <<evidence, overlap>>
          /\ client'[c] = Idle \/ Same(client[c], client'[c])
      BY <1>4, GoesDoes
    <2>2. \/ client'[c] = Idle
          \/ client'[c].alone = client[c].alone /\ client'[c].pc # "idle"
      <3>1. ClientInv(client'[c])
        BY <1>1 DEF TypeInv
      <3> QED BY <2>1, <3>1 DEF ClientInv, Same
    <2>3. AloneInv'
      BY <2>1, <2>2, GoesAlone
    <2>4. LoneFits(client'[c], disk', evidence)
      <3>1. CASE Return(c) \/ Kill(c)
        BY <3>1, ReturnDoes, KillDoes, IdleLone
      <3> QED BY <1>4, <3>1, BuildRouteLone, ReadingLone, ReadStateLone,
                 TruncateKeepsLone, FillKeepsLone, EnterKeepsLone,
                 CleaningLone DEF Goes
    <2> QED BY <2>1, <2>3, <2>4, OwnLone
  <1>5. ASSUME NEW f \in SessionFiles, Age(f)
        PROVE  AloneInv' /\ LoneInv'
    <2>1. UNCHANGED <<evidence, disk, client, overlap>>
      BY <1>5, AgeDoes
    <2> QED BY <2>1 DEF AloneInv, LoneInv, Active
  <1> QED BY <1>2, <1>3, <1>4, <1>5, NextIs

----------------------------------------------------------------------------
(* The pack is not behind the state.                                       *)

(* The pack of s on the disk d has all evaluations of its state.           *)
Leads(d, s) ==
    d[Pack(s)].is = "file" /\ d[State(s)].is = "file" =>
        d[State(s)].value.evaluations \subseteq d[Pack(s)].value.evaluations

(* A file that is not whole, or not of the session, does not change that.  *)
LEMMA LeadsOn ==
    ASSUME NEW d, DOMAIN d = Files, NEW s \in Sessions, Leads(d, s),
           NEW f, NEW content, content.is # "file" \/ f \notin {Pack(s), State(s)},
           NEW d2, d2 = [d EXCEPT ![f] = content]
    PROVE  Leads(d2, s)
  <1>1. Pack(s) \in Files /\ State(s) \in Files
    BY FilesOfSession
  <1>2. CASE f \notin {Pack(s), State(s)}
    <2>1. d2[Pack(s)] = d[Pack(s)] /\ d2[State(s)] = d[State(s)]
      BY <1>2
    <2> QED BY <2>1 DEF Leads
  <1>3. CASE f \in {Pack(s), State(s)} /\ content.is # "file"
    <2>1. d2[f] = content
      BY <1>1, <1>3
    <2> QED BY <1>3, <2>1 DEF Leads
  <1> QED BY <1>2, <1>3

(* A continuation that is alone writes a pack that has what the state      *)
(* before it has, and then a state that has what the pack has.             *)
LEMMA FillLeads ==
    ASSUME NEW x, ClientInv(x), x.op = "continue", x.pc = "fill",
           NEW d, DOMAIN d = Files, NEW e, Continues(x, d, e),
           NEW s \in Sessions, Leads(d, s),
           NEW w, w = x.todo[1], x.then = "done",
           NEW d2, d2 = [d EXCEPT ![w.file] = File(w.value)]
    PROVE  Leads(d2, s)
  <1>1. PICK t \in Sessions : t = x.session
    BY DEF ClientInv
  <1>2. \/ WritesPack(x, d, e)  \/ EntersPack(x, d, e)
        \/ WritesState(x, d, e) \/ EntersState(x, d, e)
    <2>1. ~Reads(x, d, e) /\ ~Leaves(x, d, e)
      BY DEF Reads, Leaves, Looking
    <2> QED BY <2>1 DEF Continues, Writes
  <1>3. /\ Pack(t) # State(t) /\ Pack(t) \in Files /\ State(t) \in Files
        /\ s # t => {Pack(t), State(t)} \cap {Pack(s), State(s)} = {}
    BY FilesOfSession, PacksDiffer
  <1>4. \A v : File(v).is = "file" /\ File(v).value = v
    BY DEF File
  <1>5. CASE WritesPack(x, d, e)
    <2>1. PICK pack, state :
            /\ x.todo = <<Write(Pack(t), pack), Write(State(t), state)>>
            /\ d[State(t)] = x.before
            /\ Remembers(x, state) /\ Agree(pack, state)
      BY <1>1, <1>5 DEF WritesPack
    <2>2. PICK u, v : u = Write(Pack(t), pack) /\ v = Write(State(t), state)
      OBVIOUS
    <2>3. w = u
      <3>1. x.todo = <<u, v>>
        BY <2>1, <2>2
      <3> QED BY <3>1, TodoAre
    <2>4. w.file = Pack(t) /\ w.value = pack
      BY <2>2, <2>3 DEF Write
    <2>5. CASE s = t
      <3>1. d2[Pack(s)] = File(pack) /\ d2[State(s)] = x.before
        BY <1>3, <2>1, <2>4, <2>5
      <3>2. x.before.is = "file" =>
                x.before.value.evaluations \subseteq pack.evaluations
        BY <2>1 DEF Remembers, Before, Agree
      <3> QED BY <1>4, <3>1, <3>2 DEF Leads
    <2>6. CASE s # t
      <3>1. w.file \notin {Pack(s), State(s)}
        BY <1>3, <2>4, <2>6
      <3> QED BY <3>1, LeadsOn
    <2> QED BY <2>5, <2>6
  <1>6. CASE WritesState(x, d, e)
    <2>1. PICK state :
            /\ x.todo = <<Write(State(t), state)>>
            /\ Agree(d[Pack(t)].value, state)
      BY <1>1, <1>6 DEF WritesState
    <2>2. PICK u : u = Write(State(t), state)
      OBVIOUS
    <2>3. w = u
      <3>1. x.todo = <<u>>
        BY <2>1, <2>2
      <3> QED BY <3>1, TodoAre
    <2>4. w.file = State(t) /\ w.value = state
      BY <2>2, <2>3 DEF Write
    <2>5. CASE s = t
      <3>1. d2[State(s)] = File(state) /\ d2[Pack(s)] = d[Pack(s)]
        BY <1>3, <2>4, <2>5
      <3>2. d[Pack(s)].value.evaluations = state.evaluations
        BY <2>1, <2>5 DEF Agree
      <3> QED BY <1>4, <3>1, <3>2 DEF Leads
    <2>6. CASE s # t
      <3>1. w.file \notin {Pack(s), State(s)}
        BY <1>3, <2>4, <2>6
      <3> QED BY <3>1, LeadsOn
    <2> QED BY <2>5, <2>6
  <1>7. CASE EntersPack(x, d, e) \/ EntersState(x, d, e)
    <2>1. PICK manifest, v :
            \/ x.todo = <<Write(ManifestFile, manifest), v>>
            \/ x.todo = <<Write(ManifestFile, manifest)>>
      BY <1>7 DEF EntersPack, EntersState
    <2>2. PICK u : u = Write(ManifestFile, manifest)
      OBVIOUS
    <2>3. w = u
      <3>1. x.todo = <<u, v>> \/ x.todo = <<u>>
        BY <2>1, <2>2
      <3> QED BY <3>1, TodoAre
    <2>4. w.file = ManifestFile
      BY <2>2, <2>3 DEF Write
    <2>5. w.file \notin {Pack(s), State(s)}
      BY <2>4, SessionFilesDiffer
    <2> QED BY <2>5, LeadsOn
  <1> QED BY <1>2, <1>5, <1>6, <1>7

(* PackLeads stays true: without an overlap whoever writes a session file  *)
(* is alone.                                                               *)
LEMMA PackLeadsStep ==
    ASSUME TypeInv, AloneInv, LoneInv, PackLeads, [Next]_vars
    PROVE  PackLeads'
  <1>1. PackLeads <=> \A s \in Sessions : ~overlap => Leads(disk, s)
    BY DEF PackLeads, Leads
  <1>2. PackLeads' <=> \A s \in Sessions : ~overlap' => Leads(disk', s)
    BY DEF PackLeads, Leads
  <1>3. CASE disk' = disk /\ (overlap => overlap')
    BY <1>1, <1>2, <1>3
  <1>4. ASSUME NEW c \in Clients, Goes(c)
        PROVE  PackLeads'
    <2>1. PICK x, y, d, d2, e, w : /\ x = client[c] /\ y = client'[c]
                                   /\ d = disk /\ d2 = disk' /\ e = evidence
                                   /\ w = x.todo[1]
      OBVIOUS
    <2>2. client[c].pc # "idle" /\ overlap' = overlap
      BY <1>4, GoesDoes
    <2>3. /\ ClientInv(x) /\ LoneFits(x, d, e) /\ DOMAIN d = Files
      BY <2>1 DEF TypeInv, LoneInv
    <2>4. ~overlap => x.alone
      BY <2>1, <2>2 DEF AloneInv, Active
    <2>5. ASSUME NEW s \in Sessions, ~overlap, Leads(d, s)
          PROVE  Leads(d2, s)
      <3>1. CASE d2 = d
        BY <2>5, <3>1
      <3>2. CASE Truncate(c)
        <4>1. d2 = [d EXCEPT ![w.file] = Torn]
          BY <2>1, <3>2, TruncateDoes
        <4>2. PICK content : content = Torn
          OBVIOUS
        <4>3. content.is # "file" /\ d2 = [d EXCEPT ![w.file] = content]
          BY <4>1, <4>2 DEF Torn
        <4> QED BY <2>3, <2>5, <4>3, LeadsOn
      <3>3. CASE Delete(c)
        <4>1. \/ d2 = d
              \/ \E f \in x.doomed : d2 = [d EXCEPT ![f] = Absent]
          BY <2>1, <3>3, DeleteDoes
        <4>2. ASSUME NEW f \in x.doomed, d2 = [d EXCEPT ![f] = Absent]
              PROVE  Leads(d2, s)
          <5>1. PICK content : content = Absent
            OBVIOUS
          <5>2. content.is # "file" /\ d2 = [d EXCEPT ![f] = content]
            BY <4>2, <5>1 DEF Absent
          <5> QED BY <2>3, <2>5, <5>2, LeadsOn
        <4> QED BY <2>5, <4>1, <4>2
      <3>4. CASE Fill(c)
        <4>1. x.pc = "fill" /\ d2 = [d EXCEPT ![w.file] = File(w.value)]
          BY <2>1, <3>4, FillDoes
        <4>2. CASE w.file \notin SessionFiles
          <5>1. w.file \notin {Pack(s), State(s)}
            BY <4>2, FilesOfSession
          <5>2. PICK content : content = File(w.value)
            OBVIOUS
          <5> QED BY <2>3, <2>5, <4>1, <5>1, <5>2, LeadsOn
        <4>3. CASE w.file \in SessionFiles
          <5>1. TodoFits(x.todo) /\ x.todo # <<>>
            BY <2>3, <4>1, WriterHasTodo DEF Writing
          <5>2. ~Plain(x.todo)
            BY <2>1, <4>3, <5>1, TodoIs
          <5>3. x.op = "continue" /\ x.then = "done"
            BY <2>3, <5>2 DEF ClientInv
          <5>4. Continues(x, d, e)
            BY <2>3, <2>4, <2>5, <5>3 DEF LoneFits
          <5>5. w = x.todo[1] /\ ClientInv(x) /\ DOMAIN d = Files
            BY <2>1, <2>3
          <5> QED BY <2>5, <4>1, <5>3, <5>4, <5>5, FillLeads, Zenon
        <4> QED BY <4>2, <4>3
      <3>5. \/ d2 = d \/ Truncate(c) \/ Fill(c) \/ Delete(c)
        <4>1. ASSUME Silent(c)
              PROVE  d2 = d
          BY <2>1, <4>1 DEF Silent, OnlyClient
        <4> QED BY <1>4, <2>1, <4>1, BuildRouteDoes, ReadContextDoes,
                   ReadRouteDoes, OpenStepDoes, ReadStateDoes, EnterDoes,
                   ReturnDoes, ListFilesDoes, KillDoes DEF Goes
      <3> QED BY <3>1, <3>2, <3>3, <3>4, <3>5
    <2> QED BY <1>1, <1>2, <2>1, <2>2, <2>5
  <1>5. CASE UNCHANGED vars
    BY <1>3, <1>5 DEF vars
  <1>6. ASSUME NEW c \in Clients, Begins(c)
        PROVE  disk' = disk /\ (overlap => overlap')
    BY <1>6, BeginDoes DEF Begins
  <1>7. ASSUME NEW f \in SessionFiles, Age(f)
        PROVE  disk' = disk /\ (overlap => overlap')
    BY <1>7, AgeDoes
  <1> QED BY <1>3, <1>4, <1>5, <1>6, <1>7, NextIs

----------------------------------------------------------------------------
(* What sessions keep.                                                     *)

(* At first nobody is active and no session has files.                     *)
LEMMA InitLone ==
    ASSUME Init
    PROVE  IInv
  <1>1. TypeInv
    BY InitTyped
  <1>2. \A c \in Clients : client[c] = Idle
    BY DEF Init
  <1>3. AloneInv
    BY <1>2, IdleIs DEF AloneInv, Active
  <1>4. LoneInv
    BY <1>2, IdleLone DEF LoneInv
  <1>5. PICK started \in BOOLEAN : disk = Captured(started)
    BY DEF Init
  <1>6. ASSUME NEW s \in Sessions
        PROVE  disk[State(s)] = Absent
    <2>1. State(s) \in Files /\ State(s) \in SessionFiles
      BY FilesOfSession
    <2>2. /\ State(s) # RouteFile /\ State(s) # DiffFile
          /\ State(s) # ManifestFile /\ State(s) \notin {ServiceState, ServicePack}
      BY <2>1, OtherFiles
    <2> QED BY <1>5, <2>1, <2>2 DEF Captured
  <1>7. PackLeads
    BY <1>6 DEF PackLeads, Absent
  <1> QED BY <1>1, <1>3, <1>4, <1>7 DEF IInv

(* IInv is inductive.                                                      *)
LEMMA InvStep ==
    ASSUME IInv, [Next]_vars
    PROVE  IInv'
  BY TypeStep, LoneStep, PackLeadsStep DEF IInv

(* A session that was ever continued without an overlap, however its       *)
(* clients were killed, has a pack at least as new as its state.           *)
THEOREM SessionPackLeads == Spec => []PackLeads
  <1>1. Init => IInv
    BY InitLone
  <1>2. IInv /\ [Next]_vars => IInv'
    BY InvStep
  <1>3. IInv => PackLeads
    BY DEF IInv
  <1> QED BY <1>1, <1>2, <1>3, PTL DEF Spec

(* IInv says what LoneContinuationKept says of a continuation.             *)
LEMMA LeavesKept ==
    ASSUME TypeInv, LoneInv
    PROVE  LoneContinuationKept
  <1>1. SUFFICES ASSUME NEW c \in Clients, At(c, "done"),
                        client[c].op = "continue", client[c].alone
                 PROVE  LET s      == client[c].session
                            before == IF client[c].before.is = "file"
                                      THEN client[c].before.value ELSE EmptyState
                            state  == disk[State(s)].value
                            pack   == disk[Pack(s)].value
                        IN  /\ state.steps = before.steps \cup {client[c].id}
                            /\ state.refs = before.refs \cup client[c].opening.refs
                            /\ before.evaluations \subseteq state.evaluations
                            /\ before.unknowns \subseteq state.unknowns
                            /\ pack.evaluations = state.evaluations
                            /\ pack.actions = state.actions
                            /\ evidence.scope = "run" =>
                                \A f \in {Pack(s), State(s)} :
                                    disk[ManifestFile].value[f] = disk[f]
    BY DEF LoneContinuationKept
  <1>2. PICK x, s : x = client[c] /\ s = x.session
    OBVIOUS
  <1>3. x.pc = "done" /\ x.op = "continue" /\ x.alone
    BY <1>1, <1>2 DEF At
  <1>4. Leaves(x, disk, evidence)
    <2>1. Continues(x, disk, evidence)
      BY <1>2, <1>3 DEF LoneInv, LoneFits
    <2> QED BY <1>3, <2>1 DEF Continues, Reads, Writes, Looking, Writing
  <1>5. /\ Remembers(x, disk[State(s)].value)
        /\ Agree(disk[Pack(s)].value, disk[State(s)].value)
        /\ evidence.scope = "run" =>
              \A f \in {Pack(s), State(s)} : disk[ManifestFile].value[f] = disk[f]
    BY <1>2, <1>4 DEF Leaves, BothWritten, Indexed, Has
  <1> QED BY <1>2, <1>5 DEF Remembers, Before, Agree

(* A continuation that nothing overlapped leaves a session that remembers  *)
(* what it knew, its step and its references, with a pack that says the    *)
(* same and a manifest that has both, whatever was killed before it.       *)
THEOREM SessionContinuationKept == Spec => []LoneContinuationKept
  <1>1. Init => IInv
    BY InitLone
  <1>2. IInv /\ [Next]_vars => IInv'
    BY InvStep
  <1>3. IInv => LoneContinuationKept
    BY LeavesKept DEF IInv
  <1> QED BY <1>1, <1>2, <1>3, PTL DEF Spec

(* IInv says what LoneCleanUpBounds says of a clean-up.                    *)
LEMMA CleansBounds ==
    ASSUME TypeInv, LoneInv
    PROVE  LoneCleanUpBounds
  <1>1. SUFFICES ASSUME NEW c \in Clients, At(c, "done"),
                        client[c].op = "cleanup", client[c].alone
                 PROVE  /\ Cardinality(Listed) <= MaxSessions
                        /\ client[c].byAge =>
                            \A f \in client[c].old : disk[f].is = "absent"
    BY DEF LoneCleanUpBounds
  <1>2. PICK x : x = client[c]
    OBVIOUS
  <1>3. Cleans(x, disk) /\ x.pc = "done"
    BY <1>1, <1>2 DEF At, LoneInv, LoneFits
  <1>4. /\ Cardinality(Present(disk) \ x.doomed) <= MaxSessions
        /\ x.byAge => \A f \in x.old : f \in x.doomed \/ disk[f].is = "absent"
        /\ x.doomed = {}
    BY <1>3 DEF Cleans
  <1>5. Present(disk) \ x.doomed = Listed
    BY <1>4 DEF Present, Listed
  <1> QED BY <1>2, <1>4, <1>5

(* A clean-up that nothing overlapped leaves no more session files than    *)
(* its limit, for any limit, and none that it found too old.               *)
THEOREM SessionCleanUpBounds == Spec => []LoneCleanUpBounds
  <1>1. Init => IInv
    BY InitLone
  <1>2. IInv /\ [Next]_vars => IInv'
    BY InvStep
  <1>3. IInv => LoneCleanUpBounds
    BY CleansBounds DEF IInv
  <1> QED BY <1>1, <1>2, <1>3, PTL DEF Spec

=============================================================================

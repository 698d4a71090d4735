------------------------- MODULE FlightRecorderProofs -------------------------
(***************************************************************************)
(* Proofs about FlightRecorder for every number of daemons, markers,       *)
(* triggers, marks, firings and faults: the locks, the bound of the store and its   *)
(* abstract specification, then the bundles themselves.                    *)
(***************************************************************************)
EXTENDS FlightRecorder, FiniteSetTheorems, TLAPS

(* Every layout has six to nine files, all of them known, and only its     *)
(* last is incident.json: the freezer's order of writes.                   *)
LEMMA LayoutEnds ==
    ASSUME NEW r, NEW g
    PROVE  /\ Len(Layout(r, g)) \in 6 .. 9
           /\ Layout(r, g)[Len(Layout(r, g))] = "incident"
           /\ \A k \in 1 .. Len(Layout(r, g)) :
                /\ Layout(r, g)[k] \in Files
                /\ k # Len(Layout(r, g)) => Layout(r, g)[k] # "incident"
  <1>1. CASE r \in Triggers
    BY <1>1 DEF Layout, TriggerFiles, Files
  <1>2. CASE r \notin Triggers /\ g.log
    BY <1>2 DEF Layout, MarkerFilesWithLog, Files
  <1>3. CASE r \notin Triggers /\ ~ g.log
    BY <1>3 DEF Layout, MarkerFiles, Files
  <1> QED BY <1>1, <1>2, <1>3

-----------------------------------------------------------------------------
(* Type correctness.  A command under way has issued its mark, and a       *)
(* daemon past the drain works on a real request.                          *)
CommandHasMark == \A m \in Markers : cli[m] # "idle" => marks[m] \in Marks

JobIsRequest ==
    \A d \in Daemons :
        /\ pc[d] \in {"fired"} \cup Critical => job[d].req \in Requests
        /\ pc[d] = "remove" => job[d].req \in Markers

TypeInv == TypeOK /\ CommandHasMark /\ JobIsRequest

(* The initial state is well typed.                                        *)
LEMMA TypeInit == Init => TypeInv
  <1> SUFFICES ASSUME Init PROVE TypeInv
    OBVIOUS
  <1> USE DEF Init
  <1>1. /\ marks \in [Markers -> 0 .. MaxMarks]
        /\ pending \in [Markers -> Marks \cup {Absent, Torn}]
        /\ batch \in [Daemons -> [Markers -> Nat]]
        /\ fired \in [Triggers -> 0 .. MaxFirings]
        /\ faults \in 0 .. MaxFaults
    BY BoundsAssumption DEF EmptyBatch
  <1>2. /\ result \in [Requests -> Answers]
        /\ bundle \in [Requests -> [Files -> Generations \cup {Absent, Torn}]]
        /\ job \in [Daemons -> Jobs]
    BY DEF Answers, Jobs
  <1>3. CommandHasMark /\ JobIsRequest
    BY DEF CommandHasMark, JobIsRequest, Critical
  <1> QED BY <1>1, <1>2, <1>3 DEF TypeInv, TypeOK, Locations

(* A job, idle or not, has a generation and a mark.                        *)
LEMMA GenOfJob ==
    ASSUME NEW j \in Jobs
    PROVE  j.gen \in Generations /\ j.gen.mark \in Marks
  <1>1. CASE j = NoJob
    <2>1. j.gen = [mark |-> 1, log |-> FALSE]
      BY <1>1 DEF NoJob
    <2>2. 1 \in Marks
      BY BoundsAssumption DEF Marks
    <2> QED BY <2>1, <2>2 DEF Generations
  <1>2. CASE j \in [req : Requests, gen : Generations]
    <2>1. j.gen \in Generations
      BY <1>2
    <2> QED BY <2>1 DEF Generations
  <1> QED BY <1>1, <1>2 DEF Jobs

(* Writing a generation or a torn content keeps the type of the bundles.   *)
LEMMA TypeBundle ==
    ASSUME NEW r, NEW f, NEW c \in Generations \cup {Absent, Torn},
           TypeOK, bundle' = [bundle EXCEPT ![r][f] = c]
    PROVE  bundle' \in [Requests -> [Files -> Generations \cup {Absent, Torn}]]
  <1> DEFINE B == [Files -> Generations \cup {Absent, Torn}]
  <1>1. ASSUME NEW q \in Requests
        PROVE  bundle'[q] \in B
    BY <1>1 DEF TypeOK
  <1> QED BY <1>1 DEF TypeOK

(* A daemon that loses its memory keeps the types.                         *)
LEMMA TypeForget ==
    ASSUME NEW d \in Daemons, TypeInv, Forget(d)
    PROVE  /\ pc' \in [Daemons -> Locations]
           /\ paths' \in [Daemons -> SUBSET Markers]
           /\ batch' \in [Daemons -> [Markers -> Nat]]
           /\ job' \in [Daemons -> Jobs]
           /\ at' \in [Daemons -> Nat]
           /\ JobIsRequest'
  BY BoundsAssumption
  DEF Forget, TypeInv, TypeOK, JobIsRequest, Jobs, EmptyBatch, Locations, Critical

(* The steps of the mark command keep the types.                           *)
LEMMA TypeMark ==
    ASSUME NEW m \in Markers, TypeInv, MarkNext(m)
    PROVE  TypeInv'
  <1> USE DEF TypeInv, TypeOK, CommandHasMark, JobIsRequest, daemonVars
  <1>1. CASE MarkOpen(m) BY <1>1, BoundsAssumption DEF MarkOpen, Marks
  <1>2. CASE MarkWrite(m) BY <1>2 DEF MarkWrite
  <1>3. CASE MarkResult(m) BY <1>3 DEF MarkResult, Answers, Requests
  <1>4. CASE MarkKilled(m) BY <1>4, BoundsAssumption DEF MarkKilled
  <1> QED BY <1>1, <1>2, <1>3, <1>4 DEF MarkNext

(* The steps of a healthy daemon keep the types.                           *)
LEMMA TypeStep ==
    ASSUME NEW d \in Daemons, TypeInv, DaemonStep(d)
    PROVE  TypeInv'
  <1> USE DEF TypeInv, TypeOK, CommandHasMark, JobIsRequest, rootVars, Critical, Locations
  <1>1. CASE DrainList(d) BY <1>1 DEF DrainList
  <1>2. CASE DrainRead(d) BY <1>2 DEF DrainRead, IsFirstPath, Jobs, Requests, Generations
  <1>3. CASE DrainRemove(d) BY <1>3, GenOfJob DEF DrainRemove, DrainRemoveWith, Jobs, Marks
  <1>4. CASE DrainDone(d) BY <1>4 DEF DrainDone
  <1>5. CASE LockForMarker(d)
    BY <1>5, BoundsAssumption
    DEF LockForMarker, Acquire, IsFirstInBatch, Jobs, Requests, Generations, Marks
  <1>6. CASE TriggerFires(d)
    BY <1>6, BoundsAssumption DEF TriggerFires, Jobs, Requests, Generations, Marks
  <1>7. CASE NoTrigger(d) BY <1>7 DEF NoTrigger
  <1>8. CASE LockForTrigger(d) BY <1>8 DEF LockForTrigger, Acquire
  <1>9. CASE Admit(d) BY <1>9 DEF Admit
  <1>10. CASE Refuse(d) BY <1>10, GenOfJob DEF Refuse, Answer, Answers
  <1>11. CASE FreezeMkdir(d) BY <1>11 DEF FreezeMkdir
  <1>12. CASE FreezeWrite(d)
    <2>1. bundle' \in [Requests -> [Files -> Generations \cup {Absent, Torn}]]
      BY <1>12, GenOfJob, TypeBundle DEF FreezeWrite
    <2>2. at' \in [Daemons -> Nat] /\ pc' \in [Daemons -> Locations]
      BY <1>12 DEF FreezeWrite
    <2>3. JobIsRequest'
      BY <1>12 DEF FreezeWrite
    <2> QED BY <1>12, <2>1, <2>2, <2>3 DEF FreezeWrite
  <1>13. CASE Report(d) BY <1>13, GenOfJob DEF Report, Answer, Answers
  <1>14. CASE Unlock(d) BY <1>14 DEF Unlock, Jobs
  <1>15. CASE Restart(d) BY <1>15 DEF Restart
  <1>16. CASE ExitWithError(d) BY <1>16, TypeForget DEF ExitWithError
  <1> QED
    BY <1>1, <1>2, <1>3, <1>4, <1>5, <1>6, <1>7, <1>8, <1>9, <1>10, <1>11, <1>12,
       <1>13, <1>14, <1>15, <1>16
    DEF DaemonStep, DrainReadFails, DrainRemoveFails, LockForMarkerFails,
        LockForTriggerFails

(* Crashes and failed system calls keep the types.                         *)
LEMMA TypeFault ==
    ASSUME NEW d \in Daemons, TypeInv, DaemonFault(d)
    PROVE  TypeInv'
  <1>0. ASSUME MayTear(d)
        PROVE  bundle' \in [Requests -> [Files -> Generations \cup {Absent, Torn}]]
    BY <1>0, TypeBundle DEF MayTear, TypeInv, TypeOK
  <1>1. CASE Crash(d)
    <2>1. MayTear(d) /\ Forget(d) BY <1>1 DEF Crash
    <2>2. faults' \in 0 .. MaxFaults
      BY <1>1, BoundsAssumption DEF Crash, TypeInv, TypeOK
    <2> QED BY <1>0, <1>1, <2>1, <2>2, TypeForget DEF Crash, TypeInv, TypeOK, CommandHasMark
  <1>2. CASE FreezeFails(d)
    <2>1. MayTear(d) /\ Forget(d) BY <1>2 DEF FreezeFails
    <2>2. faults' \in 0 .. MaxFaults
      BY <1>2, BoundsAssumption DEF FreezeFails, TypeInv, TypeOK
    <2> QED BY <1>0, <1>2, <2>1, <2>2, TypeForget DEF FreezeFails, TypeInv, TypeOK, CommandHasMark
  <1> QED BY <1>1, <1>2 DEF DaemonFault

(* Every step keeps the types.                                             *)
LEMMA TypeNext == TypeInv /\ [Next]_vars => TypeInv'
  <1> SUFFICES ASSUME TypeInv, [Next]_vars PROVE TypeInv'
    OBVIOUS
  <1>1. CASE UNCHANGED vars
    BY <1>1 DEF TypeInv, TypeOK, CommandHasMark, JobIsRequest, vars, rootVars, daemonVars
  <1> QED BY <1>1, TypeMark, TypeStep, TypeFault DEF Next

(* Every variable keeps its type.                                          *)
THEOREM TypeCorrect == Spec => []TypeOK
  <1>1. Spec => []TypeInv
    BY TypeInit, TypeNext, PTL DEF Spec
  <1> QED BY <1>1, PTL DEF TypeInv

-----------------------------------------------------------------------------
(* The admission lock.  Who is in the critical section holds the lock      *)
(* file; the file alone may be a crashed daemon's.                         *)
LockHeld == \A d \in Daemons : pc[d] \in Critical => lockFile

LockInv == LockHeld /\ AdmissionExclusive

(* Every step keeps the lock file of a daemon that is in its section.      *)
LEMMA LockNext == TypeInv /\ LockInv /\ [Next]_vars => LockInv'
  <1> SUFFICES ASSUME TypeInv, LockInv, [Next]_vars PROVE LockInv'
    OBVIOUS
  <1> USE DEF LockInv, LockHeld, AdmissionExclusive
  <1>1. CASE UNCHANGED <<pc, lockFile>>
    BY <1>1
  <1>2. ASSUME NEW m \in Markers, MarkNext(m)
        PROVE  LockInv'
    <2>1. UNCHANGED <<pc, lockFile>>
      BY <1>2, Zenon DEF MarkNext, MarkOpen, MarkWrite, MarkResult, MarkKilled, daemonVars
    <2> QED BY <1>1, <2>1
  (* The daemon enters with the file it created, ...                       *)
  <1>3. ASSUME NEW d \in Daemons, ~ lockFile, lockFile',
               pc' = [pc EXCEPT ![d] = "admit"]
        PROVE  LockInv'
    BY <1>3 DEF TypeInv, TypeOK
  (* ... moves about with the file as it is, entering only from inside, ... *)
  <1>4. ASSUME NEW d \in Daemons, NEW l,
               pc' = [pc EXCEPT ![d] = l], UNCHANGED lockFile,
               l \in Critical => pc[d] \in Critical
        PROVE  LockInv'
    BY <1>4 DEF TypeInv, TypeOK
  (* ... and leaves as it removes the file.                                *)
  <1>5. ASSUME NEW d \in Daemons, NEW l, pc[d] \in Critical,
               pc' = [pc EXCEPT ![d] = l], l \notin Critical
        PROVE  LockInv'
    BY <1>5 DEF TypeInv, TypeOK
  <1>6. ASSUME NEW d \in Daemons, DaemonStep(d)
        PROVE  LockInv'
    <2>1. CASE LockForMarker(d) BY <2>1, <1>3 DEF LockForMarker, Acquire
    <2>2. CASE LockForTrigger(d) BY <2>2, <1>3 DEF LockForTrigger, Acquire
    <2>3. CASE Unlock(d)
      <3>1. /\ pc[d] \in Critical
            /\ \/ pc' = [pc EXCEPT ![d] = "markers"]
               \/ pc' = [pc EXCEPT ![d] = "idle"]
        BY <2>3 DEF Unlock, Critical
      <3>2. "markers" \notin Critical /\ "idle" \notin Critical
        BY DEF Critical
      <3> QED BY <3>1, <3>2, <1>5
    <2>4. CASE ExitWithError(d)
      BY <2>4, <1>4 DEF ExitWithError, Forget, rootVars, Critical
    <2>5. CASE DrainList(d) BY <2>5, <1>4 DEF DrainList, rootVars, Critical
    <2>6. CASE DrainRead(d) BY <2>6, <1>4 DEF DrainRead, rootVars, Critical
    <2>7. CASE DrainRemove(d) BY <2>7, <1>4 DEF DrainRemove, DrainRemoveWith, Critical
    <2>8. CASE DrainDone(d) BY <2>8, <1>4 DEF DrainDone, rootVars, Critical
    <2>9. CASE TriggerFires(d) BY <2>9, <1>4 DEF TriggerFires, rootVars, Critical
    <2>10. CASE NoTrigger(d) BY <2>10, <1>4 DEF NoTrigger, rootVars, Critical
    <2>11. CASE Admit(d)
      <3>1. pc[d] \in Critical /\ UNCHANGED lockFile
        BY <2>11 DEF Admit, rootVars, Critical
      <3>2. \/ pc' = [pc EXCEPT ![d] = "freeze"]
            \/ pc' = [pc EXCEPT ![d] = "refuse"]
        BY <2>11 DEF Admit
      <3> QED BY <3>1, <3>2, <1>4
    <2>12. CASE Refuse(d) BY <2>12, <1>4 DEF Refuse, Critical
    <2>13. CASE FreezeMkdir(d) BY <2>13, <1>1 DEF FreezeMkdir
    <2>14. CASE FreezeWrite(d) BY <2>14, <1>4 DEF FreezeWrite, Critical
    <2>15. CASE Report(d) BY <2>15, <1>4 DEF Report, Critical
    <2>16. CASE Restart(d) BY <2>16, <1>4 DEF Restart, rootVars, Critical
    <2> QED
      BY <1>6, <2>1, <2>2, <2>3, <2>4, <2>5, <2>6, <2>7, <2>8, <2>9, <2>10, <2>11,
         <2>12, <2>13, <2>14, <2>15, <2>16
      DEF DaemonStep, DrainReadFails, DrainRemoveFails, LockForMarkerFails,
          LockForTriggerFails
  <1>7. ASSUME NEW d \in Daemons, DaemonFault(d)
        PROVE  LockInv'
    <2>0. "off" \notin Critical
      BY DEF Critical
    <2>1. CASE Crash(d) BY <2>0, <2>1, <1>4 DEF Crash, Forget
    <2>2. CASE FreezeFails(d) BY <2>0, <2>2, <1>5 DEF FreezeFails, Forget
    <2> QED BY <1>7, <2>1, <2>2 DEF DaemonFault
  <1> QED BY <1>1, <1>2, <1>6, <1>7 DEF Next, vars, rootVars, daemonVars

(* At most one daemon is between the budget check and the end of the       *)
(* freeze it allows.                                                       *)
THEOREM AdmissionIsExclusive == Spec => []AdmissionExclusive
  <1>1. Init => LockInv
    BY DEF Init, LockInv, LockHeld, AdmissionExclusive, Critical
  <1>2. Spec => [](TypeInv /\ LockInv)
    BY <1>1, TypeInit, TypeNext, LockNext, PTL DEF Spec
  <1> QED BY <1>2, PTL DEF LockInv

-----------------------------------------------------------------------------
(* The incident store.  The budget check admits a freeze only into a clean *)
(* inventory with room, and the lock keeps that true until the freeze is   *)
(* over: its own directory is the only incomplete one.                     *)
NothingBeforeMkdir == \A r \in Requests \ dirs, f \in Files : bundle[r][f] = Absent

FreezeAdmitted ==
    \A d \in Daemons :
        /\ pc[d] = "freeze" =>
             /\ Cardinality(Valid) < MaxFrozenIncidents
             /\ Malformed \subseteq {job[d].req}
             /\ at[d] = 0 => Malformed = {}
             /\ at[d] # 0 => job[d].req \in dirs
        /\ pc[d] # "freeze" => at[d] = 0

StoreInv ==
    /\ NothingBeforeMkdir
    /\ FreezeAdmitted
    /\ OneIncompleteBundle
    /\ BudgetRespected

(* The valid incidents can be counted.                                     *)
LEMMA ValidFinite ==
    ASSUME TypeOK
    PROVE  Valid \subseteq Requests /\ IsFiniteSet(Valid) /\ Cardinality(Valid) \in Nat
  <1>1. Valid \subseteq Requests
    BY DEF TypeOK, Valid
  <1>2. IsFiniteSet(Valid)
    BY <1>1, RequestsAssumption, FS_Subset
  <1> QED BY <1>1, <1>2, FS_CardinalityType

(* A step that touches neither directories nor files keeps the inventory.  *)
LEMMA InventoryKept ==
    ASSUME UNCHANGED <<dirs, bundle>>
    PROVE  Valid' = Valid /\ Malformed' = Malformed
  BY DEF Valid, Malformed

(* What writing one file of an incident does to the inventory: nothing,    *)
(* unless the file is incident.json.                                       *)
LEMMA InventoryAfterWrite ==
    ASSUME NEW r \in dirs, NEW f \in Files, NEW c \in Generations \cup {Absent, Torn},
           TypeOK, dirs' = dirs, bundle' = [bundle EXCEPT ![r][f] = c]
    PROVE  /\ f # "incident" => Valid' = Valid
           /\ f = "incident" /\ c \in Generations => Valid' = Valid \cup {r}
           /\ f = "incident" /\ c = Torn => Valid' = Valid \ {r}
           /\ Malformed' = dirs \ Valid'
  <1>1. "incident" \in Files
    BY DEF Files
  <1>2. ASSUME NEW q \in dirs
        PROVE  bundle'[q]["incident"] =
                 IF q = r /\ f = "incident" THEN c ELSE bundle[q]["incident"]
    BY <1>1, <1>2 DEF TypeOK
  <1>3. c \in Generations => c \notin {Absent, Torn}
    BY ContentsAssumption
  <1> QED BY <1>2, <1>3 DEF Valid, Malformed

(* A write of an admitted freeze, or a torn one, keeps the budget.         *)
LEMMA WriteFits ==
    ASSUME NEW r, NEW V, TypeOK, Cardinality(Valid) < MaxFrozenIncidents,
           V \in {Valid, Valid \cup {r}, Valid \ {r}}
    PROVE  Cardinality(V) <= MaxFrozenIncidents
  <1>1. IsFiniteSet(Valid) /\ Cardinality(Valid) \in Nat
    BY ValidFinite
  <1>2. Cardinality(Valid \cup {r}) \in {Cardinality(Valid), Cardinality(Valid) + 1}
    BY <1>1, FS_AddElement
  <1>3. Cardinality(Valid \ {r}) \in {Cardinality(Valid), Cardinality(Valid) - 1}
    BY <1>1, FS_RemoveElement
  <1>4. Cardinality(V) \in {Cardinality(Valid), Cardinality(Valid \cup {r}),
                           Cardinality(Valid \ {r})}
    BY Zenon
  <1> QED BY <1>1, <1>2, <1>3, <1>4, BoundsAssumption

(* A step that leaves the inventory alone and lets nobody begin a freeze.  *)
LEMMA StoreQuiet ==
    ASSUME StoreInv, UNCHANGED <<dirs, bundle>>,
           \A d \in Daemons :
             \/ UNCHANGED <<pc[d], job[d], at[d]>>
             \/ pc'[d] # "freeze" /\ at'[d] = 0
    PROVE  StoreInv'
  <1> USE DEF StoreInv
  <1>1. Valid' = Valid /\ Malformed' = Malformed
    BY InventoryKept
  <1>2. FreezeAdmitted'
    <2> SUFFICES ASSUME NEW d \in Daemons
                 PROVE  /\ pc'[d] = "freeze" =>
                             /\ Cardinality(Valid') < MaxFrozenIncidents
                             /\ Malformed' \subseteq {job'[d].req}
                             /\ at'[d] = 0 => Malformed' = {}
                             /\ at'[d] # 0 => job'[d].req \in dirs'
                        /\ pc'[d] # "freeze" => at'[d] = 0
      BY DEF FreezeAdmitted
    <2> QED BY <1>1 DEF FreezeAdmitted
  <1>3. NothingBeforeMkdir'
    BY DEF NothingBeforeMkdir
  <1> QED BY <1>1, <1>2, <1>3 DEF OneIncompleteBundle, BudgetRespected

(* What a daemon's own freeze knows, by the lock: nobody else freezes.     *)
LEMMA OnlyFreezer ==
    ASSUME LockInv, NEW d \in Daemons, NEW e \in Daemons,
           pc[d] \in Critical, pc[e] = "freeze"
    PROVE  d = e
  BY DEF LockInv, AdmissionExclusive, Critical

(* Admission, the one step that begins a freeze, finds room for it.        *)
LEMMA StoreAdmit ==
    ASSUME TypeInv, LockInv, StoreInv, NEW d \in Daemons, Admit(d)
    PROVE  StoreInv'
  <1>1. Valid' = Valid /\ Malformed' = Malformed
    BY InventoryKept DEF Admit, rootVars
  <1>2. at[d] = 0 /\ UNCHANGED <<at, job, dirs, bundle>>
    BY DEF Admit, rootVars, StoreInv, FreezeAdmitted
  <1>3. CASE Admissible
    <2>1. pc' = [pc EXCEPT ![d] = "freeze"]
      BY <1>3 DEF Admit
    <2>2. FreezeAdmitted'
      BY <1>1, <1>2, <1>3, <2>1 DEF FreezeAdmitted, StoreInv, Admissible, TypeInv, TypeOK
    <2>3. NothingBeforeMkdir'
      BY <1>2 DEF NothingBeforeMkdir, StoreInv
    <2> QED BY <1>1, <2>2, <2>3 DEF StoreInv, OneIncompleteBundle, BudgetRespected
  <1>4. CASE ~ Admissible
    <2>1. pc' = [pc EXCEPT ![d] = "refuse"]
      BY <1>4 DEF Admit
    <2> QED BY <1>2, <2>1, StoreQuiet DEF TypeInv, TypeOK
  <1> QED BY <1>3, <1>4

(* The directory of an admitted freeze is the only incomplete one.         *)
LEMMA StoreMkdir ==
    ASSUME TypeInv, LockInv, StoreInv, NEW d \in Daemons, FreezeMkdir(d)
    PROVE  StoreInv'
  <1> DEFINE r == job[d].req
  <1>1. /\ pc[d] = "freeze" /\ at[d] = 0 /\ r \in Requests
        /\ Malformed = {} /\ Cardinality(Valid) < MaxFrozenIncidents
    BY DEF FreezeMkdir, StoreInv, FreezeAdmitted, TypeInv, JobIsRequest, Critical
  <1>2. Valid' = Valid /\ Malformed' = dirs' \ Valid /\ dirs = Valid
    <2>1. r \notin dirs => bundle[r]["incident"] = Absent
      BY <1>1 DEF StoreInv, NothingBeforeMkdir, Files
    <2> QED BY <1>1, <2>1 DEF FreezeMkdir, Valid, Malformed
  <1>3. Malformed' \subseteq {r}
    BY <1>2 DEF FreezeMkdir
  <1>4. FreezeAdmitted'
    <2>1. \A e \in Daemons : pc[e] = "freeze" => e = d
      BY <1>1, OnlyFreezer DEF Critical
    <2>2. at' = [at EXCEPT ![d] = 1] /\ pc' = pc /\ job' = job /\ r \in dirs'
      BY DEF FreezeMkdir
    <2> QED BY <1>1, <1>2, <1>3, <2>1, <2>2 DEF FreezeAdmitted, StoreInv, TypeInv, TypeOK
  <1>5. NothingBeforeMkdir'
    BY DEF FreezeMkdir, StoreInv, NothingBeforeMkdir
  <1> QED
    BY <1>1, <1>2, <1>3, <1>4, <1>5 DEF StoreInv, OneIncompleteBundle, BudgetRespected

(* The file a freeze is at, and what writing it or tearing it leaves.      *)
LEMMA FreezeFile ==
    ASSUME TypeInv, LockInv, StoreInv, NEW d \in Daemons, pc[d] = "freeze",
           at[d] \in 1 .. Len(Layout(job[d].req, job[d].gen))
    PROVE  LET r == job[d].req
               L == Layout(r, job[d].gen)
           IN  /\ r \in dirs /\ L[at[d]] \in Files
               /\ L[at[d]] = "incident" <=> at[d] = Len(L)
               /\ job[d].gen \in Generations
               /\ Cardinality(Valid) < MaxFrozenIncidents
               /\ Malformed \subseteq {r}
  <1>1. at[d] # 0
    BY LayoutEnds
  <1>2. job[d].gen \in Generations
    BY GenOfJob DEF TypeInv, TypeOK
  <1> QED BY <1>1, <1>2, LayoutEnds DEF StoreInv, FreezeAdmitted

(* Writing the next file of an admitted freeze keeps the store.            *)
LEMMA StoreWrite ==
    ASSUME TypeInv, LockInv, StoreInv, NEW d \in Daemons, FreezeWrite(d)
    PROVE  StoreInv'
  <1> DEFINE r == job[d].req
             g == job[d].gen
             L == Layout(r, g)
             f == L[at[d]]
  <1>1. /\ pc[d] = "freeze" /\ at[d] \in 1 .. Len(L) /\ dirs' = dirs /\ job' = job
        /\ bundle' = [bundle EXCEPT ![r][f] = g]
    BY DEF FreezeWrite
  <1>2. /\ r \in dirs /\ f \in Files /\ g \in Generations
        /\ f = "incident" <=> at[d] = Len(L)
        /\ Cardinality(Valid) < MaxFrozenIncidents
        /\ Malformed \subseteq {r}
    BY <1>1, FreezeFile
  <1>3. Len(L) \in Nat
    BY LayoutEnds
  <1>3a. /\ at' = [at EXCEPT ![d] = IF at[d] = Len(L) THEN 0 ELSE @ + 1]
         /\ pc' = [pc EXCEPT ![d] =
                     IF at[d] < Len(L) THEN "freeze"
                     ELSE IF r \in Markers THEN "report" ELSE "unlock"]
    BY DEF FreezeWrite
  <1> HIDE DEF r, g, L, f
  <1>4. /\ f # "incident" => Valid' = Valid
        /\ f = "incident" => Valid' = Valid \cup {r}
        /\ Malformed' = dirs \ Valid'
    BY <1>1, <1>2, InventoryAfterWrite DEF TypeInv
  <1>5. Malformed' \subseteq {r}
    BY <1>2, <1>4 DEF Malformed
  <1>6. Cardinality(Valid') <= MaxFrozenIncidents
    BY <1>2, <1>4, WriteFits DEF TypeInv
  <1>7. NothingBeforeMkdir'
    BY <1>1, <1>2 DEF StoreInv, NothingBeforeMkdir, TypeInv, TypeOK
  <1>8. \A e \in Daemons : pc[e] = "freeze" => e = d
    BY <1>1, OnlyFreezer DEF Critical
  <1>9. CASE at[d] = Len(L)
    <2>0. ~ (at[d] < Len(L))
      BY <1>3, <1>9
    <2>1. /\ at' = [at EXCEPT ![d] = 0]
          /\ \/ pc' = [pc EXCEPT ![d] = "report"]
             \/ pc' = [pc EXCEPT ![d] = "unlock"]
      BY <1>3a, <1>9, <2>0, Zenon
    <2>2. FreezeAdmitted'
      BY <1>8, <2>1 DEF FreezeAdmitted, StoreInv, TypeInv, TypeOK
    <2> QED BY <1>5, <1>6, <1>7, <2>2 DEF StoreInv, OneIncompleteBundle, BudgetRespected
  <1>10. CASE at[d] # Len(L)
    <2>0. at[d] < Len(L) /\ at[d] + 1 # 0
      BY <1>1, <1>3, <1>10
    <2>1. /\ at' = [at EXCEPT ![d] = @ + 1]
          /\ pc' = [pc EXCEPT ![d] = "freeze"]
      BY <1>3a, <1>10, <2>0, Zenon
    <2>2. FreezeAdmitted'
      BY <1>1, <1>2, <1>4, <1>5, <1>8, <1>10, <2>0, <2>1
      DEF FreezeAdmitted, StoreInv, TypeInv, TypeOK, r
    <2> QED BY <1>5, <1>6, <1>7, <2>2 DEF StoreInv, OneIncompleteBundle, BudgetRespected
  <1> QED BY <1>9, <1>10

(* A fault in the middle of a freeze keeps the store.                      *)
LEMMA StoreTear ==
    ASSUME TypeInv, LockInv, StoreInv, NEW d \in Daemons,
           MayTear(d), Forget(d), UNCHANGED dirs
    PROVE  StoreInv'
  <1> DEFINE r == job[d].req
             L == Layout(r, job[d].gen)
             f == L[at[d]]
  <1>1. CASE UNCHANGED bundle
    BY <1>1, StoreQuiet DEF Forget, TypeInv, TypeOK
  <1>2. CASE /\ pc[d] = "freeze" /\ at[d] \in 1 .. Len(L)
             /\ bundle' = [bundle EXCEPT ![r][f] = Torn]
    <2>1. /\ r \in dirs /\ f \in Files
          /\ Cardinality(Valid) < MaxFrozenIncidents
          /\ Malformed \subseteq {r}
      BY <1>2, FreezeFile
    <2> HIDE DEF r, L, f
    <2>2. /\ f # "incident" => Valid' = Valid
          /\ f = "incident" => Valid' = Valid \ {r}
          /\ Malformed' = dirs \ Valid'
      BY <1>2, <2>1, InventoryAfterWrite DEF TypeInv
    <2>3. Malformed' \subseteq {r}
      BY <2>1, <2>2 DEF Malformed
    <2>4. Cardinality(Valid') <= MaxFrozenIncidents
      BY <2>1, <2>2, WriteFits DEF TypeInv
    <2>5. NothingBeforeMkdir'
      BY <1>2, <2>1 DEF StoreInv, NothingBeforeMkdir, TypeInv, TypeOK
    <2>6. \A e \in Daemons : pc[e] = "freeze" => e = d
      BY <1>2, OnlyFreezer DEF Critical
    <2>7. FreezeAdmitted'
      BY <2>6 DEF FreezeAdmitted, Forget, StoreInv, TypeInv, TypeOK
    <2> QED BY <2>3, <2>4, <2>5, <2>7 DEF StoreInv, OneIncompleteBundle, BudgetRespected
  <1> QED BY <1>1, <1>2 DEF MayTear

(* Every step keeps the store within its budget.                           *)
LEMMA StoreNext == TypeInv /\ LockInv /\ StoreInv /\ [Next]_vars => StoreInv'
  <1> SUFFICES ASSUME TypeInv, LockInv, StoreInv, [Next]_vars PROVE StoreInv'
    OBVIOUS
  <1> USE DEF TypeInv, TypeOK
  <1>1. CASE UNCHANGED <<dirs, bundle, pc, job, at>>
    BY <1>1, StoreQuiet
  <1>2. ASSUME NEW m \in Markers, MarkNext(m)
        PROVE  StoreInv'
    <2>1. UNCHANGED <<dirs, bundle, pc, job, at>>
      BY <1>2, Zenon
      DEF MarkNext, MarkOpen, MarkWrite, MarkResult, MarkKilled, daemonVars
    <2> QED BY <1>1, <2>1
  (* A daemon that is not freezing moves to where it is not freezing.      *)
  <1>3. ASSUME NEW d \in Daemons, pc[d] # "freeze", pc'[d] # "freeze",
               UNCHANGED <<dirs, bundle, at>>,
               \A e \in Daemons \ {d} : UNCHANGED <<pc[e], job[e]>>
        PROVE  StoreInv'
    <2>1. at[d] = 0
      BY <1>3 DEF StoreInv, FreezeAdmitted
    <2> QED BY <1>3, <2>1, StoreQuiet
  <1>4. ASSUME NEW d \in Daemons, DaemonStep(d)
        PROVE  StoreInv'
    <2>1. CASE DrainList(d) BY <2>1, <1>3 DEF DrainList, rootVars
    <2>2. CASE DrainRead(d) BY <2>2, <1>3 DEF DrainRead, rootVars
    <2>3. CASE DrainRemove(d) BY <2>3, <1>3 DEF DrainRemove, DrainRemoveWith
    <2>4. CASE DrainDone(d) BY <2>4, <1>3 DEF DrainDone, rootVars
    <2>5. CASE LockForMarker(d) BY <2>5, <1>3 DEF LockForMarker
    <2>6. CASE TriggerFires(d) BY <2>6, <1>3 DEF TriggerFires, rootVars
    <2>7. CASE NoTrigger(d) BY <2>7, <1>3 DEF NoTrigger, rootVars
    <2>8. CASE LockForTrigger(d) BY <2>8, <1>3 DEF LockForTrigger
    <2>9. CASE Admit(d) BY <2>9, StoreAdmit
    <2>10. CASE Refuse(d) BY <2>10, <1>3 DEF Refuse
    <2>11. CASE FreezeMkdir(d) BY <2>11, StoreMkdir
    <2>12. CASE FreezeWrite(d) BY <2>12, StoreWrite
    <2>13. CASE Report(d) BY <2>13, <1>3 DEF Report
    <2>14. CASE Unlock(d) BY <2>14, <1>3 DEF Unlock
    <2>15. CASE Restart(d) BY <2>15, <1>3 DEF Restart, rootVars
    <2>16. CASE ExitWithError(d)
      BY <2>16, StoreTear DEF ExitWithError, rootVars, MayTear
    <2> QED
      BY <1>4, <2>1, <2>2, <2>3, <2>4, <2>5, <2>6, <2>7, <2>8, <2>9, <2>10, <2>11,
         <2>12, <2>13, <2>14, <2>15, <2>16
      DEF DaemonStep, DrainReadFails, DrainRemoveFails, LockForMarkerFails,
          LockForTriggerFails
  <1>5. ASSUME NEW d \in Daemons, DaemonFault(d)
        PROVE  StoreInv'
    BY <1>5, StoreTear DEF DaemonFault, Crash, FreezeFails
  <1> QED BY <1>1, <1>2, <1>4, <1>5 DEF Next, vars, rootVars, daemonVars

(* The initial store is empty.                                             *)
LEMMA StoreInit == Init => StoreInv
  <1> SUFFICES ASSUME Init PROVE StoreInv
    OBVIOUS
  <1>1. Valid = {} /\ Malformed = {}
    BY DEF Init, Valid, Malformed
  <1>2. Cardinality(Valid) = 0
    BY <1>1, FS_EmptySet
  <1> QED
    BY <1>1, <1>2, BoundsAssumption
    DEF Init, StoreInv, NothingBeforeMkdir, FreezeAdmitted, OneIncompleteBundle,
        BudgetRespected

Safe == TypeInv /\ LockInv /\ StoreInv

(* The three parts of the invariant hold together.                         *)
LEMMA Safety == Spec => []Safe
  <1>1. Init => LockInv
    BY DEF Init, LockInv, LockHeld, AdmissionExclusive, Critical
  <1>2. Safe /\ [Next]_vars => Safe'
    BY TypeNext, LockNext, StoreNext DEF Safe
  <1> QED BY <1>1, <1>2, TypeInit, StoreInit, PTL DEF Spec, Safe

(* No interleaving of commands, daemons, crashes and restarts freezes more *)
(* incidents than max_frozen_incidents.                                    *)
THEOREM BudgetIsRespected == Spec => []BudgetRespected
  BY Safety, PTL DEF Safe, StoreInv

(* Two freezes are never both incomplete, however many were interrupted.   *)
THEOREM AtMostOneIncomplete == Spec => []OneIncompleteBundle
  BY Safety, PTL DEF Safe, StoreInv

-----------------------------------------------------------------------------
(* The refinement of IncidentStore.  The inventory is a function of dirs   *)
(* and Valid only, and each freeze step changes it for its own request.    *)

(* The inventory, read off the directories and the valid incidents.        *)
LEMMA InventoryOf ==
    /\ Inventory = [r \in Requests |-> IF r \notin dirs THEN "absent"
                                       ELSE IF r \in Valid THEN "frozen"
                                       ELSE "incomplete"]
    /\ Inventory' = [r \in Requests |-> IF r \notin dirs' THEN "absent"
                                        ELSE IF r \in Valid' THEN "frozen"
                                        ELSE "incomplete"]
  BY DEF Inventory, IncidentState

(* The abstract store counts as the recorder does.                         *)
LEMMA SameCardinality ==
    ASSUME NEW S
    PROVE  Store!Cardinality(S) = Cardinality(S)
  BY Zenon DEF Store!Cardinality, Cardinality, Store!IsFiniteSet, IsFiniteSet

(* The abstract store sees the valid and the malformed incidents.          *)
LEMMA StoreSees ==
    ASSUME TypeOK
    PROVE  Store!Frozen = Valid /\ Store!Incomplete = Malformed
  BY InventoryOf DEF Store!Frozen, Store!Incomplete, TypeOK, Valid, Malformed

(* Making the directory opens the incident, or leaves it incomplete.       *)
LEMMA MkdirOpens ==
    ASSUME Safe, NEW d \in Daemons, FreezeMkdir(d)
    PROVE  [Store!Next]_Inventory
  <1> DEFINE r == job[d].req
  <1> USE DEF Safe
  <1>1. /\ pc[d] = "freeze" /\ at[d] = 0 /\ r \in Requests
        /\ Malformed = {} /\ Cardinality(Valid) < MaxFrozenIncidents
    BY DEF FreezeMkdir, StoreInv, FreezeAdmitted, TypeInv, JobIsRequest, Critical
  <1>2. CASE r \in dirs
    <2>1. dirs' = dirs /\ Valid' = Valid
      BY <1>2, InventoryKept DEF FreezeMkdir
    <2> QED BY <2>1, InventoryOf
  <1>3. CASE r \notin dirs
    <2>1. r \notin Valid'
      BY <1>1, <1>3 DEF FreezeMkdir, Valid, StoreInv, NothingBeforeMkdir, Files
    <2>2. dirs' = dirs \cup {r} /\ Valid' = Valid
      BY <2>1 DEF FreezeMkdir, Valid
    <2>3. /\ Inventory[r] = "absent"
          /\ Inventory' = [Inventory EXCEPT ![r] = "incomplete"]
      BY <1>1, <1>3, <2>1, <2>2, InventoryOf
    <2>4. Store!MayOpen
      BY <1>1, StoreSees, SameCardinality DEF Store!MayOpen, TypeInv
    <2>5. Store!Open(r)
      BY <2>3, <2>4 DEF Store!Open
    <2> QED BY <1>1, <2>5 DEF Store!Next
  <1> QED BY <1>2, <1>3

(* Writing the last file seals the incident; the others are stutters.      *)
LEMMA WriteSeals ==
    ASSUME Safe, NEW d \in Daemons, FreezeWrite(d)
    PROVE  [Store!Next]_Inventory
  <1> DEFINE r == job[d].req
             g == job[d].gen
             L == Layout(r, g)
             f == L[at[d]]
  <1> USE DEF Safe
  <1>1. /\ pc[d] = "freeze" /\ at[d] \in 1 .. Len(L) /\ dirs' = dirs
        /\ bundle' = [bundle EXCEPT ![r][f] = g]
    BY DEF FreezeWrite
  <1>2. r \in dirs /\ f \in Files /\ g \in Generations
    BY <1>1, FreezeFile
  <1> HIDE DEF r, g, L, f
  <1>3. Valid' = Valid \/ Valid' = Valid \cup {r}
    BY <1>1, <1>2, InventoryAfterWrite DEF TypeInv
  <1>4. CASE Valid' = Valid
    BY <1>1, <1>4, InventoryOf
  <1>5. CASE Valid' = Valid \cup {r} /\ r \notin Valid
    <2>1. r \in Requests
      BY <1>2 DEF TypeInv, TypeOK
    <2>2. /\ Inventory[r] = "incomplete"
          /\ Inventory' = [Inventory EXCEPT ![r] = "frozen"]
      BY <1>1, <1>2, <1>5, <2>1, InventoryOf
    <2> QED BY <2>1, <2>2 DEF Store!Seal, Store!Next
  <1> QED BY <1>3, <1>4, <1>5

(* A torn incident.json reopens a frozen incident, or stutters.            *)
LEMMA TearReopens ==
    ASSUME Safe, NEW d \in Daemons, MayTear(d), dirs' = dirs
    PROVE  [Store!Next]_Inventory
  <1> DEFINE r == job[d].req
             L == Layout(r, job[d].gen)
             f == L[at[d]]
  <1> USE DEF Safe
  <1>1. CASE UNCHANGED bundle
    BY <1>1, InventoryKept, InventoryOf
  <1>2. CASE /\ pc[d] = "freeze" /\ at[d] \in 1 .. Len(L)
             /\ bundle' = [bundle EXCEPT ![r][f] = Torn]
    <2>1. /\ r \in dirs /\ f \in Files
          /\ Cardinality(Valid) < MaxFrozenIncidents
          /\ Malformed \subseteq {r}
      BY <1>2, FreezeFile
    <2> HIDE DEF r, L, f
    <2>2. Valid' = Valid \/ Valid' = Valid \ {r}
      BY <1>2, <2>1, InventoryAfterWrite DEF TypeInv
    <2>3. CASE Valid' = Valid
      BY <2>3, InventoryOf
    <2>4. CASE Valid' = Valid \ {r} /\ r \in Valid
      <3>1. r \in Requests
        BY <2>1 DEF TypeInv, TypeOK
      <3>2. /\ Inventory[r] = "frozen"
            /\ Inventory' = [Inventory EXCEPT ![r] = "incomplete"]
        BY <2>1, <2>4, <3>1, InventoryOf
      <3>3. Malformed = {}
        BY <2>1, <2>4 DEF Malformed
      <3>4. Store!MayOpen
        BY <2>1, <3>3, StoreSees, SameCardinality DEF Store!MayOpen, TypeInv
      <3>5. Store!Reopen(r)
        BY <3>2, <3>4 DEF Store!Reopen
      <3> QED BY <3>1, <3>5 DEF Store!Next
    <2> QED BY <2>2, <2>3, <2>4
  <1> QED BY <1>1, <1>2 DEF MayTear

(* Every step is a step of the abstract store, or a stutter.               *)
LEMMA StoreStep == Safe /\ [Next]_vars => [Store!Next]_Inventory
  <1> SUFFICES ASSUME Safe, [Next]_vars PROVE [Store!Next]_Inventory
    OBVIOUS
  <1>1. CASE UNCHANGED <<dirs, bundle>>
    BY <1>1, InventoryKept, InventoryOf
  <1>2. ASSUME NEW m \in Markers, MarkNext(m)
        PROVE  UNCHANGED <<dirs, bundle>>
    BY <1>2, Zenon DEF MarkNext, MarkOpen, MarkWrite, MarkResult, MarkKilled
  <1>3. ASSUME NEW d \in Daemons, DaemonStep(d), ~ FreezeMkdir(d), ~ FreezeWrite(d)
        PROVE  UNCHANGED <<dirs, bundle>>
    BY <1>3
    DEF DaemonStep, DrainList, DrainRead, DrainReadFails, DrainRemove, DrainRemoveWith, DrainRemoveFails,
        DrainDone, LockForMarker, LockForMarkerFails, TriggerFires, NoTrigger,
        LockForTrigger, LockForTriggerFails, Admit, Refuse, Report, Unlock, Restart,
        ExitWithError, rootVars
  <1>4. ASSUME NEW d \in Daemons, DaemonFault(d)
        PROVE  [Store!Next]_Inventory
    BY <1>4, TearReopens DEF DaemonFault, Crash, FreezeFails
  <1> QED
    BY <1>1, <1>2, <1>3, <1>4, MkdirOpens, WriteSeals DEF Next, vars, rootVars

(* The incident directory, as commands, daemons and faults change it file  *)
(* by file, implements the bounded store with one incomplete incident.     *)
THEOREM IncidentStoreImplemented == Spec => ImplementsIncidentStore
  <1>1. Init => Store!Init
    BY InventoryOf DEF Init, Store!Init
  <1> QED BY <1>1, StoreStep, Safety, PTL DEF Spec, Store!Spec, ImplementsIncidentStore

-----------------------------------------------------------------------------
(* The incident bundles: one whose incident.json parses is complete, an    *)
(* answer agrees with the inventory, and what is frozen stays as it is.    *)

-----------------------------------------------------------------------------
(* Who may still work on a request.  The pending file of a marker passes   *)
(* it to one daemon: only one can remove it, and a second daemon that has  *)
(* read it too ends with an error.                                         *)

(* No daemon has taken the request yet.                                    *)
Waiting(r) ==
    \/ r \in Triggers /\ fired[r] = 0
    \/ r \in Markers /\ (marks[r] = 0 \/ pending[r] # Absent)

(* Drained by d, but not begun; and under way in d.                        *)
Batched(d, r) == r \in Markers /\ batch[d][r] # 0

Busy(d, r) == pc[d] \in {"fired"} \cup Critical /\ job[d].req = r

Holds(d, r) == Batched(d, r) \/ Busy(d, r)

Unanswered(r) == result[r].status \notin {"frozen", "refused"}

(* Nothing was done for the request.                                       *)
Clean(r) == r \notin dirs /\ Unanswered(r)

(* What the daemon d that works on r has done so far: the files before the *)
(* n-th are written.                                                       *)
Frozen(d, r, n) ==
    LET L == Layout(r, job[d].gen)
    IN  \A k \in 1 .. Len(L) : k < n => bundle[r][L[k]] = job[d].gen

(* What is on disk and answered at each place of its work.                 *)
Stage(d, r) ==
    /\ pc[d] \in {"fired", "admit", "refuse"} => Clean(r)
    /\ pc[d] = "freeze" =>
        /\ Unanswered(r)
        /\ bundle[r]["incident"] = Absent
        /\ at[d] = 0 => r \notin dirs
        /\ at[d] # 0 => Frozen(d, r, at[d])
    /\ pc[d] = "report" => r \in Valid

(* One daemon, and in one place, holds the request.                        *)
HeldByOne(r) ==
    /\ \A d, e \in Daemons : Holds(d, r) /\ Holds(e, r) => d = e
    /\ \A d \in Daemons : ~ (Batched(d, r) /\ Busy(d, r))

(* The answer agrees with the inventory.                                   *)
AnswerFits(r) ==
    /\ result[r].status = "frozen" => r \in Valid
    /\ result[r].status = "refused" => r \notin dirs

(* A request that waits is untouched, one that is held is as far as its    *)
(* holder, and one that is neither is as it was left.                      *)
RequestInv(r) ==
    /\ Waiting(r) => Clean(r) /\ \A d \in Daemons : ~ Holds(d, r)
    /\ HeldByOne(r)
    /\ \A d \in Daemons : Batched(d, r) => Clean(r)
    /\ \A d \in Daemons : Busy(d, r) => Stage(d, r)
    /\ r \in Valid => Coherent(r)
    /\ AnswerFits(r)
    /\ r \in Markers /\ marks[r] = 0 => pending[r] = Absent

BundleInv == \A r \in Requests : AskedOnce(r) => RequestInv(r)

(* A step that does not change what is on disk for a request, and gives it *)
(* to no daemon, keeps its invariant.                                      *)
LEMMA Frame ==
    ASSUME NEW r \in Requests, RequestInv(r),
           result'[r].status \in {result[r].status, "queued"},
           r \in dirs' <=> r \in dirs,
           bundle'[r] = bundle[r],
           Waiting(r)' => Waiting(r),
           r \in Markers /\ marks'[r] = 0 => pending'[r] = Absent,
           \A d \in Daemons : Batched(d, r)' => Batched(d, r),
           \A d \in Daemons : Busy(d, r)' =>
               /\ Busy(d, r)
               /\ \/ pc'[d] = pc[d] /\ at'[d] = at[d] /\ job'[d] = job[d]
                  \/ Stage(d, r)'
    PROVE  RequestInv(r)'
  <1>1. (Clean(r) => Clean(r)') /\ (Unanswered(r) => Unanswered(r)')
    BY DEF Clean, Unanswered
  <1>2. r \in Valid' <=> r \in Valid
    BY DEF Valid
  <1>3. r \in Valid' => Coherent(r)'
    BY <1>2 DEF RequestInv, Coherent
  <1>4. AnswerFits(r)'
    BY <1>2 DEF RequestInv, AnswerFits
  <1>5. \A d \in Daemons : Busy(d, r)' => Stage(d, r)'
    <2> SUFFICES ASSUME NEW d \in Daemons, Busy(d, r)',
                        pc'[d] = pc[d] /\ at'[d] = at[d] /\ job'[d] = job[d],
                        Stage(d, r)
                 PROVE  Stage(d, r)'
      BY DEF RequestInv
    <2>1. Frozen(d, r, at[d]) => Frozen(d, r, at[d])'
      BY DEF Frozen
    <2> QED BY <1>1, <1>2, <2>1 DEF Stage
  <1>6. HeldByOne(r)'
    BY DEF RequestInv, HeldByOne, Holds
  <1>7. Waiting(r)' => Clean(r)' /\ \A d \in Daemons : ~ Holds(d, r)'
    BY <1>1 DEF RequestInv, Holds
  <1>8. \A d \in Daemons : Batched(d, r)' => Clean(r)'
    BY <1>1 DEF RequestInv
  <1> QED BY <1>3, <1>4, <1>5, <1>6, <1>7, <1>8 DEF RequestInv

OthersStill(d) ==
    \A e \in Daemons \ {d} :
        /\ pc'[e] = pc[e] /\ job'[e] = job[e]
        /\ at'[e] = at[e] /\ batch'[e] = batch[e]

(* The same for a step of one daemon.                                      *)
LEMMA OneMoves ==
    ASSUME NEW d \in Daemons, NEW r \in Requests, RequestInv(r),
           OthersStill(d), marks' = marks,
           r \in Triggers /\ fired'[r] = 0 => fired[r] = 0,
           r \in Markers => pending'[r] \in {pending[r], Absent},
           result'[r] = result[r], r \in dirs' <=> r \in dirs,
           bundle'[r] = bundle[r],
           Batched(d, r)' => Batched(d, r),
           Busy(d, r)' => Busy(d, r) /\ Stage(d, r)'
    PROVE  RequestInv(r)'
  <1>1. Waiting(r)' => Waiting(r)
    BY DEF Waiting
  <1>2. \A e \in Daemons : Batched(e, r)' => Batched(e, r)
    BY DEF Batched, OthersStill
  <1>3. ASSUME NEW e \in Daemons, Busy(e, r)'
        PROVE  /\ Busy(e, r)
               /\ \/ pc'[e] = pc[e] /\ at'[e] = at[e] /\ job'[e] = job[e]
                  \/ Stage(e, r)'
    BY <1>3 DEF Busy, OthersStill
  <1>4. r \in Markers /\ marks'[r] = 0 => pending'[r] = Absent
    BY DEF RequestInv
  <1> QED BY <1>1, <1>2, <1>3, <1>4, Frame

(* A request that was asked for once now was not asked for more before.    *)
LEMMA AskedBefore ==
    ASSUME TypeInv, [Next]_vars, NEW r \in Requests, AskedOnce(r)'
    PROVE  AskedOnce(r)
  <1>1. CASE UNCHANGED <<marks, fired>>
    BY <1>1 DEF AskedOnce
  <1>2. ASSUME NEW m \in Markers, MarkOpen(m)
        PROVE  AskedOnce(r)
    <2>1. CASE r \in Triggers
      BY <1>2, <2>1 DEF MarkOpen, AskedOnce
    <2>2. CASE r \notin Triggers
      <3>1. marks[r] \in Nat /\ marks'[r] \in {marks[r], marks[r] + 1}
        BY <1>2, <2>2, BoundsAssumption DEF MarkOpen, TypeInv, TypeOK, Requests
      <3> QED BY <2>2, <3>1 DEF AskedOnce
    <2> QED BY <2>1, <2>2
  <1>3. ASSUME NEW m \in Markers, MarkNext(m), ~ MarkOpen(m)
        PROVE  UNCHANGED <<marks, fired>>
    BY <1>3, Zenon DEF MarkNext, MarkWrite, MarkResult, MarkKilled
  <1>4. ASSUME NEW d \in Daemons, TriggerFires(d)
        PROVE  AskedOnce(r)
    <2>1. CASE r \notin Triggers
      BY <1>4, <2>1 DEF TriggerFires, rootVars, AskedOnce
    <2>2. CASE r \in Triggers
      <3>1. fired[r] \in Nat /\ fired'[r] \in {fired[r], fired[r] + 1}
        BY <1>4, <2>2, BoundsAssumption DEF TriggerFires, TypeInv, TypeOK
      <3> QED BY <2>2, <3>1 DEF AskedOnce
    <2> QED BY <2>1, <2>2
  <1>5. ASSUME NEW d \in Daemons, DaemonStep(d) \/ DaemonFault(d),
               ~ TriggerFires(d)
        PROVE  UNCHANGED <<marks, fired>>
    BY <1>5
    DEF DaemonStep, DaemonFault, DrainList, DrainRead, DrainReadFails, DrainRemove,
        DrainRemoveWith, DrainRemoveFails, DrainDone, LockForMarker,
        LockForMarkerFails, NoTrigger, LockForTrigger,
        LockForTriggerFails, Admit, Refuse, FreezeMkdir, FreezeWrite, Report, Unlock,
        Restart, ExitWithError, Crash, FreezeFails, rootVars
  <1> QED BY <1>1, <1>2, <1>3, <1>4, <1>5 DEF Next, vars, rootVars

-----------------------------------------------------------------------------
(* The steps of the mark command: the first mark of an id hands it to      *)
(* whoever drains it, and a queued result takes nothing back.              *)
LEMMA MarkKeeps ==
    ASSUME TypeInv, NEW m \in Markers, MarkNext(m), NEW r \in Requests,
           RequestInv(r), AskedOnce(r)'
    PROVE  RequestInv(r)'
  <1>1. UNCHANGED <<dirs, bundle, daemonVars, fired>>
    BY Zenon DEF MarkNext, MarkOpen, MarkWrite, MarkResult, MarkKilled
  <1>2. /\ \A d \in Daemons : Batched(d, r)' => Batched(d, r)
        /\ \A d \in Daemons : Busy(d, r)' =>
             Busy(d, r) /\ pc'[d] = pc[d] /\ at'[d] = at[d] /\ job'[d] = job[d]
    BY <1>1 DEF Batched, Busy, daemonVars
  <1>3. result'[r].status \in {result[r].status, "queued"}
    <2>1. CASE MarkResult(m)
      BY <2>1 DEF MarkResult, TypeInv, TypeOK
    <2>2. CASE ~ MarkResult(m)
      BY <2>2, Zenon DEF MarkNext, MarkOpen, MarkWrite, MarkKilled
    <2> QED BY <2>1, <2>2
  <1>4. /\ Waiting(r)' => Waiting(r)
        /\ r \in Markers /\ marks'[r] = 0 => pending'[r] = Absent
    <2>1. CASE r \notin Markers
      BY <1>1, <2>1 DEF Waiting
    <2>2. CASE r \in Markers /\ MarkOpen(m)
      <3>1. marks[r] \in Nat /\ r \notin Triggers
        BY <2>2, RequestsAssumption DEF TypeInv, TypeOK, BoundsAssumption
      <3>2. CASE r = m
        <4>1. marks'[r] = marks[r] + 1
          BY <2>2, <3>2 DEF MarkOpen, TypeInv, TypeOK
        <4> QED BY <2>2, <3>1, <4>1 DEF AskedOnce, Waiting
      <3>3. CASE r # m
        <4>1. marks'[r] = marks[r] /\ pending'[r] = pending[r]
          BY <2>2, <3>3 DEF MarkOpen
        <4> QED BY <1>1, <4>1 DEF Waiting, RequestInv
      <3> QED BY <3>2, <3>3
    <2>3. CASE r \in Markers /\ MarkWrite(m)
      <3>1. /\ marks'[r] = marks[r]
            /\ pending[r] = Absent => pending'[r] = Absent
        BY <2>3 DEF MarkWrite, TypeInv, TypeOK
      <3> QED BY <1>1, <3>1 DEF Waiting, RequestInv
    <2>4. CASE MarkResult(m) \/ MarkKilled(m)
      BY <1>1, <2>4 DEF MarkResult, MarkKilled, Waiting, RequestInv
    <2> QED BY <2>1, <2>2, <2>3, <2>4 DEF MarkNext
  <1> QED BY <1>1, <1>2, <1>3, <1>4, Frame

-----------------------------------------------------------------------------
(* The steps of a daemon.                                                  *)

(* Steps outside of any request.                                           *)
LEMMA QuietKeeps ==
    ASSUME TypeInv, NEW d \in Daemons, NEW r \in Requests, RequestInv(r),
           \/ DrainList(d) \/ DrainRead(d) \/ DrainDone(d) \/ NoTrigger(d)
           \/ Unlock(d) \/ Restart(d)
    PROVE  RequestInv(r)'
  <1>1. OthersStill(d)
    BY DEF DrainList, DrainRead, DrainDone, NoTrigger, Unlock, Restart, OthersStill,
           TypeInv, TypeOK
  <1>2. UNCHANGED <<marks, pending, result, dirs, bundle, batch, fired>>
    BY DEF DrainList, DrainRead, DrainDone, NoTrigger, Unlock, Restart, rootVars
  <1>3. pc'[d] \notin {"fired"} \cup Critical
    BY DEF DrainList, DrainRead, DrainDone, NoTrigger, Unlock, Restart, Critical,
           TypeInv, TypeOK
  <1> QED BY <1>1, <1>2, <1>3, OneMoves DEF Batched, Busy

(* What a daemon holds when it ends is lost; a torn file is of a bundle    *)
(* that nothing was reported of.                                           *)
LEMMA ForgetKeeps ==
    ASSUME Safe, NEW d \in Daemons, NEW r \in Requests, RequestInv(r),
           Forget(d), MayTear(d), UNCHANGED <<marks, pending, result, dirs, fired>>
    PROVE  RequestInv(r)'
  <1> USE DEF Safe, TypeInv, TypeOK
  <1>1. OthersStill(d)
    BY DEF Forget, OthersStill
  <1>2. ~ Batched(d, r)' /\ ~ Busy(d, r)'
    BY DEF Forget, Batched, Busy, EmptyBatch, Critical
  <1>3. CASE bundle'[r] = bundle[r]
    BY <1>1, <1>2, <1>3, OneMoves
  <1>4. CASE bundle'[r] # bundle[r]
    <2> DEFINE L == Layout(job[d].req, job[d].gen)
               f == L[at[d]]
    <2>1. /\ pc[d] = "freeze" /\ at[d] \in 1 .. Len(L)
          /\ bundle' = [bundle EXCEPT ![job[d].req][f] = Torn]
      BY <1>4 DEF MayTear
    <2>2. f \in Files /\ job[d].req = r
      BY <1>4, <2>1, FreezeFile
    <2> HIDE DEF f, L
    <2>3. bundle'[r]["incident"] \in {Absent, Torn}
      BY <2>1, <2>2 DEF RequestInv, Busy, Stage, Critical, Files
    <2>4. r \notin Valid'
      BY <2>3 DEF Valid
    <2>5. Busy(d, r) /\ Unanswered(r)
      BY <2>1, <2>2 DEF RequestInv, Busy, Stage, Critical
    <2>6. ~ Waiting(r)'
      BY <2>5 DEF Waiting, RequestInv, Holds
    <2>7. \A e \in Daemons : ~ Holds(e, r)'
      <3>1. \A e \in Daemons : Holds(e, r) => e = d
        BY <2>5 DEF RequestInv, HeldByOne, Holds
      <3>2. \A e \in Daemons \ {d} : Holds(e, r)' => Holds(e, r)
        BY <1>1 DEF OthersStill, Holds, Batched, Busy
      <3> QED BY <1>2, <3>1, <3>2 DEF Holds
    <2>8. AnswerFits(r)'
      BY <2>5 DEF AnswerFits, Unanswered
    <2>9. r \in Markers /\ marks'[r] = 0 => pending'[r] = Absent
      BY DEF RequestInv
    <2> QED BY <2>4, <2>6, <2>7, <2>8, <2>9 DEF RequestInv, HeldByOne, Holds
  <1> QED BY <1>3, <1>4

(* The pending file is gone, and the daemon that removed it has the mark.  *)
LEMMA RemoveKeeps ==
    ASSUME Safe, NEW d \in Daemons, NEW r \in Requests, RequestInv(r), DrainRemove(d)
    PROVE  RequestInv(r)'
  <1> USE DEF Safe, TypeInv, TypeOK
  <1> DEFINE m == job[d].req
  <1>1. /\ m \in Markers /\ pending[m] # Absent /\ pc[d] = "remove"
        /\ pending' = [pending EXCEPT ![m] = Absent]
        /\ batch' = [batch EXCEPT ![d][m] = job[d].gen.mark]
        /\ pc' = [pc EXCEPT ![d] = "drain"] /\ job' = [job EXCEPT ![d] = NoJob]
        /\ UNCHANGED <<marks, result, dirs, bundle, at, fired>>
    BY DEF DrainRemove, DrainRemoveWith, JobIsRequest
  <1>2. job[d].gen.mark \in Marks
    BY GenOfJob
  <1> HIDE DEF m
  <1>3. OthersStill(d)
    BY <1>1 DEF OthersStill
  <1>4. ~ Busy(d, r)'
    BY <1>1 DEF Busy, Critical
  <1>5. CASE r # m
    <2>1. Batched(d, r)' => Batched(d, r)
      BY <1>1, <1>5 DEF Batched
    <2>2. r \in Markers => pending'[r] = pending[r]
      BY <1>1, <1>5
    <2> QED BY <1>1, <1>3, <1>4, <2>1, <2>2, OneMoves
  <1>6. CASE r = m
    <2>1. Waiting(r) /\ marks[r] # 0 /\ r \notin Triggers
      BY <1>1, <1>6, RequestsAssumption DEF RequestInv, Waiting
    <2>2. Clean(r) /\ \A e \in Daemons : ~ Holds(e, r)
      BY <2>1 DEF RequestInv
    <2>3. Clean(r)'
      BY <1>1, <2>2 DEF Clean, Unanswered
    <2>4. ~ Waiting(r)'
      BY <1>1, <1>6, <2>1 DEF Waiting
    <2>5. /\ \A e \in Daemons : ~ Busy(e, r)'
          /\ \A e \in Daemons : Batched(e, r)' => e = d
      BY <1>3, <1>4, <2>2 DEF Holds, Busy, Batched, OthersStill
    <2>6. r \notin Valid' /\ AnswerFits(r)'
      BY <2>3 DEF Clean, Valid, AnswerFits, Unanswered
    <2>7. r \in Markers /\ marks'[r] = 0 => pending'[r] = Absent
      BY <1>1, <1>6
    <2> QED BY <2>3, <2>4, <2>5, <2>6, <2>7 DEF RequestInv, HeldByOne, Holds
  <1> QED BY <1>5, <1>6

(* A daemon goes on with a request it holds.                               *)
LEMMA Works ==
    ASSUME NEW d \in Daemons, NEW r \in Requests, RequestInv(r), Holds(d, r),
           OthersStill(d), UNCHANGED <<marks, pending, fired>>,
           Busy(d, r)', ~ Batched(d, r)', Stage(d, r)',
           (r \in Valid => Coherent(r))', AnswerFits(r)'
    PROVE  RequestInv(r)'
  <1>1. ~ Waiting(r)'
    BY DEF RequestInv, Waiting
  <1>2. \A e \in Daemons : Holds(e, r)' => e = d
    BY DEF RequestInv, HeldByOne, Holds, Batched, Busy, OthersStill
  <1>3. \A e \in Daemons : ~ Batched(e, r)'
    BY <1>2 DEF Holds
  <1>4. \A e \in Daemons : Busy(e, r)' => Stage(e, r)'
    BY <1>2 DEF Holds
  <1>5. HeldByOne(r)'
    BY <1>2, <1>3 DEF HeldByOne
  <1> QED BY <1>1, <1>3, <1>4, <1>5 DEF RequestInv

(* The next marker of the batch is taken under the lock file.              *)
LEMMA LockForMarkerKeeps ==
    ASSUME Safe, NEW d \in Daemons, NEW r \in Requests, RequestInv(r),
           LockForMarker(d)
    PROVE  RequestInv(r)'
  <1> USE DEF Safe, TypeInv, TypeOK
  <1>1. PICK m \in Markers, hasLog \in BOOLEAN :
          /\ IsFirstInBatch(d, m)
          /\ job' = [job EXCEPT ![d] =
                       [req |-> m, gen |-> [mark |-> batch[d][m], log |-> hasLog]]]
          /\ batch' = [batch EXCEPT ![d][m] = 0]
    BY DEF LockForMarker
  <1>2. /\ batch[d][m] # 0 /\ job'[d].req = m /\ OthersStill(d)
        /\ pc[d] = "markers" /\ pc'[d] = "admit"
        /\ UNCHANGED <<marks, pending, result, dirs, bundle, fired>>
    BY <1>1 DEF LockForMarker, IsFirstInBatch, OthersStill
  <1>3. CASE r # m
    <2>1. Batched(d, r)' => Batched(d, r)
      BY <1>1, <1>3 DEF Batched
    <2>2. ~ Busy(d, r)'
      BY <1>2, <1>3 DEF Busy
    <2> QED BY <1>2, <2>1, <2>2, OneMoves
  <1>4. CASE r = m
    <2>1. Batched(d, r) /\ Clean(r)
      BY <1>2, <1>4 DEF Batched, RequestInv
    <2>2. Busy(d, r)' /\ ~ Batched(d, r)'
      BY <1>1, <1>2, <1>4 DEF Busy, Batched, Critical
    <2>3. Clean(r)'
      BY <1>2, <2>1 DEF Clean, Unanswered
    <2>4. Stage(d, r)'
      BY <1>2, <2>3 DEF Stage
    <2>5. r \notin Valid' /\ AnswerFits(r)'
      BY <2>3 DEF Clean, Valid, AnswerFits, Unanswered
    <2> QED BY <1>2, <2>1, <2>2, <2>4, <2>5, Works DEF Holds
  <1> QED BY <1>3, <1>4

(* Nobody has worked on the request before the first firing at its time;   *)
(* of a time that comes again BundleInv says nothing.                      *)
LEMMA TriggerFiresKeeps ==
    ASSUME Safe, NEW d \in Daemons, NEW r \in Requests, RequestInv(r),
           AskedOnce(r)', TriggerFires(d)
    PROVE  RequestInv(r)'
  <1> USE DEF Safe, TypeInv, TypeOK
  <1>1. PICK t \in Triggers :
          /\ fired' = [fired EXCEPT ![t] = @ + 1]
          /\ job' = [job EXCEPT ![d] =
                       [req |-> t, gen |-> [mark |-> fired[t] + 1, log |-> FALSE]]]
    BY DEF TriggerFires
  <1>2. /\ job'[d].req = t /\ OthersStill(d)
        /\ pc[d] = "markers" /\ pc'[d] = "fired"
        /\ UNCHANGED <<marks, pending, result, dirs, bundle, batch>>
    BY <1>1 DEF TriggerFires, OthersStill, rootVars
  <1>3. CASE r # t
    <2>1. Batched(d, r)' => Batched(d, r)
      BY <1>2 DEF Batched
    <2>2. ~ Busy(d, r)'
      BY <1>2, <1>3 DEF Busy
    <2>3. r \in Triggers => fired'[r] = fired[r]
      BY <1>1, <1>3
    <2> QED BY <1>2, <2>1, <2>2, <2>3, OneMoves
  <1>4. CASE r = t
    <2>0. fired[r] = 0 /\ fired'[r] = 1
      <3>1. fired[r] \in Nat /\ fired'[r] = fired[r] + 1
        BY <1>1, <1>4, BoundsAssumption
      <3> QED BY <1>4, <3>1 DEF AskedOnce
    <2>1. Waiting(r) /\ r \notin Markers
      BY <1>4, <2>0, RequestsAssumption DEF Waiting
    <2>2. Clean(r) /\ \A e \in Daemons : ~ Holds(e, r)
      BY <2>1 DEF RequestInv
    <2>3. Clean(r)'
      BY <1>2, <2>2 DEF Clean, Unanswered
    <2>4. Stage(d, r)'
      BY <1>2, <2>3 DEF Stage
    <2>5. \A e \in Daemons : Busy(e, r)' => e = d
      BY <1>2, <2>2 DEF Holds, Busy, OthersStill
    <2>6. \A e \in Daemons : ~ Batched(e, r)'
      BY <2>1 DEF Batched
    <2>7. ~ Waiting(r)'
      BY <2>0, <2>1 DEF Waiting
    <2>8. r \notin Valid' /\ AnswerFits(r)'
      BY <2>3 DEF Clean, Valid, AnswerFits, Unanswered
    <2> QED
      BY <2>1, <2>4, <2>5, <2>6, <2>7, <2>8 DEF RequestInv, HeldByOne, Holds
  <1> QED BY <1>3, <1>4

(* The lock and the budget check change nothing on disk but the lock file. *)
LEMMA DecideKeeps ==
    ASSUME Safe, NEW d \in Daemons, NEW r \in Requests, RequestInv(r),
           LockForTrigger(d) \/ Admit(d)
    PROVE  RequestInv(r)'
  <1> USE DEF Safe, TypeInv, TypeOK
  <1>1. /\ pc[d] \in {"fired", "admit"} /\ pc'[d] \in {"admit", "freeze", "refuse"}
        /\ OthersStill(d) /\ at[d] = 0
        /\ UNCHANGED <<marks, pending, result, dirs, bundle, batch, job, at, fired>>
    BY DEF LockForTrigger, Admit, OthersStill, rootVars, StoreInv, FreezeAdmitted
  <1>2. Batched(d, r)' => Batched(d, r)
    BY <1>1 DEF Batched
  <1>3. ASSUME Busy(d, r)'
        PROVE  Busy(d, r) /\ Stage(d, r)'
    <2>1. Busy(d, r)
      BY <1>1, <1>3 DEF Busy, Critical
    <2>2. Clean(r)
      BY <1>1, <2>1 DEF RequestInv, Stage
    <2>3. Clean(r)' /\ Unanswered(r)'
      BY <1>1, <2>2 DEF Clean, Unanswered
    <2>4. bundle'[r]["incident"] = Absent
      BY <1>1, <2>2 DEF Clean, StoreInv, NothingBeforeMkdir, Files
    <2> QED BY <1>1, <2>1, <2>3, <2>4 DEF Stage, Clean
  <1> QED BY <1>1, <1>2, <1>3, OneMoves

(* A step of a daemon inside the section does nothing to other requests.   *)
LEMMA OtherRequest ==
    ASSUME NEW d \in Daemons, NEW r \in Requests, RequestInv(r), OthersStill(d),
           UNCHANGED <<marks, pending, batch, job, fired>>, job[d].req # r,
           result'[r] = result[r], r \in dirs' <=> r \in dirs,
           bundle'[r] = bundle[r]
    PROVE  RequestInv(r)'
  <1>1. ~ Busy(d, r)' /\ (Batched(d, r)' => Batched(d, r))
    BY DEF Busy, Batched
  <1> QED BY <1>1, OneMoves

(* The request that a daemon works on is in no batch.                      *)
LEMMA Working ==
    ASSUME NEW d \in Daemons, NEW r \in Requests, RequestInv(r),
           pc[d] \in Critical, job[d].req = r
    PROVE  Holds(d, r) /\ ~ Batched(d, r) /\ Stage(d, r)
  BY DEF RequestInv, HeldByOne, Holds, Busy

(* A refusal and a report answer for what is on disk.                      *)
LEMMA AnswerKeeps ==
    ASSUME Safe, NEW d \in Daemons, NEW r \in Requests, RequestInv(r),
           Refuse(d) \/ Report(d)
    PROVE  RequestInv(r)'
  <1> USE DEF Safe, TypeInv, TypeOK
  <1>1. /\ pc[d] \in {"refuse", "report"} /\ pc'[d] = "unlock"
        /\ OthersStill(d)
        /\ UNCHANGED <<marks, pending, dirs, bundle, batch, job, at, fired>>
    BY DEF Refuse, Report, OthersStill
  <1>2. PICK status : /\ status = IF pc[d] = "refuse" THEN "refused" ELSE "frozen"
                      /\ Answer(d, status)
    BY DEF Refuse, Report
  <1>3. CASE job[d].req # r
    <2>1. result'[r] = result[r]
      BY <1>2, <1>3 DEF Answer
    <2> QED BY <1>1, <1>3, <2>1, OtherRequest
  <1>4. CASE job[d].req = r
    <2>1. Holds(d, r) /\ ~ Batched(d, r) /\ Stage(d, r)
      BY <1>1, <1>4, Working DEF Critical
    <2>2. Busy(d, r)' /\ ~ Batched(d, r)' /\ Stage(d, r)'
      BY <1>1, <1>4, <2>1 DEF Busy, Batched, Stage, Critical
    <2>3. result'[r].status = status
      BY <1>2, <1>4 DEF Answer
    <2>4. r \in Valid' <=> r \in Valid
      BY <1>1 DEF Valid
    <2>5. (r \in Valid => Coherent(r))'
      BY <1>1, <2>4 DEF RequestInv, Coherent
    <2>6. AnswerFits(r)'
      BY <1>1, <1>2, <2>1, <2>3, <2>4 DEF AnswerFits, Stage, Clean
    <2> QED BY <1>1, <2>1, <2>2, <2>5, <2>6, Works
  <1> QED BY <1>3, <1>4

(* The directory is made for a request that had none.                      *)
LEMMA MkdirKeeps ==
    ASSUME Safe, NEW d \in Daemons, NEW r \in Requests, RequestInv(r),
           FreezeMkdir(d)
    PROVE  RequestInv(r)'
  <1> USE DEF Safe, TypeInv, TypeOK
  <1>1. /\ pc[d] = "freeze" /\ at[d] = 0 /\ at'[d] = 1
        /\ dirs' = dirs \cup {job[d].req} /\ OthersStill(d)
        /\ UNCHANGED <<marks, pending, result, bundle, pc, batch, job, fired>>
    BY DEF FreezeMkdir, OthersStill
  <1>2. CASE job[d].req # r
    BY <1>1, <1>2, OtherRequest
  <1>3. CASE job[d].req = r
    <2>1. Holds(d, r) /\ ~ Batched(d, r) /\ Stage(d, r)
      BY <1>1, <1>3, Working DEF Critical
    <2>2. Unanswered(r) /\ bundle[r]["incident"] = Absent
      BY <1>1, <2>1 DEF Stage
    <2>3. Frozen(d, r, at[d])'
      <3>1. \A k \in 1 .. Len(Layout(r, job[d].gen)) : ~ (k < 1)
        BY LayoutEnds
      <3> QED BY <1>1, <3>1 DEF Frozen
    <2>4. Busy(d, r)' /\ ~ Batched(d, r)' /\ Stage(d, r)'
      BY <1>1, <1>3, <2>1, <2>2, <2>3
      DEF Busy, Batched, Stage, Critical, Unanswered
    <2>5. r \notin Valid' /\ AnswerFits(r)'
      BY <1>1, <2>2 DEF Valid, AnswerFits, Unanswered
    <2> QED BY <1>1, <2>1, <2>4, <2>5, Works
  <1> QED BY <1>2, <1>3

(* A file is written after those before it; with the last the bundle is    *)
(* complete.                                                               *)
LEMMA WriteKeeps ==
    ASSUME Safe, NEW d \in Daemons, NEW r \in Requests, RequestInv(r),
           FreezeWrite(d)
    PROVE  RequestInv(r)'
  <1> USE DEF Safe, TypeInv, TypeOK
  <1> DEFINE g == job[d].gen
             L == Layout(job[d].req, g)
             f == L[at[d]]
  <1>1. /\ pc[d] = "freeze" /\ at[d] \in 1 .. Len(L) /\ OthersStill(d)
        /\ bundle' = [bundle EXCEPT ![job[d].req][f] = g]
        /\ UNCHANGED <<marks, pending, result, dirs, batch, job, fired>>
    BY DEF FreezeWrite, OthersStill
  <1>2. /\ job[d].req \in dirs /\ f \in Files /\ g \in Generations
        /\ f = "incident" <=> at[d] = Len(L)
    BY <1>1, FreezeFile
  <1>3. /\ at'[d] = IF at[d] = Len(L) THEN 0 ELSE at[d] + 1
        /\ pc'[d] = IF at[d] < Len(L) THEN "freeze"
                    ELSE IF job[d].req \in Markers THEN "report" ELSE "unlock"
    BY DEF FreezeWrite
  <1>4. /\ Len(L) \in Nat /\ L[Len(L)] = "incident"
        /\ \A k \in 1 .. Len(L) : L[k] \in Files
    BY LayoutEnds
  <1>5. L = Layout(r, g) \/ job[d].req # r
    OBVIOUS
  <1>6. CASE job[d].req # r
    <2>1. bundle'[r] = bundle[r]
      BY <1>1, <1>6
    <2> QED BY <1>1, <1>6, <2>1, OtherRequest
  <1>7. CASE job[d].req = r
    <2>1. Holds(d, r) /\ ~ Batched(d, r) /\ Stage(d, r)
      BY <1>1, <1>7, Working DEF Critical
    <2>2. /\ Unanswered(r) /\ bundle[r]["incident"] = Absent
          /\ Frozen(d, r, at[d])
      BY <1>1, <2>1 DEF Stage
    <2>3. \A k \in 1 .. Len(L) : k < at[d] => bundle[r][L[k]] = g
      BY <1>7, <2>2 DEF Frozen
    <2>4. Busy(d, r)' /\ ~ Batched(d, r)'
      BY <1>1, <1>3, <1>7, <2>1 DEF Busy, Batched, Critical
    <2>5. AnswerFits(r)' /\ Unanswered(r)'
      BY <1>1, <2>2 DEF AnswerFits, Unanswered
    <2> HIDE DEF f, g, L
    <2>6. bundle'[r] = [bundle[r] EXCEPT ![f] = g]
      BY <1>1, <1>7
    <2>7. \A k \in 1 .. Len(L) : k <= at[d] => bundle'[r][L[k]] = g
      BY <1>1, <1>2, <1>4, <2>3, <2>6 DEF f
    <2>8. CASE at[d] = Len(L)
      <3>1. pc'[d] \in {"report", "unlock"}
        BY <1>3, <1>4, <2>8
      <3>2. \A k \in 1 .. Len(L) : bundle'[r][L[k]] = g
        BY <1>4, <2>7, <2>8
      <3>3. bundle'[r]["incident"] = g
        BY <1>2, <1>4, <2>6, <2>8
      <3>4. Coherent(r)'
        BY <1>5, <1>7, <3>2, <3>3 DEF Coherent
      <3>5. r \in Valid'
        BY <1>1, <1>2, <1>7, <3>3, ContentsAssumption DEF Valid
      <3>6. Stage(d, r)'
        BY <3>1, <3>5 DEF Stage
      <3> QED BY <1>1, <2>1, <2>4, <2>5, <3>4, <3>6, Works
    <2>9. CASE at[d] # Len(L)
      <3>1. /\ pc'[d] = "freeze" /\ at'[d] = at[d] + 1 /\ at'[d] # 0
            /\ \A k \in 1 .. Len(L) : k < at'[d] => k <= at[d]
        BY <1>1, <1>3, <1>4, <2>9
      <3>2. bundle'[r]["incident"] = Absent
        BY <1>2, <2>2, <2>6, <2>9 DEF Files
      <3>3. job'[d].gen = g /\ Layout(r, g) = L
        BY <1>1, <1>5, <1>7 DEF g
      <3>4. Frozen(d, r, at[d])'
        BY <2>7, <3>1, <3>3 DEF Frozen
      <3>5. Stage(d, r)'
        BY <2>5, <3>1, <3>2, <3>4 DEF Stage
      <3>6. r \notin Valid'
        BY <3>2 DEF Valid
      <3> QED BY <1>1, <2>1, <2>4, <2>5, <3>5, <3>6, Works
    <2> QED BY <2>8, <2>9
  <1> QED BY <1>6, <1>7

-----------------------------------------------------------------------------
(* All steps.                                                              *)

BundleSafe == Safe /\ BundleInv

(* Nothing was asked for at the beginning.                                 *)
LEMMA BundleInit == Init => BundleInv
  <1> SUFFICES ASSUME Init, NEW r \in Requests
               PROVE  RequestInv(r)
    BY DEF BundleInv
  <1>1. \A d \in Daemons : ~ Holds(d, r)
    BY DEF Init, Holds, Batched, Busy, EmptyBatch, Critical
  <1>2. Clean(r) /\ r \notin Valid /\ AnswerFits(r)
    BY DEF Init, Clean, Unanswered, Valid, AnswerFits, NoAnswer
  <1>3. r \in Markers => pending[r] = Absent
    BY DEF Init
  <1> QED BY <1>1, <1>2, <1>3 DEF RequestInv, HeldByOne, Holds

(* Every step keeps the invariant of every request asked for once.         *)
LEMMA BundleNext == BundleSafe /\ [Next]_vars => BundleInv'
  <1> SUFFICES ASSUME Safe, BundleInv, [Next]_vars,
                      NEW r \in Requests, AskedOnce(r)'
               PROVE  RequestInv(r)'
    BY DEF BundleSafe, BundleInv
  <1>1. RequestInv(r)
    BY AskedBefore DEF Safe, BundleInv
  <1>2. CASE UNCHANGED vars
    <2>1. UNCHANGED <<marks, pending, result, dirs, bundle, pc, batch, job, at, fired>>
      BY <1>2 DEF vars, rootVars, daemonVars
    <2>2. /\ Waiting(r)' => Waiting(r)
          /\ r \in Markers /\ marks'[r] = 0 => pending'[r] = Absent
          /\ \A d \in Daemons : Batched(d, r)' => Batched(d, r)
          /\ \A d \in Daemons : Busy(d, r)' => Busy(d, r)
      BY <1>1, <2>1 DEF Waiting, RequestInv, Batched, Busy
    <2> QED BY <1>1, <2>1, <2>2, Frame
  <1>3. ASSUME NEW m \in Markers, MarkNext(m)
        PROVE  RequestInv(r)'
    BY <1>1, <1>3, MarkKeeps DEF Safe
  <1>4. ASSUME NEW d \in Daemons, DaemonStep(d)
        PROVE  RequestInv(r)'
    <2>1. CASE ExitWithError(d)
      BY <1>1, <2>1, ForgetKeeps DEF ExitWithError, MayTear, rootVars
    <2>2. CASE \/ DrainList(d) \/ DrainRead(d) \/ DrainDone(d) \/ NoTrigger(d)
               \/ Unlock(d) \/ Restart(d)
      BY <1>1, <2>2, QuietKeeps DEF Safe
    <2>3. CASE DrainRemove(d) BY <1>1, <2>3, RemoveKeeps
    <2>4. CASE LockForMarker(d) BY <1>1, <2>4, LockForMarkerKeeps
    <2>5. CASE TriggerFires(d) BY <1>1, <2>5, TriggerFiresKeeps
    <2>6. CASE LockForTrigger(d) \/ Admit(d) BY <1>1, <2>6, DecideKeeps
    <2>7. CASE Refuse(d) \/ Report(d) BY <1>1, <2>7, AnswerKeeps
    <2>8. CASE FreezeMkdir(d) BY <1>1, <2>8, MkdirKeeps
    <2>9. CASE FreezeWrite(d) BY <1>1, <2>9, WriteKeeps
    <2> QED
      BY <1>4, <2>1, <2>2, <2>3, <2>4, <2>5, <2>6, <2>7, <2>8, <2>9
      DEF DaemonStep, DrainReadFails, DrainRemoveFails, LockForMarkerFails,
          LockForTriggerFails
  <1>5. ASSUME NEW d \in Daemons, DaemonFault(d)
        PROVE  RequestInv(r)'
    BY <1>1, <1>5, ForgetKeeps DEF DaemonFault, Crash, FreezeFails
  <1> QED BY <1>2, <1>3, <1>4, <1>5 DEF Next

(* The invariant holds.                                                    *)
LEMMA BundleSafety == Spec => []BundleSafe
  <1>1. Spec => []Safe
    BY Safety
  <1>2. Safe /\ BundleInv /\ [Next]_vars => BundleInv'
    BY BundleNext DEF BundleSafe
  <1> QED BY <1>1, <1>2, BundleInit, PTL DEF Spec, BundleSafe

-----------------------------------------------------------------------------
(* The theorems.                                                           *)

(* A bundle whose incident.json parses has every file of its freeze, also  *)
(* after any number of kills, failures and restarts, as long as its name,  *)
(* the marker id or the time of the trigger, is not used again.            *)
THEOREM ValidBundlesCohere == Spec => []ValidBundleCoherent
  <1>1. BundleSafe => ValidBundleCoherent
    <2> SUFFICES ASSUME BundleSafe, NEW r \in Valid, AskedOnce(r)
                 PROVE  Coherent(r)
      BY DEF ValidBundleCoherent
    <2>1. r \in Requests
      BY DEF BundleSafe, Safe, TypeInv, TypeOK, Valid
    <2> QED BY <2>1 DEF BundleSafe, BundleInv, RequestInv
  <1> QED BY <1>1, BundleSafety, PTL

(* What was reported frozen is there and complete, and what was reported   *)
(* refused left no directory, as long as the name is not used again.       *)
THEOREM AnswersMatchInventory == Spec => []AnswerMatchesInventory
  <1>1. BundleSafe => AnswerMatchesInventory
    BY DEF BundleSafe, BundleInv, RequestInv, AnswerFits, AnswerMatchesInventory
  <1> QED BY <1>1, BundleSafety, PTL

(* Only the daemon that froze it writes to a bundle, and not after its     *)
(* incident.json.                                                          *)
LEMMA FrozenStays ==
    ASSUME BundleSafe, [Next]_vars, NEW r \in Valid, AskedOnce(r)'
    PROVE  r \in Valid' /\ bundle'[r] = bundle[r]
  <1> USE DEF BundleSafe, Safe
  <1>1. r \in Requests /\ r \in dirs /\ bundle[r]["incident"] # Absent
    BY DEF Valid, TypeInv, TypeOK
  <1>2. RequestInv(r)
    BY <1>1, AskedBefore DEF BundleInv
  <1>3. \A d \in Daemons : pc[d] = "freeze" => job[d].req # r
    BY <1>1, <1>2 DEF RequestInv, Busy, Stage, Critical
  <1>4. r \in dirs' /\ bundle'[r] = bundle[r] => r \in Valid'
    BY DEF Valid
  <1>5. CASE UNCHANGED <<dirs, bundle>>
    BY <1>1, <1>4, <1>5
  <1>6. ASSUME NEW m \in Markers, MarkNext(m)
        PROVE  UNCHANGED <<dirs, bundle>>
    BY <1>6, Zenon DEF MarkNext, MarkOpen, MarkWrite, MarkResult, MarkKilled
  <1>7. ASSUME NEW d \in Daemons, DaemonStep(d), ~ FreezeMkdir(d), ~ FreezeWrite(d)
        PROVE  UNCHANGED <<dirs, bundle>>
    BY <1>7
    DEF DaemonStep, DrainList, DrainRead, DrainReadFails, DrainRemove,
        DrainRemoveWith, DrainRemoveFails, DrainDone, LockForMarker,
        LockForMarkerFails, TriggerFires, NoTrigger, LockForTrigger,
        LockForTriggerFails, Admit, Refuse, Report, Unlock, Restart,
        ExitWithError, rootVars
  <1>8. ASSUME NEW d \in Daemons, FreezeMkdir(d)
        PROVE  r \in dirs' /\ bundle'[r] = bundle[r]
    BY <1>1, <1>8 DEF FreezeMkdir
  <1>9. ASSUME NEW d \in Daemons, FreezeWrite(d)
        PROVE  r \in dirs' /\ bundle'[r] = bundle[r]
    BY <1>1, <1>3, <1>9 DEF FreezeWrite, TypeInv, TypeOK
  <1>10. ASSUME NEW d \in Daemons, DaemonFault(d)
         PROVE  r \in dirs' /\ bundle'[r] = bundle[r]
    BY <1>1, <1>3, <1>10 DEF DaemonFault, Crash, FreezeFails, MayTear, TypeInv, TypeOK
  <1> QED
    BY <1>4, <1>5, <1>6, <1>7, <1>8, <1>9, <1>10 DEF Next, vars, rootVars

(* What is frozen never changes while its name is not used again: no other *)
(* daemon freezes the request too, and no fault tears it.                  *)
THEOREM FrozenIsUntouched == Spec => FrozenUntouched
  <1>1. BundleSafe /\ [Next]_vars =>
          [\A r \in Valid :
             AskedOnce(r)' => r \in Valid' /\ bundle'[r] = bundle[r]]_vars
    BY FrozenStays
  <1> QED BY <1>1, BundleSafety, PTL DEF Spec, FrozenUntouched

=============================================================================

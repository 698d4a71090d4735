----------------------------- MODULE DaemonProofs -----------------------------
(***************************************************************************)
(* Theorems about what the service loop of adc-targetd works on, each on   *)
(* its own: state.json (ControlState), for every set of processes and      *)
(* profiles, and the trigger rules of a profile (TriggerService), for any  *)
(* profiles, rules and values, any number of service runs and any order of *)
(* arming.                                                                 *)
(***************************************************************************)
EXTENDS ControlState, TriggerService, FiniteSetTheorems, SequenceTheorems,
        FunctionTheorems, TLAPS

-----------------------------------------------------------------------------
(* ControlState.                                                           *)

Coherent(s) == s.status = "armed" <=> s.profile # None

(* A state is written from memory, so StatusCoherent is inductive only     *)
(* with the copies that every process holds.                               *)
CoherentInv ==
    /\ TypeOK
    /\ StatusCoherent
    /\ \A w \in Processes : Coherent(copy[w])

(* The state that stands for an unreadable file is a coherent state.       *)
LEMMA DefaultIsCoherent == Default \in States /\ Coherent(Default)
    BY NamesAssumption DEF Default, States, Coherent

(* initialize_state makes a coherent state of any file.                    *)
LEMMA InitializedIsCoherent ==
    ASSUME NEW content \in States \cup {Absent, Empty, Garbled}
    PROVE  Initialized(content) \in States /\ Coherent(Initialized(content))
<1>1. CASE Readable(content)
  <2>1. content \in States
      BY <1>1 DEF Readable
  <2>2. CASE content.profile = None
      BY <1>1, <2>1, <2>2 DEF Initialized, States, Coherent
  <2>3. CASE content.profile # None
      BY <1>1, <2>1, <2>3 DEF Initialized, States, Coherent
  <2> QED BY <2>2, <2>3
<1>2. CASE ~ Readable(content)
    BY <1>2, DefaultIsCoherent, NamesAssumption
    DEF Initialized, Default, States, Coherent
<1> QED BY <1>1, <1>2

(* The effect of every command keeps a state coherent.                     *)
LEMMA EffectIsCoherent ==
    ASSUME NEW c \in Commands, NEW s \in States, Coherent(s)
    PROVE  Effect(c, s) \in States /\ Coherent(Effect(c, s))
<1>1. CASE c.kind = "initialize"
    BY <1>1 DEF Effect
<1>2. CASE c \in [kind : {"arm"}, arg : ProfileIds]
    BY <1>2, NamesAssumption DEF Effect, States, Coherent
<1>3. CASE c \in [kind : {"record"}, arg : Runs]
    BY <1>3, NamesAssumption DEF Effect, States, Coherent
<1>4. CASE c.kind = "disarm"
    BY <1>4, NamesAssumption DEF Effect, States, Coherent
<1> QED BY <1>1, <1>2, <1>3, <1>4 DEF Commands

(* Initially nothing is armed.                                             *)
LEMMA CoherentInit == Init => CoherentInv
<1> SUFFICES ASSUME Init PROVE CoherentInv
    OBVIOUS
<1> USE DefaultIsCoherent, NamesAssumption, BoundsAssumption DEF Init
<1>1. file \notin States
    OBVIOUS
<1>2. Idle \in Commands
    BY DEF Idle, Commands
<1>3. TypeOK
    BY <1>2 DEF TypeOK
<1>4. StatusCoherent
    BY <1>1 DEF StatusCoherent, Readable
<1>5. \A w \in Processes : Coherent(copy[w])
    OBVIOUS
<1> QED BY <1>3, <1>4, <1>5 DEF CoherentInv

(* A step that leaves the file alone and the copies coherent.              *)
LEMMA FileKept ==
    ASSUME CoherentInv, UNCHANGED file, TypeOK',
           \A w \in Processes : Coherent(copy'[w])
    PROVE  CoherentInv'
    BY DEF CoherentInv, StatusCoherent, Readable

(* No command changes the file or its copy by beginning.                   *)
LEMMA BeginKeeps ==
    ASSUME CoherentInv, NEW w \in Processes, NEW c \in Commands,
           NEW location, BeginFrom(location, w, c),
           commands' \in 0 .. MaxCommands
    PROVE  CoherentInv'
<1>1. TypeOK'
    BY DefaultIsCoherent DEF CoherentInv, TypeOK, BeginFrom
<1>2. \A v \in Processes : Coherent(copy'[v])
    BY DefaultIsCoherent DEF CoherentInv, TypeOK, BeginFrom
<1>3. UNCHANGED file
    BY DEF BeginFrom
<1> QED BY <1>1, <1>2, <1>3, FileKept

(* Every step keeps the invariant.                                         *)
LEMMA CoherentStep == CoherentInv /\ [Next]_vars => CoherentInv'
<1> SUFFICES ASSUME CoherentInv, [Next]_vars PROVE CoherentInv'
    OBVIOUS
<1> USE BoundsAssumption
<1>id. Idle \in Commands
    BY DEF Idle, Commands
<1>d. Daemon \in Processes /\ Clients \subseteq Processes
    BY DEF Processes
<1>0. CASE UNCHANGED vars
    BY <1>0 DEF CoherentInv, TypeOK, StatusCoherent, Readable, vars, processVars
<1>1. ASSUME NEW w \in Clients, NEW c \in Commands, ClientBegins(w, c)
      PROVE  CoherentInv'
  <2>1. commands' \in 0 .. MaxCommands
      BY <1>1 DEF ClientBegins, CoherentInv, TypeOK
  <2> QED BY <2>1, <1>1, <1>d, BeginKeeps DEF ClientBegins, Begin
<1>2. CASE DaemonInitializes
  <2>1. commands' \in 0 .. MaxCommands
      BY <1>2 DEF DaemonInitializes, CoherentInv, TypeOK
  <2> QED BY <2>1, <1>2, <1>d, <1>id, BeginKeeps DEF DaemonInitializes, Begin
<1>3. CASE DaemonReads
  <2>1. file \in States /\ Coherent(file)
      BY <1>3 DEF DaemonReads, Readable, CoherentInv, StatusCoherent, Coherent
  <2>2. TypeOK'
      BY <1>3, <2>1, <1>d DEF DaemonReads, CoherentInv, TypeOK
  <2>3. \A v \in Processes : Coherent(copy'[v])
      BY <1>3, <2>1, <1>d DEF DaemonReads, CoherentInv, TypeOK
  <2> QED BY <1>3, <2>2, <2>3, FileKept DEF DaemonReads
<1>4. CASE NoTrigger
  <2>1. TypeOK'
      BY <1>4, <1>d, <1>id, DefaultIsCoherent DEF NoTrigger, Leave, CoherentInv, TypeOK
  <2>2. \A v \in Processes : Coherent(copy'[v])
      BY <1>4, <1>d, DefaultIsCoherent DEF NoTrigger, Leave, CoherentInv, TypeOK
  <2> QED BY <1>4, <2>1, <2>2, FileKept DEF NoTrigger
<1>5. CASE RunEnds
  <2>1. commands' \in 0 .. MaxCommands
      BY <1>5 DEF RunEnds, CoherentInv, TypeOK
  <2> QED BY <2>1, <1>5, <1>d, <1>id, BeginKeeps DEF RunEnds, Begin
<1>6. ASSUME NEW r \in Runs, TriggerRecords(r) PROVE CoherentInv'
  <2>1. commands' \in 0 .. MaxCommands
      BY <1>6 DEF TriggerRecords, CoherentInv, TypeOK
  <2>2. [kind |-> "record", arg |-> r] \in Commands
      BY DEF Commands
  <2> QED BY <2>1, <2>2, <1>6, <1>d, BeginKeeps DEF TriggerRecords
<1>7. ASSUME NEW w \in Processes, Read(w) PROVE CoherentInv'
  <2>1. Initialized(file) \in States /\ Coherent(Initialized(file))
      BY InitializedIsCoherent DEF CoherentInv, TypeOK
  <2>2. TypeOK'
      BY <1>7, <2>1 DEF Read, CoherentInv, TypeOK
  <2>3. \A v \in Processes : Coherent(copy'[v])
      BY <1>7, <2>1 DEF Read, CoherentInv, TypeOK
  <2> QED BY <1>7, <2>2, <2>3, FileKept DEF Read
<1>8. ASSUME NEW w \in Processes, Open(w) PROVE CoherentInv'
  <2>1. TypeOK'
      BY <1>8 DEF Open, CoherentInv, TypeOK
  <2>2. StatusCoherent'
      BY <1>8, NamesAssumption DEF Open, StatusCoherent, Readable
  <2> QED BY <1>8, <2>1, <2>2 DEF Open, CoherentInv
<1>9. ASSUME NEW w \in Processes, Write(w) PROVE CoherentInv'
  <2>1. copy[w] \in States /\ Coherent(copy[w]) /\ command[w] \in Commands
      BY DEF CoherentInv, TypeOK
  <2>2. file' \in {copy[w], Garbled}
      BY <1>9 DEF Write, Written
  <2>3. StatusCoherent'
      BY <2>1, <2>2, NamesAssumption DEF StatusCoherent, Readable, Coherent
  <2>4. CASE FinishesAt(w, pc[w])
    <3>2. TypeOK'
        BY <1>9, <2>1, <2>2, <2>4, <1>id, DefaultIsCoherent
        DEF Write, Leave, CoherentInv, TypeOK
    <3>3. \A v \in Processes : Coherent(copy'[v])
        BY <1>9, <2>4, DefaultIsCoherent DEF Write, Leave, CoherentInv, TypeOK
    <3> QED BY <2>3, <3>2, <3>3 DEF CoherentInv
  <2>5. CASE ~ FinishesAt(w, pc[w])
    <3>1. Effect(command[w], copy[w]) \in States /\ Coherent(Effect(command[w], copy[w]))
        BY <2>1, EffectIsCoherent
    <3>2. TypeOK'
        BY <1>9, <2>1, <2>2, <2>5, <3>1 DEF Write, CoherentInv, TypeOK
    <3>3. \A v \in Processes : Coherent(copy'[v])
        BY <1>9, <2>5, <3>1 DEF Write, CoherentInv, TypeOK
    <3> QED BY <2>3, <3>2, <3>3 DEF CoherentInv
  <2> QED BY <2>4, <2>5
<1>10. ASSUME NEW w \in Processes, Killed(w) PROVE CoherentInv'
  <2>1. TypeOK'
      BY <1>10, <1>id, DefaultIsCoherent DEF Killed, Leave, CoherentInv, TypeOK
  <2>2. \A v \in Processes : Coherent(copy'[v])
      BY <1>10, DefaultIsCoherent DEF Killed, Leave, CoherentInv, TypeOK
  <2> QED BY <1>10, <2>1, <2>2, FileKept DEF Killed
<1>11. CASE Restart
  <2>1. TypeOK'
      BY <1>11, <1>d DEF Restart, CoherentInv, TypeOK
  <2> QED BY <1>11, <2>1, FileKept DEF Restart, CoherentInv
<1> QED
    BY <1>0, <1>1, <1>2, <1>3, <1>4, <1>5, <1>6, <1>7, <1>8, <1>9, <1>10, <1>11
    DEF Next, Proceed

(* Every variable keeps its type.                                          *)
THEOREM ControlTypeCorrect == Spec => []TypeOK
<1>1. CoherentInv => TypeOK
    BY DEF CoherentInv
<1> QED BY CoherentInit, CoherentStep, <1>1, PTL DEF Spec

(* However reads and writes of state.json overlap and whoever is killed, a *)
(* state that parses says armed exactly if it names a profile.             *)
THEOREM StatusIsCoherent == Spec => []StatusCoherent
<1>1. CoherentInv => StatusCoherent
    BY DEF CoherentInv
<1> QED BY CoherentInit, CoherentStep, <1>1, PTL DEF Spec

-----------------------------------------------------------------------------
(* What a process that is alone has to do with the file it began on.       *)
Writing == {"read", "open", "write", "reopen", "rewrite"}

LoneAt(w) ==
    /\ pc[w] \in Writing
    /\ \A u \in Processes \ {w} : pc[u] \in NotWriting
    /\ pc[w] \in {"read", "open"} => file = base[w]
    /\ pc[w] \in {"open", "write"} => copy[w] = Initialized(base[w])
    /\ pc[w] \in {"write", "rewrite"} => file = Empty
    /\ pc[w] \in {"reopen", "rewrite"} =>
         /\ command[w].kind # "initialize"
         /\ copy[w] = Effect(command[w], Initialized(base[w]))

LoneInv ==
    /\ \A w \in Processes : base[w] \in States => Coherent(base[w])
    /\ \A w \in Processes : alone[w] => LoneAt(w)

(* Initially no process is alone: none is writing.                         *)
LEMMA LoneInit == Init => LoneInv
    BY NamesAssumption DEF Init, LoneInv

(* Beginning takes the other processes out of solitude.                    *)
LEMMA BeginKeepsLone ==
    ASSUME CoherentInv, LoneInv, NEW w \in Processes, NEW c \in Commands,
           NEW location, BeginFrom(location, w, c)
    PROVE  LoneInv'
<1>1. \A v \in Processes : base'[v] \in States => Coherent(base'[v])
    BY DEF BeginFrom, LoneInv, CoherentInv, TypeOK, StatusCoherent, Readable, Coherent
<1>2. ASSUME NEW v \in Processes, alone'[v] PROVE LoneAt(v)'
  <2>1. v = w /\ \A u \in Processes \ {w} : pc[u] \in NotWriting
      BY <1>2 DEF BeginFrom, CoherentInv, TypeOK
  <2>2. pc'[w] = "read" /\ base'[w] = file /\ file' = file
      BY DEF BeginFrom, CoherentInv, TypeOK
  <2>3. \A u \in Processes \ {w} : pc'[u] = pc[u]
      BY DEF BeginFrom, CoherentInv, TypeOK
  <2> QED BY <2>1, <2>2, <2>3 DEF LoneAt, Writing
<1> QED BY <1>1, <1>2 DEF LoneInv

(* A step of one process leaves no other one alone, or was not writing.    *)
LEMMA OthersNotAlone ==
    ASSUME LoneInv, NEW w \in Processes, pc[w] \notin NotWriting,
           NEW v \in Processes, v # w
    PROVE  ~ alone[v]
    BY DEF LoneInv, LoneAt

(* Every step keeps it.                                                    *)
LEMMA LoneStep == CoherentInv /\ LoneInv /\ [Next]_vars => LoneInv'
<1> SUFFICES ASSUME CoherentInv, LoneInv, [Next]_vars PROVE LoneInv'
    OBVIOUS
<1>id. Idle \in Commands
    BY DEF Idle, Commands
<1>d. Daemon \in Processes /\ Clients \subseteq Processes
    BY DEF Processes
<1>0. CASE UNCHANGED vars
    BY <1>0 DEF LoneInv, LoneAt, vars, processVars
<1>1. ASSUME NEW w \in Clients, NEW c \in Commands, ClientBegins(w, c)
      PROVE  LoneInv'
    BY <1>1, <1>d, BeginKeepsLone DEF ClientBegins, Begin
<1>2. CASE DaemonInitializes
    BY <1>2, <1>d, <1>id, BeginKeepsLone DEF DaemonInitializes, Begin
<1>3. CASE DaemonReads
  <2>1. ~ alone[Daemon]
      BY <1>3, <1>d DEF DaemonReads, LoneInv, LoneAt, Writing
  <2>2. ASSUME NEW v \in Processes, alone'[v] PROVE LoneAt(v)'
    <3>1. v # Daemon /\ LoneAt(v)
        BY <1>3, <2>1, <2>2 DEF DaemonReads, LoneInv
    <3>2. pc'[v] = pc[v] /\ copy'[v] = copy[v]
        BY <1>3, <3>1 DEF DaemonReads, CoherentInv, TypeOK
    <3>3. \A u \in Processes : pc'[u] = pc[u] \/ pc'[u] \in NotWriting
        BY <1>3 DEF DaemonReads, CoherentInv, TypeOK, NotWriting
    <3> QED BY <1>3, <3>1, <3>2, <3>3 DEF DaemonReads, LoneAt
  <2> QED BY <1>3, <2>2 DEF DaemonReads, LoneInv
<1>4. CASE NoTrigger
  <2>1. ~ alone[Daemon]
      BY <1>4, <1>d DEF NoTrigger, LoneInv, LoneAt, Writing
  <2>2. ASSUME NEW v \in Processes, alone'[v] PROVE LoneAt(v)'
    <3>1. v # Daemon /\ LoneAt(v)
        BY <1>4, <2>1, <2>2 DEF NoTrigger, LoneInv
    <3>2. pc'[v] = pc[v] /\ copy'[v] = copy[v] /\ base'[v] = base[v]
          /\ command'[v] = command[v]
        BY <1>4, <3>1 DEF NoTrigger, Leave, CoherentInv, TypeOK
    <3>3. \A u \in Processes : pc'[u] = pc[u] \/ pc'[u] \in NotWriting
        BY <1>4 DEF NoTrigger, Leave, CoherentInv, TypeOK, NotWriting
    <3> QED BY <1>4, <3>1, <3>2, <3>3 DEF NoTrigger, LoneAt
  <2>3. \A v \in Processes : base'[v] \in States => Coherent(base'[v])
      BY <1>4, NamesAssumption DEF NoTrigger, Leave, LoneInv, CoherentInv, TypeOK
  <2> QED BY <2>2, <2>3 DEF LoneInv
<1>5. CASE RunEnds
    BY <1>5, <1>d, <1>id, BeginKeepsLone DEF RunEnds, Begin
<1>6. ASSUME NEW r \in Runs, TriggerRecords(r) PROVE LoneInv'
  <2>1. [kind |-> "record", arg |-> r] \in Commands
      BY DEF Commands
  <2> QED BY <2>1, <1>6, <1>d, BeginKeepsLone DEF TriggerRecords
<1>7. ASSUME NEW w \in Processes, Read(w) PROVE LoneInv'
  <2>1. \A v \in Processes \ {w} : ~ alone[v]
      BY <1>7, OthersNotAlone DEF Read, NotWriting
  <2>2. ASSUME alone[w] PROVE LoneAt(w)'
    <3>1. LoneAt(w)
        BY <2>2 DEF LoneInv
    <3>2. pc'[w] = "open" /\ copy'[w] = Initialized(base[w])
        BY <1>7, <3>1 DEF Read, LoneAt, CoherentInv, TypeOK
    <3>3. \A u \in Processes \ {w} : pc'[u] = pc[u]
        BY <1>7 DEF Read, CoherentInv, TypeOK
    <3> QED BY <1>7, <3>1, <3>2, <3>3 DEF Read, LoneAt, Writing, Initialized, Readable, Default, States
  <2> QED BY <1>7, <2>1, <2>2 DEF Read, LoneInv
<1>8. ASSUME NEW w \in Processes, Open(w) PROVE LoneInv'
  <2>1. \A v \in Processes \ {w} : ~ alone[v]
      BY <1>8, OthersNotAlone DEF Open, NotWriting
  <2>2. ASSUME alone[w] PROVE LoneAt(w)'
    <3>1. LoneAt(w)
        BY <2>2 DEF LoneInv
    <3>2. pc'[w] = IF pc[w] = "open" THEN "write" ELSE "rewrite"
        BY <1>8 DEF Open, CoherentInv, TypeOK
    <3>3. \A u \in Processes \ {w} : pc'[u] = pc[u]
        BY <1>8 DEF Open, CoherentInv, TypeOK
    <3>4. UNCHANGED <<command, copy, base>> /\ file' = Empty
        BY <1>8 DEF Open
    <3>5. (Initialized(base[w]))' = Initialized(base[w])
        BY <3>4 DEF Initialized, Readable, Default, States
    <3>6. (Effect(command[w], Initialized(base[w])))'
            = Effect(command[w], Initialized(base[w]))
        BY <3>4, <3>5 DEF Effect
    <3>7. CASE pc[w] = "open"
        BY <3>1, <3>2, <3>3, <3>4, <3>5, <3>7 DEF LoneAt, Writing
    <3>8. CASE pc[w] = "reopen"
        BY <3>1, <3>2, <3>3, <3>4, <3>6, <3>8 DEF LoneAt, Writing
    <3> QED BY <1>8, <3>7, <3>8 DEF Open
  <2> QED BY <1>8, <2>1, <2>2 DEF Open, LoneInv
<1>9. ASSUME NEW w \in Processes, Write(w) PROVE LoneInv'
  <2>1. \A v \in Processes \ {w} : ~ alone[v]
      BY <1>9, OthersNotAlone DEF Write, NotWriting
  <2>2. CASE FinishesAt(w, pc[w])
    <3>1. \A v \in Processes : ~ alone'[v]
        BY <1>9, <2>1, <2>2 DEF Write, CoherentInv, TypeOK
    <3>2. \A v \in Processes : base'[v] \in States => Coherent(base'[v])
        BY <1>9, <2>2, NamesAssumption DEF Write, Leave, LoneInv, CoherentInv, TypeOK
    <3> QED BY <3>1, <3>2 DEF LoneInv
  <2>3. CASE ~ FinishesAt(w, pc[w])
    <3>1. ASSUME alone[w] PROVE LoneAt(w)'
      <4>1. LoneAt(w)
          BY <3>1 DEF LoneInv
      <4>2. pc[w] = "write" /\ command[w].kind # "initialize"
          BY <1>9, <2>3, <4>1 DEF Write, FinishesAt, LoneAt
      <4>3. pc'[w] = "reopen" /\ copy'[w] = Effect(command[w], Initialized(base[w]))
          BY <1>9, <2>3, <4>1, <4>2 DEF Write, LoneAt, CoherentInv, TypeOK
      <4>4. \A u \in Processes \ {w} : pc'[u] = pc[u]
          BY <1>9, <2>3 DEF Write, CoherentInv, TypeOK
      <4>5. UNCHANGED <<command, base>>
          BY <1>9, <2>3 DEF Write
      <4>6. (Effect(command[w], Initialized(base[w])))'
              = Effect(command[w], Initialized(base[w]))
          BY <4>5 DEF Effect, Initialized, Readable, Default, States
      <4> QED BY <4>1, <4>2, <4>3, <4>4, <4>5, <4>6 DEF LoneAt, Writing
    <3> QED BY <1>9, <2>1, <2>3, <3>1 DEF Write, LoneInv
  <2> QED BY <2>2, <2>3
<1>10. ASSUME NEW w \in Processes, Killed(w) PROVE LoneInv'
  <2>1. \A v \in Processes : ~ alone'[v]
      BY <1>10 DEF Killed
  <2>2. \A v \in Processes : base'[v] \in States => Coherent(base'[v])
      BY <1>10, NamesAssumption DEF Killed, Leave, LoneInv, CoherentInv, TypeOK
  <2> QED BY <2>1, <2>2 DEF LoneInv
<1>11. CASE Restart
  <2>1. ~ alone[Daemon]
      BY <1>11, <1>d DEF Restart, LoneInv, LoneAt, Writing
  <2>2. ASSUME NEW v \in Processes, alone'[v] PROVE LoneAt(v)'
    <3>1. v # Daemon /\ LoneAt(v)
        BY <1>11, <2>1, <2>2 DEF Restart, LoneInv
    <3>2. pc'[v] = pc[v]
        BY <1>11, <3>1 DEF Restart, CoherentInv, TypeOK
    <3>3. \A u \in Processes : pc'[u] = pc[u] \/ pc'[u] \in NotWriting
        BY <1>11 DEF Restart, CoherentInv, TypeOK, NotWriting
    <3> QED BY <1>11, <3>1, <3>2, <3>3 DEF Restart, LoneAt
  <2> QED BY <1>11, <2>2 DEF Restart, LoneInv
<1> QED
    BY <1>0, <1>1, <1>2, <1>3, <1>4, <1>5, <1>6, <1>7, <1>8, <1>9, <1>10, <1>11
    DEF Next, Proceed

(* What a lone command does when it finishes.                              *)
LEMMA LoneFinish ==
    ASSUME CoherentInv, LoneInv, [Next]_vars,
           NEW w \in Processes, Finishes(w), alone[w]
    PROVE  file' = Effect(command[w], IF Readable(base[w]) THEN base[w] ELSE Default)
<1>1. LoneAt(w) /\ pc[w] \in {"write", "rewrite"}
    BY DEF LoneInv, Finishes, FinishesAt
<1>2. Write(w)
    \* no other action takes w from there to idle without a kill
  <2>1. pc'[w] # pc[w] /\ kills' = kills
      BY <1>1 DEF Finishes
  <2>2. \A v \in Processes : pc[v] \in {"read", "open", "write", "reopen", "rewrite"} => v = w
      BY <1>1 DEF LoneAt, NotWriting
  <2>3. ~ UNCHANGED vars
      BY <2>1 DEF vars, processVars
  <2>4. ASSUME NEW v \in Processes, NEW c, NEW location,
               BeginFrom(location, v, c), location \in NotWriting
        PROVE  FALSE
      BY <1>1, <2>1, <2>4 DEF BeginFrom, NotWriting, CoherentInv, TypeOK
  <2>5. Daemon \in Processes /\ Clients \subseteq Processes
      BY DEF Processes
  <2>6. \A v \in Clients, c \in Commands : ~ ClientBegins(v, c)
      BY <2>4, <2>5 DEF ClientBegins, Begin, NotWriting
  <2>7. ~ DaemonInitializes /\ ~ RunEnds
      BY <2>4, <2>5 DEF DaemonInitializes, RunEnds, Begin, NotWriting
  <2>8. \A r \in Runs : ~ TriggerRecords(r)
      BY <2>4, <2>5 DEF TriggerRecords, NotWriting
  <2>9. ~ DaemonReads
      BY <1>1, <2>1 DEF DaemonReads, CoherentInv, TypeOK
  <2>10. ~ NoTrigger
      BY <1>1, <2>1 DEF NoTrigger, Leave, CoherentInv, TypeOK
  <2>11. ~ Restart
      BY <1>1, <2>1 DEF Restart, CoherentInv, TypeOK
  <2>12. \A v \in Processes : ~ Killed(v)
      BY <2>1 DEF Killed, CoherentInv, TypeOK
  <2>13. \A v \in Processes : Proceed(v) => v = w
      BY <2>2 DEF Proceed, Read, Open, Write
  <2>14. ~ Read(w) /\ ~ Open(w)
      BY <1>1 DEF Read, Open, Finishes, CoherentInv, TypeOK
  <2> QED BY <2>3, <2>6, <2>7, <2>8, <2>9, <2>10, <2>11, <2>12, <2>13, <2>14
          DEF Next, Proceed
<1>3. file' = copy[w]
    BY <1>1, <1>2 DEF Write, Written, LoneAt
<1>4. Initialized(base[w]) = IF Readable(base[w]) THEN base[w] ELSE Default
  <2>1. CASE Readable(base[w])
      BY <2>1 DEF Initialized, Readable, LoneInv, Coherent, States
  <2>2. CASE ~ Readable(base[w])
      BY <2>2 DEF Initialized, Default
  <2> QED BY <2>1, <2>2
<1>5. CASE pc[w] = "write"
  <2>1. command[w].kind = "initialize"
      BY <1>5 DEF Finishes, FinishesAt
  <2> QED BY <1>1, <1>3, <1>4, <1>5, <2>1 DEF LoneAt, Effect
<1>6. CASE pc[w] = "rewrite"
    BY <1>1, <1>3, <1>4, <1>6 DEF LoneAt
<1> QED BY <1>1, <1>5, <1>6

(* A command that no other one overlapped has its effect on what the file  *)
(* said before, and changes nothing else.                                  *)
THEOREM LoneCommandCorrect == Spec => LoneCommandTakesEffect
<1>1. CoherentInv /\ LoneInv /\ [Next]_vars =>
        [\A w \in Processes :
           Finishes(w) /\ alone[w] =>
             file' = Effect(command[w], IF Readable(base[w]) THEN base[w] ELSE Default)]_vars
    BY LoneFinish
<1> QED
    BY CoherentInit, CoherentStep, LoneInit, LoneStep, <1>1, PTL
    DEF Spec, LoneCommandTakesEffect

-----------------------------------------------------------------------------
(* TriggerService.                                                         *)

(* The rules of a profile, and their names.                                *)

RulesOf(p) == {Rules[p][k] : k \in DOMAIN Rules[p]}
NamesOf(p) == {Rules[p][k].name : k \in DOMAIN Rules[p]}

(* A profile has no more names than rules.                                 *)
LEMMA NamesAreFew ==
  ASSUME NEW p \in Profiles
  PROVE  /\ Len(Rules[p]) \in Nat
         /\ IsFiniteSet(NamesOf(p))
         /\ Cardinality(NamesOf(p)) <= Len(Rules[p])
<1> DEFINE D == DOMAIN Rules[p]
           name == [k \in D |-> Rules[p][k].name]
<1>1. Len(Rules[p]) \in Nat /\ D = 1 .. Len(Rules[p])
  BY ProfilesAssumption, LenProperties
<1>2. IsFiniteSet(D) /\ Cardinality(D) = Len(Rules[p])
  BY <1>1, FS_Interval
<1>3. name \in Surjection(D, NamesOf(p))
  BY DEF Surjection, NamesOf
<1> HIDE DEF D, name
<1>. QED BY <1>1, <1>2, <1>3, FS_Surjection

(* Firings that have evidence.                                             *)
Evident == [rule : UNION {RulesOf(p) : p \in Profiles}, time : Nat,
            frozen : BOOLEAN, evidence : (SUBSET Signals) \ {{}}]

RunType ==
    /\ active \in Profiles \cup {NoProfile}
    /\ loaded \in Profiles \cup {NoProfile}
    /\ now \in Nat
    /\ firings \in Seq(Evident)

(* Each rule of the loaded profile was written at most once.               *)
WrittenOnce ==
    /\ written \subseteq IF loaded = NoProfile THEN {} ELSE NamesOf(loaded)
    /\ IsFiniteSet(written)
    /\ writes = Cardinality(written)

TriggerInv == RunType /\ WrittenOnce

(* What an iteration finds is of the profile that is active.               *)
LEMMA FoundOfActive ==
  ASSUME TriggerInv, active # NoProfile
  PROVE  /\ WrittenNow \subseteq NamesOf(active)
         /\ IsFiniteSet(WrittenNow)
         /\ WritesNow = Cardinality(WrittenNow)
  BY FS_EmptySet DEF TriggerInv, WrittenOnce, WrittenNow, WritesNow, Switched

(* Nothing is loaded, written or fired at the beginning.                   *)
LEMMA TriggerInvInit == TriggerInit => TriggerInv
<1> SUFFICES ASSUME TriggerInit
             PROVE  TriggerInv
  OBVIOUS
<1>1. RunType
  <2>1. firings \in Seq(Evident)
    BY EmptySeq DEF TriggerInit
  <2>2. now \in Nat
    BY DEF TriggerInit
  <2>. QED BY <2>1, <2>2 DEF TriggerInit, RunType
<1>2. WrittenOnce
  BY FS_EmptySet DEF TriggerInit, WrittenOnce
<1>. QED BY <1>1, <1>2 DEF TriggerInv

(* An iteration that finds nothing new to write keeps what was written.    *)
LEMMA QuietKeeps ==
  ASSUME TriggerInv, active # NoProfile, NEW cur, NEW ring, Quiet(cur, ring)
  PROVE  TriggerInv'
  BY FoundOfActive DEF Quiet, Continue, TriggerInv, RunType, WrittenOnce

(* A rule that was written already is not written again.                   *)
LEMMA MaterializeKeeps ==
  ASSUME TriggerInv, active # NoProfile, NEW k \in DOMAIN Rules[active],
         NEW cur, NEW ring, Materialize(k, cur, ring)
  PROVE  TriggerInv'
<1> DEFINE n == Rules[active][k].name
<1>1. /\ loaded' = active /\ UNCHANGED <<now, active, firings>>
      /\ written' = WrittenNow \cup {n}
      /\ writes' = IF n \in WrittenNow THEN WritesNow ELSE WritesNow + 1
  BY DEF Materialize, Continue
<1>2. n \in NamesOf(active)
  BY DEF NamesOf
<1> HIDE DEF n
<1>3. /\ IsFiniteSet(WrittenNow \cup {n})
      /\ Cardinality(WrittenNow \cup {n}) =
            IF n \in WrittenNow THEN Cardinality(WrittenNow)
            ELSE Cardinality(WrittenNow) + 1
  BY FoundOfActive, FS_AddElement
<1>4. WrittenOnce'
  BY <1>1, <1>2, <1>3, FoundOfActive DEF WrittenOnce
<1>. QED BY <1>1, <1>4 DEF TriggerInv, RunType

(* The run that a firing ends forgets; the firing has evidence, as a rule  *)
(* whose signal is not retained is skipped.                                *)
LEMMA FireKeeps ==
  ASSUME TriggerInv, active # NoProfile, NEW k \in DOMAIN Rules[active],
         NEW cur, NEW ring, Fire(k, cur, ring)
  PROVE  TriggerInv'
<1> DEFINE r == Rules[active][k]
           firing == [rule |-> r, time |-> now, frozen |-> Admitted,
                      evidence |-> ring \cap {r.signal}]
<1>1. /\ firings' = Append(firings, firing)
      /\ ForgetRun /\ UNCHANGED <<now, active>>
      /\ DecisionOf(k, cur, ring) = "fired"
  BY DEF Fire
<1>2. r.signal \in ring
  BY <1>1 DEF DecisionOf, Decision
<1>3. active \in Profiles
  BY DEF TriggerInv, RunType
<1>4. r.signal \in Signals /\ r \in RulesOf(active)
  BY <1>3, ProfilesAssumption DEF RulesOf
<1>5. firing \in Evident
  <2>1. ring \cap {r.signal} \in (SUBSET Signals) \ {{}}
    BY <1>2, <1>4
  <2>2. r \in UNION {RulesOf(p) : p \in Profiles}
    BY <1>3, <1>4
  <2>3. now \in Nat /\ Admitted \in BOOLEAN
    BY DEF TriggerInv, RunType, Admitted
  <2> HIDE DEF r
  <2>. QED BY <2>1, <2>2, <2>3 DEF Evident
<1> HIDE DEF firing
<1>6. firings' \in Seq(Evident)
  BY <1>1, <1>5, AppendProperties DEF TriggerInv, RunType
<1>7. WrittenOnce'
  BY <1>1, FS_EmptySet DEF ForgetRun, WrittenOnce
<1>. QED BY <1>1, <1>6, <1>7 DEF ForgetRun, TriggerInv, RunType

(* Every step keeps the invariant.                                         *)
LEMMA TriggerInvStep == TriggerInv /\ [TriggerNext]_triggerVars => TriggerInv'
<1> SUFFICES ASSUME TriggerInv, [TriggerNext]_triggerVars
             PROVE  TriggerInv'
  OBVIOUS
<1>1. CASE Tick
  BY <1>1 DEF Tick, runVars, TriggerInv, RunType, WrittenOnce
<1>2. ASSUME NEW p \in Profiles \cup {NoProfile}, Arm(p)
      PROVE  TriggerInv'
  BY <1>2 DEF Arm, runVars, TriggerInv, RunType, WrittenOnce
<1>3. CASE Iterate
  <2>1. active # NoProfile
    BY <1>3 DEF Iterate
  <2>2. PICK sem, event, ring :
          \/ Quiet(Current(sem, event), ring)
          \/ \E k \in DOMAIN Rules[active] :
                \/ Materialize(k, Current(sem, event), ring)
                \/ Fire(k, Current(sem, event), ring)
    BY <1>3 DEF Iterate
  <2>. QED BY <2>1, <2>2, QuietKeeps, MaterializeKeeps, FireKeeps
<1>4. CASE EndRun
  BY <1>4, FS_EmptySet DEF EndRun, ForgetRun, TriggerInv, RunType, WrittenOnce
<1>5. CASE UNCHANGED triggerVars
  BY <1>5 DEF triggerVars, runVars, TriggerInv, RunType, WrittenOnce
<1>. QED BY <1>1, <1>2, <1>3, <1>4, <1>5 DEF TriggerNext

(* The invariant holds.                                                    *)
LEMMA TriggerInvHolds == TriggerSpec => []TriggerInv
  BY TriggerInvInit, TriggerInvStep, PTL DEF TriggerSpec

(* When a rule fires the ring retains a sample of its signal, although the *)
(* sample that matched may have been throttled (evaluate_trigger).         *)
THEOREM FiringsAreEvident == TriggerSpec => []FiringsHaveEvidence
<1>1. TriggerInv => FiringsHaveEvidence
  <2> SUFFICES ASSUME TriggerInv, NEW i \in DOMAIN firings
               PROVE  firings[i].evidence # {}
    BY DEF FiringsHaveEvidence
  <2>1. firings[i] \in Evident
    BY LenProperties, ElementOfSeq DEF TriggerInv, RunType
  <2>. QED BY <2>1 DEF Evident
<1>. QED BY <1>1, TriggerInvHolds, PTL

(* A profile writes no more decisions than it has rules, however long it   *)
(* stays armed (run_service_for, materialized_trigger_decisions).          *)
THEOREM WritesAreBounded == TriggerSpec => []WritesBounded
<1>1. TriggerInv => WritesBounded
  <2> SUFFICES ASSUME TriggerInv
               PROVE  WritesBounded
    OBVIOUS
  <2>1. CASE loaded = NoProfile
    BY <2>1, FS_EmptySet DEF TriggerInv, WrittenOnce, WritesBounded
  <2>2. CASE loaded # NoProfile
    <3>1. loaded \in Profiles
      BY <2>2 DEF TriggerInv, RunType
    <3>2. Cardinality(written) <= Cardinality(NamesOf(loaded))
      BY <2>2, <3>1, NamesAreFew, FS_Subset DEF TriggerInv, WrittenOnce
    <3>3. /\ Cardinality(written) \in Nat
          /\ Cardinality(NamesOf(loaded)) \in Nat
      BY <3>1, NamesAreFew, FS_CardinalityType DEF TriggerInv, WrittenOnce
    <3>. QED BY <2>2, <3>1, <3>2, <3>3, NamesAreFew
             DEF TriggerInv, WrittenOnce, WritesBounded
  <2>. QED BY <2>1, <2>2
<1>. QED BY <1>1, TriggerInvHolds, PTL

=============================================================================

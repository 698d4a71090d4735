----------------------------- MODULE ControlState -----------------------------
(***************************************************************************)
(* state.json, the control surface of the daemon: which profile is armed   *)
(* and which run was the last.  `adc arm`, `adc disarm`, every capture of  *)
(* `adc` and adc-mcp (record_run) and the service loop of adc-targetd      *)
(* read it, modify the copy and write it back, without a lock and with     *)
(* fs::write, which truncates the file before it writes.                   *)
(***************************************************************************)
EXTENDS Naturals

CONSTANTS
    Clients,     \* processes of adc and adc-mcp
    Daemon,      \* the process of adc-targetd
    ProfileIds,  \* profiles to arm
    Runs,        \* ids of captured runs
    None,        \* no profile is armed, no run was captured
    Absent,      \* state.json is not there
    Empty,       \* it was truncated and not yet written
    Garbled,     \* a short write over a longer file left a foreign tail
    MaxCommands, \* bound: commands of the clients and triggers
    MaxKills     \* bound: processes killed

Processes == Clients \cup {Daemon}

(* initialize_state alone, arm_profile, disarm_profile and record_run.     *)
Commands == [kind : {"initialize", "disarm"}, arg : {None}]
            \cup [kind : {"arm"}, arg : ProfileIds]
            \cup [kind : {"record"}, arg : Runs]

(* The fields of DaemonState that a command reads or changes.              *)
States == [profile : ProfileIds \cup {None}, status : {"ready", "armed"},
           lastRun : Runs \cup {None}]

ASSUME NamesAssumption ==
    /\ Daemon \notin Clients
    /\ None \notin ProfileIds \cup Runs
    /\ {Absent, Empty, Garbled} \cap States = {}
    /\ Absent \notin {Empty, Garbled}
    /\ Empty # Garbled

ASSUME BoundsAssumption ==
    /\ MaxCommands \in Nat
    /\ MaxKills \in Nat

VARIABLES
    file,      \* content of state.json
    pc,        \* pc[w]: where process w is
    command,   \* command[w]: what w executes
    copy,      \* copy[w]: the DaemonState in the memory of w
    commands,  \* commands begun so far
    kills,     \* processes killed so far
    \* history
    base,      \* base[w]: what the file was when w began
    alone      \* alone[w]: no other process was writing since w began

processVars == <<pc, command, copy>>
vars == <<file, processVars, commands, kills, base, alone>>

-----------------------------------------------------------------------------
Default == [profile |-> None, status |-> "ready", lastRun |-> None]

Readable(content) == content \in States

InitializedFromDefault(content) ==  \* mutant of Initialized
    IF Readable(content) THEN [Default EXCEPT !.profile = content.profile] ELSE Default

(* What initialize_state makes of the file: any failure to read it counts  *)
(* as the default state.                                                   *)
Initialized(content) ==
    LET s == IF Readable(content) THEN content ELSE Default
    IN  [s EXCEPT !.status = IF s.profile = None THEN "ready" ELSE "armed"]

EffectKeepingStatus(c, s) ==  \* mutant of Effect
    CASE c.kind = "initialize" -> s
      [] c.kind = "arm"        -> [s EXCEPT !.profile = c.arg, !.status = "armed"]
      [] c.kind = "disarm"     -> [s EXCEPT !.profile = None]
      [] c.kind = "record"     -> [s EXCEPT !.lastRun = c.arg]

EffectWrongField(c, s) ==  \* mutant of Effect
    CASE c.kind = "initialize" -> s
      [] c.kind = "arm"        -> [s EXCEPT !.profile = c.arg, !.status = "armed"]
      [] c.kind = "disarm"     -> [s EXCEPT !.profile = None, !.status = "ready"]
      [] c.kind = "record"     -> [s EXCEPT !.profile = c.arg]

Effect(c, s) ==
    CASE c.kind = "initialize" -> s
      [] c.kind = "arm"        -> [s EXCEPT !.profile = c.arg, !.status = "armed"]
      [] c.kind = "disarm"     -> [s EXCEPT !.profile = None, !.status = "ready"]
      [] c.kind = "record"     -> [s EXCEPT !.lastRun = c.arg]

Idle == [kind |-> "initialize", arg |-> None]

Init ==
    /\ file     = Absent
    /\ pc       = [w \in Processes |-> "idle"]
    /\ command  = [w \in Processes |-> Idle]
    /\ copy     = [w \in Processes |-> Default]
    /\ commands = 0
    /\ kills    = 0
    /\ base     = [w \in Processes |-> Absent]
    /\ alone    = [w \in Processes |-> FALSE]

-----------------------------------------------------------------------------
NotWriting == {"idle", "off", "serve"}

BeginFrom(location, w, c) ==
    /\ pc[w] = location
    /\ pc'      = [pc EXCEPT ![w] = "read"]
    /\ command' = [command EXCEPT ![w] = c]
    /\ base'    = [base EXCEPT ![w] = file]
    /\ alone'   = [v \in Processes |->
                     IF v = w THEN \A u \in Processes \ {w} : pc[u] \in NotWriting
                     ELSE FALSE]
    /\ copy'    = [copy EXCEPT ![w] = Default]
    /\ UNCHANGED <<file, kills>>

Begin(w, c) == BeginFrom("idle", w, c)

(* The process returns to location with nothing in memory.                 *)
Leave(w, location) ==
    /\ pc'      = [pc EXCEPT ![w] = location]
    /\ command' = [command EXCEPT ![w] = Idle]
    /\ copy'    = [copy EXCEPT ![w] = Default]
    /\ base'    = [base EXCEPT ![w] = Absent]

ClientBegins(w, c) ==
    /\ commands < MaxCommands
    /\ commands' = commands + 1
    /\ c.kind # "initialize"
    /\ Begin(w, c)

InitializesInMemory ==  \* mutant of DaemonInitializes
    /\ ~ Readable(file)
    /\ pc[Daemon] = "idle"
    /\ pc' = [pc EXCEPT ![Daemon] = "serve"]
    /\ UNCHANGED <<file, command, copy, commands, kills, base, alone>>

(* The service loop finds no state that it can parse and initializes it.   *)
DaemonInitializes ==
    /\ ~ Readable(file)
    /\ Begin(Daemon, Idle)
    /\ UNCHANGED commands

(* It reads the state; before it reads the state again, a trigger of the   *)
(* profile that was armed may have fired, whose run it records.            *)
DaemonReads ==
    /\ pc[Daemon] = "idle"
    /\ Readable(file)
    /\ pc'   = [pc EXCEPT ![Daemon] = "serve"]
    /\ copy' = [copy EXCEPT ![Daemon] = file]
    /\ UNCHANGED <<file, command, commands, kills, base, alone>>

NoTrigger ==
    /\ pc[Daemon] = "serve"
    /\ Leave(Daemon, "idle")
    /\ UNCHANGED <<file, commands, kills, alone>>

TriggerRecords(r) ==
    /\ pc[Daemon] = "serve"
    /\ copy[Daemon].profile # None
    /\ commands < MaxCommands
    /\ commands' = commands + 1
    /\ BeginFrom("serve", Daemon, [kind |-> "record", arg |-> r])

(* The end of the minute of a service run.                                 *)
RunEnds ==
    /\ commands < MaxCommands
    /\ commands' = commands + 1
    /\ Begin(Daemon, Idle)

Read(w) ==
    /\ pc[w] = "read"
    /\ copy' = [copy EXCEPT ![w] = Initialized(file)]
    /\ pc'   = [pc EXCEPT ![w] = "open"]
    /\ UNCHANGED <<file, command, commands, kills, base, alone>>

(* Both writes of a command truncate the file first: that of               *)
(* initialize_state and that of the command's own effect.                  *)
Open(w) ==
    /\ pc[w] \in {"open", "reopen"}
    /\ file' = Empty
    /\ pc'   = [pc EXCEPT ![w] = IF @ = "open" THEN "write" ELSE "rewrite"]
    /\ UNCHANGED <<command, copy, commands, kills, base, alone>>

(* A write starts at offset 0 of a file that another process may have      *)
(* written meanwhile.                                                      *)
Written(s) == IF file = Empty THEN {s} ELSE {s, Garbled}

FinishesAt(w, location) ==
    location = IF command[w].kind = "initialize" THEN "write" ELSE "rewrite"

Write(w) ==
    /\ pc[w] \in {"write", "rewrite"}
    /\ file' \in Written(copy[w])
    /\ IF FinishesAt(w, pc[w])
       THEN /\ Leave(w, "idle")
            /\ alone' = [alone EXCEPT ![w] = FALSE]
       ELSE /\ pc'   = [pc EXCEPT ![w] = "reopen"]
            /\ copy' = [copy EXCEPT ![w] = Effect(command[w], @)]
            /\ UNCHANGED <<command, base, alone>>
    /\ UNCHANGED <<commands, kills>>

(* The process is killed, or initialize_state cannot list the runs.        *)
Killed(w) ==
    /\ pc[w] \notin {"idle", "off"}
    /\ kills < MaxKills
    /\ kills' = kills + 1
    /\ Leave(w, IF w = Daemon THEN "off" ELSE "idle")
    /\ alone' = [v \in Processes |-> FALSE]
    /\ UNCHANGED <<file, commands>>

(* systemd restarts the daemon.                                            *)
Restart ==
    /\ pc[Daemon] = "off"
    /\ pc' = [pc EXCEPT ![Daemon] = "idle"]
    /\ UNCHANGED <<file, command, copy, commands, kills, base, alone>>

Proceed(w) == Read(w) \/ Open(w) \/ Write(w)

Next ==
    \/ \E w \in Clients, c \in Commands : ClientBegins(w, c)
    \/ DaemonInitializes
    \/ DaemonReads
    \/ NoTrigger
    \/ RunEnds
    \/ \E r \in Runs : TriggerRecords(r)
    \/ \E w \in Processes : Proceed(w) \/ Killed(w)
    \/ Restart

Spec == Init /\ [][Next]_vars

(* The service loop goes on: it reads the state at every tick.             *)
Fairness ==
    WF_vars(DaemonInitializes \/ DaemonReads \/ NoTrigger
            \/ Proceed(Daemon) \/ Restart)

FairSpec == Spec /\ Fairness

-----------------------------------------------------------------------------
(* Properties.                                                             *)

TypeOK ==
    /\ file \in States \cup {Absent, Empty, Garbled}
    /\ pc \in [Processes -> {"off", "idle", "serve", "read", "open", "write", "reopen", "rewrite"}]
    /\ command \in [Processes -> Commands]
    /\ copy \in [Processes -> States]
    /\ commands \in 0 .. MaxCommands
    /\ kills \in 0 .. MaxKills
    /\ base \in [Processes -> States \cup {Absent, Empty, Garbled}]
    /\ alone \in [Processes -> BOOLEAN]

(* Whatever writes overlap and whatever is killed, a state that parses     *)
(* says armed exactly if it names a profile.                               *)
StatusCoherent ==
    Readable(file) => (file.status = "armed" <=> file.profile # None)

Finishes(w) == FinishesAt(w, pc[w]) /\ pc'[w] = "idle" /\ kills' = kills

(* A command that no other one overlapped leaves its effect on what the    *)
(* file said before it began, and nothing else: the run recorded before an *)
(* arm is still the last run, the profile armed before a capture is still  *)
(* armed.                                                                  *)
LoneCommandTakesEffect ==
    [][\A w \in Processes :
         Finishes(w) /\ alone[w] =>
           file' = Effect(command[w], IF Readable(base[w]) THEN base[w] ELSE Default)]_vars

(* A state file that a kill or an overlap left unreadable does not stay    *)
(* so: the service loop initializes it.                                    *)
UnreadableHeals == ~ Readable(file) ~> Readable(file)

=============================================================================

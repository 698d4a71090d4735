---------------------------- MODULE TargetTransport ----------------------------
(***************************************************************************)
(* A request of the fleet controller to one target: tool calls one after   *)
(* the other, each in an ssh process of its own that runs the MCP server   *)
(* of the target over its standard streams, or in an HTTP exchange with    *)
(* the managed listener of the target.                                     *)
(*                                                                         *)
(* Over ssh four parties move independently: the controller, the thread    *)
(* that reads the standard output into a channel, the ssh process, and the *)
(* server.  The deadline of a call may pass at any moment.                 *)
(***************************************************************************)
EXTENDS Naturals, Sequences, FiniteSets

CONSTANTS
    Plans,       \* the requests: sequences of tool calls
    Transports,  \* "ssh", "managed"
    Endpoints,   \* what the inventory says: "valid", "hostless", "invalid"
    Holders,     \* may a descendant of ssh keep its streams open?
    MaxLines     \* bound: lines that wait when one without meaning is added

ASSUME TransportAssumption ==
    /\ Transports \subseteq {"ssh", "managed"}
    /\ Endpoints \subseteq {"valid", "hostless", "invalid"}
    /\ Holders \subseteq BOOLEAN
    /\ Plans \subseteq Seq([name : STRING, needs : STRING])
    /\ MaxLines \in Nat

(* A tool call and what its answer must contain.                           *)
Tool(name, needs) == [name |-> name, needs |-> needs]

CapturePlan   == <<Tool("obs.observe", "structured"),
                   Tool("obs.get_evidence_index", "text")>>
SnapshotPlan  == <<Tool("obs.snapshot", "structured"),
                   Tool("obs.get_evidence_index", "text")>>
ServicePlan   == <<Tool("obs.investigate_service", "pack")>>
PreflightPlan == <<Tool("obs.status", "anything"), Tool("obs.doctor", "anything"),
                   Tool("obs.preflight", "ready")>>

(* What a tool may answer; every answer but the error has a text.          *)
Contents == {"text", "structured", "pack", "ready", "error", "no result"}

Satisfies(content, needs) ==
    CASE needs = "anything"   -> content \notin {"error", "no result"}
      [] needs = "text"       -> content \notin {"error", "no result"}
      [] needs = "structured" -> content \in {"structured", "pack", "ready"}
      [] needs = "pack"       -> content = "pack"
      [] needs = "ready"      -> content = "ready"

(* The status of an answer that does not do (parse_target_mcp_tool_response *)
(* and its callers).                                                       *)
Unsatisfied(content, needs) ==
    CASE content = "error"     -> "mcp_tool_failed"
      [] content = "no result" -> "mcp_protocol_error"
      [] OTHER -> IF needs = "ready" THEN "artifact_unwritable"
                  ELSE "mcp_protocol_error"

VARIABLES
    transport, endpoint, holder,  \* of this request, fixed
    plan, called, executed, answered, status,  \* as in TargetCall
    pc,        \* where the controller is
    outcome,   \* what the current call has come to
    ssh,       \* the ssh process of the current call
    stdin,     \* lines on their way to its server, and whether more may come
    out,       \* lines on their way to the reader thread
    channel,   \* lines read, not yet received by the controller
    reader,    \* the thread that reads the output: "none", "reads", "ended"
    expired,   \* the deadline of the current call has passed
    received,  \* calls that a running server has read and not executed
    http       \* the HTTP exchange of the current call

fixed   == <<transport, endpoint, holder>>
stream  == <<out, channel, reader>>
sshVars == <<ssh, stdin, stream>>
vars    == <<fixed, plan, called, executed, answered, status, pc, outcome,
             sshVars, expired, received, http>>

NoProcess == [is |-> "none", code |-> 0, stderr |-> ""]
Running   == {"connecting", "forwarding"}

(* bytes: some of an unfinished response that the controller has not read. *)
HttpState(is, reply) == [is |-> is, reply |-> reply, bytes |-> FALSE]

NoExchange == HttpState("none", "none")

(* A call that has an answer, or has failed; a failure may yet be          *)
(* classified by what ssh leaves behind.                                   *)
Outcome(content, failure, classify) ==
    [content |-> content, status |-> failure, classify |-> classify,
     killed |-> FALSE]

Unknown == Outcome("none", "none", FALSE)

Init ==
    /\ transport \in Transports
    /\ endpoint \in Endpoints
    /\ holder \in Holders
    /\ plan \in Plans
    /\ called = 0 /\ executed = {} /\ answered = 0
    /\ status = "pending"
    /\ pc = "start"
    /\ outcome = Unknown
    /\ ssh = NoProcess
    /\ stdin = [lines |-> <<>>, open |-> FALSE]
    /\ out = <<>> /\ channel = <<>> /\ reader = "none"
    /\ expired = FALSE
    /\ received = {}
    /\ http = NoExchange

----------------------------------------------------------------------------
(* How a request begins and ends.                                          *)

Failed(s) == status' = s /\ pc' = "done"

(* What ssh leaves behind decides the status, not what the controller was  *)
(* doing: the text of stderr first, then a missing command, then the kill. *)
Classified(process, killed, name) ==
    CASE process.stderr = "permission denied" -> "permission_denied"
      [] process.stderr = "not found" \/ process.code = 127 -> "missing_binary"
      [] OTHER ->
            IF killed \/ process.stderr = "no connection" THEN "unreachable"
            ELSE IF name = "obs.get_evidence_index" THEN "artifact_unavailable"
            ELSE "mcp_transport_failed"

(* A service investigation does not look for the host before the call.     *)
Hostless ==
    IF transport = "ssh" /\ plan # ServicePlan THEN "unreachable"
    ELSE "invalid_inventory"

(* Nor does it look, over ssh, at anything but the path of the server.      *)
HostUnchecked ==
    endpoint = "invalid" /\ transport = "ssh" /\ plan = ServicePlan

Start ==
    /\ pc = "start"
    /\ \/ endpoint = "hostless" /\ Failed(Hostless)
       \/ endpoint = "invalid" /\ Failed("invalid_inventory")
       \/ /\ endpoint = "valid" \/ HostUnchecked
          /\ pc' = "next"
          /\ UNCHANGED status
    /\ UNCHANGED <<fixed, plan, called, executed, answered, outcome, sshVars,
                   expired, received, http>>

More == answered < Len(plan)

Finish ==
    /\ pc = "next"
    /\ answered = Len(plan)
    /\ status' = "success"
    /\ pc' = "done"
    /\ UNCHANGED <<fixed, plan, called, executed, answered, outcome, sshVars,
                   expired, received, http>>

(* The answer to the current call is here.                                 *)
Consider(content) ==
    LET needs == plan[called].needs
    IN  IF Satisfies(content, needs)
        THEN /\ answered' = called
             /\ pc' = "next"
             /\ UNCHANGED status
        ELSE Failed(Unsatisfied(content, needs)) /\ UNCHANGED answered

----------------------------------------------------------------------------
(* The controller over ssh.                                                *)

Spawn ==
    /\ pc = "next" /\ transport = "ssh" /\ More
    /\ \/ /\ ssh' = [is |-> "connecting", code |-> 0, stderr |-> ""]
          /\ stdin' = [lines |-> <<>>, open |-> TRUE]
          /\ out' = <<>> /\ channel' = <<>>
          /\ reader' = "reads"
          /\ expired' = FALSE
          /\ pc' = "initialize"
          /\ UNCHANGED status
       \/ /\ Failed("mcp_transport_failed")
          /\ UNCHANGED <<ssh, stdin, out, channel, reader, expired>>
    /\ outcome' = Unknown
    /\ UNCHANGED <<fixed, plan, called, executed, answered, received, http>>

(* No more input; then the end of the process is awaited.                  *)
Collect(o) ==
    /\ pc' = "collect"
    /\ stdin' = [stdin EXCEPT !.open = FALSE]
    /\ outcome' = o

GiveUp(s) == Collect(Outcome("none", s, TRUE))

(* A write fails once the process has gone.                                *)
WriteLine(line, next) ==
    IF ssh.is \in Running
    THEN /\ stdin' = [stdin EXCEPT !.lines = Append(@, line)]
         /\ pc' = next
         /\ UNCHANGED outcome
    ELSE GiveUp("mcp_transport_failed")

Initialize ==
    /\ pc = "initialize"
    /\ WriteLine("initialize", "await initialize")
    /\ UNCHANGED <<fixed, plan, called, executed, answered, status, ssh, stream,
                   expired, received, http>>

Initialized ==
    /\ pc = "initialized"
    /\ WriteLine("initialized", "call")
    /\ UNCHANGED <<fixed, plan, called, executed, answered, status, ssh, stream,
                   expired, received, http>>

CallTool ==
    /\ pc = "call"
    /\ WriteLine("call", "await call")
    /\ called' = IF ssh.is \in Running THEN called + 1 ELSE called
    /\ UNCHANGED <<fixed, plan, executed, answered, status, ssh, stream,
                   expired, received, http>>

AnyLine(line, here) == line.of # "unreadable"  \* mutant of IsResponse

IsResponse(line, here) == line.of = here

NeverOverdue == FALSE  \* mutant of Overdue

Overdue == expired

(* read_target_mcp_response: the deadline is looked at first; lines that   *)
(* are no response to this request are passed over.  Answered is what the  *)
(* controller does with the response at the head of the channel.           *)
Await(here, Answered) ==
    /\ pc = here
    /\ \/ /\ Overdue
          /\ GiveUp("unreachable")
          /\ UNCHANGED channel
       \/ /\ ~Overdue /\ channel # <<>>
          /\ channel' = Tail(channel)
          /\ CASE IsResponse(Head(channel), here) -> Answered
               [] Head(channel).of = "unreadable" -> GiveUp("mcp_transport_failed")
               [] OTHER -> UNCHANGED <<pc, stdin, outcome>>
       \/ /\ ~Overdue /\ channel = <<>>
          /\ reader = "ended"
          /\ GiveUp("mcp_protocol_error")
          /\ UNCHANGED channel

AwaitInitialize ==
    /\ Await("await initialize",
            IF Head(channel).content = "error"
            THEN Collect(Outcome("none", "mcp_protocol_error", FALSE))
            ELSE pc' = "initialized" /\ UNCHANGED <<stdin, outcome>>)
    /\ UNCHANGED <<fixed, plan, called, executed, answered, status, ssh, out,
                   reader, expired, received, http>>

AwaitCall ==
    /\ Await("await call",
            Collect(Outcome(Head(channel).content, "none", FALSE)))
    /\ UNCHANGED <<fixed, plan, called, executed, answered, status, ssh, out,
                   reader, expired, received, http>>

(* collect_target_mcp_process: a process that has not ended, after one or  *)
(* two seconds or at once, is killed and waited for.  A process that is    *)
(* about to exit may still do so with its own code.                        *)
KillOnly ==  \* mutant of Kill
    /\ pc = "collect"
    /\ ssh.is \notin {"exited", "reaped"}
    /\ ssh' = [ssh EXCEPT !.is = "exited"]
    /\ outcome' = [outcome EXCEPT !.killed = TRUE]
    /\ pc' = "join"
    /\ UNCHANGED <<fixed, plan, called, executed, answered, status, stdin,
                   stream, expired, received, http>>

Kill ==
    /\ pc = "collect"
    /\ ssh.is \notin {"exited", "reaped"}
    /\ \E code \in {9} \cup (IF ssh.is = "closing" THEN {ssh.code} ELSE {}) :
            ssh' = [is |-> "reaped", code |-> code, stderr |-> ssh.stderr]
    /\ outcome' = [outcome EXCEPT !.killed = TRUE]
    /\ pc' = "join"
    /\ UNCHANGED <<fixed, plan, called, executed, answered, status, stdin,
                   stream, expired, received, http>>

Reap ==
    /\ pc = "collect"
    /\ ssh.is = "exited"
    /\ ssh' = [ssh EXCEPT !.is = "reaped"]
    /\ pc' = "join"
    /\ UNCHANGED <<fixed, plan, called, executed, answered, status, outcome,
                   stdin, stream, expired, received, http>>

(* The threads that read the output and the errors are joined, however     *)
(* long somebody else keeps these streams open.                            *)
Join ==
    /\ pc = "join"
    /\ reader = "ended" /\ ~holder
    /\ IF outcome.content # "none" THEN Consider(outcome.content)
       ELSE /\ Failed(IF outcome.classify /\ (ssh.code # 0 \/ outcome.killed)
                      THEN Classified(ssh, outcome.killed,
                                      plan[answered + 1].name)
                      ELSE outcome.status)
            /\ UNCHANGED answered
    /\ UNCHANGED <<fixed, plan, called, executed, outcome, sshVars, expired,
                   received, http>>

----------------------------------------------------------------------------
(* The thread that reads the output.                                       *)

ReadLine ==
    /\ reader = "reads" /\ out # <<>>
    /\ channel' = Append(channel, Head(out))
    /\ out' = Tail(out)
    /\ reader' = IF Head(out).of = "unreadable" THEN "ended" ELSE "reads"
    /\ UNCHANGED <<fixed, plan, called, executed, answered, status, pc, outcome,
                   ssh, stdin, expired, received, http>>

ReadEnd ==
    /\ reader = "reads" /\ out = <<>>
    /\ ssh.is \notin Running /\ ~holder
    /\ reader' = "ended"
    /\ UNCHANGED <<fixed, plan, called, executed, answered, status, pc, outcome,
                   ssh, stdin, out, channel, expired, received, http>>

----------------------------------------------------------------------------
(* ssh: its streams end a moment before it can be waited for.              *)

Closing(code, stderr) ==
    ssh' = [is |-> "closing", code |-> code, stderr |-> stderr]

Connect ==
    /\ ssh.is = "connecting"
    /\ \/ ssh' = [ssh EXCEPT !.is = "forwarding"]
       \/ \E stderr \in {"permission denied", "no connection", ""} :
                Closing(255, stderr)
       \/ Closing(127, "not found")
    /\ UNCHANGED <<fixed, plan, called, executed, answered, status, pc, outcome,
                   stdin, stream, expired, received, http>>

(* The server ends at the end of its input, or fails; the connection may   *)
(* be lost while the server goes on.                                       *)
Close ==
    /\ ssh.is = "forwarding"
    /\ \/ /\ ~stdin.open /\ stdin.lines = <<>> /\ called \notin received
          /\ Closing(0, "")
          /\ UNCHANGED received
       \/ /\ Closing(1, "")
          /\ received' = received \ {called}
       \/ /\ Closing(255, "")
          /\ UNCHANGED received
    /\ UNCHANGED <<fixed, plan, called, executed, answered, status, pc, outcome,
                   stdin, stream, expired, http>>

Exit ==
    /\ ssh.is = "closing"
    /\ ssh' = [ssh EXCEPT !.is = "exited"]
    /\ UNCHANGED <<fixed, plan, called, executed, answered, status, pc, outcome,
                   stdin, stream, expired, received, http>>

----------------------------------------------------------------------------
(* The server of the target.  A call that it has read is executed even     *)
(* when nobody waits for the answer any more.                              *)

Reply(of, content) == out' = Append(out, [of |-> of, content |-> content])

ReadInput ==
    /\ ssh.is = "forwarding" /\ stdin.lines # <<>>
    /\ stdin' = [stdin EXCEPT !.lines = Tail(@)]
    /\ CASE Head(stdin.lines) = "initialize" ->
            /\ \E content \in {"text", "error"} :
                    Reply("await initialize", content)
            /\ UNCHANGED received
         [] Head(stdin.lines) = "initialized" -> UNCHANGED <<out, received>>
         [] Head(stdin.lines) = "call" ->
            /\ received' = received \cup {called}
            /\ UNCHANGED out
    /\ UNCHANGED <<fixed, plan, called, executed, answered, status, pc, outcome,
                   ssh, channel, reader, expired, http>>

ExecuteCall(k, content) ==
    /\ received' = received \ {k}
    /\ executed' = executed \cup {k}
    /\ IF k = called /\ ssh.is = "forwarding"
       THEN Reply("await call", content)
       ELSE UNCHANGED out
    /\ http' = IF k = called /\ http.is = "handled"
               THEN HttpState("replied", content) ELSE http
    /\ UNCHANGED <<fixed, plan, called, answered, status, pc, outcome, ssh,
                   stdin, channel, reader, expired>>

Execute == \E k \in received, content \in Contents : ExecuteCall(k, content)

(* A banner, a log line, a line that is not UTF-8: as many as the target   *)
(* likes, for as long as it likes.                                         *)
Babble ==
    /\ ssh.is = "forwarding" /\ Len(out) + Len(channel) < MaxLines
    /\ \E of \in {"nothing", "unreadable"} : Reply(of, "text")
    /\ UNCHANGED <<fixed, plan, called, executed, answered, status, pc, outcome,
                   ssh, stdin, channel, reader, expired, received, http>>

----------------------------------------------------------------------------
(* The controller over HTTP, and the managed listener of the target.       *)

(* The token file, the certificates and the connection.                    *)
Dial ==
    /\ pc = "next" /\ transport = "managed" /\ More
    /\ expired' = FALSE
    /\ \/ \E s \in {"permission_denied", "invalid_inventory", "unreachable",
                    "mcp_tls_failed"} : Failed(s) /\ UNCHANGED http
       \/ /\ http' = HttpState("open", "none")
          /\ pc' = "send"
          /\ UNCHANGED status
    /\ UNCHANGED <<fixed, plan, called, executed, answered, outcome, sshVars,
                   received>>

Send ==
    /\ pc = "send"
    /\ \/ /\ http' = [http EXCEPT !.is = "sent"]
          /\ called' = called + 1
          /\ pc' = "read"
          /\ UNCHANGED status
       \/ /\ Failed("mcp_transport_failed")
          /\ UNCHANGED <<called, http>>
    /\ UNCHANGED <<fixed, plan, executed, answered, outcome, sshVars, expired,
                   received>>

(* The listener checks the token, which it reads again for each request,   *)
(* and takes the call; or the exchange breaks off.                         *)
Listen ==
    /\ \/ /\ http.is = "sent"
          /\ \/ /\ http' = [http EXCEPT !.is = "handled"]
                /\ received' = received \cup {called}
             \/ /\ \E r \in {"401", "503"} :
                        http' = HttpState("replied", r)
                /\ UNCHANGED received
       \/ /\ http.is \in {"sent", "handled", "replied"}
          /\ \E r \in {"cut", "reset"} :
                http' = HttpState("replied", r)
          /\ UNCHANGED received
    /\ UNCHANGED <<fixed, plan, called, executed, answered, status, pc, outcome,
                   sshVars, expired>>

(* Some bytes of a response, of whatever is at the other end; more may or  *)
(* may not follow.                                                         *)
Trickle ==
    /\ http.is \in {"sent", "handled"}
    /\ http' = [http EXCEPT !.bytes = TRUE]
    /\ UNCHANGED <<fixed, plan, called, executed, answered, status, pc, outcome,
                   sshVars, expired, received>>

(* The response is read to its end, however long it is: only a read that   *)
(* brings nothing times out, and the next one has the whole time again.    *)
ReadBytes ==
    /\ pc = "read"
    /\ http.bytes /\ ~Overdue
    /\ http' = [http EXCEPT !.bytes = FALSE]
    /\ UNCHANGED <<fixed, plan, called, executed, answered, status, pc, outcome,
                   sshVars, expired, received>>

BrokenOff ==
    /\ \E s \in {"mcp_transport_failed", "mcp_tls_failed"} : Failed(s)
    /\ UNCHANGED answered

ReadResponse ==
    /\ pc = "read"
    /\ \/ /\ http.is = "replied"
          /\ CASE http.reply = "401" -> Failed("permission_denied")
                                        /\ UNCHANGED answered
               [] http.reply = "503" -> Failed("mcp_transport_failed")
                                        /\ UNCHANGED answered
               [] http.reply = "cut" -> Failed("mcp_protocol_error")
                                        /\ UNCHANGED answered
               [] http.reply = "reset" -> BrokenOff
               [] OTHER -> Consider(http.reply)
       \/ /\ http.is # "replied" /\ Overdue
          /\ BrokenOff
    /\ http' = NoExchange
    /\ UNCHANGED <<fixed, plan, called, executed, outcome, sshVars, expired,
                   received>>

----------------------------------------------------------------------------

(* The deadline of a call over ssh, or the timeout of one read.            *)
Expire ==
    /\ pc \in {"initialize", "await initialize", "initialized", "call",
               "await call", "read"}
    /\ ~expired /\ ~http.bytes
    /\ expired' = TRUE
    /\ UNCHANGED <<fixed, plan, called, executed, answered, status, pc, outcome,
                   sshVars, received, http>>

Controller ==
    \/ Start \/ Finish
    \/ Spawn \/ Initialize \/ AwaitInitialize \/ Initialized \/ CallTool
    \/ AwaitCall \/ Kill \/ Reap \/ Join
    \/ Dial \/ Send \/ ReadBytes \/ ReadResponse

Reader == ReadLine \/ ReadEnd

Target == Connect \/ Close \/ Exit \/ ReadInput \/ Execute \/ Babble
          \/ Listen \/ Trickle

Next == Controller \/ Reader \/ Expire \/ Target

(* Nothing is assumed of ssh, of the network and of the target.            *)
Spec == Init /\ [][Next]_vars
        /\ WF_vars(Controller) /\ WF_vars(Reader) /\ WF_vars(Expire)

----------------------------------------------------------------------------
(* Properties.                                                             *)

(* Over either transport, with every failure of ssh, network and target, a *)
(* request keeps what TargetCall promises: each tool is called in order    *)
(* and executed at most once, an answer is the answer of an execution, and *)
(* success means that all of them have answered                            *)
(* (capture_target_mcp_over_ssh and the functions like it).                *)
Abstract == INSTANCE TargetCall
ImplementsTargetCall == Abstract!Spec

(* A request that has ended leaves neither an ssh process, running or      *)
(* unwaited for, nor a reader thread behind, whichever of the ways out of  *)
(* call_target_mcp_tool it took.                                           *)
NoLeftovers ==
    pc = "done" => ssh.is \in {"none", "reaped"} /\ reader # "reads"

(* A request ends, though ssh hangs, the target never answers or writes    *)
(* lines without meaning for ever: the deadline of                         *)
(* read_target_mcp_response and the kill in collect_target_mcp_process see *)
(* to that, unless somebody keeps the streams of ssh open.  Over HTTP      *)
(* read_managed_mcp_response has a timeout for each read alone: a listener *)
(* that never stops sending holds the request for ever, and the property   *)
(* speaks of the others.                                                   *)
StopsSending == <>[](~http.bytes)
CallEnds == StopsSending => ((~holder) ~> (pc = "done"))

=============================================================================

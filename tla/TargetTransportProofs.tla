------------------------- MODULE TargetTransportProofs -------------------------
(***************************************************************************)
(* Proofs about TargetTransport, for every plan, transport, endpoint and   *)
(* number of lines: a request leaves nothing behind when it has ended, and *)
(* it implements TargetCall.  Both follow from one inductive invariant,    *)
(* Inv, which says where a call can be at each place of the controller.    *)
(***************************************************************************)
EXTENDS TargetTransport, SequenceTheorems, TLAPS

----------------------------------------------------------------------------
(* The inductive invariant.                                                *)

(* Where the controller is: before the current call was sent, waiting for  *)
(* its answer, taking leave of the ssh process, or between two calls.      *)
Before  == {"initialize", "await initialize", "initialized", "call", "send"}
Waiting == {"await call", "read"}
Leaving == {"collect", "join"}
Between == {"start", "next"}
Places  == Between \cup Before \cup Waiting \cup Leaving \cup {"done"}

(* The statuses of a target.                                               *)
Statuses ==
    {"pending", "success", "unreachable", "invalid_inventory",
     "permission_denied", "missing_binary", "artifact_unavailable",
     "artifact_unwritable", "mcp_tool_failed", "mcp_protocol_error",
     "mcp_transport_failed", "mcp_tls_failed"}

Failures  == Statuses \ {"pending", "success"}
Outcomes  == [content : Contents \cup {"none"},
              status : Failures \cup {"none"},
              classify : BOOLEAN, killed : BOOLEAN]
Errors    == {"", "permission denied", "no connection", "not found"}
Processes == [is : Running \cup {"none", "closing", "exited", "reaped"},
              code : Nat, stderr : Errors]
Requests  == {"initialize", "initialized", "call"}
Inputs    == [lines : Seq(Requests), open : BOOLEAN]
Meanings  == {"await initialize", "await call", "nothing", "unreadable"}
Line      == [of : Meanings, content : Contents]
Breaks    == {"401", "503", "cut", "reset"}
Exchanges == [is : {"none", "open", "sent", "handled", "replied"},
              reply : Contents \cup Breaks \cup {"none"},
              bytes : BOOLEAN]

Typed ==
    /\ endpoint \in Endpoints
    /\ plan \in Plans
    /\ called \in Nat /\ answered \in Nat
    /\ status \in Statuses
    /\ pc \in Places
    /\ outcome \in Outcomes
    /\ ssh \in Processes
    /\ stdin \in Inputs
    /\ out \in Seq(Line) /\ channel \in Seq(Line)
    /\ reader \in {"none", "reads", "ended"}
    /\ http \in Exchanges

(* At most one call is without an answer, an answer is that of an          *)
(* execution, and a call is received or executed once.                     *)
Counters ==
    /\ pc # "done" => status = "pending"
    /\ called \in {answered, answered + 1}
    /\ called <= Len(plan)
    /\ executed \cup received \subseteq 1 .. called
    /\ executed \cap received = {}
    /\ answered # 0 => answered \in executed
    /\ pc \in Between \cup Before => called = answered
    /\ pc \in Waiting => called = answered + 1
    /\ pc \in Before \cup Leaving => answered < Len(plan)
    /\ pc \in Leaving =>
        IF outcome.content = "none" THEN outcome.status \in Failures
        ELSE called = answered + 1 /\ called \in executed

(* A call on its way to the server is the last line and has not been       *)
(* received.                                                               *)
NoCallBefore(n) ==
    \A k \in 1 .. Len(stdin.lines) : k < n => stdin.lines[k] # "call"

Calls ==
    \/ NoCallBefore(Len(stdin.lines) + 1)
    \/ /\ NoCallBefore(Len(stdin.lines))
       /\ pc \notin Between \cup Before
       /\ called # 0 /\ called \notin executed \cup received

(* An answer on its way back is that of the current call.                  *)
NoAnswer(lines) == \A k \in 1 .. Len(lines) : lines[k].of # "await call"

Answers ==
    \/ NoAnswer(out) /\ NoAnswer(channel)
    \/ pc \notin Before /\ called \in executed

(* An HTTP request has no streams.                                         *)
Apart ==
    /\ transport = "managed" =>
        /\ pc \in {"start", "next", "send", "read", "done"}
        /\ ssh.is = "none" /\ stdin.lines = <<>>
        /\ out = <<>> /\ channel = <<>>
    /\ pc \in {"send", "read"} => transport = "managed"

(* What Calls and Answers say of the streams, of an HTTP exchange.         *)
Exchange ==
    /\ http.is \in {"sent", "handled", "replied"} => pc = "read"
    /\ http.is = "sent" => called \notin executed \cup received
    /\ http.is = "replied" =>
        http.reply \in Breaks
        \/ (http.reply \in Contents /\ called \in executed)

(* There is a process, and a thread that reads its output, only while a    *)
(* call over ssh is made.                                                  *)
Leftovers ==
    /\ pc \in Between \cup {"send", "read", "done"} =>
        ssh.is \in {"none", "reaped"} /\ reader # "reads"
    /\ pc = "join" => ssh.is = "reaped"

Inv == Typed /\ Counters /\ Calls /\ Answers /\ Apart /\ Exchange /\ Leftovers

----------------------------------------------------------------------------
(* Facts about the definitions.                                            *)

(* A failure has the status of a failure.                                  *)
LEMMA FailuresFail ==
    /\ Hostless \in Failures
    /\ \A process, killed, name : Classified(process, killed, name) \in Failures
    /\ \A content, needs : Unsatisfied(content, needs) \in Failures
  BY DEF Failures, Statuses, Hostless, Classified, Unsatisfied

(* The length of a plan is a number.                                       *)
LEMMA PlanLength == ASSUME Typed PROVE Len(plan) \in Nat
  BY TransportAssumption DEF Typed

(* A step within a bound.                                                  *)
LEMMA Within == \A a, n \in Nat : a < n <=> a + 1 <= n
  OBVIOUS

(* What is left of a stream is a stream.                                   *)
LEMMA TailTyped ==
  ASSUME NEW lines \in Seq(Line), lines # <<>>
  PROVE  Tail(lines) \in Seq(Line)
  BY HeadTailProperties

(* The outcomes of a call.                                                 *)
LEMMA OutcomeTyped ==
  ASSUME NEW content \in Contents \cup {"none"},
         NEW failure \in Failures \cup {"none"},
         NEW classify \in BOOLEAN
  PROVE  Outcome(content, failure, classify) \in Outcomes
  BY DEF Outcome, Outcomes

(* A kill changes nothing else of the outcome.                             *)
LEMMA KilledTyped ==
  ASSUME NEW o \in Outcomes
  PROVE  /\ [o EXCEPT !.killed = TRUE] \in Outcomes
         /\ [o EXCEPT !.killed = TRUE].content = o.content
         /\ [o EXCEPT !.killed = TRUE].status = o.status
  BY DEF Outcomes

(* The actions keep the types of what they change.                         *)
LEMMA CollectTyped ==
  ASSUME Typed, NEW o \in Outcomes, Collect(o)
  PROVE  stdin' \in Inputs /\ outcome' \in Outcomes /\ pc' \in Places
<1>1. [stdin EXCEPT !.open = FALSE] \in Inputs
  BY DEF Typed, Inputs
<1>. QED BY <1>1 DEF Collect, Places, Leaving

(* Giving up is collecting with the status of a failure.                   *)
LEMMA GiveUpTyped ==
  ASSUME Typed, NEW s \in Failures, GiveUp(s)
  PROVE  stdin' \in Inputs /\ outcome' \in Outcomes /\ pc' \in Places
<1>1. Outcome("none", s, TRUE) \in Outcomes
  BY OutcomeTyped
<1>. QED BY <1>1, CollectTyped DEF GiveUp

(* A line is appended to the input, or the call is given up.               *)
LEMMA WriteLineTyped ==
  ASSUME Typed, NEW line \in Requests,
         NEW next \in Places, WriteLine(line, next)
  PROVE  stdin' \in Inputs /\ outcome' \in Outcomes /\ pc' \in Places
<1>1. CASE ssh.is \in Running
  <2>1. Append(stdin.lines, line) \in Seq(Requests)
    BY DEF Typed, Inputs
  <2>2. /\ stdin' = [stdin EXCEPT !.lines = Append(@, line)]
        /\ pc' = next /\ outcome' = outcome
    BY <1>1 DEF WriteLine
  <2>3. stdin' \in Inputs
    BY <2>1, <2>2 DEF Typed, Inputs
  <2>. QED BY <2>2, <2>3 DEF Typed
<1>2. CASE ssh.is \notin Running
  BY <1>2, GiveUpTyped DEF WriteLine, Failures, Statuses
<1>. QED BY <1>1, <1>2

(* A process that closes has an exit code and a text of stderr.            *)
LEMMA ClosingTyped ==
  ASSUME NEW code \in Nat, NEW stderr \in Errors, Closing(code, stderr)
  PROVE  ssh' \in Processes
  BY DEF Closing, Processes

(* What the server writes is a line.                                       *)
LEMMA ReplyTyped ==
  ASSUME Typed, NEW of \in Meanings, NEW content \in Contents,
         Reply(of, content)
  PROVE  out' \in Seq(Line)
<1>1. [of |-> of, content |-> content] \in Line
  BY DEF Line
<1>. QED BY <1>1 DEF Typed, Reply

----------------------------------------------------------------------------
(* What the steps of the controller and of the server come to.             *)

GivenUp ==
    /\ pc' = "collect"
    /\ stdin'.lines = stdin.lines
    /\ outcome'.content = "none"
    /\ outcome'.status \in Failures

Taken(lines, linesNext) == lines # <<>> /\ linesNext = Tail(lines)

(* Collecting closes the input and keeps its lines.                        *)
LEMMA CollectDoes ==
  ASSUME Typed, NEW o \in Outcomes, Collect(o)
  PROVE  pc' = "collect" /\ stdin'.lines = stdin.lines /\ outcome' = o
  BY DEF Collect, Typed, Inputs

(* A call that is given up has a failure and no answer.                    *)
LEMMA GiveUpDoes ==
  ASSUME Typed, NEW s \in Failures, GiveUp(s)
  PROVE  GivenUp
<1>1. Outcome("none", s, TRUE) \in Outcomes
  BY OutcomeTyped
<1>2. /\ Outcome("none", s, TRUE).content = "none"
      /\ Outcome("none", s, TRUE).status = s
  BY DEF Outcome
<1>. QED BY <1>1, <1>2, CollectDoes DEF GiveUp, GivenUp

(* A write succeeds while the process runs.                                *)
LEMMA WriteLineDoes ==
  ASSUME Typed, NEW line, NEW next, WriteLine(line, next)
  PROVE  \/ /\ ssh.is \in Running
            /\ pc' = next /\ outcome' = outcome
            /\ stdin'.lines = Append(stdin.lines, line)
         \/ ssh.is \notin Running /\ GivenUp
<1>1. CASE ssh.is \in Running
  <2>1. stdin' = [stdin EXCEPT !.lines = Append(stdin.lines, line)]
    BY <1>1 DEF WriteLine
  <2>2. stdin'.lines = Append(stdin.lines, line)
    BY <2>1 DEF Typed, Inputs
  <2>. QED BY <1>1, <2>2 DEF WriteLine
<1>2. CASE ssh.is \notin Running
  BY <1>2, GiveUpDoes DEF WriteLine, Failures, Statuses
<1>. QED BY <1>1, <1>2

(* The response to initialize is passed over, taken, or given up.          *)
LEMMA AwaitInitializeDoes ==
  ASSUME Typed, AwaitInitialize
  PROVE  /\ \/ GivenUp
            \/ pc' \in {pc, "initialized"} /\ UNCHANGED <<stdin, outcome>>
         /\ channel' = channel \/ Taken(channel, channel')
         /\ UNCHANGED <<fixed, plan, called, executed, answered, status, ssh,
                        out, reader, received, http>>
<1>1. Outcome("none", "mcp_protocol_error", FALSE).content = "none"
      /\ Outcome("none", "mcp_protocol_error", FALSE).status = "mcp_protocol_error"
  BY DEF Outcome
<1>2. ASSUME Collect(Outcome("none", "mcp_protocol_error", FALSE)) PROVE GivenUp
  BY <1>1, <1>2, CollectDoes, OutcomeTyped DEF GivenUp, Failures, Statuses
<1>3. ASSUME NEW s \in Failures, GiveUp(s) PROVE GivenUp
  BY <1>3, GiveUpDoes
<1>4. channel' = channel \/ Taken(channel, channel')
  BY DEF AwaitInitialize, Await, Taken
<1>. QED BY <1>2, <1>3, <1>4 DEF AwaitInitialize, Await, Failures, Statuses

(* Only a response to the call becomes the outcome of the call.            *)
LEMMA AwaitCallDoes ==
  ASSUME Typed, AwaitCall
  PROVE  /\ \/ GivenUp
            \/ UNCHANGED <<pc, stdin, outcome>>
            \/ /\ channel # <<>> /\ Head(channel).of = "await call"
               /\ pc' = "collect" /\ stdin'.lines = stdin.lines
               /\ outcome'.content \in Contents
         /\ channel' = channel \/ Taken(channel, channel')
         /\ UNCHANGED <<fixed, plan, called, executed, answered, status, ssh,
                        out, reader, received, http>>
<1>1. ASSUME channel # <<>>,
             Collect(Outcome(Head(channel).content, "none", FALSE))
      PROVE  /\ pc' = "collect" /\ stdin'.lines = stdin.lines
             /\ outcome'.content \in Contents
  <2>1. Head(channel).content \in Contents
    <3>1. Head(channel) \in Line
      BY <1>1, HeadTailProperties DEF Typed
    <3>. QED BY <3>1 DEF Line
  <2>2. Outcome(Head(channel).content, "none", FALSE).content
            = Head(channel).content
    BY DEF Outcome
  <2>. QED BY <1>1, <2>1, <2>2, CollectDoes, OutcomeTyped
<1>2. ASSUME NEW s \in Failures, GiveUp(s) PROVE GivenUp
  BY <1>2, GiveUpDoes
<1>3. channel' = channel \/ Taken(channel, channel')
  BY DEF AwaitCall, Await, Taken
<1>. QED BY <1>1, <1>2, <1>3
         DEF AwaitCall, Await, IsResponse, Failures, Statuses

(* The server takes the first line and responds to initialize.             *)
LEMMA ReadInputDoes ==
  ASSUME Typed, ReadInput
  PROVE  /\ Taken(stdin.lines, stdin'.lines)
         /\ \/ /\ Head(stdin.lines) = "call"
               /\ received' = received \cup {called} /\ out' = out
            \/ /\ Head(stdin.lines) # "call" /\ received' = received
               /\ \/ out' = out
                  \/ \E line \in Line : /\ line.of = "await initialize"
                                        /\ out' = Append(out, line)
         /\ UNCHANGED <<fixed, plan, called, executed, answered, status, pc,
                        outcome, ssh, channel, reader, http>>
<1>1. stdin.lines # <<>> /\ stdin.lines \in Seq(Requests)
  BY DEF ReadInput, Typed, Inputs
<1>2. Head(stdin.lines) \in Requests
  BY <1>1, HeadTailProperties
<1>3. Taken(stdin.lines, stdin'.lines)
  BY <1>1 DEF ReadInput, Typed, Inputs, Taken
<1>4. ASSUME NEW content \in {"text", "error"}, Reply("await initialize", content)
      PROVE  \E line \in Line : /\ line.of = "await initialize"
                                /\ out' = Append(out, line)
  <2>1. [of |-> "await initialize", content |-> content] \in Line
    BY <1>4 DEF Line, Meanings, Contents
  <2>. QED BY <1>4, <2>1 DEF Reply
<1>5. CASE Head(stdin.lines) = "initialize"
  BY <1>3, <1>4, <1>5 DEF ReadInput
<1>6. CASE Head(stdin.lines) = "initialized"
  BY <1>3, <1>6 DEF ReadInput
<1>7. CASE Head(stdin.lines) = "call"
  BY <1>3, <1>7 DEF ReadInput
<1>8. UNCHANGED <<fixed, plan, called, executed, answered, status, pc, outcome,
                  ssh, channel, reader, http>>
  BY DEF ReadInput
<1>. QED BY <1>2, <1>5, <1>6, <1>7, <1>8 DEF Requests

(* How a request goes on or ends.                                          *)
Advanced == answered' = called /\ pc' = "next" /\ UNCHANGED status

Ended == UNCHANGED answered /\ pc' = "done" /\ status' \in Failures

(* An answer that does leads on, and another one ends the request.         *)
LEMMA ConsiderDoes ==
  ASSUME NEW content, Consider(content)
  PROVE  Advanced \/ Ended
  BY FailuresFail DEF Consider, Failed, Advanced, Ended

(* After the join an ssh call has its answer or its failure.               *)
LEMMA JoinDoes ==
  ASSUME Inv, Join
  PROVE  /\ pc = "join" /\ reader = "ended"
         /\ Ended \/ (Advanced /\ outcome.content # "none")
         /\ UNCHANGED <<fixed, plan, called, executed, outcome, ssh, stdin, out,
                        channel, reader, received, http>>
<1>1. CASE outcome.content # "none"
  BY <1>1, ConsiderDoes DEF Join, sshVars, stream
<1>2. CASE outcome.content = "none"
  <2>1. outcome.status \in Failures
    BY <1>2 DEF Join, Inv, Counters, Leaving
  <2>. QED BY <1>2, <2>1, FailuresFail
       DEF Join, Failed, Ended, sshVars, stream
<1>. QED BY <1>1, <1>2

(* An HTTP exchange has its answer or its failure.                         *)
LEMMA ReadResponseDoes ==
  ASSUME ReadResponse
  PROVE  /\ pc = "read"
         /\ \/ Ended
            \/ /\ Advanced
               /\ http.is = "replied" /\ http.reply \notin Breaks
         /\ http'.is = "none"
         /\ UNCHANGED <<fixed, plan, called, executed, outcome, ssh, stdin, out,
                        channel, reader, received>>
<1>1. pc = "read" /\ http'.is = "none"
      /\ UNCHANGED <<fixed, plan, called, executed, outcome, ssh, stdin, out,
                     channel, reader, received>>
  BY DEF ReadResponse, NoExchange, HttpState, sshVars, stream
<1>2. CASE http.is = "replied" /\ http.reply \in Breaks
  BY <1>1, <1>2
  DEF ReadResponse, BrokenOff, Failed, Ended, Failures, Statuses, Breaks
<1>3. CASE http.is = "replied" /\ http.reply \notin Breaks
  <2>1. Consider(http.reply)
    BY <1>3 DEF ReadResponse, Breaks
  <2>. QED BY <1>1, <1>3, <2>1, ConsiderDoes
<1>4. CASE http.is # "replied"
  BY <1>1, <1>4 DEF ReadResponse, BrokenOff, Failed, Ended, Failures, Statuses
<1>. QED BY <1>1, <1>2, <1>3, <1>4

(* What an exchange is set to.                                             *)
LEMMA HttpStateTyped ==
  ASSUME NEW is \in {"none", "open", "sent", "handled", "replied"},
         NEW reply \in Contents \cup Breaks \cup {"none"}
  PROVE  /\ HttpState(is, reply) \in Exchanges
         /\ HttpState(is, reply).is = is /\ HttpState(is, reply).reply = reply
  BY DEF HttpState, Exchanges

(* The listener takes the call, refuses it, or breaks off.                 *)
LEMMA ListenDoes ==
  ASSUME Typed, Listen
  PROVE  /\ http.is \in {"sent", "handled", "replied"}
         /\ \/ /\ http.is = "sent" /\ http'.is = "handled"
               /\ received' = received \cup {called}
            \/ /\ http'.is = "replied" /\ http'.reply \in Breaks
               /\ received' = received
         /\ UNCHANGED <<fixed, plan, called, executed, answered, status, pc,
                        outcome, ssh, stdin, out, channel, reader>>
<1>1. CASE http' = [http EXCEPT !.is = "handled"]
  BY <1>1 DEF Listen, HttpState, Typed, Exchanges, sshVars, stream
<1>2. CASE \E r \in Breaks : http' = HttpState("replied", r)
  BY <1>2, HttpStateTyped DEF Listen, HttpState, Breaks, sshVars, stream
<1>. QED BY <1>1, <1>2 DEF Listen, Breaks

(* Bytes that come or are read say nothing of the call.                    *)
LEMMA BytesDo ==
  ASSUME Typed, Trickle \/ ReadBytes
  PROVE  /\ http' \in Exchanges
         /\ http'.is = http.is /\ http'.reply = http.reply
         /\ UNCHANGED <<fixed, plan, called, executed, answered, status, pc,
                        outcome, ssh, stdin, out, channel, reader, received>>
  BY DEF Trickle, ReadBytes, Typed, Exchanges, sshVars, stream

(* The first line of a stream.                                            *)
LEMMA First ==
  ASSUME NEW S, NEW s \in Seq(S), s # <<>>
  PROVE  /\ Len(s) \in Nat \ {0} /\ 1 \in 1 .. Len(s)
         /\ Head(s) = s[1]
<1>1. Len(s) \in Nat \ {0}
  BY EmptySeq
<1>. QED BY <1>1

(* A stream without answers stays so.                                      *)
LEMMA NoAnswerLeft ==
  /\ NoAnswer(<<>>)
  /\ \A s \in Seq(Line) : s # <<>> /\ NoAnswer(s) => NoAnswer(Tail(s))
  /\ \A s \in Seq(Line), line \in Line :
        line.of # "await call" /\ NoAnswer(s) => NoAnswer(Append(s, line))
<1>1. NoAnswer(<<>>)
  <2>1. SUFFICES ASSUME NEW k \in 1 .. Len(<<>>) PROVE FALSE
    BY DEF NoAnswer
  <2>2. Len(<<>>) = 0
    OBVIOUS
  <2>. QED BY <2>1, <2>2
<1>2. ASSUME NEW s \in Seq(Line), s # <<>>, NoAnswer(s)
      PROVE  NoAnswer(Tail(s))
  <2>1. /\ Len(s) \in Nat /\ Len(Tail(s)) = Len(s) - 1
        /\ \A i \in 1 .. Len(Tail(s)) : Tail(s)[i] = s[i + 1]
    BY <1>2, HeadTailProperties, LenProperties
  <2>2. SUFFICES ASSUME NEW i \in 1 .. Len(Tail(s))
                 PROVE  Tail(s)[i].of # "await call"
    BY DEF NoAnswer
  <2>3. i + 1 \in 1 .. Len(s) /\ Tail(s)[i] = s[i + 1]
    BY <2>1
  <2>. QED BY <1>2, <2>3 DEF NoAnswer
<1>3. ASSUME NEW s \in Seq(Line), NEW line \in Line, line.of # "await call",
             NoAnswer(s)
      PROVE  NoAnswer(Append(s, line))
  <2>1. SUFFICES ASSUME NEW i \in 1 .. Len(Append(s, line))
                 PROVE  Append(s, line)[i].of # "await call"
    BY DEF NoAnswer
  <2>2. \/ Append(s, line)[i] = line
        \/ i \in 1 .. Len(s) /\ Append(s, line)[i] = s[i]
    BY AppendProperties, LenProperties
  <2>. QED BY <1>3, <2>2 DEF NoAnswer
<1>. QED BY <1>1, <1>2, <1>3

(* The answer at the head of a stream is one.                              *)
LEMMA HeadAnswers ==
  ASSUME NEW s \in Seq(Line), s # <<>>, NoAnswer(s)
  PROVE  Head(s).of # "await call"
  BY First DEF NoAnswer

(* A call at the head of the input is its only line.                       *)
LEMMA HeadCalls ==
  ASSUME Typed, Calls, stdin.lines # <<>>
  PROVE  /\ NoCallBefore(Len(stdin.lines) + 1) => Head(stdin.lines) # "call"
         /\ NoCallBefore(Len(stdin.lines)) /\ Head(stdin.lines) = "call"
                => Len(stdin.lines) = 1
<1>1. stdin.lines \in Seq(Requests)
  BY DEF Typed, Inputs
<1>2. /\ Len(stdin.lines) \in Nat \ {0} /\ 1 \in 1 .. Len(stdin.lines)
      /\ Head(stdin.lines) = stdin.lines[1]
  BY <1>1, First
<1>3. 1 < Len(stdin.lines) + 1 /\ (1 < Len(stdin.lines) \/ Len(stdin.lines) = 1)
  <2>1. \A n \in Nat \ {0} : 1 < n + 1 /\ (1 < n \/ n = 1)
    OBVIOUS
  <2>. QED BY <1>2, <2>1
<1>. QED BY <1>2, <1>3 DEF NoCallBefore

(* The lines for the server when one is read or written.                   *)
LEMMA LineRead ==
  ASSUME Typed, Taken(stdin.lines, stdin'.lines)
  PROVE  /\ Len(stdin.lines) = 1 => NoCallBefore(Len(stdin.lines) + 1)'
         /\ NoCallBefore(Len(stdin.lines) + 1)
                => NoCallBefore(Len(stdin.lines) + 1)'
         /\ NoCallBefore(Len(stdin.lines)) => NoCallBefore(Len(stdin.lines))'
<1>1. stdin.lines \in Seq(Requests) /\ stdin.lines # <<>>
  BY DEF Typed, Inputs, Taken
<1>2. /\ Len(stdin.lines) \in Nat /\ Len(stdin'.lines) = Len(stdin.lines) - 1
      /\ \A i \in 1 .. Len(stdin'.lines) : stdin'.lines[i] = stdin.lines[i + 1]
  BY <1>1 DEF Taken
<1>3. ASSUME NEW n \in Nat, NoCallBefore(n + 1)
      PROVE  \A k \in 1 .. Len(stdin'.lines) : k < n => stdin'.lines[k] # "call"
  <2>1. SUFFICES ASSUME NEW k \in 1 .. Len(stdin'.lines), k < n
                 PROVE  stdin'.lines[k] # "call"
    OBVIOUS
  <2>2. k + 1 \in 1 .. Len(stdin.lines) /\ k + 1 < n + 1
    BY <1>2, <2>1
  <2>. QED BY <1>2, <1>3, <2>2 DEF NoCallBefore
<1>4. /\ Len(stdin'.lines) + 1 = Len(stdin.lines)
      /\ Len(stdin'.lines) \in Nat
  <2>1. Len(stdin.lines) # 0
    BY <1>1, First
  <2>. QED BY <1>2, <2>1
<1>5. ASSUME Len(stdin.lines) = 1 PROVE NoCallBefore(Len(stdin.lines) + 1)'
  <2>1. Len(stdin'.lines) = 0
    BY <1>4, <1>5
  <2>. QED BY <2>1 DEF NoCallBefore
<1>6. NoCallBefore(Len(stdin.lines) + 1) => NoCallBefore(Len(stdin.lines) + 1)'
  BY <1>3, <1>2 DEF NoCallBefore
<1>7. NoCallBefore(Len(stdin.lines)) => NoCallBefore(Len(stdin.lines))'
  BY <1>3, <1>4 DEF NoCallBefore
<1>. QED BY <1>5, <1>6, <1>7

(* The line that is written is the last one.                               *)
LEMMA LineWritten ==
  ASSUME Typed, NEW line \in Requests, NoCallBefore(Len(stdin.lines) + 1),
         stdin'.lines = Append(stdin.lines, line)
  PROVE  /\ line # "call" => NoCallBefore(Len(stdin.lines) + 1)'
         /\ NoCallBefore(Len(stdin.lines))'
<1>1. stdin.lines \in Seq(Requests)
  BY DEF Typed, Inputs
<1>2. /\ Len(stdin.lines) \in Nat /\ Len(stdin'.lines) = Len(stdin.lines) + 1
      /\ \A i \in 1 .. Len(stdin.lines) : stdin'.lines[i] = stdin.lines[i]
      /\ stdin'.lines[Len(stdin.lines) + 1] = line
  BY <1>1, AppendProperties, LenProperties
<1>3. \A k \in 1 .. Len(stdin.lines) : k < Len(stdin.lines) + 1
  BY <1>2
<1>4. \A k \in 1 .. Len(stdin.lines) : stdin'.lines[k] # "call"
  BY <1>2 DEF NoCallBefore
<1>5. \A k \in 1 .. Len(stdin'.lines) :
          k \in 1 .. Len(stdin.lines) \/ k = Len(stdin'.lines)
  BY <1>2
<1>6. ~(Len(stdin'.lines) < Len(stdin'.lines))
  BY <1>2
<1>7. NoCallBefore(Len(stdin.lines))'
  BY <1>4 DEF NoCallBefore
<1>8. line # "call" => NoCallBefore(Len(stdin.lines) + 1)'
  BY <1>2 DEF NoCallBefore
<1>. QED BY <1>7, <1>8

(* Every step keeps the types.                                             *)
LEMMA TypedKept == ASSUME Inv, Next PROVE Typed'
<1> USE TransportAssumption DEF Inv
<1>1. CASE Start
  BY <1>1, FailuresFail
  DEF Start, Failed, fixed, sshVars, stream, Typed, Statuses, Failures, Places,
      Between
<1>2. CASE Finish
  BY <1>2 DEF Finish, fixed, sshVars, stream, Typed, Statuses, Places
<1>3. CASE Spawn
  <2>1. CASE /\ Failed("mcp_transport_failed")
             /\ UNCHANGED <<ssh, stdin, out, channel, reader>>
    BY <1>3, <2>1, OutcomeTyped
    DEF Spawn, Failed, Unknown, fixed, Typed, Statuses, Places
  <2>2. CASE /\ ssh' = [is |-> "connecting", code |-> 0, stderr |-> ""]
             /\ stdin' = [lines |-> <<>>, open |-> TRUE]
             /\ out' = <<>> /\ channel' = <<>> /\ reader' = "reads"
             /\ pc' = "initialize" /\ status' = status
    <3>1. ssh' \in Processes
      BY <2>2 DEF Processes, Running, Errors
    <3>2. stdin' \in Inputs
      BY <2>2, EmptySeq DEF Inputs
    <3>3. outcome' \in Outcomes
      BY <1>3, OutcomeTyped DEF Spawn, Unknown
    <3>4. out' \in Seq(Line) /\ channel' \in Seq(Line)
      BY <2>2, EmptySeq
    <3>. QED BY <1>3, <2>2, <3>4, <3>1, <3>2, <3>3
         DEF Spawn, fixed, Typed, Places, Before
  <2>. QED BY <1>3, <2>1, <2>2 DEF Spawn
<1>4. CASE Initialize
  <2>1. /\ WriteLine("initialize", "await initialize")
        /\ "initialize" \in Requests /\ "await initialize" \in Places
    BY <1>4 DEF Initialize, Requests, Places, Before, Waiting
  <2>2. stdin' \in Inputs /\ outcome' \in Outcomes /\ pc' \in Places
    BY <2>1, WriteLineTyped
  <2>. QED BY <1>4, <2>2 DEF Initialize, fixed, stream, Typed
<1>5. CASE AwaitInitialize
  <2>1. stdin' \in Inputs /\ outcome' \in Outcomes /\ pc' \in Places
    <3>1. CASE \E s \in Failures : GiveUp(s)
      BY <3>1, GiveUpTyped
    <3>2. CASE Collect(Outcome("none", "mcp_protocol_error", FALSE))
      BY <3>2, CollectTyped, OutcomeTyped DEF Failures, Statuses
    <3>3. CASE pc' = "initialized" /\ UNCHANGED <<stdin, outcome>>
      BY <3>3 DEF Typed, Places, Before
    <3>4. CASE UNCHANGED <<pc, stdin, outcome>>
      BY <3>4 DEF Typed
    <3>. QED BY <1>5, <3>1, <3>2, <3>3, <3>4
             DEF AwaitInitialize, Await, Failures, Statuses
  <2>2. channel' \in Seq(Line)
    <3>1. \/ UNCHANGED channel
          \/ channel # <<>> /\ channel' = Tail(channel)
      BY <1>5 DEF AwaitInitialize, Await
    <3>2. channel \in Seq(Line)
      BY DEF Typed
    <3>. QED BY <3>1, <3>2, TailTyped
  <2>. QED BY <1>5, <2>1, <2>2 DEF AwaitInitialize, fixed, Typed
<1>6. CASE Initialized
  <2>1. /\ WriteLine("initialized", "call")
        /\ "initialized" \in Requests /\ "call" \in Places
    BY <1>6 DEF Initialized, Requests, Places, Before, Waiting
  <2>2. stdin' \in Inputs /\ outcome' \in Outcomes /\ pc' \in Places
    BY <2>1, WriteLineTyped
  <2>. QED BY <1>6, <2>2 DEF Initialized, fixed, stream, Typed
<1>7. CASE CallTool
  <2>1. /\ WriteLine("call", "await call")
        /\ "call" \in Requests /\ "await call" \in Places
    BY <1>7 DEF CallTool, Requests, Places, Before, Waiting
  <2>2. stdin' \in Inputs /\ outcome' \in Outcomes /\ pc' \in Places
    BY <2>1, WriteLineTyped
  <2>3. called' \in Nat
    <3>1. called' \in {called, called + 1}
      BY <1>7 DEF CallTool
    <3>. QED BY <3>1 DEF Typed
  <2>. QED BY <1>7, <2>2, <2>3 DEF CallTool, fixed, stream, Typed
<1>8. CASE AwaitCall
  <2>1. stdin' \in Inputs /\ outcome' \in Outcomes /\ pc' \in Places
    <3>1. CASE \E s \in Failures : GiveUp(s)
      BY <3>1, GiveUpTyped
    <3>2. CASE /\ channel # <<>>
               /\ Collect(Outcome(Head(channel).content, "none", FALSE))
      <4>1. Head(channel) \in Line
        BY <3>2 DEF Typed
      <4>2. Head(channel).content \in Contents
        BY <4>1 DEF Line
      <4>. QED BY <3>2, <4>2, CollectTyped, OutcomeTyped
    <3>3. CASE UNCHANGED <<pc, stdin, outcome>>
      BY <3>3 DEF Typed
    <3>. QED BY <1>8, <3>1, <3>2, <3>3 DEF AwaitCall, Await, Failures, Statuses
  <2>2. channel' \in Seq(Line)
    <3>1. \/ UNCHANGED channel
          \/ channel # <<>> /\ channel' = Tail(channel)
      BY <1>8 DEF AwaitCall, Await
    <3>2. channel \in Seq(Line)
      BY DEF Typed
    <3>. QED BY <3>1, <3>2, TailTyped
  <2>. QED BY <1>8, <2>1, <2>2 DEF AwaitCall, fixed, Typed
<1>9. CASE Kill
  BY <1>9, KilledTyped
  DEF Kill, fixed, stream, Typed, Processes, Places, Leaving
<1>10. CASE Reap
  BY <1>10 DEF Reap, fixed, stream, Typed, Processes, Places, Leaving
<1>11. CASE Join
  <2>1. status' \in Statuses /\ pc' \in Places /\ answered' \in Nat
    BY <1>11, FailuresFail
    DEF Join, Counters, Consider, Failed, Failures, Typed, Places, Between, Leaving
  <2>. QED BY <1>11, <2>1 DEF Join, fixed, sshVars, stream, Typed
<1>12. CASE Dial
  <2>1. status' \in Statuses /\ pc' \in Places
    BY <1>12 DEF Dial, Failed, Typed, Statuses, Places, Before
  <2>2. http' \in Exchanges
    BY <1>12, HttpStateTyped DEF Dial, Typed
  <2>. QED BY <1>12, <2>1, <2>2 DEF Dial, fixed, sshVars, stream, Typed
<1>13. CASE Send
  <2>1. status' \in Statuses /\ pc' \in Places
    BY <1>13 DEF Send, Failed, Typed, Statuses, Places, Waiting
  <2>2. called' \in Nat
    BY <1>13 DEF Send, Typed
  <2>3. http' \in Exchanges
    BY <1>13 DEF Send, Typed, Exchanges
  <2>. QED BY <1>13, <2>1, <2>3 DEF Send, fixed, sshVars, stream, Typed
<1>14. CASE ReadResponse
  BY <1>14, FailuresFail
  DEF ReadResponse, Consider, Failed, fixed, sshVars, stream, Typed, Statuses,
      Failures, Exchanges, NoExchange, HttpState, BrokenOff, Places, Between
<1>15. CASE ReadLine
  <2>1. Head(out) \in Line /\ Tail(out) \in Seq(Line)
    BY <1>15 DEF ReadLine, Typed
  <2>. QED BY <1>15 DEF ReadLine, fixed, Typed
<1>16. CASE ReadEnd
  BY <1>16 DEF ReadEnd, fixed, Typed
<1>17. CASE Connect
  <2>1. CASE ssh' = [ssh EXCEPT !.is = "forwarding"]
    BY <1>17, <2>1 DEF Connect, fixed, stream, Typed, Processes, Running
  <2>2. CASE \E stderr \in {"permission denied", "no connection", ""} :
                Closing(255, stderr)
    <3>0. PICK stderr \in Errors : Closing(255, stderr)
      BY <2>2 DEF Errors
    <3>1. ssh' \in Processes
      BY <3>0, ClosingTyped
    <3>. QED BY <1>17, <3>1 DEF Connect, fixed, stream, Typed
  <2>3. CASE Closing(127, "not found")
    <3>0. "not found" \in Errors
      BY DEF Errors
    <3>1. ssh' \in Processes
      BY <2>3, <3>0, ClosingTyped
    <3>. QED BY <1>17, <3>1 DEF Connect, fixed, stream, Typed
  <2>. QED BY <1>17, <2>1, <2>2, <2>3 DEF Connect
<1>18. CASE Close
  <2>0. PICK code \in {0, 1, 255} : Closing(code, "")
    BY <1>18 DEF Close
  <2>1. ssh' \in Processes
    <3>1. code \in Nat /\ "" \in Errors
      BY DEF Errors
    <3>. QED BY <2>0, <3>1, ClosingTyped
  <2>. QED BY <1>18, <2>1 DEF Close, fixed, stream, Typed
<1>19. CASE Exit
  BY <1>19 DEF Exit, fixed, stream, Typed, Processes
<1>20. CASE ReadInput
  <2>1. stdin.lines \in Seq(Requests)
    BY DEF Typed, Inputs
  <2>0. Head(stdin.lines) \in Requests /\ Tail(stdin.lines) \in Seq(Requests)
    <3>1. stdin.lines # <<>>
      BY <1>20 DEF ReadInput
    <3>. QED BY <2>1, <3>1, HeadTailProperties
  <2>2. stdin' \in Inputs
    <3>. QED BY <1>20, <2>0 DEF ReadInput, Typed, Inputs
  <2>3. out' \in Seq(Line)
    <3>1. CASE Head(stdin.lines) = "initialize"
      <4>1. PICK content \in {"text", "error"} : Reply("await initialize", content)
        BY <1>20, <3>1 DEF ReadInput
      <4>. QED BY <4>1, ReplyTyped DEF Meanings, Contents
    <3>2. CASE Head(stdin.lines) \in {"initialized", "call"}
      BY <1>20, <3>2 DEF ReadInput, Typed
    <3>. QED BY <1>20, <2>0, <3>1, <3>2 DEF Requests
  <2>. QED BY <1>20, <2>2, <2>3 DEF ReadInput, fixed, Typed
<1>21. CASE Execute
  <2>. PICK k \in received, content \in Contents : ExecuteCall(k, content)
    BY <1>21 DEF Execute
  <2>1. out' \in Seq(Line)
    BY ReplyTyped DEF ExecuteCall, Typed, Meanings
  <2>2. http' \in Exchanges
    BY DEF ExecuteCall, HttpState, Typed, Exchanges
  <2>. QED BY <2>1, <2>2 DEF ExecuteCall, fixed, Typed
<1>22. CASE Babble
  <2>1. "text" \in Contents /\ {"nothing", "unreadable"} \subseteq Meanings
    BY DEF Contents, Meanings
  <2>2. out' \in Seq(Line)
    BY <1>22, <2>1, ReplyTyped DEF Babble
  <2>. QED BY <1>22, <2>2 DEF Babble, fixed, Typed
<1>23. CASE Listen
  <2>1. http' \in Exchanges
    <3>1. CASE http' = [http EXCEPT !.is = "handled"]
      BY <3>1 DEF Typed, Exchanges
    <3>2. CASE \E r \in Breaks : http' = HttpState("replied", r)
      BY <3>2, HttpStateTyped
    <3>. QED BY <1>23, <3>1, <3>2 DEF Listen, Breaks
  <2>. QED BY <1>23, <2>1, ListenDoes DEF fixed, Typed
<1>24. CASE Expire
  BY <1>24 DEF Expire, fixed, sshVars, stream, Typed
<1>25. CASE Trickle \/ ReadBytes
  BY <1>25, BytesDo DEF fixed, Typed
<1>. QED BY <1>1, <1>2, <1>3, <1>4, <1>5, <1>6, <1>7, <1>8, <1>9, <1>10, <1>11,
            <1>12, <1>13, <1>14, <1>15, <1>16, <1>17, <1>18, <1>19, <1>20,
            <1>21, <1>22, <1>23, <1>24, <1>25
         DEF Next, Controller, Reader, Target

(* Calls are sent one at a time, and answered when executed.               *)
LEMMA CountersKept == ASSUME Inv, Next PROVE Counters'
<1> USE TransportAssumption, PlanLength DEF Inv
<1>n. called \in Nat /\ answered \in Nat /\ Len(plan) \in Nat
  BY DEF Typed
<1>0. ASSUME UNCHANGED <<plan, called, executed, received, answered>>,
             pc' = "done"
      PROVE  Counters'
  BY <1>0 DEF Counters, Between, Before, Waiting, Leaving
<1>1. CASE Start
  BY <1>1 DEF Start, Failed, Typed, Counters, Between, Before, Waiting, Leaving
<1>2. CASE Finish
  BY <1>2 DEF Finish, Counters, Before, Waiting, Leaving
<1>3. CASE Spawn
  <2>1. CASE pc' = "done"
    BY <1>3, <2>1, <1>0 DEF Spawn
  <2>2. CASE pc' = "initialize" /\ status' = status
    BY <1>3, <2>2
    DEF Spawn, More, Typed, Counters, Between, Before, Waiting, Leaving
  <2>. QED BY <1>3, <2>1, <2>2 DEF Spawn, Failed
<1>4. CASE Initialize
  <2>1. \/ ssh.is \in Running /\ pc' = "await initialize"
           /\ stdin'.lines = Append(stdin.lines, "initialize")
        \/ ssh.is \notin Running /\ GivenUp
    BY <1>4, WriteLineDoes DEF Initialize
  <2>. QED BY <1>4, <2>1
           DEF Initialize, GivenUp, Counters, Before, Waiting, Leaving
<1>5. CASE AwaitInitialize
  BY <1>5, AwaitInitializeDoes
  DEF AwaitInitialize, Await, GivenUp, Counters, Before, Waiting, Leaving
<1>6. CASE Initialized
  <2>1. \/ ssh.is \in Running /\ pc' = "call"
           /\ stdin'.lines = Append(stdin.lines, "initialized")
        \/ ssh.is \notin Running /\ GivenUp
    BY <1>6, WriteLineDoes DEF Initialized
  <2>. QED BY <1>6, <2>1
           DEF Initialized, GivenUp, Counters, Before, Waiting, Leaving
<1>7. CASE CallTool
  <2>1. \/ ssh.is \in Running /\ pc' = "await call" /\ called' = called + 1
        \/ ssh.is \notin Running /\ GivenUp /\ called' = called
    BY <1>7, WriteLineDoes DEF CallTool
  <2>2. /\ pc = "call"
        /\ UNCHANGED <<plan, executed, received, answered, status>>
    BY <1>7 DEF CallTool
  <2>3. called = answered /\ answered < Len(plan)
    BY <2>2 DEF Counters, Before
  <2>4. CASE pc' = "await call" /\ called' = called + 1
    <3>0. called' = called + 1
      BY <2>4
    <3>1. called' = answered + 1 /\ called' \in Nat
      BY <2>3, <3>0, <1>n
    <3>2. called' <= Len(plan)
      BY <2>3, <3>1, <1>n, Within
    <3>3. executed \cup received \subseteq 1 .. called'
      BY <3>0, <1>n DEF Counters
    <3>4. status = "pending"
      BY <2>2 DEF Counters
    <3>. QED BY <3>4, <2>2, <2>3, <2>4, <3>1, <3>2, <3>3
         DEF Counters, Between, Before, Waiting, Leaving
  <2>5. CASE GivenUp /\ called' = called
    BY <2>2, <2>3, <2>5
    DEF GivenUp, Counters, Between, Before, Waiting, Leaving
  <2>. QED BY <2>1, <2>4, <2>5
<1>8. CASE AwaitCall
  <2>1. UNCHANGED <<plan, called, executed, received, answered, status>>
    BY <1>8, AwaitCallDoes
  <2>2. called = answered + 1 /\ answered < Len(plan) /\ status = "pending"
    <3>1. pc = "await call"
      BY <1>8 DEF AwaitCall, Await
    <3>2. called = answered + 1 /\ called <= Len(plan) /\ status = "pending"
      BY <3>1 DEF Counters, Waiting
    <3>3. answered < Len(plan)
      BY <3>2, <1>n, Within
    <3>. QED BY <3>2, <3>3
  <2>3. CASE GivenUp
    BY <2>1, <2>2, <2>3
    DEF GivenUp, Typed, Counters, Between, Before, Waiting, Leaving
  <2>4. CASE UNCHANGED <<pc, outcome>>
    BY <2>1, <2>4 DEF Counters
  <2>5. CASE /\ channel # <<>> /\ Head(channel).of = "await call"
             /\ pc' = "collect" /\ outcome'.content \in Contents
    <3>1. called \in executed
      BY <2>5, HeadAnswers DEF Typed, Answers
    <3>. QED BY <2>1, <2>2, <2>5, <3>1
         DEF Contents, Typed, Counters, Between, Before, Waiting, Leaving
  <2>. QED BY <1>8, AwaitCallDoes, <2>3, <2>4, <2>5
<1>9. CASE Kill
  BY <1>9 DEF Kill, Counters, Between, Before, Waiting, Leaving
<1>10. CASE Reap
  BY <1>10 DEF Reap, Counters, Between, Before, Waiting, Leaving
<1>11. CASE Join
  BY <1>11, JoinDoes
  DEF Advanced, Ended, Counters, Between, Before, Waiting, Leaving
<1>12. CASE Dial
  <2>1. CASE pc' = "done"
    BY <1>12, <2>1, <1>0 DEF Dial
  <2>2. CASE pc' = "send" /\ status' = status
    BY <1>12, <2>2
    DEF Dial, More, Typed, Counters, Between, Before, Waiting, Leaving
  <2>. QED BY <1>12, <2>1, <2>2 DEF Dial, Failed
<1>13. CASE Send
  <2>1. CASE pc' = "done" /\ called' = called
    BY <1>13, <2>1, <1>0 DEF Send
  <2>2. CASE pc' = "read" /\ status' = status /\ called' = called + 1
    <3>1. executed \cup received \subseteq 1 .. called'
      BY <2>2 DEF Typed, Counters
    <3>2. called = answered /\ answered < Len(plan) /\ status = "pending"
      BY <1>13 DEF Send, Counters, Before
    <3>. QED BY <1>13, <2>2, <3>1, <3>2
         DEF Send, Typed, Counters, Between, Before, Waiting, Leaving
  <2>. QED BY <1>13, <2>1, <2>2 DEF Send, Failed
<1>14. CASE ReadResponse
  <2>1. CASE Ended
    BY <1>14, <2>1, <1>0, ReadResponseDoes DEF Ended
  <2>2. CASE Advanced /\ http.is = "replied" /\ http.reply \notin Breaks
    <3>1. called \in executed /\ called = answered + 1
      BY <1>14, <2>2, ReadResponseDoes DEF Exchange, Counters, Waiting
    <3>. QED BY <1>14, <2>2, <3>1, ReadResponseDoes
         DEF Advanced, Typed, Counters, Between, Before, Waiting, Leaving
  <2>. QED BY <1>14, <2>1, <2>2, ReadResponseDoes
<1>15. CASE ReadLine
  BY <1>15 DEF ReadLine, Counters
<1>16. CASE ReadEnd
  BY <1>16 DEF ReadEnd, Counters
<1>17. CASE Connect
  BY <1>17 DEF Connect, Counters
<1>18. CASE Close
  <2>1. /\ received' \subseteq received
        /\ UNCHANGED <<plan, called, executed, answered, status, pc, outcome>>
    BY <1>18 DEF Close
  <2>. QED BY <2>1 DEF Counters
<1>19. CASE Exit
  BY <1>19 DEF Exit, Counters
<1>20. CASE ReadInput
  <2>1. CASE received' = received
    BY <1>20, <2>1, ReadInputDoes DEF Counters
  <2>2. CASE Head(stdin.lines) = "call" /\ received' = received \cup {called}
    <3>1. stdin.lines # <<>>
      BY <1>20, ReadInputDoes DEF Taken
    <3>2. called # 0 /\ called \notin executed
      BY <2>2, <3>1, HeadCalls DEF Calls
    <3>3. called \in 1 .. called
      BY <3>2 DEF Typed
    <3>. QED BY <1>20, <2>2, <3>2, <3>3, ReadInputDoes DEF Counters
  <2>. QED BY <1>20, <2>1, <2>2, ReadInputDoes
<1>21. CASE Execute
  BY <1>21 DEF Execute, ExecuteCall, Typed, Counters
<1>22. CASE Babble
  BY <1>22 DEF Babble, Counters
<1>23. CASE Listen
  <2>1. CASE received' = received
    BY <1>23, <2>1, ListenDoes DEF Counters
  <2>2. CASE http.is = "sent" /\ received' = received \cup {called}
    <3>1. called \notin executed /\ called = answered + 1
      BY <2>2 DEF Exchange, Counters, Waiting
    <3>2. called \in 1 .. called
      BY <3>1 DEF Typed
    <3>. QED BY <1>23, <2>2, <3>1, <3>2, ListenDoes DEF Counters
  <2>. QED BY <1>23, <2>1, <2>2, ListenDoes
<1>24. CASE Expire
  BY <1>24 DEF Expire, Counters
<1>25. CASE Trickle \/ ReadBytes
  BY <1>25, BytesDo DEF Counters
<1>. QED BY <1>1, <1>2, <1>3, <1>4, <1>5, <1>6, <1>7, <1>8, <1>9, <1>10, <1>11,
            <1>12, <1>13, <1>14, <1>15, <1>16, <1>17, <1>18, <1>19, <1>20,
            <1>21, <1>22, <1>23, <1>24, <1>25
         DEF Next, Controller, Reader, Target

(* An HTTP exchange is about the call that was sent in it.                 *)
LEMMA ExchangeKept == ASSUME Inv, Next PROVE Exchange'
<1> USE TransportAssumption DEF Inv
<1>1. CASE Start
  BY <1>1 DEF Start, Exchange
<1>2. CASE Finish
  BY <1>2 DEF Finish, Exchange
<1>3. CASE Spawn
  BY <1>3 DEF Spawn, Exchange
<1>4. CASE Initialize
  <2>1. \/ ssh.is \in Running /\ pc' = "await initialize"
           /\ stdin'.lines = Append(stdin.lines, "initialize")
        \/ ssh.is \notin Running /\ GivenUp
    BY <1>4, WriteLineDoes DEF Initialize
  <2>. QED BY <1>4 DEF Initialize, Exchange
<1>5. CASE AwaitInitialize
  BY <1>5 DEF AwaitInitialize, Await, Exchange
<1>6. CASE Initialized
  <2>1. \/ ssh.is \in Running /\ pc' = "call"
           /\ stdin'.lines = Append(stdin.lines, "initialized")
        \/ ssh.is \notin Running /\ GivenUp
    BY <1>6, WriteLineDoes DEF Initialized
  <2>. QED BY <1>6 DEF Initialized, Exchange
<1>7. CASE CallTool
  <2>1. \/ ssh.is \in Running /\ pc' = "await call"
           /\ stdin'.lines = Append(stdin.lines, "call")
        \/ ssh.is \notin Running /\ GivenUp
    BY <1>7, WriteLineDoes DEF CallTool
  <2>. QED BY <1>7 DEF CallTool, Exchange
<1>8. CASE AwaitCall
  BY <1>8 DEF AwaitCall, Await, Exchange
<1>9. CASE Kill
  BY <1>9 DEF Kill, Exchange
<1>10. CASE Reap
  BY <1>10 DEF Reap, Exchange
<1>11. CASE Join
  BY <1>11, JoinDoes DEF Exchange
<1>12. CASE Dial
  <2>1. UNCHANGED http \/ http'.is = "open"
    BY <1>12, HttpStateTyped DEF Dial
  <2>. QED BY <1>12, <2>1 DEF Dial, Exchange
<1>13. CASE Send
  <2>1. CASE http' = http
    BY <1>13, <2>1 DEF Send, Failed, Typed, Exchange
  <2>2. CASE http'.is = "sent" /\ pc' = "read" /\ called' = called + 1
    <3>1. called' \notin executed \cup received
      BY <2>2 DEF Typed, Counters
    <3>. QED BY <1>13, <2>2, <3>1 DEF Send, Exchange
  <2>. QED BY <1>13, <2>1, <2>2 DEF Send, Typed, Exchanges
<1>14. CASE ReadResponse
  BY <1>14, ReadResponseDoes DEF Exchange
<1>15. CASE ReadLine
  BY <1>15 DEF ReadLine, Exchange
<1>16. CASE ReadEnd
  BY <1>16 DEF ReadEnd, Exchange
<1>17. CASE Connect
  BY <1>17 DEF Connect, Exchange
<1>18. CASE Close
  BY <1>18 DEF Close, Exchange
<1>19. CASE Exit
  BY <1>19 DEF Exit, Exchange
<1>20. CASE ReadInput
  <2>1. http.is \notin {"sent", "handled", "replied"}
    BY <1>20, ReadInputDoes DEF Taken, Apart, Exchange
  <2>. QED BY <1>20, <2>1, ReadInputDoes DEF Exchange
<1>21. CASE Execute
  <2>. PICK k \in received, content \in Contents : ExecuteCall(k, content)
    BY <1>21 DEF Execute
  <2>1. /\ UNCHANGED <<pc, called>>
        /\ received' = received \ {k} /\ executed' = executed \cup {k}
    BY DEF ExecuteCall
  <2>2. CASE k = called /\ http.is = "handled"
    <3>1. http'.is = "replied" /\ http'.reply = content
      BY <2>2 DEF ExecuteCall, HttpState
    <3>. QED BY <2>1, <2>2, <3>1 DEF Exchange
  <2>3. CASE ~(k = called /\ http.is = "handled")
    <3>1. http' = http
      BY <2>3 DEF ExecuteCall
    <3>. QED BY <2>1, <3>1 DEF Exchange
  <2>. QED BY <2>2, <2>3
<1>22. CASE Babble
  BY <1>22 DEF Babble, Exchange
<1>23. CASE Listen
  BY <1>23, ListenDoes DEF Exchange
<1>24. CASE Expire
  BY <1>24 DEF Expire, Exchange
<1>25. CASE Trickle \/ ReadBytes
  BY <1>25, BytesDo DEF Exchange
<1>. QED BY <1>1, <1>2, <1>3, <1>4, <1>5, <1>6, <1>7, <1>8, <1>9, <1>10, <1>11,
            <1>12, <1>13, <1>14, <1>15, <1>16, <1>17, <1>18, <1>19, <1>20,
            <1>21, <1>22, <1>23, <1>24, <1>25
         DEF Next, Controller, Reader, Target

(* The process is waited for and its reader has ended when a call ends.    *)
LEMMA LeftoversKept == ASSUME Inv, Next PROVE Leftovers'
<1> USE TransportAssumption DEF Inv
<1>1. CASE Start
  BY <1>1 DEF Start, Failed, sshVars, stream, Typed, Leftovers, Between
<1>2. CASE Finish
  BY <1>2 DEF Finish, sshVars, stream, Leftovers, Between
<1>3. CASE Spawn
  BY <1>3 DEF Spawn, Failed, Leftovers, Between
<1>4. CASE Initialize
  <2>1. \/ ssh.is \in Running /\ pc' = "await initialize"
           /\ stdin'.lines = Append(stdin.lines, "initialize")
        \/ ssh.is \notin Running /\ GivenUp
    BY <1>4, WriteLineDoes DEF Initialize
  <2>. QED BY <1>4, <2>1 DEF GivenUp, Leftovers, Between
<1>5. CASE AwaitInitialize
  BY <1>5, AwaitInitializeDoes DEF GivenUp, Leftovers, Between
<1>6. CASE Initialized
  <2>1. \/ ssh.is \in Running /\ pc' = "call"
           /\ stdin'.lines = Append(stdin.lines, "initialized")
        \/ ssh.is \notin Running /\ GivenUp
    BY <1>6, WriteLineDoes DEF Initialized
  <2>. QED BY <1>6, <2>1 DEF GivenUp, Leftovers, Between
<1>7. CASE CallTool
  <2>1. \/ ssh.is \in Running /\ pc' = "await call"
           /\ stdin'.lines = Append(stdin.lines, "call")
        \/ ssh.is \notin Running /\ GivenUp
    BY <1>7, WriteLineDoes DEF CallTool
  <2>. QED BY <1>7, <2>1 DEF GivenUp, Leftovers, Between
<1>8. CASE AwaitCall
  BY <1>8, AwaitCallDoes DEF GivenUp, Leftovers, Between
<1>9. CASE Kill
  BY <1>9 DEF Kill, Leftovers, Between
<1>10. CASE Reap
  BY <1>10 DEF Reap, Leftovers, Between
<1>11. CASE Join
  BY <1>11, JoinDoes DEF Leftovers
<1>12. CASE Dial
  BY <1>12 DEF Dial, Failed, sshVars, stream, Leftovers, Between
<1>13. CASE Send
  BY <1>13 DEF Send, Failed, sshVars, stream, Leftovers
<1>14. CASE ReadResponse
  BY <1>14, ReadResponseDoes DEF Advanced, Ended, Leftovers
<1>15. CASE ReadLine
  BY <1>15 DEF ReadLine, Leftovers
<1>16. CASE ReadEnd
  BY <1>16 DEF ReadEnd, Leftovers
<1>17. CASE Connect
  BY <1>17 DEF Connect, Leftovers
<1>18. CASE Close
  BY <1>18 DEF Close, Leftovers
<1>19. CASE Exit
  BY <1>19 DEF Exit, Leftovers
<1>20. CASE ReadInput
  BY <1>20, ReadInputDoes DEF Leftovers
<1>21. CASE Execute
  BY <1>21 DEF Execute, ExecuteCall, Leftovers
<1>22. CASE Babble
  BY <1>22 DEF Babble, Leftovers
<1>23. CASE Listen
  BY <1>23, ListenDoes DEF Leftovers
<1>24. CASE Expire
  BY <1>24 DEF Expire, sshVars, stream, Leftovers
<1>25. CASE Trickle \/ ReadBytes
  BY <1>25, BytesDo DEF Leftovers
<1>. QED BY <1>1, <1>2, <1>3, <1>4, <1>5, <1>6, <1>7, <1>8, <1>9, <1>10, <1>11,
            <1>12, <1>13, <1>14, <1>15, <1>16, <1>17, <1>18, <1>19, <1>20,
            <1>21, <1>22, <1>23, <1>24, <1>25
         DEF Next, Controller, Reader, Target

(* A request over HTTP never has a process or lines in its streams.        *)
LEMMA ApartKept == ASSUME Inv, Next PROVE Apart'
<1> USE TransportAssumption DEF Inv
<1>1. CASE Start
  BY <1>1 DEF Start, Failed, fixed, sshVars, stream, Typed, Apart
<1>2. CASE Finish
  BY <1>2 DEF Finish, fixed, sshVars, stream, Apart
<1>3. CASE Spawn
  BY <1>3 DEF Spawn, Failed, fixed, Apart
<1>4. CASE Initialize
  <2>1. pc = "initialize" /\ UNCHANGED transport
    BY <1>4 DEF Initialize, fixed
  <2>2. transport # "managed"
    BY <2>1 DEF Apart
  <2>3. pc' \notin {"send", "read"}
    BY <1>4, WriteLineDoes DEF Initialize, GivenUp
  <2>. QED BY <2>1, <2>2, <2>3 DEF Apart
<1>5. CASE AwaitInitialize
  BY <1>5, AwaitInitializeDoes
  DEF AwaitInitialize, Await, GivenUp, fixed, Apart
<1>6. CASE Initialized
  <2>1. pc = "initialized" /\ UNCHANGED transport
    BY <1>6 DEF Initialized, fixed
  <2>2. transport # "managed"
    BY <2>1 DEF Apart
  <2>3. pc' \notin {"send", "read"}
    BY <1>6, WriteLineDoes DEF Initialized, GivenUp
  <2>. QED BY <2>1, <2>2, <2>3 DEF Apart
<1>7. CASE CallTool
  <2>1. pc = "call" /\ UNCHANGED transport
    BY <1>7 DEF CallTool, fixed
  <2>2. transport # "managed"
    BY <2>1 DEF Apart
  <2>3. pc' \notin {"send", "read"}
    BY <1>7, WriteLineDoes DEF CallTool, GivenUp
  <2>. QED BY <2>1, <2>2, <2>3 DEF Apart
<1>8. CASE AwaitCall
  BY <1>8, AwaitCallDoes DEF AwaitCall, Await, GivenUp, fixed, Apart
<1>9. CASE Kill
  BY <1>9 DEF Kill, fixed, Apart
<1>10. CASE Reap
  BY <1>10 DEF Reap, fixed, Apart
<1>11. CASE Join
  BY <1>11, JoinDoes DEF Advanced, Ended, fixed, Apart
<1>12. CASE Dial
  BY <1>12 DEF Dial, Failed, fixed, sshVars, stream, Apart
<1>13. CASE Send
  BY <1>13 DEF Send, Failed, fixed, sshVars, stream, Apart
<1>14. CASE ReadResponse
  BY <1>14, ReadResponseDoes DEF Advanced, Ended, Apart
<1>15. CASE ReadLine
  BY <1>15 DEF ReadLine, fixed, Apart
<1>16. CASE ReadEnd
  BY <1>16 DEF ReadEnd, fixed, Apart
<1>17. CASE Connect
  BY <1>17 DEF Connect, fixed, Apart
<1>18. CASE Close
  BY <1>18 DEF Close, fixed, Apart
<1>19. CASE Exit
  BY <1>19 DEF Exit, fixed, Apart
<1>20. CASE ReadInput
  <2>1. stdin.lines # <<>> /\ UNCHANGED <<transport, pc>>
    BY <1>20, ReadInputDoes DEF Taken, fixed
  <2>. QED BY <2>1 DEF Apart
<1>21. CASE Execute
  BY <1>21 DEF Execute, ExecuteCall, fixed, Apart
<1>22. CASE Babble
  BY <1>22 DEF Babble, fixed, Apart
<1>23. CASE Listen
  BY <1>23, ListenDoes DEF fixed, Apart
<1>24. CASE Expire
  BY <1>24 DEF Expire, fixed, sshVars, stream, Apart
<1>25. CASE Trickle \/ ReadBytes
  BY <1>25, BytesDo DEF fixed, Apart
<1>. QED BY <1>1, <1>2, <1>3, <1>4, <1>5, <1>6, <1>7, <1>8, <1>9, <1>10, <1>11,
            <1>12, <1>13, <1>14, <1>15, <1>16, <1>17, <1>18, <1>19, <1>20,
            <1>21, <1>22, <1>23, <1>24, <1>25
         DEF Next, Controller, Reader, Target

(* An answer in the streams is that of the call that was sent last.        *)
LEMMA AnswersKept == ASSUME Inv, Next PROVE Answers'
<1> USE DEF Inv
<1>0. ASSUME UNCHANGED <<out, channel, called>>, executed \subseteq executed',
             pc' \in Before => pc \in Before
      PROVE  Answers'
  BY <1>0 DEF Answers
<1>e. ASSUME out = <<>> /\ channel = <<>>, UNCHANGED <<out, channel>>
      PROVE  Answers'
  BY <1>e, NoAnswerLeft DEF Answers
<1>t. ASSUME UNCHANGED <<out, called, executed>>,
             pc' \in Before => pc \in Before,
             channel' = channel \/ Taken(channel, channel')
      PROVE  Answers'
  BY <1>t, NoAnswerLeft DEF Answers, Typed, Taken
<1>1. CASE Start
  <2>1. pc' \notin Before \/ pc' = pc
    BY <1>1, TransportAssumption DEF Start, Failed, Typed, Before
  <2>2. UNCHANGED <<out, channel, called, executed>>
    BY <1>1 DEF Start, sshVars, stream
  <2>. QED BY <2>1, <2>2, <1>0
<1>2. CASE Finish
  BY <1>2 DEF Finish, sshVars, stream, Answers, Before
<1>3. CASE Spawn
  <2>1. CASE out' = <<>> /\ channel' = <<>>
    BY <2>1, NoAnswerLeft DEF Answers
  <2>2. CASE UNCHANGED <<out, channel, called, executed>> /\ pc' = "done"
    BY <2>2, <1>0 DEF Before
  <2>. QED BY <1>3, <2>1, <2>2 DEF Spawn, Failed
<1>4. CASE Initialize
  BY <1>4 DEF Initialize, stream, Answers, Before
<1>5. CASE AwaitInitialize
  <2>1. pc \in Before
    BY <1>5 DEF AwaitInitialize, Await, Before
  <2>. QED BY <1>5, <2>1, AwaitInitializeDoes, <1>t
<1>6. CASE Initialized
  BY <1>6 DEF Initialized, stream, Answers, Before
<1>7. CASE CallTool
  BY <1>7 DEF CallTool, stream, Answers, Before
<1>8. CASE AwaitCall
  <2>1. pc' \in Before => pc \in Before
    BY <1>8, AwaitCallDoes DEF GivenUp, Before
  <2>. QED BY <1>8, <2>1, AwaitCallDoes, <1>t
<1>9. CASE Kill
  BY <1>9 DEF Kill, stream, Answers, Before
<1>10. CASE Reap
  BY <1>10 DEF Reap, stream, Answers, Before
<1>11. CASE Join
  BY <1>11, JoinDoes, <1>0 DEF Advanced, Ended, Before
<1>12. CASE Dial
  BY <1>12, <1>e DEF Dial, Apart, sshVars, stream
<1>13. CASE Send
  BY <1>13, <1>e DEF Send, Apart, sshVars, stream
<1>14. CASE ReadResponse
  BY <1>14, ReadResponseDoes, <1>0 DEF Advanced, Ended, Before
<1>15. CASE ReadLine
  <2>1. Head(out) \in Line /\ out # <<>>
    BY <1>15, HeadTailProperties DEF ReadLine, Typed
  <2>2. CASE NoAnswer(out) /\ NoAnswer(channel)
    <3>1. Head(out).of # "await call"
      BY <2>1, <2>2, HeadAnswers DEF Typed
    <3>. QED BY <1>15, <2>1, <2>2, <3>1, NoAnswerLeft
             DEF ReadLine, Typed, Answers
  <2>3. CASE pc \notin Before /\ called \in executed
    BY <1>15, <2>3 DEF ReadLine, Answers
  <2>. QED BY <2>2, <2>3 DEF Answers
<1>16. CASE ReadEnd
  BY <1>16 DEF ReadEnd, Answers
<1>17. CASE Connect
  BY <1>17 DEF Connect, stream, Answers
<1>18. CASE Close
  BY <1>18 DEF Close, stream, Answers
<1>19. CASE Exit
  BY <1>19 DEF Exit, stream, Answers
<1>20. CASE ReadInput
  <2>1. UNCHANGED <<channel, called, executed, pc>>
    BY <1>20, ReadInputDoes
  <2>2. CASE out' = out
    BY <2>1, <2>2, <1>0
  <2>3. ASSUME NEW line \in Line, line.of = "await initialize",
               out' = Append(out, line)
        PROVE  Answers'
    BY <2>1, <2>3, NoAnswerLeft DEF Answers, Typed
  <2>. QED BY <1>20, <2>2, <2>3, ReadInputDoes
<1>21. CASE Execute
  <2>. PICK k \in received, content \in Contents : ExecuteCall(k, content)
    BY <1>21 DEF Execute
  <2>1. UNCHANGED <<pc, called, channel>> /\ executed' = executed \cup {k}
    BY DEF ExecuteCall
  <2>2. CASE k = called
    <3>1. called # 0
      BY <2>2 DEF Counters, Typed
    <3>2. pc \notin Before
      BY <2>2, <3>1 DEF Counters
    <3>. QED BY <2>1, <2>2, <3>2 DEF Answers
  <2>3. CASE k # called
    BY <2>1, <2>3, <1>0 DEF ExecuteCall
  <2>. QED BY <2>2, <2>3
<1>22. CASE Babble
  <2>1. PICK of \in {"nothing", "unreadable"} : Reply(of, "text")
    BY <1>22 DEF Babble
  <2>2. [of |-> of, content |-> "text"] \in Line
    BY DEF Line, Meanings, Contents
  <2>3. NoAnswer(out) => NoAnswer(out')
    BY <2>1, <2>2, NoAnswerLeft DEF Reply, Typed
  <2>. QED BY <1>22, <2>3 DEF Babble, Answers
<1>23. CASE Listen
  BY <1>23, ListenDoes, <1>0
<1>24. CASE Expire
  BY <1>24 DEF Expire, sshVars, stream, Answers
<1>25. CASE Trickle \/ ReadBytes
  BY <1>25, BytesDo, <1>0
<1>. QED BY <1>1, <1>2, <1>3, <1>4, <1>5, <1>6, <1>7, <1>8, <1>9, <1>10, <1>11,
            <1>12, <1>13, <1>14, <1>15, <1>16, <1>17, <1>18, <1>19, <1>20,
            <1>21, <1>22, <1>23, <1>24, <1>25
         DEF Next, Controller, Reader, Target

(* A call is on its way at most once, and not after it was received.       *)
LEMMA CallsKept == ASSUME Inv, Next PROVE Calls'
<1> USE DEF Inv
<1>0. ASSUME stdin'.lines = stdin.lines, called' = called,
             executed' \cup received' \subseteq executed \cup received,
             pc' \in Between \cup Before => pc \in Between \cup Before
      PROVE  Calls'
  BY <1>0 DEF Calls, NoCallBefore
<1>e. ASSUME stdin'.lines = <<>>
      PROVE  Calls'
  <2>1. Len(stdin'.lines) = 0
    BY <1>e
  <2>. QED BY <2>1 DEF Calls, NoCallBefore
<1>s. ASSUME stdin'.lines = stdin.lines, pc \in Between \cup Before
      PROVE  Calls'
  BY <1>s DEF Calls, NoCallBefore
<1>1. CASE Start
  BY <1>1 DEF Start, sshVars, Calls, NoCallBefore, Between
<1>2. CASE Finish
  BY <1>2 DEF Finish, sshVars, Calls, NoCallBefore, Between
<1>3. CASE Spawn
  <2>1. pc \in Between
    BY <1>3 DEF Spawn, Between
  <2>2. stdin' = stdin \/ stdin'.lines = <<>>
    <3>1. stdin' = stdin \/ stdin' = [lines |-> <<>>, open |-> TRUE]
      BY <1>3 DEF Spawn
    <3>. QED BY <3>1
  <2>. QED BY <2>1, <2>2, <1>s, <1>e
<1>4. CASE Initialize
  <2>1. pc \in Before /\ NoCallBefore(Len(stdin.lines) + 1)
    BY <1>4 DEF Initialize, Before, Calls
  <2>2. CASE stdin'.lines = Append(stdin.lines, "initialize")
    <3>1. NoCallBefore(Len(stdin.lines) + 1)'
      BY <2>1, <2>2, LineWritten DEF Requests
    <3>. QED BY <3>1 DEF Calls
  <2>3. CASE GivenUp
    BY <2>1, <2>3, <1>s DEF GivenUp
  <2>. QED BY <1>4, <2>2, <2>3, WriteLineDoes DEF Initialize
<1>5. CASE AwaitInitialize
  BY <1>5, AwaitInitializeDoes
  DEF AwaitInitialize, Await, GivenUp, Calls, NoCallBefore, Before
<1>6. CASE Initialized
  <2>1. pc \in Before /\ NoCallBefore(Len(stdin.lines) + 1)
    BY <1>6 DEF Initialized, Before, Calls
  <2>2. CASE stdin'.lines = Append(stdin.lines, "initialized")
    <3>1. NoCallBefore(Len(stdin.lines) + 1)'
      BY <2>1, <2>2, LineWritten DEF Requests
    <3>. QED BY <3>1 DEF Calls
  <2>3. CASE GivenUp
    BY <2>1, <2>3, <1>s DEF GivenUp
  <2>. QED BY <1>6, <2>2, <2>3, WriteLineDoes DEF Initialized
<1>7. CASE CallTool
  <2>1. pc \in Before /\ NoCallBefore(Len(stdin.lines) + 1)
        /\ UNCHANGED <<executed, received>>
    BY <1>7 DEF CallTool, Before, Calls
  <2>2. CASE /\ stdin'.lines = Append(stdin.lines, "call")
             /\ pc' = "await call" /\ called' = called + 1
    <3>1. NoCallBefore(Len(stdin.lines))'
      BY <2>1, <2>2, LineWritten DEF Requests
    <3>2. called' # 0 /\ called' \notin executed \cup received
      <4>1. called' = called + 1
        BY <2>2
      <4>2. called \in Nat /\ executed \cup received \subseteq 1 .. called
        BY DEF Typed, Counters
      <4>. QED BY <4>1, <4>2
    <3>3. pc' \notin Between \cup Before
      BY <2>2 DEF Between, Before
    <3>. QED BY <2>1, <3>1, <3>2, <3>3 DEF Calls
  <2>3. CASE GivenUp
    BY <2>1, <2>3, <1>s DEF GivenUp
  <2>. QED BY <1>7, <2>2, <2>3, WriteLineDoes DEF CallTool
<1>8. CASE AwaitCall
  BY <1>8, AwaitCallDoes DEF GivenUp, Calls, NoCallBefore, Between, Before
<1>9. CASE Kill
  BY <1>9 DEF Kill, Calls, NoCallBefore, Between, Before
<1>10. CASE Reap
  BY <1>10 DEF Reap, Calls, NoCallBefore, Between, Before
<1>11. CASE Join
  <2>1. CASE Ended
    BY <1>11, <2>1, <1>0, JoinDoes DEF Ended, Between, Before
  <2>2. CASE Advanced /\ outcome.content # "none"
    <3>1. called \in executed
      BY <1>11, <2>2, JoinDoes DEF Counters, Leaving
    <3>2. NoCallBefore(Len(stdin.lines) + 1)
      BY <3>1 DEF Calls
    <3>. QED BY <1>11, <3>2, JoinDoes DEF Calls, NoCallBefore
  <2>. QED BY <1>11, <2>1, <2>2, JoinDoes
<1>12. CASE Dial
  BY <1>12, <1>s DEF Dial, sshVars, Between
<1>13. CASE Send
  BY <1>13, <1>e DEF Send, Apart, sshVars
<1>14. CASE ReadResponse
  BY <1>14, ReadResponseDoes, <1>e DEF Apart
<1>15. CASE ReadLine
  BY <1>15 DEF ReadLine, Calls, NoCallBefore
<1>16. CASE ReadEnd
  BY <1>16 DEF ReadEnd, Calls, NoCallBefore
<1>17. CASE Connect
  BY <1>17 DEF Connect, Calls, NoCallBefore
<1>18. CASE Close
  BY <1>18 DEF Close, Calls, NoCallBefore
<1>19. CASE Exit
  BY <1>19 DEF Exit, Calls, NoCallBefore
<1>20. CASE ReadInput
  <2>1. stdin.lines # <<>> /\ UNCHANGED <<pc, called, executed>>
    BY <1>20, ReadInputDoes DEF Taken
  <2>2. CASE Head(stdin.lines) = "call"
    <3>1. Len(stdin.lines) = 1
      BY <2>1, <2>2, HeadCalls DEF Calls
    <3>2. NoCallBefore(Len(stdin.lines) + 1)'
      BY <1>20, <3>1, ReadInputDoes, LineRead
    <3>. QED BY <3>2 DEF Calls
  <2>3. CASE Head(stdin.lines) # "call"
    <3>1. received' = received
      BY <1>20, <2>3, ReadInputDoes
    <3>. QED BY <1>20, <2>1, <3>1, ReadInputDoes, LineRead DEF Calls
  <2>. QED BY <2>2, <2>3
<1>21. CASE Execute
  BY <1>21 DEF Execute, ExecuteCall, Calls, NoCallBefore
<1>22. CASE Babble
  BY <1>22 DEF Babble, Calls, NoCallBefore
<1>23. CASE Listen
  BY <1>23, ListenDoes, <1>e DEF Exchange, Apart
<1>24. CASE Expire
  BY <1>24 DEF Expire, sshVars, Calls, NoCallBefore
<1>25. CASE Trickle \/ ReadBytes
  BY <1>25, BytesDo, <1>0
<1>. QED BY <1>1, <1>2, <1>3, <1>4, <1>5, <1>6, <1>7, <1>8, <1>9, <1>10, <1>11,
            <1>12, <1>13, <1>14, <1>15, <1>16, <1>17, <1>18, <1>19, <1>20,
            <1>21, <1>22, <1>23, <1>24, <1>25
         DEF Next, Controller, Reader, Target

----------------------------------------------------------------------------
(* The invariant.                                                          *)

(* The invariant holds at first.                                           *)
LEMMA InvStarts == ASSUME Init PROVE Inv
<1> USE TransportAssumption DEF Init
<1>1. Typed
  <2>1. outcome \in Outcomes
    BY OutcomeTyped DEF Unknown
  <2>2. ssh \in Processes
    BY DEF NoProcess, Processes, Errors
  <2>3. /\ stdin \in Inputs /\ stdin.lines = <<>>
        /\ out \in Seq(Line) /\ channel \in Seq(Line)
    BY EmptySeq DEF Inputs
  <2>4. http \in Exchanges
    BY DEF NoExchange, HttpState, Exchanges
  <2>. QED BY <2>1, <2>2, <2>3, <2>4 DEF Typed, Statuses, Places, Between
<1>2. Counters
  BY <1>1 DEF Counters, Before, Waiting, Leaving
<1>3. stdin.lines = <<>> /\ ssh.is = "none" /\ http.is = "none"
  BY DEF NoProcess, NoExchange, HttpState
<1>4. Calls
  <2>1. Len(stdin.lines) = 0
    BY <1>3
  <2>. QED BY <2>1 DEF Calls, NoCallBefore
<1>5. Answers
  BY NoAnswerLeft DEF Answers
<1>6. Apart /\ Exchange /\ Leftovers
  BY <1>3 DEF Apart, Exchange, Leftovers
<1>. QED BY <1>1, <1>2, <1>4, <1>5, <1>6 DEF Inv

(* It is about the variables only.                                         *)
LEMMA InvStutters == ASSUME Inv, UNCHANGED vars PROVE Inv'
<1> USE DEF Inv, vars, fixed, sshVars, stream
<1>1. Typed' /\ Counters'
  BY DEF Typed, Counters
<1>2. Calls' /\ Answers' /\ Apart'
  BY DEF Calls, NoCallBefore, Answers, Apart
<1>3. Exchange' /\ Leftovers'
  BY DEF Exchange, Leftovers
<1>. QED BY <1>1, <1>2, <1>3

(* The parts of the invariant hold together in every reachable state.      *)
THEOREM CallsInOrder == Spec => []Inv
<1>1. ASSUME Inv, [Next]_vars PROVE Inv'
  <2>1. CASE Next
    BY <1>1, <2>1, TypedKept, CountersKept, CallsKept, AnswersKept, ApartKept,
       ExchangeKept, LeftoversKept DEF Inv
  <2>2. CASE UNCHANGED vars
    BY <1>1, <2>2, InvStutters
  <2>. QED BY <1>1, <2>1, <2>2
<1>. QED BY <1>1, InvStarts, PTL DEF Spec

(* A request that has ended, whichever way out of call_target_mcp_tool it  *)
(* took, leaves no ssh process and no reader thread behind.                *)
THEOREM EveryRequestCleansUp == Spec => []NoLeftovers
<1>1. Inv => NoLeftovers
  BY DEF Inv, Leftovers, NoLeftovers
<1>. QED BY <1>1, CallsInOrder, PTL

----------------------------------------------------------------------------
(* The refinement.                                                         *)

(* A request begins as TargetCall says.                                    *)
LEMMA StartsAsTargetCall == Init => Abstract!Init
  BY DEF Init, Abstract!Init

(* A step that leaves what TargetCall speaks of.                           *)
Aside == UNCHANGED <<plan, called, executed, answered, status>>

(* A request that ends with a failure fails in TargetCall.                 *)
LEMMA Fails ==
  ASSUME Inv, pc # "done", Ended, UNCHANGED <<plan, called, executed>>
  PROVE  Abstract!Fail
<1>1. status = "pending"
  BY DEF Inv, Counters
<1>2. status' \notin {"pending", "success"} /\ UNCHANGED answered
  BY DEF Ended, Failures
<1>. QED BY <1>1, <1>2 DEF Abstract!Fail

(* An executed call that is taken as answered is answered there.           *)
LEMMA Advances ==
  ASSUME Inv, pc # "done", Advanced, UNCHANGED <<plan, called, executed>>,
         called = answered + 1, called \in executed
  PROVE  Abstract!Answer
<1>1. status = "pending"
  BY DEF Inv, Counters
<1>2. answered < called
  BY DEF Inv, Typed
<1>. QED BY <1>1, <1>2 DEF Advanced, Abstract!Answer

(* A call that is sent is the next one there.                              *)
LEMMA CallsNext ==
  ASSUME Inv, pc \in Before, called' = called + 1,
         UNCHANGED <<plan, executed, answered, status>>
  PROVE  Abstract!Call
<1>1. called = answered /\ answered < Len(plan)
  BY DEF Inv, Counters
<1>2. status = "pending"
  BY DEF Inv, Counters, Before
<1>. QED BY <1>1, <1>2 DEF Abstract!Call

(* Every step is a step of TargetCall or none.                             *)
LEMMA StepImplements == ASSUME Inv, Next PROVE [Abstract!Next]_(Abstract!vars)
<1>0. SUFFICES Abstract!Next \/ Aside
  BY DEF Aside, Abstract!vars
<1>f. ASSUME Abstract!Fail \/ Abstract!Answer \/ Abstract!Call
      PROVE  Abstract!Next
  BY <1>f DEF Abstract!Next
<1>1. CASE Start
  <2>1. Aside \/ Ended
    BY <1>1, TransportAssumption
    DEF Start, Failed, Aside, Ended, Failures, Statuses, Hostless, Inv, Typed
  <2>2. pc # "done" /\ UNCHANGED <<plan, called, executed>>
    BY <1>1 DEF Start
  <2>. QED BY <2>1, <2>2, <1>f, Fails
<1>2. CASE Finish
  <2>1. status = "pending"
    BY <1>2 DEF Finish, Inv, Counters
  <2>2. Abstract!Succeed
    BY <1>2, <2>1 DEF Finish, Abstract!Succeed
  <2>. QED BY <2>2 DEF Abstract!Next
<1>3. CASE Spawn
  <2>1. Aside \/ Ended
    BY <1>3 DEF Spawn, Failed, Aside, Ended, Failures, Statuses
  <2>2. pc # "done" /\ UNCHANGED <<plan, called, executed>>
    BY <1>3 DEF Spawn
  <2>. QED BY <2>1, <2>2, <1>f, Fails
<1>7. CASE CallTool
  <2>1. CASE called' = called
    BY <1>7, <2>1 DEF CallTool, Aside
  <2>2. CASE called' = called + 1
    <3>1. pc \in Before
      BY <1>7 DEF CallTool, Before
    <3>2. UNCHANGED <<plan, executed, answered, status>>
      BY <1>7 DEF CallTool
    <3>. QED BY <2>2, <3>1, <3>2, <1>f, CallsNext
  <2>. QED BY <1>7, <2>1, <2>2 DEF CallTool
<1>11. CASE Join
  <2>1. pc # "done" /\ UNCHANGED <<plan, called, executed>>
    BY <1>11, JoinDoes
  <2>2. CASE Ended
    BY <2>1, <2>2, <1>f, Fails
  <2>3. CASE Advanced /\ outcome.content # "none"
    <3>1. called = answered + 1 /\ called \in executed
      BY <1>11, <2>3, JoinDoes DEF Inv, Counters, Leaving
    <3>. QED BY <2>1, <2>3, <3>1, <1>f, Advances
  <2>. QED BY <1>11, <2>2, <2>3, JoinDoes
<1>12. CASE Dial
  <2>1. Aside \/ Ended
    BY <1>12 DEF Dial, Failed, Aside, Ended, Failures, Statuses
  <2>2. pc # "done" /\ UNCHANGED <<plan, called, executed>>
    BY <1>12 DEF Dial
  <2>. QED BY <2>1, <2>2, <1>f, Fails
<1>13. CASE Send
  <2>1. pc # "done" /\ pc \in Before /\ UNCHANGED <<plan, executed, answered>>
    BY <1>13 DEF Send, Before
  <2>2. CASE called' = called + 1 /\ status' = status
    BY <2>1, <2>2, <1>f, CallsNext
  <2>3. CASE Ended /\ called' = called
    BY <2>1, <2>3, <1>f, Fails
  <2>. QED BY <1>13, <2>2, <2>3 DEF Send, Failed, Ended, Failures, Statuses
<1>14. CASE ReadResponse
  <2>1. pc = "read" /\ UNCHANGED <<plan, called, executed>>
    BY <1>14, ReadResponseDoes
  <2>2. CASE Ended
    BY <2>1, <2>2, <1>f, Fails
  <2>3. CASE Advanced /\ http.is = "replied" /\ http.reply \notin Breaks
    <3>1. called = answered + 1 /\ called \in executed
      BY <2>1, <2>3 DEF Inv, Counters, Exchange, Waiting
    <3>. QED BY <2>1, <2>3, <3>1, <1>f, Advances
  <2>. QED BY <1>14, <2>2, <2>3, ReadResponseDoes
<1>21. CASE Execute
  <2>. PICK k \in received, content \in Contents : ExecuteCall(k, content)
    BY <1>21 DEF Execute
  <2>1. k \in 1 .. called /\ k \notin executed
    BY DEF Inv, Counters
  <2>2. /\ executed' = executed \cup {k}
        /\ UNCHANGED <<plan, called, answered, status>>
    BY DEF ExecuteCall
  <2>3. Abstract!Execute
    BY <2>1, <2>2 DEF Abstract!Execute
  <2>. QED BY <2>3 DEF Abstract!Next
<1>r. CASE \/ Initialize \/ AwaitInitialize \/ Initialized
           \/ AwaitCall \/ Kill \/ Reap
  BY <1>r DEF Initialize, AwaitInitialize, Initialized, AwaitCall, Kill, Reap,
              Aside
<1>t. CASE Reader \/ Expire
  BY <1>t DEF Reader, ReadLine, ReadEnd, Expire, Aside
<1>u. CASE Connect \/ Close \/ Exit \/ ReadInput \/ Babble \/ Listen
  BY <1>u DEF Connect, Close, Exit, ReadInput, Babble, Listen, Aside
<1>v. CASE Trickle \/ ReadBytes
  BY <1>v DEF Trickle, ReadBytes, Aside
<1>. QED BY <1>1, <1>2, <1>3, <1>7, <1>11, <1>12, <1>13, <1>14, <1>21, <1>r,
            <1>t, <1>u, <1>v DEF Next, Controller, Target

(* Over either transport, and whatever ssh, the network and the target do, *)
(* a request is what TargetCall promises: each tool is called in order and *)
(* executed at most once, an answer is that of an execution, and success   *)
(* means that all of them have answered.                                   *)
THEOREM TransportImplementsCall == Spec => ImplementsTargetCall
<1>1. Inv /\ [Next]_vars => [Abstract!Next]_(Abstract!vars)
  <2>1. ASSUME UNCHANGED vars PROVE UNCHANGED Abstract!vars
    BY <2>1 DEF vars, Abstract!vars
  <2>. QED BY <2>1, StepImplements
<1>. QED BY <1>1, StartsAsTargetCall, CallsInOrder, PTL
     DEF Spec, ImplementsTargetCall, Abstract!Spec

=============================================================================

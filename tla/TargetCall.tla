------------------------------ MODULE TargetCall ------------------------------
(***************************************************************************)
(* What a request to a fleet target promises, whatever carries it: its     *)
(* tools are called in order, each after the answer to the one before; the *)
(* target executes a called tool at most once, perhaps later than anybody  *)
(* waits for it; an answer comes from an execution; and a request succeeds *)
(* only when all its tools have answered.                                  *)
(***************************************************************************)
EXTENDS Naturals, Sequences

CONSTANT Plans  \* the requests: sequences of tool calls

VARIABLES
    plan,      \* the tool calls of this request
    called,    \* how many of them were sent
    executed,  \* those that the target has executed
    answered,  \* how many of them have been answered
    status     \* "pending", "success" or the status of a failure

vars == <<plan, called, executed, answered, status>>

Init ==
    /\ plan \in Plans
    /\ called = 0
    /\ executed = {}
    /\ answered = 0
    /\ status = "pending"

Call ==
    /\ status = "pending"
    /\ called = answered
    /\ called < Len(plan)
    /\ called' = called + 1
    /\ UNCHANGED <<plan, executed, answered, status>>

Execute ==
    \E k \in 1 .. called :
        /\ k \notin executed
        /\ executed' = executed \cup {k}
        /\ UNCHANGED <<plan, called, answered, status>>

Answer ==
    /\ status = "pending"
    /\ answered < called
    /\ called \in executed
    /\ answered' = called
    /\ UNCHANGED <<plan, called, executed, status>>

Succeed ==
    /\ status = "pending"
    /\ answered = Len(plan)
    /\ status' = "success"
    /\ UNCHANGED <<plan, called, executed, answered>>

Fail ==
    /\ status = "pending"
    /\ status' \notin {"pending", "success"}
    /\ UNCHANGED <<plan, called, executed, answered>>

Next == Call \/ Execute \/ Answer \/ Succeed \/ Fail

Spec == Init /\ [][Next]_vars

=============================================================================

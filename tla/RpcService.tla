----------------------------- MODULE RpcService -----------------------------
(***************************************************************************)
(* What the IPC socket promises a client, whatever threads and channels    *)
(* carry its call: the request takes effect once, at one moment between    *)
(* the call and the answer, and the answer is the one of that moment; or   *)
(* the call fails.  Why it may fail is no part of this promise.            *)
(***************************************************************************)
EXTENDS WindowRequests

CONSTANT Conn

VARIABLES call, stack

Phases == {"idle", "asked", "executed", "over"}

Init ==
  /\ call = [c \in Conn |-> [phase |-> "idle"]]
  /\ stack = <<>>

\* A client sends a request.
Call(c) ==
  /\ call[c].phase = "idle"
  /\ \E r \in Request : call' = [call EXCEPT ![c] = [phase |-> "asked", request |-> r]]
  /\ UNCHANGED stack

\* The request takes effect.
Execute(c) ==
  /\ call[c].phase = "asked"
  /\ \E a \in Responses(stack, call[c].request) :
       call' = [call EXCEPT ![c] = [phase |-> "executed", answer |-> a]]
  /\ stack' = StackAfter(stack, call[c].request)

\* Bytes that are no request are refused at once.
Reject(c) ==
  /\ call[c].phase = "asked"
  /\ call[c].request.kind = "malformed"
  /\ \E a \in Responses(stack, call[c].request) :
       call' = [call EXCEPT ![c] = [phase |-> "over", answer |-> a]]
  /\ UNCHANGED stack

\* The answer arrives.
Return(c) ==
  /\ call[c].phase = "executed"
  /\ call' = [call EXCEPT ![c] = [phase |-> "over", answer |-> call[c].answer]]
  /\ UNCHANGED stack

\* Calls under way fail, as they do when the compositor stops.
Fail ==
  /\ \E C \in SUBSET {c \in Conn : call[c].phase \in {"asked", "executed"}} :
       call' = [c \in Conn |-> IF c \in C THEN [phase |-> "over"] ELSE call[c]]
  /\ UNCHANGED stack

Restack == Restacked(stack, stack') /\ UNCHANGED call

Next ==
  \/ \E c \in Conn : Call(c) \/ Execute(c) \/ Reject(c) \/ Return(c)
  \/ Fail \/ Restack

Spec == Init /\ [][Next]_<<call, stack>>
=============================================================================

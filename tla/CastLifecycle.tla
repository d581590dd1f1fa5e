--------------------------- MODULE CastLifecycle ---------------------------
(***************************************************************************)
(* What the screen-cast service promises of a stream, whatever threads and *)
(* queues carry it out: it is asked for once, may be cast after that, and  *)
(* once its cast has ended it is never cast again.  Ending concerns        *)
(* several streams at a time: the unit the service stops is a session.     *)
(***************************************************************************)
CONSTANT Stream

VARIABLE stage

Stages == {"idle", "requested", "running", "ended"}

TypeOK == stage \in [Stream -> Stages]

Init == stage = [x \in Stream |-> "idle"]

\* A client's Start reaches a stream for the first time.
Request(x) ==
  /\ stage[x] = "idle"
  /\ stage' = [stage EXCEPT ![x] = "requested"]

\* The compositor opens the PipeWire stream.
Begin(x) ==
  /\ stage[x] = "requested"
  /\ stage' = [stage EXCEPT ![x] = "running"]

\* Casts end together, and a request that cannot be met ends with them.
End(S) ==
  /\ \A x \in S : stage[x] \in {"requested", "running"}
  /\ stage' = [x \in Stream |-> IF x \in S THEN "ended" ELSE stage[x]]

Next ==
  \/ \E x \in Stream : Request(x) \/ Begin(x)
  \/ \E S \in SUBSET Stream : End(S)

Spec == Init /\ [][Next]_stage
=============================================================================

--------------------------- MODULE WindowRequests ---------------------------
(***************************************************************************)
(* What the requests of bakawm-ctl mean (AnvilState::handle_ipc_request):  *)
(* the answer to each and what it does to the stacking order.  A window's  *)
(* id is its place in that order, counted from 1 at the bottom.            *)
(***************************************************************************)
EXTENDS Naturals, Sequences

CONSTANTS Window, MaxId  \* MaxId: bound on the ids clients name

\* IpcRequest.  "query" stands for list_outputs and screenshot, which do not
\* look at the windows; "malformed" for bytes that are no request.
Commands == {"focus", "close", "move", "resize"}
Request ==
  [kind : Commands, id : 0..MaxId] \cup [kind : {"list", "query", "malformed"}]

\* ipc_find_window.
Found(q, id) == id \in 1..Len(q)

\* ipc_focus_window raises the window, and so does ipc_move_window, which maps
\* it again; closing only asks the client, resizing configures it.
StackAfter(q, r) ==
  IF r.kind \in {"focus", "move"} /\ Found(q, r.id)
    THEN Append(SelectSeq(q, LAMBDA v : v # q[r.id]), q[r.id])
    ELSE q

\* The possible responses: a screenshot may fail.
Responses(q, r) ==
  CASE r.kind = "list" -> {[kind |-> "windows", windows |-> q]}
    [] r.kind \in Commands ->
         {[kind |-> IF Found(q, r.id) THEN "ok" ELSE "error"]}
    [] r.kind = "query" -> {[kind |-> "data"], [kind |-> "error"]}
    [] r.kind = "malformed" -> {[kind |-> "error"]}

\* The windows change for reasons of their own: one appears or is raised, one
\* goes away.
Restacked(q, p) ==
  \E w \in Window :
    LET rest == SelectSeq(q, LAMBDA v : v # w)
    IN  \/ p = Append(rest, w)
        \/ p = rest
=============================================================================

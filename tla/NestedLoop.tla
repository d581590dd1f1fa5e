----------------------------- MODULE NestedLoop ------------------------------
(***************************************************************************)
(* The main loop of the nested backends (run_winit, run_x11): a window of  *)
(* another compositor is the only output.  winit.rs draws in every turn of *)
(* its loop; x11.rs draws when a flag says so, and the host sets it again. *)
(* Only what has changed since a buffer was last shown is drawn into it.   *)
(* External: the host that hands out buffers, the age it reports of each,  *)
(* and Smithay's OutputDamageTracker.                                      *)
(***************************************************************************)
EXTENDS Integers, Sequences, FiniteSets

CONSTANTS
  Area,         \* parts of the output that change on their own
  Buffer,       \* the buffers of the host's window
  MaxAge,       \* how many frames the damage tracker remembers
  MaxFailures   \* bound on what goes wrong in binding, drawing, submitting

VARIABLES
  backend,      \* "winit" or "x11"
  at,           \* where the loop is: "top", "dispatch" or "exited"
  running,      \* AnvilState.running
  render,       \* X11Data.render: draw in the next turn
  full_redraw,  \* WinitData.full_redraw: so many frames more ignore the age
  behind,       \* Buffer -> the areas in which it is not what is to be seen
  age,          \* Buffer -> frames since it was shown, 0 if that is unknown
  back,         \* the buffer that is drawn next
  shown,        \* those submitted since the last turn: none or one
  damage,       \* the areas changed since the tracker last looked
  history,      \* the damage of the last frames it counted, the newest first
  presenting,   \* the X11 server is to report that a buffer is on screen
  waiting,      \* a client waits for its frame callback
  failures,     \* how much has gone wrong
  missed        \* buffers that a frame lost after it was counted made stale (history)

ASSUME NestedAssumption ==
  IsFiniteSet(Buffer) /\ MaxAge \in Nat \ {0} /\ MaxFailures \in Nat

loopVars == <<backend, at, running, render, full_redraw, behind, age, back, shown, damage,
              history, presenting, waiting, failures, missed>>
picture == <<behind, age, back, damage, history, missed>>

LoopInit ==
  /\ backend \in {"winit", "x11"}
  /\ at = "top" /\ running = TRUE
  /\ render = TRUE /\ full_redraw = 0
  /\ behind = [b \in Buffer |-> Area] /\ age = [b \in Buffer |-> 0]
  /\ back \in Buffer /\ shown = {}
  /\ damage = Area /\ history = <<>>
  /\ presenting = FALSE /\ waiting = FALSE
  /\ failures = 0 /\ missed = {}
-----------------------------------------------------------------------------
(* Events, handled while the loop dispatches.                              *)

\* A client commits, a window moves, the pointer moves: the next frame's
\* elements differ and the tracker will see it.
Change ==
  /\ at = "dispatch"
  /\ \E a \in Area :
       /\ behind' = [b \in Buffer |-> behind[b] \cup {a}]
       /\ damage' = damage \cup {a}
  /\ waiting' = TRUE
  /\ UNCHANGED <<backend, at, running, render, full_redraw, age, back, shown, history,
                 presenting, failures, missed>>

Everywhere == [b \in Buffer |-> Area]

\* A mutated ResetBuffers: winit draws two whole frames.
ResetBuffersTwice ==
  /\ at = "dispatch"
  /\ behind' = Everywhere
  /\ IF backend = "winit"
     THEN full_redraw' = 3 /\ UNCHANGED age
     ELSE age' = [b \in Buffer |-> 0] /\ UNCHANGED full_redraw
  /\ UNCHANGED <<backend, at, running, render, back, shown, damage, history, presenting,
                 waiting, failures, missed>>

\* reset_buffers, after a key scaled or rotated the output or a window left
\* fullscreen: whether the tracker would see the change does not matter.
ResetBuffers ==
  /\ at = "dispatch"
  /\ behind' = Everywhere
  /\ IF backend = "winit"
     THEN full_redraw' = 4 /\ UNCHANGED age
     ELSE age' = [b \in Buffer |-> 0] /\ UNCHANGED full_redraw
  /\ UNCHANGED <<backend, at, running, render, back, shown, damage, history, presenting,
                 waiting, failures, missed>>

\* queue_redraw, at the end of a window or for a cast: nothing to x11.rs.
QueueRedraw ==
  /\ at = "dispatch"
  /\ full_redraw' = IF backend = "winit" /\ full_redraw < 2 THEN 2 ELSE full_redraw
  /\ UNCHANGED <<backend, at, running, render, picture, shown, presenting, waiting,
                 failures>>

\* The host resizes the window: new buffers and a new mode, which the tracker
\* notices.
Resized ==
  /\ at = "dispatch"
  /\ behind' = Everywhere /\ age' = [b \in Buffer |-> 0]
  /\ damage' = Area /\ history' = <<>> /\ missed' = {}
  /\ render' = TRUE
  /\ UNCHANGED <<backend, at, running, full_redraw, back, shown, presenting, waiting,
                 failures>>

\* X11Event::PresentCompleted.
PresentCompleted ==
  /\ at = "dispatch" /\ presenting
  /\ presenting' = FALSE
  /\ render' = TRUE
  /\ UNCHANGED <<backend, at, running, full_redraw, picture, shown, waiting, failures>>

\* X11Event::Refresh: the host's window was uncovered.
Refresh ==
  /\ at = "dispatch" /\ backend = "x11"
  /\ render' = TRUE
  /\ UNCHANGED <<backend, at, running, full_redraw, picture, shown, presenting, waiting,
                 failures>>

\* The user quits or closes the host's window, or a source of the loop fails.
Quit ==
  /\ at = "dispatch" /\ running' = FALSE
  /\ UNCHANGED <<backend, at, render, full_redraw, picture, shown, presenting, waiting,
                 failures>>

EndDispatch ==
  /\ at = "dispatch"
  /\ at' = "top" /\ shown' = {}
  /\ UNCHANGED <<backend, running, render, full_redraw, picture, presenting, waiting,
                 failures>>
-----------------------------------------------------------------------------
(* A frame.                                                                *)

\* The loop's condition.
Exit ==
  /\ at = "top" /\ ~running
  /\ at' = "exited"
  /\ UNCHANGED <<backend, running, render, full_redraw, picture, shown, presenting, waiting, failures>>

\* x11.rs has nothing to draw.
Skip ==
  /\ at = "top" /\ running /\ backend = "x11" /\ ~render
  /\ at' = "dispatch"
  /\ UNCHANGED <<backend, running, render, full_redraw, picture, shown, presenting, waiting, failures>>

Draws == at = "top" /\ running /\ (backend = "x11" => render)

\* saturating_sub, before it is looked at.
Redraws == IF full_redraw = 0 THEN 0 ELSE full_redraw - 1

\* The age that damage_output is told.
Age == IF backend = "winit" /\ Redraws > 0 THEN 0 ELSE age[back]

\* What it draws: all, or what changed in the frames since the buffer was shown.
Redrawn ==
  IF Age = 0 \/ Age > Len(history) THEN Area
  ELSE damage \cup UNION {history[i] : i \in 1..(Age - 1)}

\* A frame with something to draw is counted, whatever becomes of it.
Counted ==
  IF Redrawn = {} THEN UNCHANGED <<damage, history>>
  ELSE LET frames == <<damage>> \o history
       IN  /\ damage' = {}
           /\ history' = SubSeq(frames, 1, IF Len(frames) < MaxAge THEN Len(frames) ELSE MaxAge)

Fails == failures < MaxFailures /\ failures' = failures + 1

\* Binding the buffer fails.  x11.rs goes on with the next turn at once and
\* dispatches nothing in between; winit.rs has counted a whole frame that it
\* does not draw, and quits if the context is lost.
BindFails ==
  /\ Draws /\ Fails
  /\ at' = IF backend = "x11" THEN "top" ELSE "dispatch"
  /\ full_redraw' = Redraws
  /\ missed' = IF backend = "winit" /\ full_redraw > 0 THEN Buffer ELSE missed
  /\ running' \in IF backend = "winit" THEN BOOLEAN ELSE {TRUE}
  /\ UNCHANGED <<backend, render, behind, age, back, damage, history, shown, presenting,
                 waiting>>

\* Drawing fails after the frame was counted.  x11.rs gives up the ages and
\* draws again; winit.rs does neither, or quits as above.
DrawFails ==
  /\ Draws /\ Fails /\ Redrawn # {}
  /\ Counted
  /\ IF backend = "x11"
     THEN age' = [b \in Buffer |-> 0] /\ UNCHANGED <<missed, running>>
     ELSE missed' = Buffer /\ running' \in BOOLEAN /\ UNCHANGED age
  /\ full_redraw' = Redraws
  /\ at' = "dispatch"
  /\ UNCHANGED <<backend, render, behind, back, shown, presenting, waiting>>

Painted ==
  /\ behind' = [behind EXCEPT ![back] = @ \ Redrawn]
  /\ full_redraw' = Redraws
  /\ at' = "dispatch"
  /\ Counted

\* post_repaint.
Repainted == waiting' = FALSE

\* A buffer that is drawn whole is itself again.
Mended == missed \ (IF Redrawn = Area THEN {back} ELSE {})

\* A mutated SubmitFails: the flag is cleared whether or not anything was shown.
SubmitFailsQuietly ==
  /\ Draws /\ Fails
  /\ backend = "winit" => Redrawn # {}
  /\ Painted /\ Repainted
  /\ IF backend = "x11"
     THEN age' = [b \in Buffer |-> 0] /\ render' = FALSE /\ UNCHANGED missed
     ELSE missed' = Mended \cup (Buffer \ {back}) /\ UNCHANGED <<age, render>>
  /\ UNCHANGED <<backend, running, back, shown, presenting>>

\* The host does not take the buffer: x11.rs tries again, with all of it.
SubmitFails ==
  /\ Draws /\ Fails
  /\ backend = "winit" => Redrawn # {}
  /\ Painted /\ Repainted
  /\ IF backend = "x11"
     THEN age' = [b \in Buffer |-> 0] /\ render' = TRUE /\ UNCHANGED missed
     ELSE missed' = Mended \cup (Buffer \ {back}) /\ UNCHANGED <<age, render>>
  /\ UNCHANGED <<backend, running, back, shown, presenting>>

Older(n) == IF n = 0 \/ n > MaxAge THEN n ELSE n + 1

\* winit.rs shows nothing where nothing changed.
DrawNothing ==
  /\ Draws /\ backend = "winit" /\ Redrawn = {}
  /\ Painted /\ Repainted
  /\ UNCHANGED <<backend, running, render, age, back, shown, presenting, failures, missed>>

\* The buffer is shown, and the host hands out another that is not: the one not
\* seen for longest in the case of EGL, any in the case of the X11 swapchain.
Submit ==
  /\ Draws
  /\ backend = "winit" => Redrawn # {}
  /\ Painted /\ Repainted
  /\ shown' = {back}
  /\ age' = [b \in Buffer |-> IF b = back THEN 1 ELSE Older(age[b])]
  /\ back' \in IF backend = "x11" THEN Buffer \ {back}
               ELSE {b \in Buffer \ {back} :
                       age[b] = 0 \/ \A c \in Buffer \ {back} : age[c] # 0 /\ age[c] <= age[b]}
  /\ missed' = Mended
  /\ IF backend = "x11" THEN render' = FALSE /\ presenting' = TRUE
                        ELSE UNCHANGED <<render, presenting>>
  /\ UNCHANGED <<backend, running, failures>>

Event ==
  \/ Change \/ ResetBuffers \/ QueueRedraw \/ Resized \/ PresentCompleted \/ Refresh \/ Quit

Turn ==
  \/ EndDispatch \/ Exit \/ Skip
  \/ BindFails \/ DrawFails \/ SubmitFails \/ DrawNothing \/ Submit

LoopNext == Event \/ Turn

\* The loop goes round, and the X11 server reports what it shows: between two
\* turns, as dispatch returns after a while whatever comes.
LoopFairness == WF_loopVars(Turn) /\ SF_loopVars(PresentCompleted)

LoopSpec == LoopInit /\ [][LoopNext]_loopVars /\ LoopFairness
-----------------------------------------------------------------------------
LoopTypeOK ==
  /\ at \in {"top", "dispatch", "exited"}
  /\ {running, render, presenting, waiting} \subseteq BOOLEAN
  /\ full_redraw \in 0..4 /\ failures \in 0..MaxFailures
  /\ behind \in [Buffer -> SUBSET Area] /\ age \in [Buffer -> 0..(MaxAge + 1)]
  /\ back \in Buffer /\ shown \subseteq Buffer /\ missed \subseteq Buffer
  /\ damage \subseteq Area
  /\ Len(history) <= MaxAge /\ \A i \in 1..Len(history) : history[i] \subseteq Area

\* What is submitted is the whole picture, however old the buffer: the damage
\* of the frames it missed, of those that failed and of those drawn in full
\* after reset_buffers adds up.  Excepted are buffers that winit.rs leaves
\* stale by going on after a frame that failed.
SubmittedIsWhole ==
  [][shown' # shown => \A b \in shown' \ missed' : behind'[b] = {}]_loopVars

\* No chain of events stops the drawing: a client that
\* waits for a frame gets it, and quitting quits.
LoopGoesOn ==
  /\ waiting ~> (~waiting \/ at = "exited")
  /\ ~running ~> at = "exited"
=============================================================================

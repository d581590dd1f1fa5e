# bakawm: TLA+ models and proofs

bakawm is a Wayland compositor written in Rust on Smithay. This directory holds
TLA+ modules that model the parts of it whose correctness depends on the order
in which threads, callbacks, devices and clients act, the TLC configurations
that check them, and proofs checked by TLAPS. Paths below are relative to the
repository root, lines are those of the commit the models were made from;
`PROJECT.json` maps every definition to its lines.

## 1. The system

One calloop event loop runs almost everything: input, Wayland requests, DRM
vblanks, timers, PipeWire callbacks. All handlers are methods of
`AnvilState<BackendData>` and run to their end one at a time. Other threads
serve D-Bus (zbus), watch the configuration file and read IPC connections; they
reach the main loop through channels. The parts:

| part | source | state | operations | talks to |
|---|---|---|---|---|
| screen-cast control plane | `src/dbus/mutter_screen_cast.rs`, `src/screencasting/mod.rs` | `ScreenCast.sessions`, `Session.streams/stopped`, `Stream.was_started`, `Screencasting.casts/pipewire` | CreateSession, RecordMonitor, RecordWindow, Start, Stop; StartCast, StopCast, FatalError | D-Bus thread and main loop share the sessions and two channels |
| PipeWire stream | `src/screencasting/pw_utils.rs` | `CastInner.state`, `dmabufs`, `rendering_buffers`, `is_active`, `node_id` | the stream callbacks, `ensure_size`, `dequeue_buffer_and_render/clear`, `queue_after_sync` | PipeWire server, GPU fences, the frame of every output |
| DRM outputs | `src/udev.rs` | `backends`, `surfaces`, `space.outputs()`, `ipc_outputs`, timers | device and connector events, pause/resume, `render`, `frame_finish` | kernel, Smithay's scanner and output manager, D-Bus (reads `ipc_outputs`) |
| workspaces and focus | `src/state.rs`, `src/layout.rs`, `src/shell/*`, `src/input_handler.rs` | stacking order of `Space`, `workspaces`, `WindowState.workspace/hidden/layout`, keyboard focus | new/closed windows, commits, workspace switches, focus, floating, maximize, layout drags | layout, grabs, xdg-activation, IPC |
| layout geometry | `src/layout.rs`, `src/animation` | layout ids, targets, overrides, animations | `compute_plans`, `apply_plan`, `update` | the stacking order, the zones of layer surfaces; called by nearly every window handler |
| interactive resize | `src/shell/grabs.rs`, `src/shell/xdg.rs` | `ResizeState` per surface | motion, release, `ack_configure`, commit | the client |
| fullscreen and closing windows | `src/shell/xdg.rs`, `src/shell/x11.rs`, `src/shell/closing_window.rs`, `src/state.rs` | `FullscreenSurface` of each output, the Fullscreen state of each client, pending snapshots, close animations | fullscreen and unfullscreen requests, unmap, destroy, end of an animation | rendering, hit tests |
| hit tests and drawing order | `src/input_handler.rs`, `src/render.rs`, `src/focus.rs` | none of their own | `surface_under`, `update_keyboard_focus`, `output_elements` | layers, windows, fullscreen |
| keyboard | `src/input_handler.rs` | `suppressed_keys`, what is pressed | the key filter, actions, callbacks | the configuration, the focused client |
| screen copy | `src/screencopy.rs` | a queue of frames per manager | bind, capture, copy, destroy | a request for a screenshot, which the next frame serves |
| IPC, bakactl | `src/ipc.rs`, `src/ctl` | a worker thread per connection, a channel to the main loop, a one-shot channel back | connect, read, handle, answer | windows |
| configuration | `src/config.rs`, `src/state.rs` | `config`, `lua_config`, `config_reload_timer` | evaluate a script, watch the file, reload | everything; a watcher thread sends the changes |
| D-Bus views | the rest of `src/dbus` | none of their own | display configuration, introspection | `ipc_outputs`, windows |
| nested backends | `src/winit.rs`, `src/x11.rs` | a redraw flag or count, the ages of buffers, a damage tracker | events of the host, the frame | the host's display server |
| rendering, start-up | `src/render*`, `src/main.rs`, `src/libei.rs` | textures | draw, forward | |

What is hard here, and what each part must get right:

* **Two threads stop one session.** `Session::stop` runs on the D-Bus thread
  for a client's Stop and on the main thread, under `block_on`, for
  `stop_cast`. It unwraps the removal of every object. Right means: no removal
  fails, one cast per stream, a stop ends what it should, and neither thread
  waits for the other forever.
* **A stream resized while it negotiates.** Offers, answers, allocations,
  frames and fences cross. Right means: a frame of one size never goes into a
  buffer of another, frames reach the consumer in order, no buffer is lost.
* **A render loop nobody owns.** Each wake-up of a surface arms the next one;
  timers outlive the surface; pausing, resuming, early vblanks and errors cut
  the chain or start a second one. Right means: a surface with a monitor keeps a
  wake-up, loops do not multiply without bound, the registries agree.
* **A resize in which the client has a say.** A grab, the state of the window
  and the client's configure, ack and commit exchange are tied together by the
  order of calls alone. Right means: the state follows the grab, the edge the
  user does not drag stays, and only the ack of the final configure ends it.
* **One stacking order with five meanings.** Drawing, hit test, layout slot,
  focus cycle and focus after a switch all read it, and nearly everything raises
  windows. Right means: input goes to what is seen, the focus is visible, the
  cycle visits all.
* **Three records of one place.** The plan, a window's target and its place in
  the space are changed by different handlers, some of which arrange and some of
  which do not. Right means: after an arrangement each tile is in its slot or on
  its way, the slots share the work area, and an id names one window.
* **Fullscreen kept twice.** The output knows its fullscreen window and the
  client knows that it is fullscreen and where. Requests, keys, closing and X11
  change one or both. Right means: the client of the window that covers an output
  knows it, and can leave.
* **Keys, files and indices.** A key is pressed under one configuration and
  released under another; a bind names its function by an index in a list. Right
  means: a press does what the script in force says, the client sees both halves
  of a key or neither, the last edit wins.
* **Buffers that remember.** Only what changed is drawn, so every frame that fails
  or is skipped must be made up for in each buffer. Right means: what is shown is
  whole, and the loop that shows it goes on.
* **Objects destroyed in any order.** A manager and its frames (screen copy), a
  connection, its worker and the loop (IPC). Right means: no handler finds its
  record gone, each request is answered once and by its own answer.

`PROJECT.json` lists each hazard at its line with the properties about it, and
those that no property covers with the reason.

## 2. Modules

| module | models | extends / uses |
|---|---|---|
| `CastLifecycle` | what the service promises of a stream: idle, requested, running, ended | |
| `ScreenCast` | the control plane: both threads, both channels, `stop_cast` | instantiates `CastLifecycle` |
| `ScreenCastProofs` | theorems about `ScreenCast` | `ScreenCast`, TLAPS |
| `CastStream` | one cast: negotiation, buffers, fences, the two render passes | |
| `CastStreamProofs` | theorems about `CastStream` | `CastStream`, TLAPS |
| `UdevOutputs` | one DRM device: hotplug, session, render loops | |
| `UdevOutputsProofs` | theorems about `UdevOutputs` | `UdevOutputs`, TLAPS |
| `Workspaces` | stacking, workspaces, hidden windows, focus, layout membership | |
| `WorkspacesProofs` | theorems about `Workspaces` | `Workspaces`, TLAPS |
| `Tiling` | the layout engine on one output and everything that calls it | |
| `TilingProofs` | theorems about `Tiling` | `Tiling`, TLAPS |
| `Scene` | one point of an output: what is drawn on top, what takes the pointer, what a click focuses | |
| `Screen` | fullscreen, fading and closing windows on several outputs | extends `Scene` |
| `ResizeGrab` | interactive resize: grabs, `ResizeState`, configures, acks, commits | |
| `ResizeGrabProofs` | theorems about `ResizeGrab` | `ResizeGrab`, TLAPS |
| `Screencopy` | managers, frames and their queues | |
| `WindowRequests` | what the requests of `bakawm-ctl` mean | |
| `RpcService` | what the socket promises: an atomic call | extends `WindowRequests` |
| `IpcServer` | clients, workers, channels, the end of the loop | extends `WindowRequests`, instantiates `RpcService` |
| `LuaConfig` | a script into binds, layout, commands and functions; and what its author means | |
| `ConfigReload` | load, watcher, reload timer | extends `LuaConfig` |
| `Keyboard` | the key filter and its actions, with reloads in between | extends `ConfigReload` |
| `ClientProofs` | theorems about `Screencopy`, `IpcServer` and `Keyboard` | those three, TLAPS |
| `NestedLoop` | the main loops of the nested backends: buffers, ages, damage, the redraw flag | |
| `ScreenProofs` | theorems about `Scene` and `Screen`, and about `NestedLoop` | `Screen`, `NestedLoop`, TLAPS |
| `MC*` | the instances TLC checks, with their symmetry sets | the above |

Definitions named in a comment as "A mutated X" are wrong versions of X, the
kind of slip a change to that code could make; they are used by no action and
exist to show that the property beside them can fail.

Two modules of proofs cover components that share no state (`ClientProofs`,
`ScreenProofs`): each theorem is about the specification of one component
(`Spec`, `IpcSpec`, `ControlSpec`, `LoopSpec`), and the other's variables do not
occur in it.

### ScreenCast

State: `registered`, `exported` (the object server), `created`
(`ScreenCast.sessions`, which is never pruned), `streams`, `owner`,
`wasStarted`, `calls` (zbus has looked the object up, the task has not begun),
`starting`/`rest` (the loop of `Session::start`), `stopPc`/`stopper`/`taken`/
`left` (where each `Session::stop` stands and who runs it), `toState` and
`fromPw` (the channels), `pipewire`, `casts`, and `pending`/`blocked` (the main
thread in a loop of `stop_cast` calls, or inside one).

Grain. The D-Bus thread runs one task at a time and changes task only at an
await: `DbusFree` says so. `Session::start` has no await, so its loop is
several steps that only the main thread can interleave with. `Session::stop`
is cut at each await, and between sending StopCast and taking the streams,
where the other thread can come between. The main thread handles one event at
a time; while it is inside `stop` (`blocked`) it handles none. Both
`record_*` methods take `&mut self`, so zbus excludes them from a running stop,
which holds the read lock; Start and Stop take `&self` and overlap.

External: zbus's dispatch (a call may run after its object was removed), and
PipeWire, which may report an error or ask for a stop at any time.

`Redraw` messages only call `queue_redraw` and change none of this state; they
are left out. `stop_casts_for_output`, `set_dynamic_cast_target` and
`start_pending_dynamic_casts` have no caller in the repository.

### CastStream

State: `state` (`CastState`: kind and size), `streamState`, `active`,
`announced`, `offers` (update_params not yet answered), `allocating`, then per
buffer its `place` and `backing` (the size of the dma-buf in `dmabufs`),
`rendering` (`rendering_buffers`), `fences`, `reached`, `frameNo`, and the
scene: `target`, `outSize`, `winSize`. `pass` cuts one output frame in its two
passes, because both touch the same stream; no callback runs between them.

External: PipeWire removes the buffers of a stream before it reports a new
format (`RemoveBuffers`), queues a buffer after `add_buffer` whether or not
that callback gave it memory, and answers offers in order, with the format it
was offered. Formats are sizes only: modifier and alpha lead to the same
branches as "the allocation works" and "it does not". Time is left out: the
rate limit may withhold any frame. The alpha flag and `n_datas` assertions of
`add_buffer` are about PipeWire's own conduct and not modelled.

### UdevOutputs

State: which connectors are plugged and which the scanner knows, the handler in
progress (a scan is a list of connector events run to its end), the
registries (`outputs`, `advertised`, `leasable`, `surface`), and per CRTC the
number of wake-ups of each kind (frame timer, idle callback, throttle timer,
flip), plus the pending and queued frame of its compositor. Smithay's
`DrmOutput` is external: one frame flipping and at most one queued behind it;
a vblank comes for every flip the kernel accepted, unless the device is gone;
`queue_frame` on an inactive device fails. The scanner reports disconnected
connectors before connected ones. `failed` and `stalled` are history: an
output whose surface could not be made, and a surface that met an error the
code does not reschedule after. `starts` counts render loops begun.

### Workspaces

State: `stack` (the order of `space.elements()`, bottom to top), `on`,
`active`, `workspace`, `hidden`, `floating`, `centering` (`needs_center`),
`full` (`full_width`), `slotted` (windows with `layout.target`), `focus`,
`drag`. `strayed`, `forced` and `cycle` are history variables the properties
use. Positions are left out: where a choice depends on them (which output is
under the pointer, which slot a dropped window takes, which window is under a
press) the model takes every choice. `MoveElement` stands for all handlers that
move and raise a window without the layout: the motion of a client's move grab,
the release of a resize, a maximize request, `ipc_move_window`. Geometry is in
`Tiling`, fullscreen windows and layer surfaces in `Screen`; popups and X11
override-redirect windows are left out.

### ResizeGrab

State: `grab` (what each of the pointer and the touch holds: nothing, a resize
grab, or any other, `Click`), `resize` (`SurfaceData.resize_state`), the place
of a window (`loc`, `width`), the client's side of a Wayland window (`told`, the
last state sent; `sent`, configures not acked; `acked`, `current`, whether the
last acked state, and the one of the last commit, says Resizing), `alive`,
`serial` (`SERIAL_COUNTER`) and `tiling` (the layout is not floating; chosen
once). `disturbed` and `shifted` are history. A window is `disturbed` whose resize
another grab replaced or shared, or that was cancelled: the code leaves it in
Resizing, and the properties say nothing of it until a new resize begins alone.
It is `shifted` when something else has moved it during its resize: a move grab of
the other device, `ipc_move_window`, or the offset at which its client attached a
buffer. The next commit without an offset puts the far edge back.

Actions: `ResizeRequest`, `ResizeRequestX11` and `ModifierResize` are the three
ways into a `PointerResizeSurfaceGrab` or `TouchResizeSurfaceGrab`; `Motion` and
`ReleaseResize` are their methods; `Cancel` is the touch's; `AckConfigure` is
`ack_configure`; `Commit` is the post-commit hook of the toplevel, the pass of the
layout included, and then the commit handler, which moves the window by
`buffer_delta`; `MoveMotion` is the motion of a move grab and `IpcMoveWindow` the
request of the socket, to any of the places `Place`; `Destroy` is
`toplevel_destroyed`.

One axis is modelled, with the near edge (LEFT or TOP) or the far one dragged;
the two axes are handled by the same code, one after the other. Window
animations are off: with them a plan moves the window over several frames.
Left out: the places of X11 windows, which the grab sets itself, and their
destruction; the requests to maximize, unmaximize and fill an output and
`ipc_resize_window`, which send a configure of their own that keeps the Resizing
state (a request to maximize also moves the window as `IpcMoveWindow` does); a dead
window that a move grab maps once more; the grab that drags a column border of
the tiling layout. The clients' serials all belong to one client. The
serial a release event takes is folded into the one of the configure after it.
External: what the client acks and commits, in what order and how late; it may
ack the newest configure and skip the rest.

### Tiling

State: `stack`, `hidden` and `centering` as in `Workspaces`; `lws`
(`LayoutWindowState`: id, floating, initialized, target, whether it moves, the
width override, `full_width`); `at` (where the space has the window, `Elsewhere`
for every place that is no slot); `nextId`; `config` (which layout, whether
animations are on); `bar` (a layer surface and its exclusive zone); `dragged` (the
window of a layout drag). `strayed` and `stale` are history: windows moved without
an arrangement since the last one that placed them, and whether something the plan
reads changed in a handler that does not arrange.

`Plan` is `Layout::compute_plans` with the four layouts written as functions of
the work area; `ArrangeThen` is `arrange_layout`, which hands out ids, sets
targets and starts animations (`Follow`), and is the end of each handler that calls
it, but for a commit at an offset, which then moves its window; `Frame` is
`Layout::update`. The actions are of two kinds. One is the callers of
`arrange_layout`. The other is the callers of `Space::map_element`,
`raise_element`, `relocate_element` and `unmap_elem` that do not arrange: the commit
of a window under resize and the offset of any commit (`shell/mod.rs:236-251`), the
motion of move grabs, of a client's or the user's (`grabs.rs:38-53`), the release
of a resize, requests to maximize or to configure, override-redirect windows, X11
windows that go, drags, and the socket's `ipc_focus_window` and `ipc_move_window`.
Where each of them moves the window is any place that is no slot. Lengths are
integers of a coarse unit and divisions truncate, as the conversion to pixels
does; the curve of an animation is left out, a window is on its way or there.
Left out: layouts written in Lua, the sizes clients take, windows on two outputs; an
output that changes its size or scale, which re-tiles nothing, as a bar's zone does;
a dead window that a grab maps once more, until `Space::refresh` drops it. A commit
of an X11 window at an offset is as its `ConfigureNotify`: a move. Which windows
are under a grab is left open, so any may be moved or resized at any time;
`ResizeGrab` has the grabs.

### Scene and Screen

`Scene` has no state: `DrawOrder` is the order of `output_elements`, `SurfaceUnder`
that of `surface_under`, `FocusUnder` that of `update_keyboard_focus`. A point is
the set of things that are there and which of them take input; sizes and offsets
are left out. A layer has several surfaces, in order of arrival: `Surfaces` is the
order in which `render_layer` gives them, the oldest on top (`render.rs:652-690`), and
`Newest` the one that `layer_under` finds (`input_handler.rs:526-529`, `:616-618`).
Things that take no input (cursor, preview, blur, closing windows)
are left out too.

`Screen` keeps the stack, the output of each window, `hidden`, `fading`,
`centering` (a window is not drawn until it is centred), `buffer`, `snapshot` and
`closing` (the picture of a closed window, and whether it shows its last
content), `fullscreen` (per output) and `told` (what the client was told and the
`fullscreen_output` it remembers). Its actions: mapping, commits with and without
a buffer, destruction, the end of fades and closing animations, the four
fullscreen requests, the key that toggles, workspace switches, clicks and moves
to another output. `astray` is history: windows that left an output's
`FullscreenSurface` behind, by asking again for another output or without having
bound it. Which windows a switch shows is left open; `Workspaces` says which.
Whether a snapshot succeeds is left open as well. External: clients, and which
points are clicked.

### Screencopy

State: managers and frames as objects that exist or not, `queues` and `pending`
(`ScreencopyManagerState.queues`), `copied`, `cut` (clients that broke the
protocol or left), `answers` (what each frame was sent) and `shot`
(`pending_screenshot`). A copy is answered in its handler: `AnvilState::frame`
asks for a screenshot and drops the `Screencopy`, whose `Drop` tells the client
that the frame failed. The lookups that the code unwraps are guards of `Capture`
and `Copy`, so that a missing queue shows as a broken `QueueWhileNeeded`. Left
out: buffer formats, regions, the copying. External: the display server destroys
the objects of a client it cut off, in any order.

### IpcServer, RpcService, WindowRequests

`RpcService` says what a call is: asked, executed at one moment on the windows of
that moment, and answered, or failed. It lets a call fail at any time: that one fails
only because the compositor stops is not part of what is refined. `IpcServer` is
how it is done: `client` (`send_request`), `worker` (`handle_connection`),
`reqChan` (the calloop channel), `reply` (the one-shot channels) and `server`
(the loop up, ended, the process gone). `callView` maps the one to the other.
`WindowRequests` has what both share: `Found` is `ipc_find_window`, `StackAfter`
and `Responses` are `handle_ipc_request`. A request is written in one step or not
at all: the worker only acts on a whole frame, the length and then that many bytes.
Screenshots and the list of outputs are one request, `query`, of which only the answer matters. External:
the client may leave before it has written; other events restack windows.

### LuaConfig, ConfigReload, Keyboard

A script is a sequence of calls of the `bk` table, each of which may raise an
error, and of the binds in the table it returns. `Collected`, `ConfigOf` and
`CallbacksOf` follow `parse_lua_config`: which calls happen before an error, the
index each function gets, which style of binds wins. `IntendedEffect` and
`IntendedLayout` say the same as an author would, without indices; they model no
code and are the reference. `ArrangedBy` is how `compute_plans` finds the function
of a custom layout.

`ConfigReload` is `load_config`, the watcher and `reload_config`: `events` in the
channel, the flag `config_reload_timer`, the `timers` in the loop, and `config`
and `lua_config` of `AnvilState`, which a failed reload treats differently.
`Keyboard` is `keyboard_key_to_action` with `process_keyboard_shortcut` and
the handlers of actions: `pressed_keys` of the seat, `down` (what the client
believes), `suppressed_keys`. `did` is history: what the last press did.
`stale` too: keys whose release bypassed the filter (an exclusive layer surface
takes it, or a nested backend releases everything when it loses the focus).
Left out: other settings, keyboard layouts. External: the file system, the
user's fingers, Lua (its functions are values without a body).

### NestedLoop

`run_winit` and `run_x11` in one module, told apart by `backend`. A turn is a
frame (`Submit`, `DrawNothing`, or one of the three ways it fails), or `Skip`
where x11.rs has nothing to draw, and then a dispatch in which events are
handled. State: the flag `render` and the count `full_redraw`; of each buffer its
`age` and the areas in which it is `behind` what is to be seen; the damage
tracker's `damage` and `history`. The picture itself is left out: an area is
behind or not. `missed` is history: buffers that a failed frame of winit.rs made
stale. External: the host, which rotates the buffers of an EGL window and hands
out any free one of an X11 swapchain, and reports a presentation; the age of a
buffer; and the tracker, which counts a frame before it is drawn.

## 3. Runs

| run | instance | result |
|---|---|---|
| `screencast` | 2 sessions, 2 streams, 1 call looked up, 1 PipeWire message, under fairness; 445,852 states | type, removals, one cast per stream, stops, one Closed signal; refines `CastLifecycle`; stops end and the main loop gets idle again |
| `cast_stream` | 2 sizes, 2 buffers, 3 offers, 2 frames; 427,650 states | buffers fit, order, none lost, frames leave |
| `udev_outputs` | 2 connectors, 2 CRTCs, 1 failure, 2 loop starts per CRTC; 3,183,527 states | the registries agree, the loops live |
| `workspaces` | 3 windows, 1 output, 2 workspaces; 305,008 states | hidden, focus, focus cycle, drop slot |
| `tiling` | 2 Wayland windows and an X11 one, 4 layouts, a bar, 2 requests; 586,002 states | tiles are in their slots, on the way or moved since, slots share the work area, ids identify |
| `screen` | a Wayland and an X11 window, 2 outputs, 2 surfaces on each layer; 335,586 states | input follows the drawing, fullscreen is agreed on |
| `resize_grab` | a Wayland and an X11 window, 2 widths, 3 configures, a place and an offset, under fairness; 613,420 states | state and grab agree, the far edge stays, the end is recognised |
| `screencopy` | 2 managers, 3 frames, under fairness; 63,129 states | a queue while it is needed, one answer, nothing left behind |
| `ipc` | 2 connections, 2 windows, under fairness; 197,715 states | refines `RpcService`; calls end |
| `control` | 5 scripts, 4 keys, both backends, under fairness; 308,352 states | keys do what the script says, stay paired, the last edit loads |
| `nested` | 3 buffers, 2 areas, 1 failure, both backends, under fairness; 988,491 states | what is shown is whole, the loop goes on and ends |
| `retile_while_resizing` | two Wayland windows | violated, see section 6 |

Bounds, and why they are enough. Every bound is a constant in a guard:

* `MaxCalls` = 1: calls looked up and not begun; a call that has begun does not
  count, so a Start meets a Stop and a Record waits behind one. With two such
  calls the safety properties were checked under symmetry (441,158 states), and
  section 5 proves them for any number. Two sessions, because `stop_cast` in
  a loop stops several; two streams, because a stop takes its streams one at a
  time. `PwCap` = 1: the messages PipeWire may queue at once; a second one
  behind the first is the same message at another time.
* `MaxOffers` = 3: a frame may make two offers, one in each pass, and a third
  answers the first. `MaxFrames` = 2: order and dependence of one fence on
  another need two frames.
* `MaxFailures` = 1, `MaxStarts` = 2: the loop a connector starts and one more
  after a resume or a new plug. Two CRTCs so that one can be handed from one
  connector to the other within a scan.
* Three windows: focus-next and focus-previous only differ from three on.
  The instance with two windows on two outputs was checked while the module
  was written and passes too; `strayed` and the outputs that moves choose only matter
  there.
* `Tiling`: `MaxRequests` = 2 things that users or clients ask for, before,
  between and after the three windows' coming (each comes once, in any order);
  commits, frames and the ends of drags are not counted. Two are enough for each
  request to meet the leftovers of another. Three windows, because the grid has a second row, the stack a
  second window and the columns an inner one from three on. 14 by 11 units do not
  divide evenly, and `Overrides` = 3 leaves the other columns room. The
  `maximize` layout gives each window the whole area and is left out of the run.
* `Screen`: two outputs, one Wayland and one X11 window: every case of two
  windows competing for one output or of one window on two. `MaxTaking` = 2 and
  `MaxThrough` = 1: a point has at most two things that take input and one layer
  surface that does not, which tells all orders of three kinds apart, pair by pair.
  `MaxSurfaces` = 2: an older and a newer surface on each layer. The property is of
  one view and one point, so section 5 proves it for any numbers.
* `Screencopy`: two managers, three frames: one manager with two frames and a
  bystander.
* `NestedLoop`: three buffers, which is what `full_redraw` = 4 is enough for (the
  count is lowered before it is looked at; `FewBuffers`, the hypothesis of
  `WholeHolds`, says so and holds in the run); two areas, so that one can be drawn
  and the other forgotten; `MaxAge` = 3 frames remembered, as old as a buffer
  of a rotation gets. The safety property was also checked with a history of 4
  (4.3 million states).
* `IpcServer`: two connections and two windows, ids up to 2: an id may be wrong,
  and answers may be mixed up. `MaxEvents` = 1: the flag coalesces, and a second
  message meets the same flag; the count of edits is unbounded.
* Five scripts: functions in all places, an error half way, an old-style table, a
  table that is rejected, and the built-in one. Two modifiers, an ordinary key
  and the one that is always bound.
* `MaxSerial` = 3: a resize can end and a second one of the same window begin
  and end while the configures of the first are still unanswered. Two widths: a
  change and a change back, which sends nothing new. `Place` = {0} and `Offset` = {1}:
  one place others move a window to and one offset, both of which take a window
  resized by its near edge off its far edge; both are empty in
  `retile_while_resizing`.

Symmetry is used in safety runs only: connectors and
CRTCs, windows. No specification chooses among the members of a symmetric set with
CHOOSE where the choice could matter.

The type invariants of the other modules are stated in them and were checked
by TLC on the instances of these runs; the runs list only what is about a hazard.

Deadlock is checked where the system never stops (`UdevOutputs`,
`Workspaces`, `Screen`, `ResizeGrab`). A session id is used once, so
a bounded set of ids runs out (`ScreenCast`); a cast that ended does nothing more
(`CastStream`); connections (`IpcServer`), managers and frames (`Screencopy`) are
used once as well; a compositor that was
told to quit stops (`Keyboard`, `NestedLoop`); and when the requests are used up and nothing
moves, nothing happens (`Tiling`).

Fairness:

* `ScreenCast`: weak fairness of the start loop and of the main thread's
  handlers, because both threads are scheduled; strong fairness of each stop,
  because a stop on the D-Bus thread is ready and not ready as other tasks run
  between its steps, and zbus's executor polls ready tasks in turn. Clients and
  PipeWire owe nothing.
* `CastStream`: weak fairness of the GPU finishing a frame it was given and of
  the second pass of an output frame, strong fairness of a fence's source,
  because a frame in progress makes the loop busy again and again. Nothing is
  assumed of the consumer or of PipeWire.
* `ResizeGrab`: weak fairness of a client's acks and commits, which xdg-shell
  obliges it to. It is not assumed to ack every configure, or in time. The user
  owes nothing: a resize may last for ever.
* `Screencopy`: weak fairness of the destruction of each object of a client that
  was cut off, which the display server does at once. Clients owe nothing.
* `IpcServer`: weak fairness of accepting, of handling, of the end of the process
  once the loop has ended, and of each worker that has something to do. A client
  may connect and never write.
* `Keyboard`: weak fairness of the two callbacks of a reload. Nobody has to press
  a key or edit the file.
* `NestedLoop`: weak fairness of the turns of the loop, and strong fairness of the
  X11 server's report of what it shows, because the loop only listens between two
  frames. That failures are bounded is an assumption of `LoopGoesOn`: while a
  buffer cannot be bound, `run_x11` turns without dispatching.
* `UdevOutputs`, `Workspaces`, `Tiling`, `Screen`: none. That the loop of a surface
  lives is stated as the invariant that a wake-up is always armed, which is
  stronger.

## 4. What the properties say

`RemovalNeverPanics`: the object `Session::stop` unwraps the removal of is
there. `OneCastPerStream`: a StartCast queued or a cast, not two.
`DbusStopEndsCasts`: after the StopCast of a client's Stop is handled, nothing
of that session is or will be cast. `StopsEnd`: every stop that was begun ends, and
the main loop leaves its loop of stops. `ClosedOnce`, `ImplementsLifecycle`: as
named.

`DbusStopEndsCasts` is stated for stops the D-Bus thread runs. A stop the main
thread runs sends StopCast before it takes the streams, and a start loop on the
other thread may still hold them and queue StartCast behind: that cast then
belongs to a session that has ended.

`BuffersFit`: in the Ready state, and for every frame
that is rendered, the buffer has the size asked for. It excludes the time
between a callback's request to stop the cast and its handling.
`FramesInOrder`, `NoBufferLost`, `RenderedFramesLeave`: the queue of frames
waiting for their fences.

`RegistriesAgree`: every mapped output has its surface or is one whose
initialization failed; what D-Bus clients read counts the same outputs; and the
output a surface renders is its own, or one that failed before it on that CRTC.
`OutputsTile`: after a scan the outputs lie side by side. `LoopsLive`: an active
surface has a wake-up armed unless it met an error the code gives up on, and a
flipping frame has a vblank or a throttle timer that will finish it.
`LoopsBounded`: no path adds a wake-up besides those that start a loop.

`HiddenMatchesWorkspace`: a window is hidden exactly when it is on another
workspace. `FocusVisible`: the focused window can be seen.
`FocusNextVisitsAll`: focus-next visits every window before coming back.
`ReorderTakesSlot`: a dropped window goes to its slot and the others keep their
order.

`TilesInSlots`: unless something changed without an arrangement, each tile's
target is the slot a fresh plan would give it; and always, a window with a target
is there, on its way there, or was moved since an arrangement last placed it, by its
client, a grab or the socket. `TilesFit`: the targets lie
inside the work area with the gap between any two, in every layout that divides the
area, unless fixed widths and gaps ask for more than there is (`Roomy`, which on the
run's instance only fixed widths can break). `IdsIdentify`: two windows
never share an id, and an id is kept.

`InputFollowsDrawing`: at every point of every output the pointer's events go to
what is drawn topmost there and takes them, and a click never focuses a window
that is not drawn. It is stated for the points where the code does not let input
through on purpose (`Opaque`), and has two exceptions, both faults of the code that
section 6 lists: a hidden window may take the pointer's events, and where surfaces of
one layer overlap the newest takes them although the oldest is drawn above it. What
is left, and is checked, is the order of layers, windows and fullscreen among each
other. `FullscreenAgrees`: the client of the window that
fills an output was told so, and told of that output, except for `astray`.

`QueueWhileNeeded`: a queue exists exactly while its manager or a frame that can
still be copied does, and lists exactly those. `AnsweredOnce`: a frame is answered
once at most, and has been when it failed or was copied. `CutLeavesNothing`: the
queue of a client that was cut off goes.

`ImplementsRpc`: the threads and channels implement `RpcService`. `RequestsEnd`: a
client that has written its request gets an answer or an end of file.

`PressDoesWhatScriptSays`: a press has the effect the author of the script in
force wrote for it, or is one of the keys taken before the binds.
`KeysPaired`: a key is suppressed exactly while it is pressed unseen by the
client, and the client believes no released key pressed, `stale` keys excepted.
`LastEditLoads`: a readable file that is left alone is loaded.

`SubmittedIsWhole`: a buffer is submitted only when every area of it is what is to be
seen, `missed` ones excepted. `LoopGoesOn`: a client that waits for a frame gets
it, and quitting ends the loop.

`HeldExactlyWhileResizing`: a window is in Resizing, with the grab's data, as
long as a grab resizes it. `OppositeEdgeStays`: the edge not dragged is where it
was, unless something other than the resize has moved the window since the last
commit that put the edge back (`shifted`). `ToldWhenOver`: the client is not left
drawing itself as if resized.
`FinalStateAcked`: what the resize takes for the final ack is the final ack, also
when those of an earlier resize are outstanding. `ComesToRest`: and it is
recognised, and the commit after it ends the resize.

## 5. Proofs

Every safety property and every refinement that a passing run checks is a
theorem. TLC checked each inductive invariant, on the instance of the component's
run unless said otherwise, before it was proved; the numbers of states are those
of section 3.

The theorems hold for every value of the constants that the assumptions of the
modules admit: the values that mean "none" are no members of their sets, bounds
are naturals, the sets that the code counts are finite (connectors, windows,
buffers), there is an output, and the two kinds of windows of `ResizeGrab` are
apart. Bounds on surfaces and on things at a point are naturals, the places and
offsets of `ResizeGrab` integers. Lengths of the layout are integers, a gap is not negative
(`config.rs:1949`) and a fixed width is positive; the calls of a script are a
sequence of the kinds the module knows. TLC evaluates each assumption on its run.
One theorem has a hypothesis of its own, `WholeHolds`.

### ScreenCastProofs

* `TypesHold`: the type invariant, strengthened to `TypeInv` with `Recorded`:
  streams that are held, queued or cast have an owner, so `owner[x]` is a session
  where the main thread looks it up.
* `ClosedAtMostOnce`: from the types alone, one step per action.
* `RemovalIsSafe`: `RemovalNeverPanics` is not inductive. `RemovalInv` adds
  that the streams a session holds, and those a stop has still to remove, are
  exported and held once; that a created session is registered until its stop
  is done; and that nothing is recorded while a stop removes. A stream object
  then leaves the server only at the head of the list of the one stop that took
  it, and its owner keeps it out of every other session's list.
* `OneCastHolds`: `CastInv` says that a StartCast is queued at most once, that a
  stream queued or cast was started, and that none is both. A StartCast is only
  appended in the step that sets `was_started`.
* `DbusStopHolds`: `StopsInv` relates a stop's position to the queue: wherever
  a StartCast of one of its streams stands, the session's StopCast stands
  behind it, and while one of them is cast the StopCast is queued (`Doomed`).
  The D-Bus thread cannot run a start loop between the sending and the taking:
  the argument rests on that step.
* `LifecycleImplemented`: each action maps, through `stage`, to a step of
  `CastLifecycle` or to a stutter.

### CastStreamProofs

* `OrderHolds`, `BuffersKept`: `QueueInv` says that `rendering_buffers` is in the
  order of frames, all newer than the last one sent, and lists exactly the
  buffers that are being rendered into, each once. The work is in what a drain
  does (`DrainResult`): it sends a prefix, so what stays is newer than what left.
* `FitsHold`: the action property needs all of `StreamInv`: the negotiation's
  types, the queue, and `Backed`, that a buffer which is not absent is backed by
  a dma-buf of the size negotiated until the stream is being stopped.

### UdevOutputsProofs

The invariant `OutputsInv` has three parts, each inductive on top of those before.

* `HotplugInv`: which connector a CRTC is in use for. The kernel's change is one
  step, the handler's reaction several, and a CRTC may pass from one connector to
  another within a scan; `Owner` follows it through, and no CRTC has two owners.
* `LoopInv` proves `LivenessHolds` and `BoundHolds`: a surface's loop has a timer,
  an idle callback, a page flip or a throttle outstanding, and no more of them than
  loops were started. Each wake-up is consumed and passed on once.
* `RegistryInv` proves `RegistriesHold` and `TilingHolds`: an id names one output,
  every output is a surface's or one whose creation failed, what D-Bus reads
  counts what the space shows, and the outputs lie side by side.

### WorkspacesProofs

The invariants were checked by TLC on three windows and one output, and on two
windows and two outputs.

* `HiddenHolds`: inductive on top of the types. Two steps matter: a switch decides
  anew about every window of its output, and a move to another output, by a drag, a
  commit or a request, is the one way to change the output without deciding
  (`strayed`).
* `FocusHolds`: likewise; `forced` excepts what the socket focused.
* `FocusNextHolds`: `CycleInv` says that the focused window is the topmost of its
  cycle, and that the visited ones lie above those not visited. Raising keeps both,
  so the lowest, which is the next, is new as long as there is a new one.
* `ReorderHolds`: the list seen from the top is the reverse of the stack, the code
  inserts into one and the property speaks of the other. Lemmas say what reversing,
  inserting and dropping do to the order, and two lists of the same windows in one
  order are equal (by the least index at which they would differ).

### TilingProofs

* `SlotsHold`: `LayoutInv` is `TilesInSlots` with the shape of the stack and of the
  layout states, and that a window which is gone has nothing left. A handler
  that arranges establishes it whatever was there before (`Arranged`, from
  `FollowsThePlan`), the window that its commit then moves by an offset excepted
  (`OffsetSteps`); of one that does not, the proof shows that nothing the plan reads
  has changed, or that `stale` says so, and that `strayed` has the window it moved
  (`MovesIs`, `QuietSteps`). The plan itself stays unexpanded: the theorem is about when it is
  applied, for every layout.
* `FitHolds`: what the plan is. By `SlotsHold` the targets are those of a fresh plan,
  and three lemmas (`ColumnsFit`, `GridFit`, `MasterStackFit`) place its slots, for
  any number of windows. A column starts where the widths above it and their gaps
  end, so two columns are apart because the sum over the windows above the lower
  one contains that of the upper one and its width. The sum is a fold: `SumsExist`
  and `SumsAgree` show by a least counterexample, over the sizes of sets, that what
  a fold chooses exists and is the one function of its equations; that a sum grows
  with its set follows (`TotalLess`). In the grid, rows and columns are quotients
  and remainders (`Division`, `Strides`). `Roomy` is a hypothesis of the property:
  the code cuts lengths at 0 and never cuts gaps, so where fixed widths and gaps ask
  for more than there is, slots leave the area.
* `IdsHold`: fresh ids are above all others, and given to each window once.
* `TypesHold`: `TypeOK`, on top of `LayoutInv`, in three parts: the widths that windows
  ask for, the layout states and the places (`NextPlaces`), and the rest. It opens
  the plan once more, without `Roomy`: no layout divides by nothing (a grid has a row
  and a column, `GridIs`; only a master has no stack), so a target is at a point
  whatever the sizes are.

The attempt to prove this showed a `CASE` with overlapping guards where an
arrangement places the windows (now in `Follow`): TLC takes the first that holds,
TLA+ leaves it open. It is an IF now, as in the code.

### ResizeGrabProofs

* `TypesHold`: the types; a new resize takes a far edge that is a number or none.
* `HeldHolds`: `HeldInv` adds that an undisturbed window is held by one grab at
  most; without it the release of one grab would end the resize of the other.
* `EdgeHolds`: the property is inductive. The hook of the window's own commit moves
  it by what its width changed, so the far edge is back where it was whatever moved
  the window before; an offset, a move grab or the socket moves it otherwise and
  marks it `shifted` until then. A pass of the floating layout moves nothing
  (`ArrangedElsewhere`).
* `ToldHolds`: `ToldInv` says that a window last told Resizing is in Resizing;
  with `HeldInv` it is held.
* `FinalHolds`: `FinalStateAcked` is not inductive: an ack may have any serial from
  that of the release on and skips those before. `FinalInv` adds that the serials
  of what is not acked are in order (`SerialsInv`) and that whatever was sent
  since the release does not say Resizing (`FinalAckInv`).

### ScreenProofs

* `InputHolds`: from the types alone, for any number of windows, of surfaces on each
  layer and of things at a point. The hit test and the drawing order are both the
  first of several lists. A row of surfaces has a first one drawn exactly if it has a
  newest one (`FirstOfRow`, `FirstSurface`, `NewestOfLayer`), so the two agree on
  the layer although not on the surface in it (`LayersAgree`), and on the window if
  it is not hidden (`WindowsAgree`). These are the two exceptions of the property.
  The run has points with at most two things that take input.
* `FullscreenHolds`: inductive with the types, `astray` excepted.
* `WholeHolds`, about `NestedLoop`: a buffer drawn by its age is whole unless the age
  is too young for what it missed (`Stale`). After a resize or a failure such
  buffers exist, and what saves them is `full_redraw`. `WholeInv` says that they
  are among a set of those the host hands out next (`Upcoming`), fewer than the
  whole frames still owed (`Outlived`). That holds if an EGL window rotates three
  buffers at most, which is the hypothesis `FewBuffers` and what `full_redraw = 4`
  takes for granted of the host; for X11 the number is free. TLC checked
  `WholeInv` with a history of 3 and one failure, and with histories of 1 and 2
  and two failures (170,877 and 515,847 states).

### ClientProofs

* `QueueHolds`, `AnswersHold`, `LookupsNeverFail`, about `Screencopy`: `QueueInv` adds
  to both properties that a frame never asked for is not copied, and that only a
  bound manager has frames (`Born`). So the two lookups that `screencopy.rs`
  unwraps succeed.
* `RefinementHolds`, about `IpcServer`: each step of a client, a worker, a channel or
  the loop is a step of `RpcService` or invisible. `IpcInv` relates the ends of a
  connection: a request in the channel is one a worker and a client wait for,
  unanswered, in the channel once; an answer is left once; and when the process
  is gone nobody waits.
* `KeysPairedHolds`, about `Keyboard`: `KeyInv` adds the sets and that a mark of
  `stale` can still do harm. The filter looks at the binds on a press only, so
  they stay unexpanded and may change between any two events. `KeyTypesHold` is the
  type invariant of keyboard and configuration together.
* `PressHolds`, about `LuaConfig`, `ConfigReload` and `Keyboard`: the state's part is
  small. `ConfigInv` says that the configuration in use is that of a script that
  parses and `lua_config` holds that script's functions or was lost, so a reload
  exchanges an index and the list it points into in one step. The rest is about
  the parser. `Faithful` holds after each call of a script (`BindFollows`,
  `OtherCallFollows`): there is a bind for a key exactly if there was a call for it,
  and the first bind stands for the first call, which for a function means that
  the index names it in the list, whatever was pushed since. `CollectedAsWritten`
  carries it over the fold of the calls by a least counterexample, `FirstBind` adds
  the returned table, `RoutedRight` the two backends.
* `LayoutHolds`: `ArrangedAsScriptSays`, by the same argument for the last call of
  `bk.layout` and its function. TLC agrees on the instance of `control`; no run lists
  it.

Several operations on stacks are defined by index or by position (`Filter`,
`First`, `Above`, `RemoveAt`) and not with `SelectSeq`, whose library definition is
recursive and so opaque to the provers; least and greatest numbers come from the
well-foundedness of the naturals. `LuaConfig` is written with `SelectInSeq`,
`SubSeq` and `FoldLeft` for the same reason: a fold of the community modules is a
CHOOSE of a function that satisfies its equations, and so can be reasoned about.

### Only model-checked

* What is temporal under fairness (`StopsEnd`, `ComesToRest`,
  `RenderedFramesLeave`, `CutLeavesNothing`, `RequestsEnd`, `LastEditLoads`,
  `LoopGoesOn`): liveness and ENABLED are out of the provers' reach.
* The violation `AskedWidthIsTheGrabs`, and the properties of section 6.

## 6. Where the code and its documents disagree

One run shows a disagreement: `retile_while_resizing`. A commit of one window
re-tiles another that the user is resizing, against the comment of the hook
(`AskedWidthIsTheGrabs`).

Others are stated as properties of the modules. TLC refutes each; no run lists
them, so that the runs are about what holds.

| property | module | the code |
|---|---|---|
| `WindowCastShowsWindow` | `CastStream` | a window cast falls through the pass over output casts, is resized to the output and rendered with its contents |
| `ClearFindsBuffer` | `CastStream` | `dequeue_buffer_and_clear` indexes `dmabufs` without testing for Ready; the buffer may have none |
| `FocusPrevVisitsAll` | `Workspaces` | focus-previous alternates between two windows, against the doc of `focus_cycle` |
| `SwitchFocusesTopmost` | `Workspaces` | a switch raises the bottommost visible window where its comment says topmost |
| `ReleaseTakesSlot` | `Workspaces` | a layout drag's release clears the target the layout just computed for the dropped window, against the doc of the grab |
| `ClosesWithLastContent` | `Screen` | a window unmapped, mapped again and closed shows the picture of its first unmapping, against the comment at `xdg.rs:642` |
| `KeepsCurrentOnError` | `ConfigReload` | a script that raises an error half way counts as loaded (`config.rs:1336`), against "keeping current config" (`config.rs:921`) and the top-level README |
| `CallbacksSurvive` | `ConfigReload` | a failed reload keeps the configuration and loses its Lua functions (`config.rs:904`, `config.rs:922`, `state.rs:1047`) |

Met while modelling, in no property:

* Resize. A release that changes nothing sends no configure and leaves
  `WaitingForFinalAck` until the next resize; a resize grab that is cancelled or
  replaced leaves Resizing; a client that is behind at the release moves the far
  edge with its late commits.
* Layout. `sizes_differ` compares truncated sizes, so a fraction above a half
  differs for ever and the layout asks again at each arrangement. Gaps wider than
  the area push slots out of it: only lengths are cut at 0. The first id
  handed out is 0, which also means none, so the first window gets a second one.
  A bar that reserves its zone re-tiles nothing until the next arrangement, and
  neither does an X11 window that goes, a cancelled drag, or a change of an
  output's scale or mode.
* Fullscreen. A request without an output is sized for the window's own output and
  shown on the first one; asking again for another output leaves the first
  covered; a client that has not bound the output cannot leave it; leaving clears
  the output whichever window fills it by now; a fullscreen window stays over a
  workspace that was switched away.
* Closing. The snapshot's position has the output's location taken off twice and
  is drawn on every output; the nested X11 backend never drops the pictures; the
  request of an X11 client to be unmapped asks it to close.
* Pointer. The motion event carries the surface under the old location;
  `clamp_coords` does not clamp `y` when `x` is at the right edge; the hit test
  finds hidden windows; a click on a bar that takes no keyboard focus focuses the
  window beneath it; the surfaces of one layer are drawn with the oldest on top
  (`render.rs:652-690`) and hit with the newest first (`input_handler.rs:526-529`,
  `:616-618`). `InputFollowsDrawing` excepts the hidden windows and the surfaces of
  one layer, and says so: without either exception TLC refutes it.
* Keys. A release that bypasses the filter leaves its key in `suppressed_keys`
  and a later release of it is swallowed; an old-style table that names an action
  only `bk.bind` knows rejects the whole file.
* Nested backends. winit.rs lowers `full_redraw` before it binds the buffer and
  goes on after a frame that failed, and either leaves old contents in a buffer
  that is shown frames later; run_x11 skips the dispatch when a buffer cannot be
  bound, so a lasting failure leaves it deaf to everything; it never takes a
  screenshot either, and the request stays pending; a resize of the winit window
  moves the output to the origin whatever the configuration says.
* Start. An edit between the load and the start of the watcher is lost; a second
  compositor removes the socket of the first.

## 7. Plan

Done: the control plane and the stream of casts, outputs, workspaces, resize, then
the layout, the screen with fullscreen and closing windows, screen copy, the IPC
socket, configuration and keyboard, the nested loops; the theorems of section 5.
Left, in order:

1. A composition of `UdevOutputs` with the output casts of `CastStream`: a cast of
   an output that goes away, and a redraw timer beside the loop of its output.
2. Layouts written in Lua as functions that may fail or return fewer plans than
   windows; pointer constraints; window rules.

Not modelled:

* Rendering beyond the order of elements, decorations, cursors: pixels, and no
  state that survives a frame but textures and damage.
* Popups, tablets, gestures, pointer constraints, drag and drop: handlers that
  forward to Smithay, whose state is not this repository's.
* Set-up and dma-buf imports of the nested backends.
* Start-up and input emulation: set-up once, and event forwarding.
* The other D-Bus interfaces: views that read `ipc_outputs` and the window list.
* DRM leases, dma-buf feedback, screenshots to files, and the settings of the
  configuration that only change looks.

------------------------------ MODULE Keyboard ------------------------------
(***************************************************************************)
(* From a key event to what it does (input_handler.rs): the filter that    *)
(* keeps bound keys from the client, the table of binds, the routing of    *)
(* the action to the backend or the common handler, and the call of a Lua  *)
(* function by the index in its bind.  The configuration may be reloaded   *)
(* between any two events.                                                 *)
(***************************************************************************)
EXTENDS ConfigReload, FiniteSets

CONSTANTS
  Key,      \* the keys of the keyboard
  Mod,      \* those of them that are modifiers
  VtKey     \* those that mean XF86Switch_VT_n under Ctrl and Alt

VARIABLES
  backend,          \* "udev", or "windowed" for the nested backends
  pressed_keys,     \* keys pressed as the keyboard handle has it
  down,             \* keys the focused client believes pressed
  suppressed_keys,  \* AnvilState.suppressed_keys
  stale,            \* suppressed keys released behind the filter's back (history)
  did,              \* what the last event did (history)
  running           \* AnvilState.running

keyVars == <<backend, pressed_keys, down, suppressed_keys, stale, did, running>>
controlVars == <<configVars, keyVars>>

KeyInit ==
  /\ backend \in {"udev", "windowed"}
  /\ pressed_keys = {} /\ down = {} /\ suppressed_keys = {} /\ stale = {}
  /\ did = <<>>
  /\ running = TRUE
-----------------------------------------------------------------------------
(* What a press means.                                                     *)

\* All modifiers of the bind are pressed and no others.
ModsMatch(bind, mods) == bind.mods \subseteq mods /\ mods \subseteq bind.mods

\* process_keyboard_shortcut: no action is the empty sequence.
Shortcut(binds, mods, k) ==
  IF k \in VtKey /\ {"Ctrl", "Alt"} \subseteq mods THEN <<[kind |-> "VtSwitch"]>>
  ELSE IF k = "Print" THEN <<[kind |-> "Screenshot"]>>
  ELSE LET hit == SelectInSeq(binds, LAMBDA b : ModsMatch(b, mods) /\ b.key = k)
       IN  IF hit = 0 THEN <<>> ELSE <<binds[hit].action>>

\* The common actions, which process_common_key_action handles.
Common ==
  {"Quit", "CloseWindow", "Run", "TogglePreview", "ToggleDecorations", "ToggleFloating",
   "Screenshot", "FocusNext", "FocusPrev", "WorkspaceNext", "WorkspacePrev", "Workspace",
   "ResizeWidthUp", "ResizeWidthDown", "ToggleFullscreen", "ToggleMaximize", "Callback"}

\* What the nested backends do themselves, and the display backend.
OwnActions ==
  IF backend = "udev"
    THEN {"VtSwitch", "Screen", "ScaleUp", "ScaleDown", "RotateOutput", "ToggleTint"}
    ELSE {"ScaleUp", "ScaleDown", "RotateOutput"}

\* invoke_callback, if there is a LuaConfig.
Invoke(idx) ==
  IF lua_config = <<>> THEN "no LuaConfig"
  ELSE IF idx < Len(lua_config[1]) THEN lua_config[1][idx + 1]
  ELSE "out of bounds"

\* process_input_event(_windowed) and process_common_key_action.
Effect(action) ==
  CASE action.kind \in OwnActions -> action.kind
    [] action.kind \in Common \ {"Callback"} -> action.kind
    [] action.kind = "Callback" -> Invoke(action.idx)
    [] OTHER -> "unsupported"
-----------------------------------------------------------------------------
\* A key is done with once nobody thinks of it as pressed or suppressed.
StillStale(s) == s \cap (pressed_keys' \cup down' \cup suppressed_keys')

\* keyboard_key_to_action for a press, without an exclusive layer surface.  The
\* modifiers include the key itself.  An inhibitor of the window under the
\* pointer turns the shortcuts off.
Press(k, inhibited) ==
  LET mods == (pressed_keys \cup {k}) \cap Mod
      action == IF inhibited THEN <<>> ELSE Shortcut(config.binds, mods, k)
  IN  /\ running /\ k \notin pressed_keys
      /\ pressed_keys' = pressed_keys \cup {k}
      /\ IF action # <<>>
         THEN /\ suppressed_keys' = suppressed_keys \cup {k}
              /\ down' = down
              /\ did' = <<[mods |-> mods, key |-> k, effect |-> Effect(action[1])]>>
              /\ running' = (Effect(action[1]) # "Quit")
         ELSE /\ suppressed_keys' = suppressed_keys
              /\ down' = down \cup {k}
              /\ did' = IF inhibited THEN <<>>
                        ELSE <<[mods |-> mods, key |-> k, effect |-> "none"]>>
              /\ UNCHANGED running
      /\ stale' = StillStale(stale)
      /\ UNCHANGED <<configVars, backend>>

\* A nested backend also hears of the release of a key pressed elsewhere.
Released(k) == k \in pressed_keys \/ backend = "windowed"

\* A mutated Release: the binds decide whether the client hears of it.
ReleaseByBinds(k) ==
  /\ running /\ Released(k)
  /\ pressed_keys' = pressed_keys \ {k}
  /\ down' = IF Shortcut(config.binds, pressed_keys \cap Mod, k) # <<>> THEN down ELSE down \ {k}
  /\ suppressed_keys' = suppressed_keys \ {k}
  /\ did' = <<>>
  /\ stale' = StillStale(stale)
  /\ UNCHANGED <<configVars, backend, running>>

\* keyboard_key_to_action for a release: a suppressed key's is kept as well.
Release(k) ==
  /\ running /\ Released(k)
  /\ pressed_keys' = pressed_keys \ {k}
  /\ down' = IF k \in suppressed_keys THEN down ELSE down \ {k}
  /\ suppressed_keys' = suppressed_keys \ {k}
  /\ did' = <<>>
  /\ stale' = StillStale(stale)
  /\ UNCHANGED <<configVars, backend, running>>

\* The same while a layer surface above the windows has exclusive keyboard
\* interactivity: every event goes to it and suppressed_keys is not looked at.
PressToLayer(k) ==
  /\ running /\ k \notin pressed_keys
  /\ pressed_keys' = pressed_keys \cup {k}
  /\ down' = down \cup {k}
  /\ did' = <<>>
  /\ UNCHANGED <<configVars, backend, suppressed_keys, stale, running>>

ReleaseToLayer(k) ==
  /\ running /\ Released(k)
  /\ pressed_keys' = pressed_keys \ {k}
  /\ down' = down \ {k}
  /\ did' = <<>>
  /\ UNCHANGED <<configVars, backend, suppressed_keys, running>>
  /\ stale' = StillStale(stale \cup (suppressed_keys \cap {k}))

\* release_all_keys, when the window of the X11 backend loses the focus: every
\* pressed key is released, unfiltered.
FocusLost ==
  /\ running /\ backend = "windowed"
  /\ pressed_keys' = {} /\ down' = down \ pressed_keys
  /\ did' = <<>>
  /\ UNCHANGED <<configVars, backend, suppressed_keys, running>>
  /\ stale' = StillStale(stale \cup (suppressed_keys \cap pressed_keys))

KeyNext ==
  \/ FocusLost
  \/ \E k \in Key :
       \/ \E inhibited \in BOOLEAN : Press(k, inhibited)
       \/ Release(k) \/ PressToLayer(k) \/ ReleaseToLayer(k)

\* A step of the configuration between two key events.
Between(configStep) ==
  /\ running /\ configStep
  /\ did' = <<>>
  /\ UNCHANGED <<backend, pressed_keys, down, suppressed_keys, stale, running>>

ControlNext == KeyNext \/ Between(ConfigNext)

ControlInit == ConfigInit /\ KeyInit

\* The loop polls its sources and timers as long as it runs; nobody has to
\* press a key or edit a file.
ControlFairness ==
  WF_controlVars(Between(FileChanged)) /\ WF_controlVars(Between(TimerFires))

ControlSpec == ControlInit /\ [][ControlNext]_controlVars /\ ControlFairness
-----------------------------------------------------------------------------
ControlTypeOK ==
  /\ ConfigTypeOK
  /\ backend \in {"udev", "windowed"}
  /\ pressed_keys \subseteq Key /\ down \subseteq Key
  /\ suppressed_keys \subseteq Key /\ stale \subseteq Key
  /\ Len(did) \in 0..1
  /\ running \in BOOLEAN

\* What is written last is what is used in the end: no edit is lost among the
\* events of several, whenever it falls between an event, the timer and the
\* reload.
LastEditLoads ==
  \A f \in Readable :
    (watching /\ file = f /\ events > 0) ~> (loaded = f \/ file # f \/ ~running)

\* IntendedEffect of every script and press.
Meant ==
  [f \in DOMAIN Scripts |-> [p \in (SUBSET Mod) \X Key |-> IntendedEffect(Scripts[f], p[1], p[2])]]

\* A press has the effect its author wrote for it in the script that is
\* loaded, the right Lua function included: indices, modifiers, precedence of
\* the binds and of the two styles of configuration, and the routing, hide
\* nothing.  Excepted are the keys taken before the binds, a function lost
\* with the LuaConfig, and what a nested backend does not support.
PressDoesWhatScriptSays ==
  did # <<>> =>
    LET meant == Meant[loaded][<<did[1].mods, did[1].key>>]
    IN  \/ did[1].effect = meant
        \/ did[1].key = "Print" /\ did[1].effect = "Screenshot"
        \/ did[1].key \in VtKey /\ {"Ctrl", "Alt"} \subseteq did[1].mods
        \/ lua_config = <<>> /\ meant \in Function
        \/ backend = "windowed" /\ meant \in {"VtSwitch", "Screen", "ToggleTint"}

\* A key the client saw pressed is released for it too, and one kept from it
\* is kept to the end, whatever is reloaded, inhibited or focused between press
\* and release: a key is suppressed exactly while it is pressed unseen by the
\* client.  Keys released behind the filter's back are excepted: their mark
\* stays in suppressed_keys and swallows a later release.
KeysPaired ==
  \A k \in Key \ stale :
    /\ k \in suppressed_keys <=> k \in pressed_keys \ down
    /\ k \in down => k \in pressed_keys
=============================================================================

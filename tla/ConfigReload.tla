--------------------------- MODULE ConfigReload -----------------------------
(***************************************************************************)
(* Loading the configuration at start and again when its file changes: the *)
(* watcher's thread, the channel to the main loop and the timer that       *)
(* gathers the events of half a second (config.rs, AnvilState::init and    *)
(* AnvilState::reload_config).                                             *)
(***************************************************************************)
EXTENDS LuaConfig

CONSTANTS
  Scripts,    \* a record from the names of possible files to their scripts
  Fallback,   \* the name in it that stands for Config::default()
  MaxEvents   \* bound on the changes not yet seen by the main loop

ASSUME ConfigAssumption ==
  /\ \A f \in DOMAIN Scripts : IsScript(Scripts[f])
  /\ Fallback \in DOMAIN Scripts /\ Parses(Scripts[Fallback])
  /\ MaxEvents \in Nat

VARIABLES
  file,                 \* the name of what is at config_path(), "missing" or "unreadable"
  watching,             \* spawn_config_watcher succeeded
  events,               \* changes on their way to the main loop
  config_reload_timer,  \* the flag of that name: a reload is due
  timers,               \* timers in the event loop that will reload
  config,               \* AnvilState.config
  lua_config,           \* AnvilState.lua_config: its callbacks, if it is there
  loaded                \* the name of the script config comes from (history)

configVars ==
  <<file, watching, events, config_reload_timer, timers, config, lua_config, loaded>>

\* parse_lua_config of every file that could be there.
Readable == {f \in DOMAIN Scripts : Parses(Scripts[f])}
Parsed == [f \in Readable |-> ConfigOf(Scripts[f])]
Functions == [f \in Readable |-> CallbacksOf(Scripts[f])]

\* load_config.  Where there is no file the shipped script is written and
\* parsed; the built-in configuration is used if it cannot be, and for a file
\* that does not parse.  The watcher may fail to start.
ConfigInit ==
  /\ file \in DOMAIN Scripts \cup {"missing", "unreadable"}
  /\ loaded = IF file \in Readable THEN file ELSE Fallback
  /\ config = Parsed[loaded]
  /\ lua_config = IF file \in Readable THEN <<Functions[file]>> ELSE <<>>
  /\ watching \in BOOLEAN
  /\ events = 0 /\ config_reload_timer = FALSE /\ timers = 0

\* Something writes, replaces or removes the file, or touches another one in
\* its directory; the watcher's thread sends a message for it.
Edit(f) ==
  /\ events < MaxEvents
  /\ file' = f
  /\ events' = IF watching THEN events + 1 ELSE events
  /\ UNCHANGED <<watching, config_reload_timer, timers, config, lua_config, loaded>>

\* The channel's callback: one timer, however many events.
FileChanged ==
  /\ events > 0
  /\ events' = events - 1
  /\ config_reload_timer' = TRUE
  /\ timers' = IF config_reload_timer THEN timers ELSE timers + 1
  /\ UNCHANGED <<file, watching, config, lua_config, loaded>>

\* reload_config: the functions move to AnvilState.lua_config.  On failure the
\* current configuration is cloned, and a clone has no LuaConfig to move.
Reload ==
  IF file \in Readable
    THEN /\ config' = Parsed[file]
         /\ lua_config' = <<Functions[file]>>
         /\ loaded' = file
    ELSE /\ lua_config' = <<>>
         /\ UNCHANGED <<config, loaded>>

\* A mutated TimerFires: the flag stays.
TimerFiresOnce ==
  /\ timers > 0
  /\ timers' = timers - 1
  /\ Reload
  /\ UNCHANGED <<file, watching, events, config_reload_timer>>

\* The timer's callback takes the flag.
TimerFires ==
  /\ timers > 0
  /\ timers' = timers - 1
  /\ config_reload_timer' = FALSE
  /\ IF config_reload_timer THEN Reload ELSE UNCHANGED <<config, lua_config, loaded>>
  /\ UNCHANGED <<file, watching, events>>

ConfigNext ==
  \/ \E f \in DOMAIN Scripts \cup {"missing", "unreadable"} : Edit(f)
  \/ FileChanged \/ TimerFires

\* Which function arranges the windows (Layout::compute_plans): a custom layout
\* without its function falls back to columns.
ArrangedBy ==
  LET l == config.layout
  IN  IF l.type # "custom" THEN l.type
      ELSE IF l.custom_fn = <<>> \/ lua_config = <<>> THEN "columns"
      ELSE IF l.custom_fn[1] < Len(lua_config[1]) THEN lua_config[1][l.custom_fn[1] + 1]
      ELSE "columns"
-----------------------------------------------------------------------------
\* The windows are arranged the way the loaded script says, with the function
\* it gave last; only where the functions are lost do columns stand in.
ArrangedAsScriptSays ==
  \/ ArrangedBy = IntendedLayout(Scripts[loaded])
  \/ lua_config = <<>> /\ ArrangedBy = "columns"

ConfigTypeOK ==
  /\ file \in DOMAIN Scripts \cup {"missing", "unreadable"}
  /\ watching \in BOOLEAN
  /\ events \in 0..MaxEvents
  /\ config_reload_timer \in BOOLEAN
  /\ timers = IF config_reload_timer THEN 1 ELSE 0
  /\ loaded \in DOMAIN Scripts

\* config.rs:921: "Failed to reload config file {:?}: {}, keeping current
\* config".  A script that raises an error is a failure to reload, so it
\* leaves the binds as they are.  No run checks it, TLC refutes it.
KeepsCurrentOnError ==
  [][(timers' < timers /\ file \in Readable /\ ~Completes(Scripts[file]))
       => config'.binds = config.binds]_configVars

\* config.rs:902: "Config file removed at {:?}, keeping current config", and
\* config.rs:41-42: "Lua runtime state with callback functions for
\* `BindAction::Callback`": the current configuration is kept with them.  No
\* run checks this one: TLC refutes it on MCControl (README, section 6).
CallbacksSurvive ==
  [][(timers' < timers /\ file \notin Readable) => lua_config' = lua_config]_configVars
=============================================================================

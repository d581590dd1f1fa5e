----------------------------- MODULE LuaConfig ------------------------------
(***************************************************************************)
(* What parse_lua_config makes of a configuration file (config.rs).  A     *)
(* script is a sequence of calls of the bk table and of statements that    *)
(* raise an error, followed by an old-style table it may return.  The      *)
(* calls collect binds and settings; Lua functions among their arguments   *)
(* are pushed onto one list, and binds and the layout refer to them by     *)
(* index.                                                                  *)
(***************************************************************************)
EXTENDS Naturals, Sequences, SequencesExt

CONSTANT Function  \* the Lua functions scripts contain

\* The actions that a table can describe, and those an old-style table may
\* name (parse_bind_action knows fewer).
TableActions ==
  {"Quit", "CloseWindow", "Run", "Screenshot", "ToggleDecorations", "TogglePreview",
   "ScaleUp", "ScaleDown", "RotateOutput", "ToggleTint", "VtSwitch", "Screen"}
Descriptors ==
  TableActions \cup
  {"ToggleFloating", "FocusNext", "FocusPrev", "WorkspaceNext", "WorkspacePrev",
   "Workspace", "ResizeWidthUp", "ResizeWidthDown", "ToggleFullscreen", "ToggleMaximize"}

\* A script has calls and returned binds, each some sequence.
IsScript(script) ==
  /\ script.body \in Seq(ToSet(script.body)) /\ script.returns \in Seq(ToSet(script.returns))
  /\ \A call \in ToSet(script.body) : call.name \in {"bind", "layout", "spawn", "error"}

\* What the calls of a script have collected: binds, the layout if bk.layout
\* was called, the commands to spawn, and the functions met.
Nothing == [binds |-> <<>>, layout |-> <<>>, commands |-> <<>>, callbacks |-> <<>>]

Raises(call) ==
  \/ call.name = "error"
  \/ call.name = "bind" /\ call.action \notin Descriptors \cup Function
  \/ call.name = "layout" /\ call.fn # "none" /\ call.type # "custom"

\* A mutated BindAction: the index is read after the push.
BindActionLate(call, acc) ==
  IF call.action \in Function
    THEN [kind |-> "Callback", idx |-> Len(acc.callbacks) + 1]
    ELSE [kind |-> call.action]

\* parse_action_value: a function becomes the index it is about to get.
BindAction(call, acc) ==
  IF call.action \in Function
    THEN [kind |-> "Callback", idx |-> Len(acc.callbacks)]
    ELSE [kind |-> call.action]

Bind(acc, call) ==
  [acc EXCEPT
     !.binds = Append(@, [mods |-> call.mods, key |-> call.key,
                          action |-> BindAction(call, acc)]),
     !.callbacks = IF call.action \in Function THEN Append(@, call.action) ELSE @]

\* parse_layout: the last call wins, and its function is one of the callbacks.
Layout(acc, call) ==
  [acc EXCEPT
     !.layout = <<[type |-> call.type,
                   custom_fn |-> IF call.fn = "none" THEN <<>> ELSE <<Len(acc.callbacks)>>]>>,
     !.callbacks = IF call.fn = "none" THEN @ ELSE Append(@, call.fn)]

\* One call.  bk.on_start calls its function at once: what it calls counts
\* where it stands.
Call(acc, call) ==
  CASE call.name = "bind" -> Bind(acc, call)
    [] call.name = "layout" -> Layout(acc, call)
    [] call.name = "spawn" -> [acc EXCEPT !.commands = Append(@, call.command)]

\* The calls made before the first error; a script with a syntax error makes none.
Executed(script) ==
  LET error == SelectInSeq(script.body, Raises)
  IN  IF error = 0 THEN script.body ELSE SubSeq(script.body, 1, error - 1)

Collected(script) == FoldLeft(Call, Nothing, Executed(script))

Completes(script) == Len(Executed(script)) = Len(script.body)

\* The binds of the returned table.  A script that fails returns nothing, and
\* its error is not looked at.
TableBinds(script) == IF Completes(script) THEN script.returns ELSE <<>>

\* Parsing fails only on an ill-formed table.
Parses(script) ==
  \A i \in 1..Len(TableBinds(script)) : TableBinds(script)[i].action \in TableActions

\* parse_binds.
OldBinds(script) ==
  [i \in 1..Len(TableBinds(script)) |->
     LET b == TableBinds(script)[i]
     IN  [mods |-> b.mods, key |-> b.key, action |-> [kind |-> b.action]]]

DefaultLayout == [type |-> "floating", custom_fn |-> <<>>]

\* The configuration of a script that parses: the binds of bk.bind replace
\* those of the table, and the defaults are not among either.
ConfigOf(script) ==
  LET c == Collected(script)
  IN  [binds |-> IF c.binds # <<>> THEN c.binds ELSE OldBinds(script),
       layout |-> IF c.layout # <<>> THEN c.layout[1] ELSE DefaultLayout,
       commands |-> c.commands]

\* Its LuaConfig: the functions in the order they were met.
CallbacksOf(script) == Collected(script).callbacks
-----------------------------------------------------------------------------
(* What an author of the script would say it means, without indices.       *)

\* The effect of a key: that of the first call of bk.bind for it; the binds of
\* the returned table count if bk.bind was never called.
IntendedEffect(script, mods, key) ==
  LET calls == Executed(script)
      table == TableBinds(script)
      i == SelectInSeq(calls, LAMBDA c : c.name = "bind" /\ c.mods = mods /\ c.key = key)
      j == SelectInSeq(table, LAMBDA b : b.mods = mods /\ b.key = key)
  IN  IF \E c \in ToSet(calls) : c.name = "bind"
        THEN IF i = 0 THEN "none" ELSE calls[i].action
        ELSE IF j = 0 THEN "none" ELSE table[j].action

\* What arranges the windows: the last call of bk.layout says it.
IntendedLayout(script) ==
  LET calls == Executed(script)
      i == SelectLastInSeq(calls, LAMBDA c : c.name = "layout")
  IN  IF i = 0 THEN DefaultLayout.type
      ELSE IF calls[i].type # "custom" THEN calls[i].type
      ELSE IF calls[i].fn = "none" THEN "columns" ELSE calls[i].fn
=============================================================================

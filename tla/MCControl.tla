------------------------------ MODULE MCControl -----------------------------
EXTENDS Keyboard

bind(mods, key, action) == [name |-> "bind", mods |-> mods, key |-> key, action |-> action]
layout(type, fn) == [name |-> "layout", type |-> type, fn |-> fn]
oldBind(key, action) == [mods |-> {}, key |-> key, action |-> action]
error == [name |-> "error"]
spawn == [name |-> "spawn", command |-> "bar"]

MCScripts ==
  [builtin |-> [body |-> <<bind({"Ctrl"}, "F1", "Quit")>>, returns |-> <<>>],
   functions |-> [body |-> <<layout("custom", "f1"), spawn, bind({}, "F1", "f2"),
                             bind({"Ctrl"}, "F1", "f1"), bind({"Ctrl"}, "F1", "ToggleTint")>>,
                  returns |-> <<oldBind("F1", "Quit")>>],
   typo |-> [body |-> <<bind({"Ctrl"}, "F1", "FocusNext"), error, bind({}, "F1", "Quit")>>,
             returns |-> <<oldBind("Print", "Nonsense")>>],
   old |-> [body |-> <<layout("columns", "none")>>, returns |-> <<oldBind("F1", "Screen")>>],
   ill |-> [body |-> <<bind({}, "F1", "ScaleUp")>>, returns |-> <<oldBind("F1", "FocusNext")>>]]
=============================================================================

----------------------------- MODULE MCScriptRun -----------------------------
(* Scripts of up to four statements; spare is another SQLite database that  *)
(* nobody may write to.                                                     *)
EXTENDS ScriptRun

CONSTANTS lite, net, my, spare

FourConnections == <<lite, net, my, spare>>
OnlyLite == <<lite>>
OneOfEach ==
  [n \in Names |->
     CASE n = net -> "postgres" [] n = my -> "mysql" [] OTHER -> "sqlite"]
ShortScripts == UNION {[1 .. n -> Kinds] : n \in 0 .. 4}
=============================================================================

---------------------------- MODULE MCScriptHost -----------------------------
(* Modules that declare no, one or two memories, with a maximum that bites *)
(* before the cap or not, and tables.                                      *)
EXTENDS ScriptHost

Object(kind, min, max) == [kind |-> kind, min |-> min, max |-> max]
MCModules ==
  {<<>>,
   <<Object("memory", 1, 2), Object("memory", 0, 3)>>,
   <<Object("memory", 1, 1), Object("table", 1, 2)>>,
   <<Object("memory", 4, 4)>>,
   <<Object("table", 1, 2), Object("table", 1, 2), Object("memory", 1, 2)>>,
   <<Object("memory", 2, 3), Object("memory", 2, 3)>>,
   <<Object("memory", 0, 1), Object("memory", 0, 1), Object("memory", 0, 1)>>}
=============================================================================

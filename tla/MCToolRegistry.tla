--------------------------- MODULE MCToolRegistry ---------------------------
(***************************************************************************)
(* A small instance of ToolRegistry: three tool names, one of which a scan *)
(* can find in three versions that differ in one field each (a description *)
(* edit, an explicit timeout, another parameter list).                     *)
(***************************************************************************)
EXTENDS ToolRegistry

CONSTANTS a, b, c

Tool(name, description, timeout, params) ==
  [name |-> name, path |-> name, description |-> description,
   timeout |-> timeout, params |-> params]

A1 == Tool(a, "first", NoTimeout, {})
A2 == Tool(a, "first", "30s", {})
A3 == Tool(a, "first", NoTimeout, {"p"})
A4 == Tool(a, "second", NoTimeout, {})
\* Spelling out the global default is a changed tool with an equal registration.
A5 == Tool(a, "first", GlobalTimeout, {})
B1 == Tool(b, "other", NoTimeout, {})
C1 == Tool(c, "third", "30s", {})

MCToolLists == {<<>>, <<A1, B1>>, <<A2, B1>>, <<A3, B1, C1>>,
                <<A4, C1>>, <<A5, B1>>, <<B1, C1>>}
MCGlobalTimeout == "5m"
==============================================================================

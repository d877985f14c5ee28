--------------------------- MODULE MCDiagnostics ---------------------------
(***************************************************************************)
(* Invocations for Diagnostics: calls of one script with the texts of      *)
(* frontmatter that MCLines can spell, and calls and live lists over every *)
(* directory of three files, two of which have one name.                   *)
(***************************************************************************)
EXTENDS Diagnostics

Line(d, t, p) == [description |-> d, timeout |-> t, param |-> p, long |-> FALSE]
Param(fields, texts) == Line(None, None, [fields |-> fields, texts |-> texts])

Plain == Line(None, None, None)
Size == <<"size", "number", "required">>

\* Every marker, the ways an annotation can be wrong, a name declared twice,
\* and lines with several markers: a description that goes on with "Timeout: 5s"
\* and "Param: ...", and a parameter described as "Timeout: ...".
MCLines == {
  Plain,
  [Plain EXCEPT !.long = TRUE],
  Line("renders", None, None),
  Line("renders again", "5s", [fields |-> <<"name", "string", "required">>,
                               texts |-> <<"title", "">>]),
  Line(None, "30s", None),
  Line(None, Invalid, [fields |-> Size, texts |-> <<"a limit", "">>]),
  Param(Size, <<"width", "">>),
  Param(<<"size", "boolean", "optional">>, <<"height", "">>),
  Param(<<"name", "string", "required">>, <<"title", "">>),
  Param(<<"9lives", "string", "required">>, <<"cat", "">>),
  Param(<<"size", "number">>, <<"depth", "">>),
  Param(Size, <<"width">>)}

MCFileNames == <<"convert.py", "convert.sh", "list">>
MCToolName == [name \in ToSet(MCFileNames) |-> IF name = "list" THEN "list" ELSE "convert"]

\* Every text of as many lines as are scanned, and some that go on.
MCTexts ==
  BoundedSeq(MCLines, scanHeaderLines)
  \cup {Append(begin, line) : line \in MCLines,
          begin \in [1..scanHeaderLines ->
                       {Plain, Line(None, "30s", None), Param(Size, <<"width", "">>)}]}

MCContents == ("script" :> {<<>>}) @@ ("documented" :> MCTexts)

MCLiveDirectories == [ToSet(MCFileNames) -> {"absent", "plain", "script"}]
Documented == [name \in ToSet(MCFileNames) |->
                 IF name = "convert.sh" THEN "documented" ELSE "absent"]
MCDirectories == MCLiveDirectories \cup {Documented}

Invocation(mode, tool, watch, d) == [mode |-> mode, tool |-> tool, watch |-> watch, dir |-> d]

MCRequests ==
    {Invocation("call-tool", tool, FALSE, d) :
        tool \in {"convert", "render", ""}, d \in MCDirectories}
    \cup {Invocation("list-tools", None, watch, d) : watch \in BOOLEAN, d \in MCLiveDirectories}

MCAlphabetical == <<"name", "size">>
MCFlagOf == [name |-> "--name", size |-> "--size"]

Values == {[type |-> "string", text |-> "a"], [type |-> "string", text |-> "true"],
           [type |-> "string", text |-> "--size"], [type |-> "number", text |-> "1"],
           [type |-> "boolean", text |-> "true"], [type |-> "boolean", text |-> "false"],
           [type |-> "null", text |-> "null"]}

MCRawArguments ==
    {[kind |-> k, args |-> None] : k \in {"blank", "null", "list", "two objects"}}
    \cup {[kind |-> "object", args |-> a] :
            a \in UNION {[keys -> Values] : keys \in SUBSET {"name", "size"}}
                  \cup {[verbose |-> [type |-> "boolean", text |-> "true"]]}}
=============================================================================

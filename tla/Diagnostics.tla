----------------------------- MODULE Diagnostics -----------------------------
(***************************************************************************)
(* The modes that start no server: --call-tool runs one tool and exits,    *)
(* --list-tools prints the tools and, with --watch, prints them again when *)
(* they change (diagnostic.go).  Both discover the tools first: the        *)
(* entries of the scripts directory in order, each with the scan of its    *)
(* frontmatter (discover.go, module Frontmatter).  A call then validates   *)
(* its arguments against the schema and turns them into a command line     *)
(* (schema.go, execute.go).                                                *)
(*                                                                         *)
(* The inputs are chosen where the program first looks at them: the lines  *)
(* of a script when it is opened, the arguments when they are parsed.      *)
(***************************************************************************)
EXTENDS Frontmatter, TLC

CONSTANTS
    Requests,       \* the invocations: [mode, tool, watch, dir]
    FileNames,      \* the names a directory can hold, in ReadDir's order
    ToolName,       \* file name -> the name without its extension
    Contents,       \* what a tool file can hold: kind -> its possible lines
    Directories,    \* the states of the directory: file name -> kind
    LiveDirectories,    \* those of them a live list goes through
    RawArguments,   \* values of --params: [kind, args]
    Alphabetical,   \* the argument names, in order
    FlagOf          \* argument name -> "--name"

\* An entry that is not there, and one that is no tool file: a directory, a
\* dangling link, a file without the mode bit.
NoTool == {"absent", "plain"}

ASSUME FilesAssumption ==
    /\ FileNames \in Seq(ToSet(FileNames))
    /\ \A i, j \in DOMAIN FileNames : FileNames[i] = FileNames[j] => i = j
    /\ LiveDirectories \subseteq Directories
    /\ \A d \in Directories : \A name \in ToSet(FileNames) :
         d[name] \in NoTool \cup DOMAIN Contents
    /\ \A kind \in DOMAIN Contents : Contents[kind] \subseteq Seq(Lines)
    /\ \A request \in Requests : request.dir \in Directories

\* Every parameter has a flag of its own, and a boolean is true or false.
ASSUME ArgumentsAssumption ==
    /\ Alphabetical \in Seq(ToSet(Alphabetical))
    /\ \A a, b \in ParamNames : FlagOf[a] = FlagOf[b] => a = b
    /\ \A raw \in RawArguments : raw.kind = "object" =>
         \A key \in DOMAIN raw.args :
           raw.args[key].type = "boolean" => raw.args[key].text \in {"true", "false"}

\* What is not there is nothing else.
ASSUME NoneAssumption ==
    /\ None \notin ToSet(FileNames)
    /\ None \notin {"no tool name", "paths", "scripts directory", "unknown tool", "params",
                    "start", "watch", "invalid", "failed", "result"}

-----------------------------------------------------------------------------
(* Arguments: a name -> [type, text], text being what fmt.Sprint gives; for *)
(* an array the texts of its elements.                                     *)

NoArguments == [key \in {} |-> None]

\* Nothing and null are an empty object; what is no single object is refused.
parseToolArguments(raw) == IF raw.kind \in {"blank", "null"} THEN NoArguments ELSE raw.args
Refused(raw) == raw.kind \notin {"blank", "null", "object"}

\* The schema admits no other property, has types that no null satisfies, and
\* misses no required one.
validateToolArguments(args, schema) ==
    /\ DOMAIN args \subseteq DOMAIN schema.properties
    /\ ToSet(schema.required) \subseteq DOMAIN args
    /\ \A key \in DOMAIN args : args[key].type = schema.properties[key].type

\* Faulty variant: what counts is the text, not the type.
CLIArgumentByText(key, value) ==
    CASE value.text = "true" -> <<FlagOf[key]>>
      [] value.text = "false" \/ value.type = "null" -> <<>>
      [] OTHER -> <<FlagOf[key], value.text>>

\* true is a flag alone, false and null are nothing, an array is a pair for
\* each element.
CLIArgument(key, value) ==
    CASE value.type = "boolean" -> IF value.text = "true" THEN <<FlagOf[key]>> ELSE <<>>
      [] value.type = "null" -> <<>>
      [] value.type = "array" ->
           FlattenSeq([i \in DOMAIN value.text |-> <<FlagOf[key], value.text[i]>>])
      [] OTHER -> <<FlagOf[key], value.text>>

\* One argument after the other in alphabetical order, for the first n names
\* and for all of them.
cliArgs(args) ==
    LET out[n \in 0..Len(Alphabetical)] ==
          IF n = 0 THEN <<>>
          ELSE IF Alphabetical[n] \notin DOMAIN args THEN out[n - 1]
          ELSE out[n - 1] \o CLIArgument(Alphabetical[n], args[Alphabetical[n]])
    IN out
argumentsToCLIArgs(args) == cliArgs(args)[Len(Alphabetical)]

-----------------------------------------------------------------------------
VARIABLES
    request,        \* the invocation
    stage,          \* where it is
    dir, readable,  \* the scripts directory
    entries,        \* the entries discoverTools has still to look at
    tools,          \* the tools it has found
    shadowed,       \* the files it has warned about
    printed,        \* the list on the screen; None before the first
    pending,        \* watchChanges owes a rescan
    args,           \* the parsed arguments
    launch,         \* [path, argv] of the script that was started; no path before
    out, err,       \* what call-tool wrote to stdout; the error on stderr
    status          \* the exit status

scan == vars
discovery == <<entries, tools, shadowed>>
surroundings == <<dir, readable>>
call == <<args, launch, out>>
ending == <<err, status>>
diagVars == <<scan, request, stage, surroundings, discovery, printed, pending, call, ending>>

DiagTypeOK ==
    /\ TypeOK
    /\ request \in Requests
    /\ stage \in {"start", "readdir", "entries", "extract", "lookup", "arguments", "validate",
                  "execute", "print", "watching", "exited"}
    /\ dir \in Directories /\ readable \in BOOLEAN /\ pending \in BOOLEAN
    /\ ToSet(entries) \cup shadowed \subseteq ToSet(FileNames)
    /\ out \in {None, "invalid", "failed", "result"}
    /\ status \in {None, 0, 1}

DiagInit ==
    /\ Idle
    /\ request \in Requests
    /\ stage = "start"
    /\ dir = request.dir /\ readable \in BOOLEAN
    /\ entries = <<>> /\ tools = <<>> /\ shadowed = {}
    /\ printed = None /\ pending = FALSE
    /\ args = NoArguments /\ launch = [path |-> None, argv |-> <<>>] /\ out = None
    /\ err = None /\ status = None

calling == request.mode = "call-tool"

\* The process ends; with an error record, with a text on stdout, or with
\* neither.
Exit(code, error) == stage' = "exited" /\ status' = code /\ err' = error
GoOn(to) == stage' = to /\ UNCHANGED ending

-----------------------------------------------------------------------------
(* runDiagnostic, and discoverTools over the entries of the directory. *)

\* --call-tool= without a name ends here, and so do bad paths.
nameless == calling /\ request.tool = ""
Start ==
    /\ stage = "start"
    /\ \/ nameless /\ Exit(1, "no tool name")
       \/ ~ nameless /\ Exit(1, "paths")
       \/ ~ nameless /\ GoOn("readdir")
    /\ UNCHANGED <<scan, request, surroundings, discovery, printed, pending, call>>

\* A directory that cannot be read ends the process, except for a live list.
ReadDir ==
    /\ stage = "readdir"
    /\ \/ /\ readable
          /\ entries' = Only(FileNames, {name \in ToSet(FileNames) : dir[name] # "absent"})
          /\ tools' = <<>> /\ shadowed' = {}
          /\ GoOn("entries")
       \/ /\ ~ readable /\ printed = None
          /\ Exit(1, "scripts directory")
          /\ UNCHANGED discovery
       \/ /\ ~ readable /\ printed # None
          /\ GoOn("watching")
          /\ UNCHANGED discovery
    /\ UNCHANGED <<scan, request, surroundings, printed, pending, call>>

SkipEntry ==
    /\ stage = "entries" /\ entries # <<>>
    /\ dir[Head(entries)] \in NoTool \/ ~ readable
    /\ entries' = Tail(entries)
    /\ UNCHANGED <<scan, request, stage, surroundings, tools, shadowed, printed, pending,
                   call, ending>>

OpenEntry ==
    /\ stage = "entries" /\ entries # <<>>
    /\ dir[Head(entries)] \notin NoTool /\ readable
    /\ \E lines \in Contents[dir[Head(entries)]] : Locals(lines, TRUE)
    /\ GoOn("extract")
    /\ UNCHANGED <<request, surroundings, discovery, printed, pending, call>>

Scan ==
    /\ stage = "extract" /\ ScanStep
    /\ UNCHANGED <<request, stage, surroundings, discovery, printed, pending, call, ending>>

Tool(entry) == [name |-> ToolName[entry], path |-> entry, description |-> description,
                params |-> params, timeout |-> timeout]

Taken(name) == \E i \in DOMAIN tools : tools[i].name = name

\* Faulty variant: the last file of a name is the one that counts.
RegisterLast ==
    /\ stage = "extract" /\ ~ scanning
    /\ LET entry == Head(entries)
           others == SelectSeq(tools, LAMBDA tool : tool.name # ToolName[entry])
       IN /\ tools' = Append(others, Tool(entry))
          /\ shadowed' = IF Taken(ToolName[entry]) THEN shadowed \cup {entry} ELSE shadowed
    /\ entries' = Tail(entries)
    /\ Locals(<<>>, FALSE)
    /\ GoOn("entries")
    /\ UNCHANGED <<request, surroundings, printed, pending, call>>

\* The first file of a name is its tool; another one is warned about, after
\* its frontmatter has been read too.
Register ==
    /\ stage = "extract" /\ ~ scanning
    /\ LET entry == Head(entries)
       IN IF Taken(ToolName[entry])
          THEN shadowed' = shadowed \cup {entry} /\ UNCHANGED tools
          ELSE tools' = Append(tools, Tool(entry)) /\ UNCHANGED shadowed
    /\ entries' = Tail(entries)
    /\ Locals(<<>>, FALSE)
    /\ GoOn("entries")
    /\ UNCHANGED <<request, surroundings, printed, pending, call>>

Discovered ==
    /\ stage = "entries" /\ entries = <<>>
    /\ GoOn(IF calling THEN "lookup" ELSE "print")
    /\ UNCHANGED <<scan, request, surroundings, discovery, printed, pending, call>>

Discovery == Start \/ ReadDir \/ SkipEntry \/ OpenEntry \/ Scan \/ Register \/ Discovered

-----------------------------------------------------------------------------
(* runCallTool. *)

Named == {i \in DOMAIN tools : tools[i].name = request.tool}
theTool == tools[CHOOSE i \in Named : TRUE]

Lookup ==
    /\ stage = "lookup"
    /\ IF Named = {} THEN Exit(1, "unknown tool") ELSE GoOn("arguments")
    /\ UNCHANGED <<scan, request, surroundings, discovery, printed, pending, call>>

ParseArguments(raw) ==
    /\ stage = "arguments"
    /\ \/ Refused(raw) /\ Exit(1, "params") /\ UNCHANGED args
       \/ ~ Refused(raw) /\ args' = parseToolArguments(raw) /\ GoOn("validate")
    /\ UNCHANGED <<scan, request, surroundings, discovery, printed, pending, launch, out>>

\* Faulty variant: a property that is required may be missing.
ValidateLoosely ==
    /\ stage = "validate"
    /\ IF validateToolArguments(args, [buildInputSchema(theTool.params) EXCEPT !.required = <<>>])
       THEN GoOn("execute") /\ UNCHANGED out
       ELSE Exit(1, None) /\ out' = "invalid"
    /\ UNCHANGED <<scan, request, surroundings, discovery, printed, pending, args, launch>>

\* What is wrong with the arguments is a result, on stdout.
Validate ==
    /\ stage = "validate"
    /\ IF validateToolArguments(args, buildInputSchema(theTool.params))
       THEN GoOn("execute") /\ UNCHANGED out
       ELSE Exit(1, None) /\ out' = "invalid"
    /\ UNCHANGED <<scan, request, surroundings, discovery, printed, pending, args, launch>>

\* executeTool: the script does not start, or it runs and fails or succeeds
\* (module ToolExec).
StartFails ==
    /\ stage = "execute"
    /\ Exit(1, "start")
    /\ UNCHANGED <<scan, request, surroundings, discovery, printed, pending, call>>

Runs(outcome) ==
    /\ stage = "execute"
    /\ launch' = [path |-> theTool.path, argv |-> argumentsToCLIArgs(args)]
    /\ out' = outcome
    /\ Exit(IF outcome = "failed" THEN 1 ELSE 0, None)
    /\ UNCHANGED <<scan, request, surroundings, discovery, printed, pending, args>>

CallTool == Lookup \/ (\E raw \in RawArguments : ParseArguments(raw)) \/ Validate
            \/ StartFails \/ Runs("failed") \/ Runs("result")

-----------------------------------------------------------------------------
(* runListTools. *)

\* The list is printed when it differs from the one that is there; without
\* --watch that is all.  The watcher rescans once when it is ready.
ShowList ==
    /\ stage = "print"
    /\ printed' = tools
    /\ IF request.watch THEN GoOn("watching") ELSE Exit(0, None)
    /\ pending' = (request.watch /\ (printed = None \/ pending))
    /\ UNCHANGED <<scan, request, surroundings, discovery, call>>

\* The directory changes, at any moment, and goes or comes back: watchChanges
\* sees to it that a rescan follows (module HotReload).
DirectoryChanges ==
    /\ request.mode = "list-tools" /\ request.watch
    /\ stage \notin {"start", "exited"}
    /\ \/ dir' \in LiveDirectories /\ UNCHANGED readable
       \/ readable' = ~ readable /\ UNCHANGED dir
    /\ pending' = TRUE
    /\ UNCHANGED <<scan, request, stage, discovery, printed, call, ending>>

Rescan ==
    /\ stage = "watching" /\ pending
    /\ pending' = FALSE
    /\ GoOn("readdir")
    /\ UNCHANGED <<scan, request, surroundings, discovery, printed, call>>

\* A watcher that fails ends the process with an error, a signal does not.
WatchEnds ==
    /\ stage = "watching"
    /\ Exit(1, "watch") \/ Exit(0, None)
    /\ UNCHANGED <<scan, request, surroundings, discovery, printed, pending, call>>

ListTools == ShowList \/ DirectoryChanges \/ Rescan \/ WatchEnds

Exited == stage = "exited" /\ UNCHANGED diagVars

DiagNext == Discovery \/ CallTool \/ ListTools \/ Exited

DiagSpec == DiagInit /\ [][DiagNext]_diagVars
-----------------------------------------------------------------------------
(* The references. *)

\* A script's reading of its arguments: it knows which of its parameters are
\* boolean, and takes what follows the name of any other as its value.
ReadNext(r, argv, types) ==
    LET flagged == {key \in DOMAIN types : FlagOf[key] = argv[r.next]}
        key == CHOOSE k \in flagged : TRUE
        Lost == [next |-> Len(argv) + 1, got |-> Append(r.got, None)]
        Got(text, words) == [next |-> r.next + words,
                             got |-> Append(r.got, [key |-> key, text |-> text])]
    IN IF r.next > Len(argv) THEN r
       ELSE IF flagged = {} THEN Lost
       ELSE IF types[key] = "boolean" THEN Got("true", 1)
       ELSE IF r.next = Len(argv) THEN Lost
       ELSE Got(argv[r.next + 1], 2)

read(argv, types) ==
    LET r[n \in 0..Len(argv)] ==
          IF n = 0 THEN [next |-> 1, got |-> <<>>] ELSE ReadNext(r[n - 1], argv, types)
    IN r
Reading(argv, types) == read(argv, types)[Len(argv)].got

\* What goes without saying on a command line.
Unsaid(value) == value.type = "boolean" /\ value.text = "false"

\* The declaration of a name that counts, by the place of its last one.
LastDeclared(declared, key) == Max({i \in DOMAIN declared : declared[i].name = key})
Declared(declared) == {declared[i].name : i \in DOMAIN declared}

\* A script that knows its own declarations reads from its command line exactly
\* the arguments of the call, in alphabetical order and without those that are
\* false, also when a value looks like a flag or a text like a boolean: the
\* same call is always the same command.
ArgvIsFaithful ==
    launch.path # None =>
        LET declared == theTool.params
            types == [key \in Declared(declared) |-> declared[LastDeclared(declared, key)].type]
            sent == Only(Alphabetical, {key \in DOMAIN args : ~ Unsaid(args[key])})
        IN Reading(launch.argv, types) =
             [i \in DOMAIN sent |-> [key |-> sent[i], text |-> args[sent[i]].text]]

\* The arguments have exactly the declared names, the types of their last
\* declarations, and every name that is required there.
Fits(arguments, declared) ==
    /\ DOMAIN arguments \subseteq Declared(declared)
    /\ \A key \in Declared(declared) :
         LET last == declared[LastDeclared(declared, key)]
         IN IF key \in DOMAIN arguments THEN arguments[key].type = last.type
            ELSE ~ last.required

\* The exit status and the two streams tell what happened to a call: 0 exactly
\* if the script ran and succeeded, one stream and not both speaks, an error on
\* stderr means that the script never started, and it is started exactly with
\* arguments that fit its declarations.  A live list ends with 0 unless its
\* error is on stderr.
ExitTellsOutcome ==
    stage = "exited" =>
        /\ calling =>
             /\ status = 0 <=> out = "result"
             /\ (err = None) # (out = None)
             /\ launch.path # None <=> out \in {"failed", "result"}
             /\ launch.path # None => Fits(args, theTool.params)
             /\ out = "invalid" => ~ Fits(args, theTool.params)
        /\ ~ calling => (status = 0 <=> err = None)

IsToolFile(name) == dir[name] \notin NoTool
Before(name, other) == \E i, j \in DOMAIN FileNames :
                          i < j /\ FileNames[i] = name /\ FileNames[j] = other

\* The files that stand for their names.
Winner(name) == /\ IsToolFile(name)
                /\ ~ \E other \in ToSet(FileNames) :
                       Before(other, name) /\ IsToolFile(other) /\ ToolName[other] = ToolName[name]

\* Once no rescan is owed, a live list shows for every name the first tool file
\* in directory order, in that order, and every other file of the name has
\* been warned about, through whichever changes it came: a file that goes
\* brings up the one it shadowed.
FirstFileWins ==
    stage = "watching" /\ ~ pending /\ readable =>
        /\ {printed[i].path : i \in DOMAIN printed} = {name \in ToSet(FileNames) : Winner(name)}
        /\ \A i, j \in DOMAIN printed : i < j => Before(printed[i].path, printed[j].path)
        /\ shadowed = {name \in ToSet(FileNames) : IsToolFile(name) /\ ~ Winner(name)}
==============================================================================

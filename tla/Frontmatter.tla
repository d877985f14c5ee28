----------------------------- MODULE Frontmatter -----------------------------
(***************************************************************************)
(* discover.go and schema.go: what a script says about itself.  A scan of  *)
(* the first lines collects the description, the timeout and the parameter *)
(* annotations, and the schema published to clients is built from them.    *)
(*                                                                         *)
(* A line is what the three markers find in it: a marker matches anywhere  *)
(* in the line, so one line can carry several.  An annotation is cut at    *)
(* its quotes: the fields before the first one and the text between every  *)
(* two of them, then the text after the last.                              *)
(***************************************************************************)
EXTENDS Naturals, Sequences, SequencesExt

CONSTANTS Lines,            \* the lines a file can have
          MaxLines,         \* bound: lines of a file
          scanHeaderLines,  \* the lines that are scanned
          ParamNames,       \* the names argumentKeyPattern accepts
          None,             \* a marker that is not in the line, a nil timeout
          Invalid           \* a text parseTimeoutDuration refuses

ASSUME ScanAssumption == MaxLines \in Nat /\ scanHeaderLines \in Nat \ {0}

paramTypes == {"string", "number", "boolean"}

-----------------------------------------------------------------------------
\* Two quotes at least; three fields before the first of them; a name, a type
\* and a status that are known.
ValidAnnotation(a) ==
  /\ Len(a.texts) >= 2
  /\ Len(a.fields) = 3
  /\ a.fields[1] \in ParamNames
  /\ a.fields[2] \in paramTypes
  /\ a.fields[3] \in {"required", "optional"}

\* The description runs from the first quote to the last.
parseParamAnnotation(a) ==
  [name        |-> a.fields[1],
   type        |-> a.fields[2],
   required    |-> a.fields[3] = "required",
   description |-> Front(a.texts)]

\* Faulty variant: a repeated name moves to the end.
normalizeMoving(params) ==
  FoldLeft(LAMBDA out, p : Append(SelectSeq(out, LAMBDA q : q.name # p.name), p), <<>>, params)

\* A declaration takes the place of an earlier one of its name, or the last one.
Declare(out, p) ==
  IF \E i \in DOMAIN out : out[i].name = p.name
  THEN [i \in DOMAIN out |-> IF out[i].name = p.name THEN p ELSE out[i]]
  ELSE Append(out, p)

\* Each name at its first position with its last declaration, for the first n
\* declarations and for all of them.
normalized(params) ==
  LET out[n \in 0..Len(params)] == IF n = 0 THEN <<>> ELSE Declare(out[n - 1], params[n])
  IN out
normalizeParams(params) == normalized(params)[Len(params)]

\* The elements of a sequence that are in a set, in their order.
kept(s, S) ==
  LET out[n \in 0..Len(s)] ==
        IF n = 0 THEN <<>> ELSE IF s[n] \in S THEN Append(out[n - 1], s[n]) ELSE out[n - 1]
  IN out
Only(s, S) == kept(s, S)[Len(s)]

\* The schema: the properties by name, and the required names.
buildInputSchema(params) ==
  LET normal == normalizeParams(params)
      required == Only(normal, {p \in ToSet(normal) : p.required})
      Named(n) == CHOOSE p \in ToSet(normal) : p.name = n
  IN [properties |-> [n \in {p.name : p \in ToSet(normal)} |->
                        [type |-> Named(n).type, description |-> Named(n).description]],
      required   |-> [i \in DOMAIN required |-> required[i].name]]

-----------------------------------------------------------------------------
VARIABLES file,             \* the lines of the script
          scanning,         \* extractFrontmatter has not returned
          lineCount,
          description, descriptionSeen,
          timeout, timeoutSeen,
          params,           \* the parameters collected
          warned            \* the lines a warning was logged for

vars == <<file, scanning, lineCount, description, descriptionSeen,
          timeout, timeoutSeen, params, warned>>

Annotations == {line.param : line \in Lines} \ {None}

\* Every variable has its type; a refused timeout is never stored.
TypeOK ==
  /\ file \in BoundedSeq(Lines, MaxLines)
  /\ scanning \in BOOLEAN
  /\ lineCount \in 0..scanHeaderLines
  /\ description \in {line.description : line \in Lines} \cup {None}
  /\ timeout \in ({line.timeout : line \in Lines} \cup {None}) \ {Invalid}
  /\ descriptionSeen \in BOOLEAN /\ timeoutSeen \in BOOLEAN
  /\ params \in Seq({parseParamAnnotation(a) : a \in {b \in Annotations : ValidAnnotation(b)}})
  /\ warned \subseteq 1..MaxLines

\* Nothing is being scanned.
Idle ==
  /\ file = <<>> /\ scanning = FALSE
  /\ lineCount = 0
  /\ description = None /\ descriptionSeen = FALSE
  /\ timeout = None /\ timeoutSeen = FALSE
  /\ params = <<>>
  /\ warned = {}

\* extractFrontmatter is called on a script with these lines, or is over and
\* forgets its locals.
Locals(lines, begun) ==
  /\ file' = lines /\ scanning' = begun
  /\ lineCount' = 0
  /\ description' = None /\ descriptionSeen' = FALSE
  /\ timeout' = None /\ timeoutSeen' = FALSE
  /\ params' = <<>>
  /\ warned' = {}

\* The line the scan comes to next; one that does not fit the scanner's buffer
\* is not a line.
number == lineCount + 1
CanRead == scanning /\ lineCount < scanHeaderLines /\ number <= Len(file) /\ ~ file[number].long
here == file[number]

\* The file cannot be opened: the scan sees no line, and everything keeps its
\* zero value.
OpenFails ==
  /\ scanning /\ lineCount = 0
  /\ scanning' = FALSE /\ file' = <<>>
  /\ UNCHANGED <<lineCount, description, descriptionSeen, timeout, timeoutSeen,
                 params, warned>>

\* The first description counts.
DescriptionLine ==
  /\ CanRead
  /\ here.description # None
  /\ description' = IF descriptionSeen THEN description ELSE here.description
  /\ descriptionSeen' = TRUE
  /\ lineCount' = number
  /\ UNCHANGED <<file, scanning, timeout, timeoutSeen, params, warned>>

\* Faulty variant: an invalid value does not count as the first one.
TimeoutLineRetrying ==
  /\ CanRead
  /\ here.description = None /\ here.timeout # None
  /\ timeoutSeen' = (timeoutSeen \/ here.timeout # Invalid)
  /\ timeout' = IF timeoutSeen \/ here.timeout = Invalid THEN timeout ELSE here.timeout
  /\ warned' = IF ~ timeoutSeen /\ here.timeout = Invalid THEN warned \cup {number} ELSE warned
  /\ lineCount' = number
  /\ UNCHANGED <<file, scanning, description, descriptionSeen, params>>

\* The first timeout counts, valid or not.
TimeoutLine ==
  /\ CanRead
  /\ here.description = None /\ here.timeout # None
  /\ timeoutSeen' = TRUE
  /\ timeout' = IF timeoutSeen \/ here.timeout = Invalid THEN timeout ELSE here.timeout
  /\ warned' = IF ~ timeoutSeen /\ here.timeout = Invalid THEN warned \cup {number} ELSE warned
  /\ lineCount' = number
  /\ UNCHANGED <<file, scanning, description, descriptionSeen, params>>

\* An annotation counts unless the line is taken for one of the others.
ParamLine ==
  /\ CanRead
  /\ here.description = None /\ here.timeout = None /\ here.param # None
  /\ \/ /\ ValidAnnotation(here.param)
        /\ params' = Append(params, parseParamAnnotation(here.param))
        /\ UNCHANGED warned
     \/ /\ ~ ValidAnnotation(here.param)
        /\ warned' = warned \cup {number}
        /\ UNCHANGED params
  /\ lineCount' = number
  /\ UNCHANGED <<file, scanning, description, descriptionSeen, timeout, timeoutSeen>>

PlainLine ==
  /\ CanRead
  /\ here.description = None /\ here.timeout = None /\ here.param = None
  /\ lineCount' = number
  /\ UNCHANGED <<file, scanning, description, descriptionSeen, timeout, timeoutSeen,
                 params, warned>>

\* Faulty variant: the scanner's error is not looked at.
ScanEndsSilent ==
  /\ scanning /\ ~ CanRead
  /\ scanning' = FALSE
  /\ UNCHANGED <<file, lineCount, description, descriptionSeen, timeout, timeoutSeen, params,
                 warned>>

\* The scan ends: enough lines, no more lines, or a line that is too long,
\* which is warned about.
ScanEnds ==
  /\ scanning /\ ~ CanRead
  /\ scanning' = FALSE
  /\ warned' = IF lineCount < scanHeaderLines /\ number <= Len(file)
               THEN warned \cup {number} ELSE warned
  /\ UNCHANGED <<file, lineCount, description, descriptionSeen, timeout, timeoutSeen, params>>

ScanStep == OpenFails \/ DescriptionLine \/ TimeoutLine \/ ParamLine \/ PlainLine \/ ScanEnds

-----------------------------------------------------------------------------
(* The reference: what the frontmatter of a whole file is. *)

\* The lines that count, and those that are too long to be scanned.
Window == {i \in 1..Len(file) : i <= scanHeaderLines /\ \A j \in 1..i : ~ file[j].long}
Overlong == {i \in 1..Len(file) : i <= scanHeaderLines /\ file[i].long}

Firsts(S) == {i \in S : \A j \in S : i <= j}

First(S, value(_), default) ==
  IF S = {} THEN default ELSE value(CHOOSE i \in S : \A j \in S : i <= j)

DescriptionLines == {i \in Window : file[i].description # None}
TimeoutLines == {i \in Window \ DescriptionLines : file[i].timeout # None}
ParamLines == {i \in Window \ (DescriptionLines \cup TimeoutLines) : file[i].param # None}
Declarations == {i \in ParamLines : ValidAnnotation(file[i].param)}

\* A tool's description is its first one, also when others follow it, and the
\* first timeout decides: an invalid one means the global timeout for the tool
\* even if a valid one follows.  Only the lines before an overlong one and up
\* to the limit count.
FirstOccurrenceWins ==
  ~ scanning =>
    /\ description = First(DescriptionLines, LAMBDA i : file[i].description, None)
    /\ timeout = First(TimeoutLines,
                       LAMBDA i : IF file[i].timeout = Invalid THEN None ELSE file[i].timeout,
                       None)

\* The published schema has exactly the declared names; each has the type, the
\* description and the required status of its LAST declaration, a name is never
\* required twice, and the names keep the order of their FIRST declarations:
\* editing a later duplicate never reorders the parameters a client sees.
LastDeclarationWins ==
  LET Name(i) == file[i].param.fields[1]
      Same(i) == {j \in Declarations : Name(j) = Name(i)}
      schema == buildInputSchema(params)
      normal == normalizeParams(params)
      FirstAt(n) == Min({i \in Declarations : Name(i) = n})
  IN ~ scanning =>
       /\ DOMAIN schema.properties = {Name(i) : i \in Declarations}
       /\ \A i \in Declarations :
            LET last == parseParamAnnotation(file[Max(Same(i))].param)
            IN /\ schema.properties[Name(i)] =
                    [type |-> last.type, description |-> last.description]
               /\ Name(i) \in ToSet(schema.required) <=> last.required
       /\ IsInjective(schema.required)
       /\ \A i, j \in DOMAIN normal :
            i < j => FirstAt(normal[i].name) < FirstAt(normal[j].name)

\* What cannot be taken over: a wrong annotation, the first timeout if it is
\* invalid (a later one is not looked at), and the first line that is too long.
RefusedLines ==
  (ParamLines \ Declarations)
  \cup {i \in Firsts(TimeoutLines) : file[i].timeout = Invalid}
  \cup Firsts(Overlong)

\* The lines that are warned about are exactly those that are refused, up to the
\* end of the scan and the line that cuts it short, and every annotation that
\* was looked at is collected or warned about.  An annotation in a line that is
\* taken for a description or a timeout is not looked at, and nothing is said
\* about it.
RefusedIsWarned ==
  ~ scanning => warned = RefusedLines /\ Len(params) = Cardinality(ParamLines \ warned)
==============================================================================

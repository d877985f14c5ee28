# mcp-commands: a verification project

`mcp-commands` (Go) turns a directory of executable scripts into MCP tools. It
scans the directory, reads each script's frontmatter, registers one tool per
script with the MCP SDK, runs the script as a subprocess when a client calls
the tool, and — with `--watch` — follows changes of the directory while clients
are connected. It serves over stdio or over HTTP.

This directory holds TLA+ models of that program, the TLC configurations that
check them, and TLAPS proofs about them. Line numbers refer to the Go files in
`src/`; `PROJECT.json` maps every definition to the lines it stands for.

1. [Inventory](#1-inventory)
2. [Modules](#2-modules)
3. [Runs, bounds, fairness](#3-runs-bounds-fairness)
4. [Where the code and its documentation differ](#4-where-the-code-and-its-documentation-differ)
5. [Proofs](#5-proofs)
6. [What is not modelled](#6-what-is-not-modelled)
7. [Plan](#7-plan)

## 1. Inventory

| Component | State | Operations | Correct when | Module |
|---|---|---|---|---|
| Tool registry (`registry.go`) | `r.mu`, `r.current`, the SDK's tool table | `replace`, `replaceIfChanged`, `addToolLocked` | no tool of both sets is ever missing; every visible registration is the old or the new one; the baseline is what is served; no needless notification | ToolRegistry, Catalogue |
| Execution slots (`registry.go`) | `slot.sem` | `tryAcquire`, `release` | slots are given back once on every path; scripts never exceed slots | ToolExec |
| Tool execution (`execute.go`, `toolproc_unix.go`) | the handler, the process, its group, os/exec's watcher, the context | `executeTool`, `killToolProcess` | a call with a deadline or an aborted one returns; the script is gone first; a success is complete | ToolExec |
| Output capture (`execute.go`) | `boundedWriter` per stream | `Write`, `combineToolOutput`, `boundLogValue` | captures are prefixes; losses are marked; text stays text | ToolOutput |
| Hot reload (`watch.go`) | the inotify watches, the event queue, the debounce timer and flag | `watchTools`, `watchChanges`, `reattach` | no change and no watch is lost; the registry converges to the directory; cancellation ends it | HotReload |
| Discovery scan (`discover.go`) | local | `discoverTools`, `isToolFile` | what is registered is what is in the directory; names are unique | HotReload (scan), Diagnostics (names) |
| Frontmatter and schema (`discover.go`, `schema.go`) | the scan's locals | `extractFrontmatter`, `parseParamAnnotation`, `normalizeParams`, `buildInputSchema` | first or last declaration wins as documented; what is refused is warned about | Frontmatter, Diagnostics |
| Timeouts (`timeout.go`) | the parser's locals | `parseTimeoutDuration`, `resolveToolTimeout`, `resolveTimeout` | an accepted duration is the one written; no wraparound | ToolTimeout, ToolRegistry, CommandLine |
| Server lifecycle (`server.go`, `prod.go`) | four goroutines, four channels, `sigCtx` | `run`, `main` | one truthful shutdown record; the right exit status; the process ends | ServerRun |
| HTTP gate (`http.go`, `server.go`) | the configuration; request, handlers left, clock, socket deadline | `checkHTTPSecurityPolicy`, `buildHTTPHandler`, CORS, bearer authentication, `bodyReadDeadline` | nobody reaches the tools without the credential the operator set; browsers and the server agree on origins; a body is bounded in time | HttpGate |
| Arguments (`execute.go`, `schema.go`) | none | `parseToolArguments`, validation, `argumentsToCLIArgs` | the command line carries exactly the arguments of the call | Diagnostics |
| Command line (`flags.go`) | none | `parseCLI` and its resolvers | what a mode ignores has no effect; a flag hides its variable; the first error in a fixed order | CommandLine |
| Diagnostics (`diagnostic.go`, `main.go`) | the last printed list | `runCallTool`, `runListTools`, `discoverTools` | the exit status tells what happened; names resolve first wins | Diagnostics |
| List rendering, log handler, non-unix processes, completion, container, docs | none that matters | formatting, packaging | — | not modelled |

How they interact: `run` scans the directory, calls `registry.replace` with the
result, and starts a watcher goroutine that calls `replaceIfChanged` from then
on, under the same mutex. The SDK's request goroutines read the tool table and
call the handlers without that mutex. A handler validates, takes a slot, and
runs `executeTool`, which shares a context with the request and a goroutine of
`os/exec` that kills. `run` collects the watcher, the server goroutine and the
signal in a `select`; an HTTP server adds a goroutine for the shutdown. In front
of all this `main` turns flags and environment into a configuration or an exit
status, and the diagnostic modes run discovery and a single call without a
server. Over HTTP each request passes a stack of handlers before the SDK reads
its body.

The hard parts: the table is visible in the middle of a replacement; the file
system moves during a scan, before the first watch exists and while a watch is
being re-established; the kernel's queue is finite; a kill races the end of the
process, of its children and of the pipes; the `select` takes any ready arm;
a context does not say who ended it; byte limits meet multi-byte characters;
machine integers wrap; a dozen settings, their variables and files interact; a
client decides how slowly its body arrives. `PROJECT.json` lists these hazards line by line, each
with the properties that cover it.

## 2. Modules

Each state-machine module has the program's variables, `Init`, one action per
step that another actor can see or interrupt, `Next`, `Spec` and, where it has
liveness properties, `FairSpec`. Next to some actions stands a *faulty variant*:
the same action with a bug one could plausibly write. The variants are not part
of `Next`; each is put in place of its original to confirm that a property
notices (`mutants` in `PROJECT.json`).

**Catalogue** is the abstract specification of the registry: the served
catalogue moves from one complete set of registrations to the next, every name
goes over in a single step, names that keep their registration are not touched.
It has no lock, diff or loop.

**ToolRegistry** models `registry.go`. A writer is a goroutine in `replace` or
`replaceIfChanged`: `Call`, then `Skip` (the set is equal) or `Lock`,
`RemoveTools` (one SDK call), one `AddTool` per iteration of the loop, `Unlock`
(the baseline is stored, the mutex released). `sdk` is the SDK's table as
clients see it between any two of these. `Registration` is all that
`addToolLocked` hands over: description with the timeout suffix, schema, path
and timeout. ToolRegistry implements Catalogue under the mapping that takes the
mutex holder's list for the target.

**HotReload** models `watch.go` and the scan in `discover.go` as one goroutine
with a program counter: the startup scan, `AddDir`, `AddParent`, the guaranteed
rescan, then the loop. Around it the file system edits, deletes, chmods,
removes and recreates the directory and its parent at any moment, including
between a scan's `StatEntry` and `ReadEntry`. An event is of one of four kinds:
`child` (a relevant operation on an entry), `self` (the path itself came or
went), `inert` (an operation outside `watchSpecEvents`), `overflow`.
`reattach` and `Arm` are parts of `HandleEvent`. `Apply` takes the replacement
of the tool set as one step: the steps inside are ToolRegistry's.
`Environment` selects what may happen besides edits: `replace` (of the
directory), `chmod`, `overflow`, `ancestor` (the parent is deleted, which the
README of the program excludes).

**ToolExec** models a call from the handler to the result: slots, `executeTool`,
the process with its in-group and detached descendants, os/exec's context
watcher, `WaitDelay`, and the classification. Go's `os/exec` and the kernel are
external and modelled as this code uses them: `Wait` reaps the process, takes the
watcher's result (which stops the watcher), then waits for the pipes for at most
`WaitDelay`; the watcher calls `cmd.Cancel`, waits `WaitDelay`, and closes the
pipes. Time limits are steps that may happen at any moment.

**ServerRun** models `run` for both transports, and `main`'s exit status: the
select and what follows it step by step, the shutdown goroutine, the server
goroutine and the watcher's result. A signal and `run`'s own `cancel()` end the
same context; the model remembers which one did, the code cannot.

**Frontmatter** models the header scan and the schema: the state of the scan, one
action per line. A line is what the three markers find in it — a marker matches
anywhere in a line — and an annotation is its fields and the texts between its
quotes. A file that cannot be opened is one without lines, and a line that does not
fit the scanner's buffer ends the scan.

**Diagnostics** extends Frontmatter with the modes that start no server. `ReadDir`,
then for each entry `SkipEntry` or `OpenEntry`, the scan of its lines and
`Register`, which keeps the first file of a name; a call goes on with `Lookup`,
`ParseArguments` and `Validate`, which ends in a command line (`argumentsToCLIArgs`,
one argument after the other) and the result of
the script, whose reading of that command line by the published schema is
`Reading`; a list with `ShowList` and, under `--watch`, with changes of the
directory and `Rescan`s. That a change is followed by a rescan is HotReload's
guarantee and taken here as the flag `pending`. A value of an argument is its
JSON type and its text. `MCDiagnostics` holds lines, directories and arguments.

**CommandLine** models `flags.go` and the resolvers it calls as operators: the
checks of `parseCLI` are a sequence, of which the first error counts, and which
of them are in it depends on the mode. Files are functions from paths to their
contents or to the reason for refusing them. The flags that a diagnostic mode
ignores are announced as a set; the order of that list is left out.

**HttpGate** takes a command line through `Parse`, `Policy` and `Listen` and then
follows one connection: `RequestArrives` stacks the handlers, each handler is an
action that answers or passes on, and the body is read in units while a clock
runs. `sock` is the connection's read deadline; net/http clears it at the end of
a body and resets it before the next request. `readErr` is the error of the last
read, apart from the status, because the SDK answers 400 on other grounds too: for
an `Accept` header before it reads (`http_test.go:363`), for a message it cannot
decode after. How browsers write hosts and ports is not in the server's code and a
parameter of the reference (`BrowserHost`, `BrowserPort`). `MCHttpGate` holds the
settings.

**ToolOutput** models the bounded capture and the final cut on bytes that are
starts of characters of one to four bytes, or continuations. A result is its text
and whether the mark follows; a value that the log's bound cuts ends in its
indicator, a character of three bytes. What a script may
write is the constant `Texts`, sequences of whole characters (`MCToolOutput`
builds some); chunks may end in the middle of one.

**ToolTimeout** models the duration parser with integers of `maxDuration` in two's
complement: `Wrap` is applied to every product and sum. Its reference is in
unbounded integers: `Grammatical` says which texts are durations, `Denoted` is the
last of a text's partial sums.

## 3. Runs, bounds, fairness

| Run | Instance | Shows |
|---|---|---|
| `registry` | 2 writers, 3 names, 7 lists (a description, a timeout, a parameter list and a spelled-out default changed one at a time) | NoGap: a tool of the old and the new list is never missing in between. BaselineServed: with the mutex free the SDK serves what `r.current` says. NoChurn: a list equal to the baseline announces nothing. ImplementsCatalogue |
| `hotreload` | 2 scripts, 2 texts, queue of 2, directory replaced | NoLostChange: while the registry differs from the directory a rescan is on its way. NoLostWatch: while the directory has no watch an event is on its way that re-adds it. Converges: when the file system rests, the two agree for good |
| `hotreload_faults` | 1 script, 2 texts, everything happens | DebounceMatchesTimer: the flag never sticks. RescanHappens: changes do not put the rescan off for ever. CancelStops: nor the end |
| `exec` | 2 calls, 1 slot, timed and untimed | SlotConservation, ScriptsBounded, NoScriptOutlivesCall, SuccessIsComplete (status zero, output whole), KillTakesGroup, BoundedCallReturns (timed or aborted calls return whatever their descendants do) |
| `serverrun` | both transports, 2 requests in flight | TruthfulRecord: the recorded reason is the cause. OneRecord. CleanExitIsAsked: status zero only when a signal or the client asked. DrainsBeforeExit: requests in flight keep their five seconds, whoever ends the server. SignalRecorded, RunReturns |
| `output` | limit 9 bytes, tags of 3, up to 3 characters per stream | CaptureIsExact: a capture is the longest prefix that fits, and the flag says whether it is all. NoSilentLoss: what was cut is marked. TextStaysText: neither cut breaks a character, nor does the log's bound on a value |
| `http` | a loopback HTTP server with up to two settings changed (three among those that decide who may call), 7 origins, one of them with a Unicode host, 3 tokens, bodies of up to 3 units, a timeout of 2 ticks | IgnoredMeansIgnored: what a mode ignores is as if it had not been given, and is announced. ToolsAreGuarded: only the strongest credential gets to the tools. OriginsAsBrowsersDo: CORS headers go only to origins that are listed as browsers compare them, and to all that are listed in a browser's spelling. BodyIsBounded: one deadline for the whole body, none for the call |
| `diagnostics` | texts of up to 4 of 12 lines, 3 scanned; 27 directories of three files, two of them with one tool name; 60 argument values | FirstOccurrenceWins (description and timeout), LastDeclarationWins (parameters, at their first place), RefusedIsWarned: exactly the lines that are refused have a warning, the one that is too long among them, and the other annotations are collected. ArgvIsFaithful: the command line can be read back into the arguments. ExitTellsOutcome. FirstFileWins: also after the first file is gone |
| `timeout` | texts of up to 5 lexemes, five-bit integers, units 2, 3, 5 | ParsesExactly: the accepted texts are the well-formed ones that fit, with the sum a reference in unbounded integers computes |

`registry`, `hotreload_faults`, `exec` and `timeout` also check their module's
`TypeOK`. ServerRun, HttpGate and ToolOutput state one that is proved instead.
Diagnostics' is for the reader: it contains the bound `MaxLines`, and what its
proofs need of it is the unbounded `DiagType`.

Why the bounds are enough. *registry*: a replacement touches a name in one of
four ways (kept, changed, added, removed), and the seven lists contain every
pair of them; the mutex is about two writers, and the theorems hold for any
number of writers and lists. *hotreload*: two entries are what it takes for one to change
behind a scan that has passed it while another is still to come; a queue of two
overflows with one event in front of the mark; a full queue holds changes back
where `overflow` is not among the happenings, and the safety part is proved for
every number of files and queue length (and `TypeOK` and `DebounceMatchesTimer`
in every environment). *exec*: one slot and two calls are
the smallest contention, and the calls meet nowhere but at the slots. *serverrun*:
the state of a request in flight is whether there is one. *http*: a setting
interacts with its own variable, with the mode and with the file of its kind,
which are pairs; who may call depends on host, key, key file, variable and the
waiver, of which three decide. Two ticks and three units put a read before, at
and after the deadline and a body below, at and above the limit; the theorems
hold for every number of both. *diagnostics*: the fourth line lies
beyond the limit, and three lines allow a first, a repeated and a later
declaration; of three files two collide and one stands apart; the theorems hold
for every text, window, directory and argument. *output*: nine bytes end inside the third character of four bytes, and
with the tags inside the first or second, so both cuts fall inside
characters; tags of three bytes suffice (the source has nine) because a
character that the first cut has broken has at most three bytes; the theorems
hold for every limit, tag and text.
*timeout*: 16 = 2^4 with units 2, 3 and 5 has amounts on both sides of every product and
sum limit; the theorems hold for every width, unit table and text.

Fairness. *ToolRegistry*: none, its properties are safety. *HotReload*: weak
fairness for the goroutine's straight-line steps and the timer; strong fairness for the cases of the `select`, because Go picks among ready cases at random.
*ToolExec*: weak fairness for handlers, kills, deadlines and `WaitDelay`;
none for scripts, descendants or clients. *ServerRun*: weak fairness for the
goroutines, for a canceled watcher and session to notice, and for Shutdown's
deadline; none for signals or the end of requests. *HttpGate* and *Diagnostics*:
none, their properties are safety.
Deadlock is checked in every run; where a system ends for good, a named
stuttering action (`Done`, `Exited`, `Returned`, ...) says so.

## 4. Where the code and its documentation differ

Each is a run that TLC is expected to refute (`findings` in `PROJECT.json`).

| Run | Stated | What the code does |
|---|---|---|
| `hotreload_chmod` | changes are detected and tools updated | `chmod +x` alone is an event outside the mask: the script is not registered until something else changes |
| `hotreload_overflow` | recreating the directory is recovered | if the overflow drops the directory's event, the new inode is not watched |
| `http_ipv6` | `--host` is the "IP address for HTTP server" (`flags.go:136`), and `::1` is loopback (`http.go:112`) | `server.go:104` joins host and port with a colon: no IPv6 address can be listened on |

Smaller differences met while modelling are part of the models without a run of
their own:

* A script that exits 0 and leaves a child on its pipes fails with `WaitDelay`'s
  error, which `execute.go:352` logs as `nonzero-exit` (the comment at 252 says
  that means a status other than zero).
* The markers match anywhere in a line (`discover.go:159`, `167`): a valid `Param:`
  line whose description contains `Timeout:` or `Description:` is taken for that
  one and lost without a warning, while `README.md:384` says every valid `Param:`
  line is collected. The run's lines contain one; its references take the markers
  in the order of the code, so they say which line is what and not that this is
  what the author of the script meant.
* `--api-key=` (empty) does not hide the environment's key, though `README.md:346`
  gives the flag precedence and `README.md:354` says the variable is consulted only
  when its flag is not set.
* The body of a request that is refused with 401, or answered as a preflight, is not under the
  deadline that `README.md:220` states for every body: those handlers answer
  before the body is wrapped.
* Flags behind a positional argument are ignored without a word: the flag
  package ends at it, and `parseCLI` does not look at the rest.
* `execute.go:354` reads the context after `Wait`: a script that had already
  failed is logged as `timeout` when its deadline passes in between.
* Once the script itself was waited for, os/exec no longer watches the
  deadline: a child in the group that holds a pipe survives a call that
  reports a timeout, though `toolproc_unix.go:12` says the deadline kills the tree.
* `server.go:255`: the `select` has no priority, so over stdio a fatal watcher
  failure that coincides with the end of stdin may exit with status 0.
* `discover.go:224` takes the text from the first quote to the last, while the
  comment above it says the first quoted span.


No difference, but worth knowing: an entry of `--allowed-origins` with a Unicode host
or a port with leading zeros is accepted at startup and lets no browser's page in
(`README.md:239`, `http_test.go:608`). OriginsAsBrowsersDo says so: nobody is
allowed whom the operator did not mean, and whom they meant is allowed if the
entry is spelled as browsers do.

## 5. Proofs

TLAPS checks these for every value of the constants that satisfies the modules'
named assumptions.

**ToolRegistryProofs**, for any writers and any lists without duplicate names. The
invariant adds to the types that the mutex is held exactly by a writer inside
`replaceLocked` (`MutexInv`), that the add loop has moved exactly the names
before its index and those that left (`LoopInv`), and that outside the loop the
table is the baseline (`BaselineInv`). None of the properties is
inductive alone: OldOrNew needs to know how far the loop is, NoGap that a skipped
tool has an equal registration (`KeptKeepsRegistration`, from `toolEqual`).
From it: TypeOK, OldOrNew (every registration a client sees is the old or the
new one; the runs have it as a part of the refinement), NoGap, BaselineServed, NoChurn, and the refinement —
`Init` maps to the empty catalogue, `Lock` to `Begin`, `RemoveTools` and
`AddTool` to a `Switch` or a stutter, everything else to a stutter.

**HotReloadProofs**, for any files, texts and queue length. What holds depends on
what may happen around the watcher, and the invariant has three layers.
*Everywhere*, overflow and the loss of the parent included: types, where the
scan and the watcher can be, and that the flag says whether the timer is set
(`ControlInv`). From it: TypeOK, DebounceMatchesTimer. *While the queue holds and
the parent stays* (`Attended`: edits, replacement of the directory, chmod): the
parent stays watched (`ParentInv`), and a path without a watch has an event coming
that re-adds it, or no directory and a watched parent (`WatchInv`). From it:
NoLostWatch. *While, besides, no mode changes* (`Calm`): in the loop a registry
that is not fresh has a rescan `Due` (`LoopInv`), and in a scan an entry that was
passed and is not what was found has one too (`ScanInv`, `TodoInv`) — without it
the scan's last step would put the registry into the loop in an unknown state.
From it: NoLostChange. The conditions are not for convenience: with chmod the
third layer is false, with overflow the second (section 4).

**ToolExecProofs**, for any number of calls and any `MaxConcurrent`, zero and below
included. The invariant has the calls in execution as a finite set whose
cardinality is the slot counter (`SlotInv`), the process states possible at each
place of the handler (`StageInv`), the kill before the death (`KillInv`), and
when Wait may report no error (`WaitInv`). From it: TypeOK and the five safety
properties of the run.

**ToolTimeoutProofs**, for every width, unit table and text. The two guards of the
parser imply that neither `Wrap` changes anything (`ProductFits`, `WrapIdentity`),
so the total stays in `0..maxDuration` (NoWraparound). What the
loop has read is a beginning of the text in which amounts and units alternate
(`PlaceInv`, `ReadInv`), the total is what that beginning denotes in unbounded
integers (`SumInv`), and an error means that the text is no duration or denotes too
much (`OutcomeInv`): partial sums never fall, so what is too much for a beginning is
too much for the text. From it: ParsesExactly.

**ServerRunProofs**, for both transports and any number of requests. The truth of
a record rests on an order: `run` queues its reason before it cancels, and the
shutdown goroutine reads the channel after the context has ended. The invariant
says so (`ReasonInv`: while `run`'s own cancel is what ended the context and the
goroutine has not yet read, the channel holds a reason, and every queued reason
is true), says why `run` may be past its select (`CauseInv`), where the goroutine is
at each place of `run` (`PlaceInv`), that results agree in history, channel and
`run` (`ResultInv`), and lists the four forms the log can have (`LogInv`). From it:
TruthfulRecord, OneRecord, CleanExitIsAsked, DrainsBeforeExit, and TypeOK.

**HttpGateProofs**, for all settings, files, tokens, origins and limits. That an
accepted command line has passed the check of the key (`AcceptedChecks`,
`TokenIsStrongest`) needs the first error of a sequence of checks
(`NoFirstError`). The invariant: a server binds only with an accepted command
line and posture (`ProcessInv`); in the handlers left to pass, the one that leads
to the SDK stands behind the authentication unless the request has the token
(`Guarded`); and the socket's deadline is the body's one deadline while a read
waits, and a read has timed out only after that (`BodyInv`). From it:
ToolsAreGuarded, BodyIsBounded, TypeOK. For
OriginsAsBrowsersDo, `OriginsInv` adds that the CORS handler is the next one or has
done its work (it is the outermost, `OutermostCORS`); and canonical forms, which
are what the server compares, are equal exactly when scheme, host and port are
(`CanonicalOrigins`: a host with colons is bracketed, so that the spelling can be
read in one way only), for hosts and ports as they are given. A browser's origin is
given as browsers write it, so that it equals an entry exactly if the entry is
meant and written that way too (`BrowsersCompare`), whatever `BrowserHost` and
`BrowserPort` are. IgnoredMeansIgnored is about no step but about
`parseCLI` under pairs of inputs: for each mode, that no check in its sequence
reads what it ignores (`DiagnosticsIgnore`, `StdioIgnores`, `FlagsHide`).

**ToolOutputProofs**, for every limit, tag and text of whole characters. The
invariant says that a writer has consumed a beginning of its stream and kept the
longest part of it that fits (`CaptureInv`), and that a result is the one of two
complete streams (`ResultInv`). From it: TypeOK; CaptureIsExact; NoSilentLoss, because a
capture at the limit makes the joined text exceed the limit, as the tags are not
empty; and TextStaysText, because a beginning of a valid text is valid up to a last
character of at most three bytes, so that one of the four cuts that `BackOff` tries
is valid, also where the text is two captures, each broken at its end, between tags.
The log's bound goes back to the start of a character, and a valid beginning with
the indicator behind it is valid (`LogValueIsValid`).

**DiagnosticsProofs**, for every text, window, directory, request and argument. The
invariant is `DiagInv`. `ScanInv`: the first description and the first timeout line
read so far have decided, the parameters collected are those of the declarations
read, in order, and warned about are exactly the other annotations, an invalid first
timeout and, when the scan is over, the line that cut it short. `StageInv`: what each
stage has behind it; with it ExitTellsOutcome is inductive. `FoundInv`: in a
directory that has not changed since it was read, the list is the first file of
each name among the entries passed, in their order, and the others are shadowed.
From it: FirstOccurrenceWins, RefusedIsWarned, ExitTellsOutcome, FirstFileWins, and,
with what `normalizeParams` computes, LastDeclarationWins. `ArgvInv` adds that a
started script has the command line of arguments that fit its declarations; by
induction over the arguments a script that reads it by the schema gets them back
(ArgvIsFaithful): a value never looks like the next flag because a script takes
what follows a flag for its value. NamesAreUnique: no scan lists a name twice,
whatever happens to the directory — which is what ToolRegistry assumes of its
lists (`ToolListsAssumption`).

A recursive function (`normalizeParams`, `argumentsToCLIArgs`, `Reading`, a text's
partial sums) has a value only if its defining equation has a solution. Where a
proof needs one, it is built as the limit of iterates (`Iterates`), and
statements about all its values are proved as membership of a set of naturals
(`AllNaturals`, from the well-foundedness of `<` on Nat).

Only model-checked are the six liveness properties (Converges, RescanHappens,
CancelStops, BoundedCallReturns, SignalRecorded, RunReturns): fairness and ENABLED
are outside the prover's reach. Every safety property of the passing runs is a
theorem, NoLostWatch and NoLostChange under the conditions above.

## 6. What is not modelled

* The wire protocol and the SDK beyond the table, the notification and the
  cancellation of a request: a library, external here.
* Contents and layout of log records, tool lists and schemas; the shell
  completion, the container, the Makefile: no state.
* Symlinks whose targets lie outside the directory: the program documents that
  they are not watched.
* The warnings of the security policy, the headers of a response besides the
  allowed origin, the TLS handshake, a client that hangs up in the middle of a body.
* The layout of the tool list (`list.go`) and of log records (`loghandler.go`):
  pure formatting.
* Descendants that leave the process group and are never waited for, beyond their
  hold on the pipes.
* Windows: `toolproc_other.go` and the executable extensions.
* The children of a server that exits while a tool still runs: needs ToolExec and
  ServerRun together.

## 7. Plan

The order follows what an error would cost: what clients see and run first.

1. *Done.* ToolRegistry with Catalogue; HotReload; ToolExec; ServerRun;
   Frontmatter; ToolOutput; ToolTimeout; CommandLine; HttpGate; Diagnostics; the
   proofs of section 5.
2. *Shutdown*: ServerRun and ToolExec composed, to say which tool processes can
   outlive the server.
3. *LiveList*: Diagnostics over HotReload's loop instead of over `pending`.
4. Proofs: for the compositions of 2 and 3, that they implement their parts, and
   the safety properties they add.

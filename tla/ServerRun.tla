------------------------------ MODULE ServerRun ------------------------------
(***************************************************************************)
(* The life of a server process: run (server.go) and the exit status main  *)
(* derives from it (prod.go).  Up to four goroutines take part:            *)
(*                                                                         *)
(*   main      - run itself, whose select takes ANY of the ready channels; *)
(*   watcher   - watchTools, whose only result lands in watchDone;         *)
(*   server    - ListenAndServe or server.Run, result in serveDone;        *)
(*   shutdown  - HTTP only: waits for sigCtx, writes the record, drains.   *)
(*                                                                         *)
(* sigCtx is done after a signal or after run's own cancel(), and nothing  *)
(* in the context tells the two apart: the shutdown record's truth depends *)
(* on the order in which run queues its reason and cancels.                *)
(***************************************************************************)
EXTENDS Naturals, Sequences, FiniteSets

CONSTANTS
    Modes,          \* the transports checked: a subset of {"http", "stdio"}
    MaxRequests     \* bound: HTTP requests in flight at once

ASSUME ModesAssumption == Modes \subseteq {"http", "stdio"}
ASSUME RequestsAssumption == MaxRequests \in Nat

None == "none"

\* What the server goroutine can send to serveDone: a failure (bind, accept or
\* a broken stdio session), http.ErrServerClosed, the end of the client's
\* session, or the context's error.
ServeResults == {"failure", "closed", "eof", "canceled"}

WatchResults == {"fatal", "canceled"}

Reasons == {"signal", "watch-error", "serve-failure"}

VARIABLES
    mode,         \* --port given or not
    main,         \* where run is
    sigCtx,       \* None while live, else what ended it first
    watch,        \* the watcher goroutine; its result stays here as history
    watchDone,    \* channel of capacity 1 (a nil channel is never ready)
    serve,        \* the server goroutine; its result stays here as history
    serveDone,    \* channel of capacity 1
    stopReason,   \* channel of capacity 1
    shutdown,     \* the shutdown goroutine
    reason,       \* its local variable
    requests,     \* HTTP requests in flight
    graceExpired, \* what Shutdown returned: its five seconds ran out (the code drops it)
    serveErr,     \* run's local variable; "eof" also stands for nil
    watchErr,     \* run holds a fatal watch error
    log,          \* the records that tell how the process ended
    status        \* the exit status: 0 or not; None while it runs

vars == <<mode, main, sigCtx, watch, watchDone, serve, serveDone, stopReason,
          shutdown, reason, requests, graceExpired, serveErr, watchErr, log, status>>

context == <<mode, sigCtx>>
watcher == <<watch, watchDone>>
server == <<serve, serveDone, requests>>
shutter == <<shutdown, reason, graceExpired>>
locals == <<serveErr, watchErr>>

ShuttingDown(why) == [record |-> "shutting down", reason |-> why]
ServerStopped == [record |-> "server stopped", reason |-> None]

\* The shutting-down records written so far.
Shutdowns == {i \in 1..Len(log) : log[i].record = "shutting down"}

\* Places, causes and results.
Enumerations ==
    /\ mode \in Modes
    /\ main \in {"boot", "policy", "select", "check", "queue", "cancel", "settle",
                 "collect", "return", "exited"}
    /\ sigCtx \in {None, "signal", "cancel"}
    /\ watch \in {"off", "running"} \cup WatchResults
    /\ watchDone \in {None} \cup WatchResults
    /\ serve \in {"off", "starting", "listening"} \cup ServeResults
    /\ serveDone \in {None} \cup ServeResults
    /\ stopReason \in {None} \cup Reasons
    /\ shutdown \in {"off", "waiting", "woken", "logging", "draining", "done"}
    /\ reason \in {None} \cup Reasons
    /\ requests \in 0..MaxRequests
    /\ serveErr \in {None} \cup ServeResults
    /\ status \in {None, "clean", "failed"}

\* Every variable has its type.
TypeOK ==
    /\ Enumerations
    /\ graceExpired \in BOOLEAN /\ watchErr \in BOOLEAN
    /\ log \in Seq({ShuttingDown(why) : why \in Reasons} \cup {ServerStopped})

Init ==
    /\ mode \in Modes
    /\ main = "boot" /\ sigCtx = None
    /\ watch = "off" /\ watchDone = None
    /\ serve = "off" /\ serveDone = None
    /\ stopReason = None
    /\ shutdown = "off" /\ reason = None
    /\ requests = 0 /\ graceExpired = FALSE
    /\ serveErr = None /\ watchErr = FALSE
    /\ log = <<>> /\ status = None

Running == main # "exited"

(***************************************************************************)
(* The surroundings: signals, requests, the client's end of stdin, a       *)
(* listener or a watcher that fails.                                       *)
(***************************************************************************)
\* Only the first cause matters: a context ends once.
Signal ==
    /\ Running /\ sigCtx = None
    /\ sigCtx' = "signal"
    /\ UNCHANGED <<mode, main, watcher, server, stopReason, shutter, locals, log, status>>

WatchEnds(result) ==
    /\ Running /\ watch = "running"
    /\ result = "canceled" => sigCtx # None
    /\ watch' = result /\ watchDone' = result
    /\ UNCHANGED <<context, main, server, stopReason, shutter, locals, log, status>>

ServeEnds(result) ==
    /\ Running
    /\ serve' = result /\ serveDone' = result
    /\ UNCHANGED <<context, main, watcher, requests, stopReason, shutter, locals, log, status>>

\* The bind succeeds.
Listen ==
    /\ Running /\ serve = "starting" /\ mode = "http"
    /\ shutdown \notin {"draining", "done"}
    /\ serve' = "listening"
    /\ UNCHANGED <<context, main, watcher, serveDone, requests, stopReason, shutter, locals,
                   log, status>>

\* A taken port, a failed accept, a broken stdio session.
ServeFails == serve \in {"starting", "listening"} /\ ServeEnds("failure")

\* ErrServerClosed: Shutdown has been called, before or after the bind.
ServeCloses ==
    /\ mode = "http" /\ serve \in {"starting", "listening"}
    /\ shutdown \in {"draining", "done"}
    /\ ServeEnds("closed")

ClientLeaves == mode = "stdio" /\ serve = "listening" /\ ServeEnds("eof")

SessionCanceled == mode = "stdio" /\ serve = "listening" /\ sigCtx # None /\ ServeEnds("canceled")

RequestArrives ==
    /\ Running /\ mode = "http" /\ serve = "listening"
    /\ shutdown \notin {"draining", "done"}
    /\ requests < MaxRequests
    /\ requests' = requests + 1
    /\ UNCHANGED <<context, main, watcher, serve, serveDone, stopReason, shutter, locals, log, status>>

RequestEnds ==
    /\ Running /\ requests > 0
    /\ requests' = requests - 1
    /\ UNCHANGED <<context, main, watcher, serve, serveDone, stopReason, shutter, locals, log, status>>

(***************************************************************************)
(* The shutdown goroutine (HTTP).                                          *)
(***************************************************************************)
Wake ==
    /\ Running /\ shutdown = "waiting" /\ sigCtx # None
    /\ shutdown' = "woken"
    /\ UNCHANGED <<context, main, watcher, server, stopReason, reason, graceExpired, locals, log,
                   status>>

\* A non-blocking receive: an empty channel means that a signal fired.
ReadReason ==
    /\ Running /\ shutdown = "woken"
    /\ shutdown' = "logging"
    /\ reason' = IF stopReason = None THEN "signal" ELSE stopReason
    /\ stopReason' = None
    /\ UNCHANGED <<context, main, watcher, server, graceExpired, locals, log, status>>

Record ==
    /\ Running /\ shutdown = "logging"
    /\ log' = Append(log, ShuttingDown(reason))
    /\ shutdown' = "draining"
    /\ UNCHANGED <<context, main, watcher, server, stopReason, reason, graceExpired, locals, status>>

\* Faulty variant: Shutdown has no deadline.
DrainedFully(expired) ==
    /\ Running /\ shutdown = "draining"
    /\ requests = 0
    /\ shutdown' = "done"
    /\ UNCHANGED <<context, main, watcher, server, stopReason, reason, graceExpired, locals, log,
                   status>>

\* Shutdown returns once no request is in flight, or after five seconds
\* whatever is in flight: its error is ignored.
Drained(expired) ==
    /\ Running /\ shutdown = "draining"
    /\ requests = 0 \/ expired
    /\ shutdown' = "done"
    /\ graceExpired' = (requests > 0)
    /\ UNCHANGED <<context, main, watcher, server, stopReason, reason, locals, log, status>>

(***************************************************************************)
(* run.                                                                    *)
(***************************************************************************)
\* A returned error: main logs it and exits 1.
Fail ==
    /\ main' = "exited" /\ status' = "failed"
    /\ UNCHANGED log

\* The paths, the first scan; then the watcher's goroutine, with --watch.
Boot ==
    /\ main = "boot"
    /\ \/ Fail /\ UNCHANGED watch
       \/ /\ main' = "policy" /\ watch' \in {"off", "running"}
          /\ UNCHANGED <<log, status>>
    /\ UNCHANGED <<context, watchDone, server, stopReason, shutter, locals>>

\* HTTP: an unsafe posture is refused before the bind, with the watcher
\* already running.  Then the goroutines are started.
Policy ==
    /\ main = "policy" /\ mode = "http"
    /\ \/ Fail /\ UNCHANGED <<serve, shutdown>>
       \/ /\ main' = "select" /\ serve' = "starting" /\ shutdown' = "waiting"
          /\ UNCHANGED <<log, status>>
    /\ UNCHANGED <<context, watcher, serveDone, requests, stopReason, reason, graceExpired, locals>>

StartStdio ==
    /\ main = "policy" /\ mode = "stdio"
    /\ main' = "select" /\ serve' = "listening"
    /\ UNCHANGED <<context, watcher, serveDone, requests, stopReason, shutter, locals, log, status>>

\* The arm on sigCtx.  In stdio mode run writes the record itself.
TakeSignal ==
    /\ main = "select" /\ sigCtx # None
    /\ IF mode = "http"
       THEN main' = "cancel" /\ UNCHANGED log
       ELSE main' = "collect" /\ log' = Append(log, ShuttingDown("signal"))
    /\ UNCHANGED <<context, watcher, server, stopReason, shutter, locals, status>>

\* The arm on watchDone.  A canceled watch is a clean stop and falls through;
\* a fatal one ends the run, and stdio cancels and returns on the spot.
TakeWatch ==
    /\ main = "select" /\ watchDone # None
    /\ watchDone' = None
    /\ watchErr' = (watchDone = "fatal")
    /\ IF watchDone = "canceled"
       THEN /\ main' = (IF mode = "http" THEN "cancel" ELSE "check")
            /\ UNCHANGED log
       ELSE /\ main' = (IF mode = "http" THEN "queue" ELSE "cancel")
            /\ log' = IF mode = "http" THEN log ELSE Append(log, ShuttingDown("watch-error"))
    /\ UNCHANGED <<context, watch, server, stopReason, shutter, serveErr, status>>

\* Faulty variant: the context is canceled before the reason is queued.
TakeServeCanceling ==
    /\ main = "select" /\ serveDone # None
    /\ serveDone' = None
    /\ serveErr' = serveDone
    /\ sigCtx' = IF sigCtx = None THEN "cancel" ELSE sigCtx
    /\ main' = IF mode = "http" THEN "queue" ELSE "check"
    /\ UNCHANGED <<mode, watcher, serve, requests, stopReason, shutter, watchErr, log, status>>

\* The arm on serveDone.
TakeServe ==
    /\ main = "select" /\ serveDone # None
    /\ serveDone' = None
    /\ serveErr' = serveDone
    /\ main' = IF mode = "http" THEN "queue" ELSE "check"
    /\ UNCHANGED <<context, watcher, serve, requests, stopReason, shutter, watchErr, log, status>>

\* Faulty variant: the arm that wins swallows the record.
CheckSignalSilent ==
    /\ main = "check"
    /\ main' = IF serveErr = None THEN "collect" ELSE "cancel"
    /\ UNCHANGED <<context, watcher, server, stopReason, shutter, locals, log, status>>

\* stdio, after an arm that is not sigCtx's: a signal that fired meanwhile
\* still gets its record.
CheckSignal ==
    /\ main = "check"
    /\ log' = IF sigCtx # None THEN Append(log, ShuttingDown("signal")) ELSE log
    /\ main' = IF serveErr = None THEN "collect" ELSE "cancel"
    /\ UNCHANGED <<context, watcher, server, stopReason, shutter, locals, status>>

\* HTTP: the reason goes into the channel before the context is canceled.
QueueReason ==
    /\ main = "queue" /\ stopReason = None
    /\ stopReason' = IF watchErr THEN "watch-error" ELSE "serve-failure"
    /\ main' = "cancel"
    /\ UNCHANGED <<context, watcher, server, shutter, locals, log, status>>

CancelRun ==
    /\ main = "cancel"
    /\ sigCtx' = IF sigCtx = None THEN "cancel" ELSE sigCtx
    /\ main' = IF mode = "http" THEN "settle" ELSE "return"
    /\ UNCHANGED <<mode, watcher, server, stopReason, shutter, locals, log, status>>

\* Faulty variant: run does not wait for the shutdown goroutine.
SettleAtOnce ==
    /\ main = "settle"
    /\ main' = IF serveErr = None THEN "collect" ELSE "return"
    /\ UNCHANGED <<context, watcher, server, stopReason, shutter, locals, log, status>>

\* HTTP: wait for the record and the drain.
Settle ==
    /\ main = "settle" /\ shutdown = "done"
    /\ main' = IF serveErr = None THEN "collect" ELSE "return"
    /\ UNCHANGED <<context, watcher, server, stopReason, shutter, locals, log, status>>

\* The outcome of the server goroutine, if no arm has taken it.
CollectServe ==
    /\ main = "collect" /\ serveDone # None
    /\ serveErr' = serveDone /\ serveDone' = None
    /\ main' = "return"
    /\ UNCHANGED <<context, watcher, serve, requests, stopReason, shutter, watchErr, log, status>>

\* Faulty variant: the outcome of the server goroutine is dropped.
ReturnUnchecked ==
    /\ main = "return"
    /\ IF watchErr
       THEN Fail
       ELSE main' = "exited" /\ status' = "clean" /\ log' = Append(log, ServerStopped)
    /\ UNCHANGED <<context, watcher, server, stopReason, shutter, locals>>

\* An error goes to main; a clean stop is recorded.
Return ==
    /\ main = "return"
    /\ IF watchErr \/ serveErr = "failure"
       THEN Fail
       ELSE main' = "exited" /\ status' = "clean" /\ log' = Append(log, ServerStopped)
    /\ UNCHANGED <<context, watcher, server, stopReason, shutter, locals>>

Exited == main = "exited" /\ UNCHANGED vars

-----------------------------------------------------------------------------

Main ==
    \/ Boot \/ Policy \/ StartStdio
    \/ TakeSignal \/ TakeWatch \/ TakeServe \/ CheckSignal
    \/ QueueReason \/ CancelRun \/ Settle \/ CollectServe \/ Return

Shutter == Wake \/ ReadReason \/ Record \/ Drained(TRUE) \/ Drained(FALSE)

Surroundings ==
    \/ Signal \/ (\E result \in WatchResults : WatchEnds(result))
    \/ Listen \/ ServeFails \/ ServeCloses \/ ClientLeaves \/ SessionCanceled
    \/ RequestArrives \/ RequestEnds

Next == Main \/ Shutter \/ Surroundings \/ Exited

Spec == Init /\ [][Next]_vars

\* The runtime runs every goroutine that can move; the watcher and the stdio
\* session notice a done context, a closed listener ends Serve, and a bind
\* succeeds or fails.  Nothing says that a signal comes or that a request in
\* flight ever ends.
Fairness ==
    /\ WF_vars(Main)
    /\ WF_vars(Wake) /\ WF_vars(ReadReason) /\ WF_vars(Record)
    /\ WF_vars(Drained(TRUE))
    /\ WF_vars(ServeCloses) /\ WF_vars(SessionCanceled)
    /\ WF_vars(WatchEnds("canceled"))

FairSpec == Spec /\ Fairness

(***************************************************************************)
(* Properties                                                              *)
(***************************************************************************)
\* Every shutting-down record tells the truth: "signal" only when a signal is
\* what ended sigCtx and never when run canceled it, the other two only when
\* the watcher failed or the server goroutine ended on its own (server.go's
\* comment on stopReason: "never a fake reason=signal").
TruthfulRecord ==
    \A i \in Shutdowns :
        CASE log[i].reason = "signal" -> sigCtx = "signal"
          [] log[i].reason = "watch-error" -> watch = "fatal"
          [] OTHER -> serve = "failure"

\* The process never exits past the banner without its record: exactly one in
\* HTTP mode whichever arm won, at most one over stdio; and a clean stop, and
\* nothing else, ends in exactly one "server stopped" record.
OneRecord ==
    status # None =>
        /\ Cardinality(Shutdowns) <= 1
        /\ shutdown # "off" => Shutdowns # {}
        /\ {i \in 1..Len(log) : log[i] = ServerStopped} = (IF status = "clean" THEN {Len(log)} ELSE {})

\* Exit status 0 is only for a signal or for a client that left, and a server
\* goroutine whose failure run has seen is never reported as a clean stop,
\* also when it raced a signal.
CleanExitIsAsked ==
    status = "clean" =>
        /\ sigCtx = "signal" \/ serve = "eof"
        /\ serve # "failure"
        /\ mode = "http" => serve = "closed"

\* Whatever ends the server - a signal, a dead watcher, a failed accept - the
\* requests in flight have their grace: run returns with one unanswered only
\* after Shutdown has waited its five seconds for it.
DrainsBeforeExit ==
    (main = "exited" /\ requests > 0) => graceExpired

\* A signal that is there when run selects gets its record over stdio and HTTP
\* alike: the arm that wins must not swallow it (server.go 255-261).
SignalRecorded == (main = "select" /\ sigCtx = "signal") ~> (Shutdowns # {})

\* A signal, a fatal watch error or the end of the server goroutine ends the
\* process, even if a request in flight never ends.
RunReturns ==
    (sigCtx # None \/ watchDone = "fatal" \/ serveDone # None) ~> (main = "exited")
=============================================================================

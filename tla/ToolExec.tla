------------------------------ MODULE ToolExec ------------------------------
(***************************************************************************)
(* execute.go, toolproc_unix.go and the execution slots of registry.go:    *)
(* the life of a tool call, from the handler taking a slot to the result.  *)
(*                                                                         *)
(* A call is a request handler goroutine, the script it starts, what the   *)
(* script leaves behind, and the goroutine of os/exec that watches the     *)
(* context and kills.  os/exec, the kernel and the clock are external and  *)
(* modelled as Cmd.Start, Cmd.Wait and WaitDelay use them: a time limit is *)
(* a step that may happen at any moment.                                   *)
(***************************************************************************)
EXTENDS Integers, FiniteSets

CONSTANTS Calls,         \* the tools/call requests that are ever made
          MaxConcurrent  \* --max-concurrent

defaultMaxConcurrentTools == 16

\* newExecSlot: zero selects the default.
limit == IF MaxConcurrent <= 0 THEN defaultMaxConcurrentTools ELSE MaxConcurrent

ASSUME MaxConcurrentAssumption == MaxConcurrent \in Int

\* A descendant of the script that keeps an output pipe open: one in the
\* script's process group, or one that left it with setsid.
Kinds == {"group", "detached"}

VARIABLES held,      \* the slots taken: len(slot.sem)
          pc,        \* where each handler is
          timed,     \* the tool has a timeout
          ctx,       \* execCtx.Err()
          proc,      \* the script
          code,      \* how the script ended: "zero", "nonzero" or "signal"
          kids,      \* its live descendants
          watcher,   \* the goroutine of os/exec that watches execCtx
          watchErr,  \* the error that goroutine hands to Wait
          waitErr,   \* what cmd.Wait returns
          reason     \* the result: "ok" or the reason it failed

procVars == <<proc, code, kids>>
watchVars == <<watcher, watchErr>>
vars == <<held, pc, timed, ctx, procVars, watchVars, waitErr, reason>>

\* Inside executeTool; the last three are inside cmd.Wait.
Executing == {"start", "wait", "handoff", "drain", "classify"}
InFlight == {c \in Calls : pc[c] \in Executing}

Errors == {"nil", "ctx", "exit", "waitdelay"}
Failures == {"timeout", "canceled", "nonzero-exit", "start-failed"}

\* Every variable has its type; the slots taken are never fewer than none.
TypeOK ==
  /\ held \in Nat
  /\ pc \in [Calls -> {"new", "done"} \cup Executing]
  /\ timed \in [Calls -> BOOLEAN]
  /\ ctx \in [Calls -> {"live", "deadline", "canceled"}]
  /\ proc \in [Calls -> {"none", "running", "dying", "exited", "reaped"}]
  /\ code \in [Calls -> {"zero", "nonzero", "signal"}]
  /\ kids \in [Calls -> SUBSET Kinds]
  /\ watcher \in [Calls -> {"off", "armed", "grace", "closed"}]
  /\ watchErr \in [Calls -> {"nil", "ctx", "waitdelay"}]
  /\ waitErr \in [Calls -> Errors]
  /\ reason \in [Calls -> {"none", "ok", "rejected", "at capacity"} \cup Failures]

Init ==
  /\ held = 0
  /\ pc = [c \in Calls |-> "new"]
  /\ timed \in [Calls -> BOOLEAN]
  /\ ctx = [c \in Calls |-> "live"]
  /\ proc = [c \in Calls |-> "none"]
  /\ code = [c \in Calls |-> "zero"]
  /\ kids = [c \in Calls |-> {}]
  /\ watcher = [c \in Calls |-> "off"]
  /\ watchErr = [c \in Calls |-> "nil"]
  /\ waitErr = [c \in Calls |-> "nil"]
  /\ reason = [c \in Calls |-> "none"]

-----------------------------------------------------------------------------
(* The handler of addToolLocked. *)

Finish(c, r) == /\ pc' = [pc EXCEPT ![c] = "done"]
                /\ reason' = [reason EXCEPT ![c] = r]

\* Faulty variant: the slot is given back twice.
releaseTwice == held' = held - 2

release == held' = held - 1

\* Arguments that do not parse or validate never reach the slots.
Reject(c) ==
  /\ pc[c] = "new"
  /\ Finish(c, "rejected")
  /\ UNCHANGED <<held, timed, ctx, procVars, watchVars, waitErr>>

\* Faulty variant: one call too many is let in.
AcquireOneMore(c) ==
  /\ pc[c] = "new"
  /\ held <= limit
  /\ held' = held + 1
  /\ pc' = [pc EXCEPT ![c] = "start"]
  /\ UNCHANGED <<timed, ctx, procVars, watchVars, waitErr, reason>>

\* tryAcquire succeeds, and executeTool derives its context.
Acquire(c) ==
  /\ pc[c] = "new"
  /\ held < limit
  /\ held' = held + 1
  /\ pc' = [pc EXCEPT ![c] = "start"]
  /\ UNCHANGED <<timed, ctx, procVars, watchVars, waitErr, reason>>

\* tryAcquire finds every slot taken.
AtCapacity(c) ==
  /\ pc[c] = "new"
  /\ held >= limit
  /\ Finish(c, "at capacity")
  /\ UNCHANGED <<held, timed, ctx, procVars, watchVars, waitErr>>

\* argumentsToCLIArgs refuses a key: a second line of defence, since the
\* schema admits only declared names.
RejectKey(c) ==
  /\ pc[c] = "start"
  /\ Finish(c, "rejected")
  /\ release
  /\ UNCHANGED <<timed, ctx, procVars, watchVars, waitErr>>

\* Faulty variant: the early return keeps its slot.
StartFailsLeaking(c) ==
  /\ pc[c] = "start"
  /\ Finish(c, "start-failed")
  /\ UNCHANGED <<held, timed, ctx, procVars, watchVars, waitErr>>

\* cmd.Start fails: there is no such file, or the context is already done.
StartFails(c) ==
  /\ pc[c] = "start"
  /\ Finish(c, "start-failed")
  /\ release
  /\ UNCHANGED <<timed, ctx, procVars, watchVars, waitErr>>

\* cmd.Start runs the script in a process group of its own and arms the
\* watcher of its context.
Start(c) ==
  /\ pc[c] = "start"
  /\ ctx[c] = "live"
  /\ proc' = [proc EXCEPT ![c] = "running"]
  /\ watcher' = [watcher EXCEPT ![c] = "armed"]
  /\ pc' = [pc EXCEPT ![c] = "wait"]
  /\ UNCHANGED <<held, timed, ctx, code, kids, watchErr, waitErr, reason>>

-----------------------------------------------------------------------------
(* The script, the clock and the client. *)

Spawn(c, kind) ==
  /\ proc[c] = "running"
  /\ kind \notin kids[c]
  /\ kids' = [kids EXCEPT ![c] = @ \cup {kind}]
  /\ UNCHANGED <<held, pc, timed, ctx, proc, code, watchVars, waitErr, reason>>

KidEnds(c, kind) ==
  /\ kind \in kids[c]
  /\ kids' = [kids EXCEPT ![c] = @ \ {kind}]
  /\ UNCHANGED <<held, pc, timed, ctx, proc, code, watchVars, waitErr, reason>>

Exit(c, how) ==
  /\ proc[c] = "running"
  /\ proc' = [proc EXCEPT ![c] = "exited"]
  /\ code' = [code EXCEPT ![c] = how]
  /\ UNCHANGED <<held, pc, timed, ctx, kids, watchVars, waitErr, reason>>

\* A killed script is gone as soon as the kernel lets go of it.
Die(c) ==
  /\ proc[c] = "dying"
  /\ proc' = [proc EXCEPT ![c] = "exited"]
  /\ code' = [code EXCEPT ![c] = "signal"]
  /\ UNCHANGED <<held, pc, timed, ctx, kids, watchVars, waitErr, reason>>

Deadline(c) ==
  /\ timed[c] /\ ctx[c] = "live" /\ pc[c] \in Executing
  /\ ctx' = [ctx EXCEPT ![c] = "deadline"]
  /\ UNCHANGED <<held, pc, timed, procVars, watchVars, waitErr, reason>>

ClientCancels(c) ==
  /\ ctx[c] = "live" /\ pc[c] \in Executing
  /\ ctx' = [ctx EXCEPT ![c] = "canceled"]
  /\ UNCHANGED <<held, pc, timed, procVars, watchVars, waitErr, reason>>

-----------------------------------------------------------------------------
(* The watcher of os/exec. *)

Killed(c) == IF proc[c] = "running" THEN "dying" ELSE proc[c]

\* Faulty variant: only the child is killed.
KillChildOnly(c) ==
  /\ watcher[c] = "armed"
  /\ ctx[c] # "live"
  /\ proc' = [proc EXCEPT ![c] = Killed(c)]
  /\ watchErr' = [watchErr EXCEPT ![c] = IF proc[c] = "reaped" THEN "nil" ELSE "ctx"]
  /\ watcher' = [watcher EXCEPT ![c] = "grace"]
  /\ UNCHANGED <<held, pc, timed, ctx, code, kids, waitErr, reason>>

\* cmd.Cancel is killToolProcess: SIGKILL to the whole group.  When there is
\* nobody left in it the kill says os.ErrProcessDone, and Wait is not told
\* about the context.
Kill(c) ==
  /\ watcher[c] = "armed"
  /\ ctx[c] # "live"
  /\ proc' = [proc EXCEPT ![c] = Killed(c)]
  /\ kids' = [kids EXCEPT ![c] = @ \ {"group"}]
  /\ watchErr' = [watchErr EXCEPT ![c] =
                    IF proc[c] = "reaped" /\ "group" \notin kids[c] THEN "nil" ELSE "ctx"]
  /\ watcher' = [watcher EXCEPT ![c] = "grace"]
  /\ UNCHANGED <<held, pc, timed, ctx, code, waitErr, reason>>

\* toolKillWaitDelay after the kill Wait has still not returned: os/exec
\* kills the script itself and closes the pipes.
GraceEnds(c) ==
  /\ watcher[c] = "grace"
  /\ proc' = [proc EXCEPT ![c] = Killed(c)]
  /\ watchErr' = [watchErr EXCEPT ![c] =
                    IF @ = "nil" /\ proc[c] = "reaped" /\ kids[c] # {} THEN "waitdelay" ELSE @]
  /\ watcher' = [watcher EXCEPT ![c] = "closed"]
  /\ UNCHANGED <<held, pc, timed, ctx, code, kids, waitErr, reason>>

-----------------------------------------------------------------------------
(* cmd.Wait and what executeTool makes of it. *)

\* Faulty variant: a done context is taken for the end of the script.
ReapAtDone(c) ==
  /\ pc[c] = "wait"
  /\ proc[c] = "exited" \/ ctx[c] # "live"
  /\ proc' = [proc EXCEPT ![c] = IF @ = "exited" THEN "reaped" ELSE @]
  /\ pc' = [pc EXCEPT ![c] = "handoff"]
  /\ UNCHANGED <<held, timed, ctx, code, kids, watchVars, waitErr, reason>>

\* Process.Wait returns.
Reap(c) ==
  /\ pc[c] = "wait"
  /\ proc[c] = "exited"
  /\ proc' = [proc EXCEPT ![c] = "reaped"]
  /\ pc' = [pc EXCEPT ![c] = "handoff"]
  /\ UNCHANGED <<held, timed, ctx, code, kids, watchVars, waitErr, reason>>

\* Wait takes the watcher's result and the watcher ends; an exit status that
\* is not success comes first.
Handoff(c) ==
  /\ pc[c] = "handoff"
  /\ waitErr' = [waitErr EXCEPT ![c] = IF code[c] # "zero" THEN "exit" ELSE watchErr[c]]
  /\ pc' = [pc EXCEPT ![c] = IF watcher[c] = "closed" THEN "classify" ELSE "drain"]
  /\ watcher' = [watcher EXCEPT ![c] = "off"]
  /\ UNCHANGED <<held, timed, ctx, procVars, watchErr, reason>>

\* Both pipes reach their end.
Drain(c) ==
  /\ pc[c] = "drain"
  /\ kids[c] = {}
  /\ pc' = [pc EXCEPT ![c] = "classify"]
  /\ UNCHANGED <<held, timed, ctx, procVars, watchVars, waitErr, reason>>

\* Faulty variants: no WaitDelay; output that was cut off is not an error.
DrainEndsNever(c) == pc[c] = "drain" /\ kids[c] = {} /\ UNCHANGED vars

DrainEndsSilently(c) ==
  /\ pc[c] = "drain"
  /\ kids[c] # {}
  /\ pc' = [pc EXCEPT ![c] = "classify"]
  /\ UNCHANGED <<held, timed, ctx, procVars, watchVars, waitErr, reason>>

\* A pipe is still open toolKillWaitDelay after the script: Wait closes it.
DrainEnds(c) ==
  /\ pc[c] = "drain"
  /\ kids[c] # {}
  /\ waitErr' = [waitErr EXCEPT ![c] = IF @ = "nil" THEN "waitdelay" ELSE @]
  /\ pc' = [pc EXCEPT ![c] = "classify"]
  /\ UNCHANGED <<held, timed, ctx, procVars, watchVars, reason>>

\* The failure is named after the state of the context, as it is by now.
Classification(c) ==
  IF ctx[c] = "deadline" THEN "timeout"
  ELSE IF ctx[c] = "canceled" THEN "canceled" ELSE "nonzero-exit"

\* executeTool returns and the handler's deferred release runs.
Return(c) ==
  /\ pc[c] = "classify"
  /\ Finish(c, IF waitErr[c] = "nil" THEN "ok" ELSE Classification(c))
  /\ release
  /\ UNCHANGED <<timed, ctx, procVars, watchVars, waitErr>>

Handler(c) == RejectKey(c) \/ StartFails(c) \/ Start(c) \/ Reap(c) \/ Handoff(c)
              \/ Drain(c) \/ Return(c)
Request(c) == Reject(c) \/ Acquire(c) \/ AtCapacity(c)
Script(c) == \/ \E kind \in Kinds : Spawn(c, kind) \/ KidEnds(c, kind)
             \/ \E how \in {"zero", "nonzero"} : Exit(c, how)

Done == (\A c \in Calls : pc[c] = "done") /\ UNCHANGED vars

Next == \/ \E c \in Calls : \/ Request(c) \/ Handler(c) \/ Script(c) \/ Die(c)
                            \/ Deadline(c) \/ ClientCancels(c)
                            \/ Kill(c) \/ GraceEnds(c) \/ DrainEnds(c)
        \/ Done

Spec == Init /\ [][Next]_vars

\* Goroutines run, clocks advance and SIGKILL works in the end.  Nothing makes
\* a script or what it left behind end, or a client make or cancel a request.
FairSpec ==
  /\ Spec
  /\ \A c \in Calls : /\ WF_vars(Handler(c)) /\ WF_vars(DrainEnds(c))
                      /\ WF_vars(Kill(c)) /\ WF_vars(GraceEnds(c))
                      /\ WF_vars(Deadline(c)) /\ WF_vars(Die(c))

-----------------------------------------------------------------------------
\* A slot is taken exactly while its call is inside executeTool: every way
\* out of it gives the slot back, once.
SlotConservation == held = Cardinality(InFlight)

\* At no moment do more scripts run than there are slots, counting those that
\* were killed and are not gone yet.
ScriptsBounded ==
  Cardinality({c \in Calls : proc[c] \in {"running", "dying", "exited"}}) <= limit

\* No call returns before its script has ended and been reaped, not even one
\* that timed out or was aborted.
NoScriptOutlivesCall == \A c \in Calls : pc[c] = "done" => proc[c] \in {"none", "reaped"}

\* A result without error means exit status zero and complete output: both
\* pipes reached their end before Wait returned.
SuccessIsComplete == \A c \in Calls : reason[c] = "ok" => code[c] = "zero" /\ kids[c] = {}

\* A script that was killed, at its deadline or for an aborted request, leaves
\* nobody of its process group behind.
KillTakesGroup == \A c \in Calls : code[c] = "signal" => "group" \notin kids[c]

\* Whatever the script does, and whatever it leaves behind in or outside of
\* its group, a call with a timeout returns, and so does an aborted one.
BoundedCallReturns ==
  \A c \in Calls : (pc[c] = "start" /\ timed[c]) \/ ctx[c] = "canceled" ~> pc[c] = "done"
==============================================================================

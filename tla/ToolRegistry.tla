---------------------------- MODULE ToolRegistry ----------------------------
(***************************************************************************)
(* registry.go: the set of tools the server offers, and how a new          *)
(* discovery replaces it while clients list and call tools.                *)
(*                                                                         *)
(* A writer is a goroutine inside replace or replaceIfChanged.  The mutex  *)
(* r.mu serialises writers, but clients read the SDK's tool table without  *)
(* it, so every RemoveTools and AddTool call is a step of its own: what is *)
(* between two of them is what a concurrent tools/list can see.            *)
(***************************************************************************)
EXTENDS Integers, Sequences

CONSTANTS Writers,        \* goroutines that may replace the tool set
          ToolLists,      \* the results a discovery can have, as sequences
          GlobalTimeout,  \* toolRegistry.globalTimeout
          NoTimeout,      \* discoveredTool.Timeout = nil
          NoWriter,       \* r.mu is free
          NoTool          \* the SDK table has no such name

Elements(list) == {list[i] : i \in DOMAIN list}
ListNames(list) == {tool.name : tool \in Elements(list)}
Tools == UNION {Elements(list) : list \in ToolLists}
Names == {tool.name : tool \in Tools}

\* discoverTools keeps the first of two entries with the same name, so no
\* list names a tool twice.
ASSUME ToolListsAssumption ==
  \A list \in ToolLists :
    /\ list \in Seq(Tools)
    /\ \A i, j \in DOMAIN list : list[i].name = list[j].name => i = j

-----------------------------------------------------------------------------
resolveToolTimeout(tool) ==
  IF tool.timeout = NoTimeout THEN GlobalTimeout ELSE tool.timeout

\* The description carries the effective timeout as a suffix.
registeredDescription(tool) == <<tool.description, resolveToolTimeout(tool)>>

\* All that addToolLocked hands to the SDK for a tool: what a client is shown
\* and what the handler closure captures.
Registration(tool) ==
  [description |-> registeredDescription(tool),
   inputSchema |-> tool.params,
   path        |-> tool.path,
   timeout     |-> resolveToolTimeout(tool)]

\* Faulty variant: the comparison forgets the parameters.
toolEqualWithoutParams(a, b) ==
  a.path = b.path /\ a.description = b.description /\ a.timeout = b.timeout

toolEqual(a, b) == /\ a.path = b.path
                   /\ a.description = b.description
                   /\ a.timeout = b.timeout
                   /\ a.params = b.params

toolsEqual(a, b) == /\ Len(a) = Len(b)
                    /\ \A i \in DOMAIN a : /\ a[i].name = b[i].name
                                           /\ toolEqual(a[i], b[i])

\* An empty directory is a possible discovery, and the two marks are no
\* writer and no registration.
ASSUME MarksAssumption ==
  /\ <<>> \in ToolLists
  /\ NoWriter \notin Writers
  /\ NoTool \notin {Registration(tool) : tool \in Tools}

\* The SDK table of a server that offers exactly the tools of a list.
Registered(list) ==
  [n \in Names |->
     IF n \in ListNames(list)
     THEN Registration(CHOOSE tool \in Elements(list) : tool.name = n)
     ELSE NoTool]

-----------------------------------------------------------------------------
VARIABLES mu,        \* the writer that holds r.mu, or NoWriter
          current,   \* r.current
          pc,        \* where each writer is
          want,      \* the list each writer was called with
          diffOnly,  \* TRUE for replaceIfChanged, FALSE for replace
          next,      \* the index of the add loop, local to the mutex holder
          sdk,       \* the SDK server's tool table
          notified   \* a tools/list_changed notification is due

vars == <<mu, current, pc, want, diffOnly, next, sdk, notified>>

\* Every variable has its type: the baseline is always one of the lists.
TypeOK ==
  /\ mu \in Writers \cup {NoWriter}
  /\ current \in ToolLists
  /\ pc \in [Writers -> {"idle", "lock", "remove", "add"}]
  /\ want \in [Writers -> ToolLists]
  /\ diffOnly \in [Writers -> BOOLEAN]
  /\ next \in Nat \ {0}
  /\ sdk \in [Names -> {Registration(tool) : tool \in Tools} \cup {NoTool}]
  /\ notified \in BOOLEAN

Init ==
  /\ mu = NoWriter
  /\ current = <<>>
  /\ pc = [w \in Writers |-> "idle"]
  /\ want = [w \in Writers |-> <<>>]
  /\ diffOnly = [w \in Writers |-> FALSE]
  /\ next = 1
  /\ sdk = [n \in Names |-> NoTool]
  /\ notified = FALSE

\* A goroutine calls replace(tools) or replaceIfChanged(tools).
Call(w, tools, ifChanged) ==
  /\ pc[w] = "idle"
  /\ pc' = [pc EXCEPT ![w] = "lock"]
  /\ want' = [want EXCEPT ![w] = tools]
  /\ diffOnly' = [diffOnly EXCEPT ![w] = ifChanged]
  /\ UNCHANGED <<mu, current, next, sdk, notified>>

\* The call returns; its arguments are gone.
Return(w) == /\ pc' = [pc EXCEPT ![w] = "idle"]
             /\ want' = [want EXCEPT ![w] = <<>>]
             /\ diffOnly' = [diffOnly EXCEPT ![w] = FALSE]

\* replaceIfChanged finds the set unchanged under the lock and returns false.
Skip(w) ==
  /\ pc[w] = "lock"
  /\ mu = NoWriter
  /\ diffOnly[w] /\ toolsEqual(current, want[w])
  /\ Return(w)
  /\ UNCHANGED <<mu, current, next, sdk, notified>>

\* Faulty variant: the diff is applied without waiting for the mutex.
LockWithoutWaiting(w) ==
  /\ pc[w] = "lock"
  /\ ~ (diffOnly[w] /\ toolsEqual(current, want[w]))
  /\ mu' = w
  /\ pc' = [pc EXCEPT ![w] = "remove"]
  /\ UNCHANGED <<current, want, diffOnly, next, sdk, notified>>

\* The mutex is taken and replaceLocked starts.
Lock(w) ==
  /\ pc[w] = "lock"
  /\ mu = NoWriter
  /\ ~ (diffOnly[w] /\ toolsEqual(current, want[w]))
  /\ mu' = w
  /\ pc' = [pc EXCEPT ![w] = "remove"]
  /\ UNCHANGED <<current, want, diffOnly, next, sdk, notified>>

\* Faulty variant: clear the table and add everything again.
RemovedAll(previous, tools) == ListNames(previous)

\* The names replaceLocked unregisters.
Removed(previous, tools) == ListNames(previous) \ ListNames(tools)

\* Faulty variant: the add loop has no diff.
KeptNone(previous, tool) == FALSE

\* The tools the add loop leaves alone: registered before and not changed.
Kept(previous, tool) ==
  \E prev \in Elements(previous) : prev.name = tool.name /\ toolEqual(prev, tool)

\* One RemoveTools call for all the names that left the set.
RemoveTools(w) ==
  LET removed == Removed(current, want[w])
  IN /\ pc[w] = "remove"
     /\ sdk' = [n \in Names |-> IF n \in removed THEN NoTool ELSE sdk[n]]
     /\ notified' = (notified \/ removed # {})
     /\ next' = 1
     /\ pc' = [pc EXCEPT ![w] = "add"]
     /\ UNCHANGED <<mu, current, want, diffOnly>>

\* One iteration of the add loop; AddTool replaces a name in place.
AddTool(w) ==
  LET tool == want[w][next]
  IN /\ pc[w] = "add"
     /\ next <= Len(want[w])
     /\ \/ /\ Kept(current, tool)
           /\ UNCHANGED <<sdk, notified>>
        \/ /\ ~ Kept(current, tool)
           /\ sdk' = [sdk EXCEPT ![tool.name] = Registration(tool)]
           /\ notified' = TRUE
     /\ next' = next + 1
     /\ UNCHANGED <<mu, current, pc, want, diffOnly>>

\* Faulty variant: the baseline accumulates.
UnlockAppending(w) ==
  /\ pc[w] = "add"
  /\ next > Len(want[w])
  /\ current' = current \o want[w]
  /\ mu' = NoWriter
  /\ Return(w)
  /\ UNCHANGED <<next, sdk, notified>>

\* The loop is over: the new baseline is stored and the mutex released.
Unlock(w) ==
  /\ pc[w] = "add"
  /\ next > Len(want[w])
  /\ current' = want[w]
  /\ mu' = NoWriter
  /\ Return(w)
  /\ UNCHANGED <<next, sdk, notified>>

\* The SDK sends the notification it owes to the connected clients.
Notify ==
  /\ notified
  /\ notified' = FALSE
  /\ UNCHANGED <<mu, current, pc, want, diffOnly, next, sdk>>

Step(w) == Skip(w) \/ Lock(w) \/ RemoveTools(w) \/ AddTool(w) \/ Unlock(w)

Next == \/ \E w \in Writers :
             \/ Step(w)
             \/ \E tools \in ToolLists, ifChanged \in BOOLEAN :
                  Call(w, tools, ifChanged)
        \/ Notify

Spec == Init /\ [][Next]_vars

-----------------------------------------------------------------------------
\* The list the mutex holder is applying, or the one in force.
Goal == IF mu = NoWriter THEN current ELSE want[mu]

\* A tool that is in the old set and in the new one is callable and listed at
\* every moment of the replacement (the remove-then-add gap that replace's
\* comment says the diff avoids).
NoGap == \A n \in ListNames(current) \cap ListNames(Goal) : sdk[n] # NoTool

\* While nobody holds the mutex the SDK serves exactly the stored baseline,
\* every registration up to date, so the diff against r.current is a diff
\* against what is really served.
BaselineServed == mu = NoWriter => sdk = Registered(current)

\* During a replacement a client never sees anything but a name's old or new
\* registration.
OldOrNew == \A n \in Names :
              sdk[n] \in {Registered(current)[n], Registered(Goal)[n]}

\* A step that makes a list_changed notification due is one that applies a
\* set different from the baseline: re-applying an equal set never announces
\* anything, not even through replace, which does not compare the lists.
NoChurn == [][~ notified /\ notified' => ~ toolsEqual(current, Goal)]_vars

\* The registry implements the catalogue that switches name by name.
Promise == INSTANCE Catalogue
             WITH served <- sdk, target <- Registered(Goal),
                  Catalogues <- {Registered(list) : list \in ToolLists},
                  Empty <- [n \in Names |-> NoTool]
ImplementsCatalogue == Promise!Spec
==============================================================================

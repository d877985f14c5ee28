------------------------------ MODULE HotReload ------------------------------
(***************************************************************************)
(* watch.go and the scan of discover.go: how the registered tools follow   *)
(* the scripts directory.                                                  *)
(*                                                                         *)
(* One goroutine scans the directory, sets up the watch and then runs the  *)
(* event loop; the file system changes under it at any moment, also in the *)
(* middle of a scan.  The kernel and fsnotify stand between the two: a     *)
(* queue of events for as long as there is a watch on the inode that the   *)
(* path names.  What a scan finds is put in force in one step here; the    *)
(* steps inside it are the subject of ToolRegistry.                        *)
(***************************************************************************)
EXTENDS Integers, Sequences

CONSTANTS Files,       \* the entries the scripts directory can have
          Texts,       \* what the frontmatter of a script can say
          NoText,      \* the frontmatter of a file that cannot be opened
          NoTool,      \* no tool registered for the entry
          Absent,      \* no such entry
          QueueLimit,  \* fs.inotify.max_queued_events
          Environment  \* what may happen besides edits of scripts

\* The scripts directory is replaced; modes change; changes outrun the kernel's
\* queue; the parent directory is replaced, a limit the README states.
Happenings == {"replace", "chmod", "overflow", "ancestor"}

ASSUME HotReloadAssumption ==
  /\ QueueLimit \in Nat \ {0, 1}
  /\ Environment \subseteq Happenings
  /\ Absent \notin [text : Texts, exec : BOOLEAN]
  /\ NoTool \notin Texts \cup {NoText}

Contents == [text : Texts, exec : BOOLEAN] \cup {Absent}
Entries == Texts \cup {NoText, NoTool}

VARIABLES dir,             \* the scripts directory exists
          parent,          \* its parent directory exists
          content,         \* the entries of the directory, all Absent without it
          watching,        \* inotify watches the inode now at the path
          parentWatched,   \* inotify watches the inode now at the parent path
          queue,           \* events not yet received by the loop
          pc,              \* where the goroutine is
          startup,         \* the scan is run's, before the watcher exists
          todo, file,      \* entries the scan has not reached; the one it is at
          found,           \* what the scan has found
          timer,           \* debounceTimer: "off", "running", or "fired"
          debounceActive,
          registered,      \* the registry's tool set
          canceled         \* ctx is done

fsVars == <<dir, parent, content>>
watchVars == <<watching, parentWatched>>
scanVars == <<startup, todo, file, found>>
timerVars == <<timer, debounceActive>>
vars == <<fsVars, watchVars, queue, pc, scanVars, timerVars, registered, canceled>>

Ended == {"failed", "stopped"}

\* Every variable has its type; only what a scan may find is registered.
TypeOK ==
  /\ dir \in BOOLEAN /\ parent \in BOOLEAN
  /\ content \in [Files -> Contents]
  /\ watching \in BOOLEAN /\ parentWatched \in BOOLEAN
  /\ queue \in Seq({"child", "self", "inert", "overflow"})
  /\ pc \in {"readdir", "entries", "read", "reassert", "adddir", "addparent",
             "loop"} \cup Ended
  /\ startup \in BOOLEAN
  /\ todo \subseteq Files
  /\ file \in Files \cup {Absent}
  /\ found \in [Files -> Entries]
  /\ timer \in {"off", "running", "fired"}
  /\ debounceActive \in BOOLEAN
  /\ registered \in [Files -> Entries]
  /\ canceled \in BOOLEAN

Nothing == [f \in Files |-> NoTool]

\* run starts with its own scan of a directory that holds anything.
Init ==
  /\ dir \in BOOLEAN /\ parent = TRUE
  /\ content \in [Files -> Contents]
  /\ ~ dir => content = [f \in Files |-> Absent]
  /\ watching = FALSE /\ parentWatched = FALSE /\ queue = <<>>
  /\ pc = "readdir" /\ startup = TRUE
  /\ todo = {} /\ file = Absent /\ found = Nothing
  /\ timer = "off" /\ debounceActive = FALSE
  /\ registered = Nothing
  /\ canceled = FALSE

-----------------------------------------------------------------------------
(* The file system, the kernel's queue and fsnotify. *)

\* The kernel queues an event when a watch is there to report it.  Events
\* that would be queued several times over are queued once: a second one can
\* only add a rescan.  A full queue takes one overflow mark and drops the rest.
Report(watched, event) ==
  \/ ~ watched /\ UNCHANGED queue
  \/ watched /\ Len(queue) < QueueLimit /\ queue' = Append(queue, event)
  \/ /\ watched /\ Len(queue) >= QueueLimit
     /\ "overflow" \in Environment
     /\ queue' = IF \E i \in DOMAIN queue : queue[i] = "overflow" THEN queue
                 ELSE Append(queue, "overflow")

Change == pc \notin Ended /\ UNCHANGED <<pc, scanVars, timerVars, registered, canceled>>

\* A script is created, executable or not, or its text is changed.
WriteFile(f) ==
  /\ Change
  /\ dir
  /\ \E c \in Contents \ {Absent, content[f]} :
       /\ content[f] # Absent => c.exec = content[f].exec
       /\ content' = [content EXCEPT ![f] = c]
  /\ Report(watching, "child")
  /\ UNCHANGED <<dir, parent, watchVars>>

\* A script is deleted, or moved out of the directory.
DeleteFile(f) ==
  /\ Change
  /\ content[f] # Absent
  /\ content' = [content EXCEPT ![f] = Absent]
  /\ Report(watching, "child")
  /\ UNCHANGED <<dir, parent, watchVars>>

\* The executable bits of a script change.
Chmod(f) ==
  /\ Change
  /\ "chmod" \in Environment
  /\ content[f] # Absent
  /\ content' = [content EXCEPT ![f].exec = ~ content[f].exec]
  /\ Report(watching, "inert")
  /\ UNCHANGED <<dir, parent, watchVars>>

\* The directory is deleted or renamed: its own watch reports that and is
\* gone, and so does the watch on the parent.
RemoveDir ==
  /\ Change
  /\ "replace" \in Environment
  /\ dir
  /\ dir' = FALSE /\ content' = [f \in Files |-> Absent]
  /\ Report(watching \/ parentWatched, "self")
  /\ watching' = FALSE
  /\ UNCHANGED <<parent, parentWatched>>

\* A directory is made at the path, or one with scripts in it is moved there.
CreateDir ==
  /\ Change
  /\ parent /\ ~ dir
  /\ dir' = TRUE /\ content' \in [Files -> Contents]
  /\ Report(parentWatched, "self")
  /\ UNCHANGED <<parent, watchVars>>

\* The parent is deleted with everything in it; nobody watches above it.
RemoveParent ==
  /\ Change
  /\ "ancestor" \in Environment
  /\ parent
  /\ parent' = FALSE /\ dir' = FALSE /\ content' = [f \in Files |-> Absent]
  /\ Report(watching \/ (parentWatched /\ dir), "self")
  /\ watching' = FALSE /\ parentWatched' = FALSE

\* The parent is made again.
CreateParent ==
  /\ Change
  /\ ~ parent
  /\ parent' = TRUE
  /\ UNCHANGED <<dir, content, watchVars, queue>>

FsStep == \/ \E f \in Files : WriteFile(f) \/ DeleteFile(f) \/ Chmod(f)
          \/ RemoveDir \/ CreateDir \/ RemoveParent \/ CreateParent

-----------------------------------------------------------------------------
(* discoverTools, and what its callers do with the result. *)

\* os.ReadDir: the names are a snapshot, the files behind them are not.  On
\* an error run gives up, and a rescan leaves the registry as it is.
ReadDir ==
  /\ pc = "readdir"
  /\ \/ /\ dir
        /\ todo' = {f \in Files : content[f] # Absent}
        /\ found' = Nothing
        /\ pc' = "entries"
     \/ /\ ~ dir
        /\ pc' = IF startup THEN "failed" ELSE "loop"
        /\ UNCHANGED <<todo, found>>
  /\ UNCHANGED <<fsVars, watchVars, queue, startup, file, timerVars, registered, canceled>>

\* A regular file with an executable bit.
isToolFile(c) == c \in [text : Texts, exec : {TRUE}]

\* EvalSymlinks, Stat and isToolFile for one entry.  (The order of the
\* entries settles only name collisions.)
StatEntry(f) ==
  /\ pc = "entries"
  /\ f \in todo
  /\ todo' = todo \ {f}
  /\ \/ isToolFile(content[f]) /\ file' = f /\ pc' = "read"
     \/ ~ isToolFile(content[f]) /\ UNCHANGED <<file, pc>>
  /\ UNCHANGED <<fsVars, watchVars, queue, startup, found, timerVars, registered, canceled>>

\* Faulty variant: the entry of a file that vanished is kept as a hole.
ReadEntryHole ==
  /\ pc = "read"
  /\ found' = [found EXCEPT ![file] =
                 IF content[file] = Absent THEN Absent ELSE content[file].text]
  /\ file' = Absent
  /\ pc' = "entries"
  /\ UNCHANGED <<fsVars, watchVars, queue, startup, todo, timerVars, registered, canceled>>

\* extractFrontmatter opens the file by name again; if it is gone by now the
\* tool is registered without metadata.
ReadEntry ==
  /\ pc = "read"
  /\ found' = [found EXCEPT ![file] =
                 IF content[file] = Absent THEN NoText ELSE content[file].text]
  /\ file' = Absent
  /\ pc' = "entries"
  /\ UNCHANGED <<fsVars, watchVars, queue, startup, todo, timerVars, registered, canceled>>

\* The scan is over: run's registry.replace, or the rescan's replaceIfChanged.
Apply ==
  /\ pc = "entries"
  /\ todo = {}
  /\ registered' = found
  /\ pc' = IF startup THEN "reassert" ELSE "loop"
  /\ found' = IF startup THEN found ELSE Nothing
  /\ UNCHANGED <<fsVars, watchVars, queue, startup, todo, file, timerVars, canceled>>

\* watchTools re-asserts the initial tools.
Reassert ==
  /\ pc = "reassert"
  /\ registered' = found
  /\ found' = Nothing
  /\ pc' = "adddir"
  /\ UNCHANGED <<fsVars, watchVars, queue, startup, todo, file, timerVars, canceled>>

-----------------------------------------------------------------------------
(* watchChanges. *)

\* watcher.Add of the scripts directory.
AddDir ==
  /\ pc = "adddir"
  /\ watching' = dir
  /\ pc' = IF dir THEN "addparent" ELSE "failed"
  /\ UNCHANGED <<fsVars, parentWatched, queue, scanVars, timerVars, registered, canceled>>

\* Faulty variant: the loop starts without the guaranteed rescan.
AddParentNoRescan ==
  /\ pc = "addparent"
  /\ parentWatched' = parent
  /\ pc' = IF parent THEN "loop" ELSE "failed"
  /\ startup' = FALSE
  /\ UNCHANGED <<fsVars, watching, queue, todo, file, found, timerVars, registered, canceled>>

\* watcher.Add of its parent, then the guaranteed rescan.
AddParent ==
  /\ pc = "addparent"
  /\ parentWatched' = parent
  /\ pc' = IF parent THEN "readdir" ELSE "failed"
  /\ startup' = FALSE
  /\ UNCHANGED <<fsVars, watching, queue, todo, file, found, timerVars, registered, canceled>>

\* Start the debounce clock unless it is already running.
Arm ==
  \/ debounceActive /\ UNCHANGED timerVars
  \/ ~ debounceActive /\ debounceActive' = TRUE /\ timer' = "running"

\* Faulty variant: a replaced directory is not added again.
reattachNothing == UNCHANGED watching

\* An event on the path itself is followed by a re-Add, which fails while
\* there is no directory and arms the debounce when it succeeds.
reattach == watching' = dir

\* The Events case of the select.  Events of the parent that do not name the
\* path never get here; those whose operation is only Chmod arm nothing.
HandleEvent ==
  /\ pc = "loop"
  /\ queue # <<>>
  /\ \/ Head(queue) = "child" /\ Arm /\ UNCHANGED watching
     \/ Head(queue) = "self" /\ Arm /\ reattach
     \/ Head(queue) = "inert" /\ UNCHANGED <<timerVars, watching>>
  /\ queue' = Tail(queue)
  /\ UNCHANGED <<fsVars, parentWatched, pc, scanVars, registered, canceled>>

\* The Errors case: fsnotify reports the overflow there; logged and swallowed.
HandleError ==
  /\ pc = "loop"
  /\ queue # <<>> /\ Head(queue) = "overflow"
  /\ queue' = Tail(queue)
  /\ UNCHANGED <<fsVars, watchVars, pc, scanVars, timerVars, registered, canceled>>

\* Faulty variants: the flag stays up; the rescan waits for a quiet queue.
DebounceFireLatched ==
  /\ pc = "loop"
  /\ timer = "fired"
  /\ timer' = "off"
  /\ pc' = "readdir"
  /\ UNCHANGED <<fsVars, watchVars, queue, scanVars, debounceActive, registered, canceled>>

DebounceFireQuiet ==
  /\ pc = "loop"
  /\ timer = "fired" /\ queue = <<>>
  /\ timer' = "off" /\ debounceActive' = FALSE
  /\ pc' = "readdir"
  /\ UNCHANGED <<fsVars, watchVars, queue, scanVars, registered, canceled>>

\* The timer case: a rescan, during which the loop receives nothing.
DebounceFire ==
  /\ pc = "loop"
  /\ timer = "fired"
  /\ timer' = "off" /\ debounceActive' = FALSE
  /\ pc' = "readdir"
  /\ UNCHANGED <<fsVars, watchVars, queue, scanVars, registered, canceled>>

\* Faulty variant: the loop looks at the context only when nothing is queued.
StopLoopQuiet ==
  /\ pc = "loop"
  /\ canceled /\ queue = <<>>
  /\ pc' = "stopped"
  /\ UNCHANGED <<fsVars, watchVars, queue, scanVars, timerVars, registered, canceled>>

\* The ctx.Done case.
StopLoop ==
  /\ pc = "loop"
  /\ canceled
  /\ pc' = "stopped"
  /\ UNCHANGED <<fsVars, watchVars, queue, scanVars, timerVars, registered, canceled>>

\* The debounce delay passes.
Expire ==
  /\ timer = "running" /\ pc \notin Ended
  /\ timer' = "fired"
  /\ UNCHANGED <<fsVars, watchVars, queue, pc, scanVars, debounceActive, registered, canceled>>

\* The server shuts down.
Cancel ==
  /\ ~ canceled /\ pc \notin Ended
  /\ canceled' = TRUE
  /\ UNCHANGED <<fsVars, watchVars, queue, pc, scanVars, timerVars, registered>>

Scan == ReadDir \/ (\E f \in Files : StatEntry(f)) \/ ReadEntry \/ Apply
Setup == Reassert \/ AddDir \/ AddParent

Done == pc \in Ended /\ UNCHANGED vars

Next == FsStep \/ Scan \/ Setup \/ HandleEvent \/ HandleError
        \/ DebounceFire \/ StopLoop \/ Expire \/ Cancel \/ Done

Spec == Init /\ [][Next]_vars

\* A runnable goroutine runs and a timer expires; select picks among its
\* ready cases at random, so none is passed over forever.  Nothing makes the
\* file system change or the server shut down.
FairSpec == /\ Spec
            /\ WF_vars(Scan \/ Setup) /\ WF_vars(Expire)
            /\ SF_vars(HandleEvent) /\ SF_vars(HandleError)
            /\ SF_vars(DebounceFire) /\ SF_vars(StopLoop)

-----------------------------------------------------------------------------
\* What discoverTools registers for an entry that holds still.
Image(f) == IF isToolFile(content[f]) THEN content[f].text ELSE NoTool

\* The registry mirrors the directory; without one it keeps the last tools.
Fresh == dir => \A f \in Files : registered[f] = Image(f)

Queued(event) == \E i \in DOMAIN queue : queue[i] = event

\* Whenever the loop waits with a registry that differs from the directory, a
\* rescan is on its way: the debounce timer is set, or an event that will set
\* it is queued.  No change is lost, neither between the startup scan and the
\* first Add nor during a rescan nor while the directory is being replaced.
NoLostChange ==
  pc = "loop" /\ ~ Fresh => timer # "off" \/ Queued("child") \/ Queued("self")

\* Once the watch is set up, a directory whose inode is not watched is only
\* ever a directory with an event queued that leads to the re-Add.
NoLostWatch ==
  ~ startup /\ pc \notin Ended /\ dir /\ ~ watching => Queued("self")

\* debounceActive says whether the timer is set: it is not left TRUE without
\* a tick to come, which would silence the watcher for good.
DebounceMatchesTimer == pc = "loop" => (debounceActive <=> timer # "off")

Quiet == <>[][~ FsStep]_vars

\* When the file system comes to rest the registry comes to mirror it.
Converges == Quiet => <>[](pc \in Ended \/ canceled \/ Fresh)

\* When the file system comes to rest the directory at the path is watched.
WatchRestored == Quiet => <>[](pc \in Ended \/ canceled \/ (dir => watching))

\* A continuous stream of changes cannot put a rescan off for ever, because
\* events do not restart a running debounce.
RescanHappens == timer # "off" ~> (pc = "readdir" \/ pc \in Ended \/ canceled)

\* Canceling ends the loop, whatever the file system does meanwhile.
CancelStops == canceled ~> pc \in Ended
==============================================================================

--------------------------- MODULE ConfigWatcher ---------------------------
(***************************************************************************)
(* The configuration watcher (config/watcher.rs): the file, the callback   *)
(* of the OS that reports changes, and the task that waits for 300 ms of   *)
(* silence before it loads the file.                                       *)
(***************************************************************************)
EXTENDS Integers

CONSTANTS
    Callbacks,    \* what on_change() may register
    MaxWrites     \* bound on the changes of the file

ASSUME WatcherAssumption == MaxWrites \in Nat

VARIABLES
    file,         \* [version, ok]: its content; ok if load_config() accepts it
    osEvent,      \* a change the callback of notify has yet to see
    wakeup,       \* the channel of capacity 1
    pending,      \* pending: a change has been received and not loaded
    watcher,      \* "starting", "failed" (to be created), "select", "send" or "callbacks"
    loaded,       \* what load_config() returned last
    config,       \* the value of the watch channel: get() and every subscriber see it
    missed,       \* history: the last change came before the file was watched
    told          \* told[cb]: what registered callbacks were called with last

watcherVars == <<file, osEvent, wakeup, pending, watcher, loaded, config, missed, told>>

\* start(): the file is loaded, and must be valid, before the task is spawned...
WatcherInit ==
    /\ file = [version |-> 0, ok |-> TRUE]
    /\ osEvent = FALSE /\ wakeup = FALSE /\ pending = FALSE
    /\ watcher = "starting"
    /\ loaded = 0 /\ config = 0 /\ missed = FALSE /\ told = <<>>

\* ... that has it watched; what is written in between nobody notices.
StartWatching ==
    /\ watcher = "starting"
    /\ watcher' \in {"select", "failed"}
    /\ UNCHANGED <<file, osEvent, wakeup, pending, loaded, config, missed, told>>

\* Someone writes the file, or half of it.
WriteFile ==
    /\ file.version < MaxWrites
    /\ \E ok \in BOOLEAN : file' = [version |-> file.version + 1, ok |-> ok]
    /\ osEvent' = (watcher \notin {"starting", "failed"})
    /\ missed' = (watcher = "starting")
    /\ UNCHANGED <<wakeup, pending, watcher, loaded, config, told>>

\* tx.try_send(()): with the channel full the event is dropped.
Notify ==
    /\ osEvent
    /\ osEvent' = FALSE /\ wakeup' = TRUE
    /\ UNCHANGED <<file, pending, watcher, loaded, config, missed, told>>

\* rx.recv(): the sleep starts anew with the next turn of the loop.
ReceiveEvent ==
    /\ watcher = "select" /\ wakeup
    /\ wakeup' = FALSE /\ pending' = TRUE
    /\ UNCHANGED <<file, osEvent, watcher, loaded, config, missed, told>>

\* 300 ms without an event: load the file; one that is not valid is left alone.
Debounced ==
    /\ watcher = "select" /\ pending
    /\ pending' = FALSE
    /\ IF file.ok THEN loaded' = file.version /\ watcher' = "send" ELSE UNCHANGED <<loaded, watcher>>
    /\ UNCHANGED <<file, osEvent, wakeup, config, missed, told>>

\* The wrong variant: what came in while the file was loaded is thrown away.
MutantPublishConfig ==
    /\ watcher = "send"
    /\ config' = loaded /\ wakeup' = FALSE
    /\ watcher' = "callbacks"
    /\ UNCHANGED <<file, osEvent, pending, loaded, missed, told>>

PublishConfig ==
    /\ watcher = "send"
    /\ config' = loaded
    /\ watcher' = "callbacks"
    /\ UNCHANGED <<file, osEvent, wakeup, pending, loaded, missed, told>>

\* All callbacks, under the read lock.
RunCallbacks ==
    /\ watcher = "callbacks"
    /\ told' = [cb \in DOMAIN told |-> loaded]
    /\ watcher' = "select"
    /\ UNCHANGED <<file, osEvent, wakeup, pending, loaded, config, missed>>

\* on_change(): a callback is not told the present configuration (-1).
OnChange(cb) ==
    /\ cb \notin DOMAIN told
    /\ told' = [c \in DOMAIN told \cup {cb} |-> IF c = cb THEN -1 ELSE told[c]]
    /\ UNCHANGED <<file, osEvent, wakeup, pending, watcher, loaded, config, missed>>

WatcherNext ==
    \/ StartWatching \/ WriteFile \/ Notify \/ ReceiveEvent \/ Debounced \/ PublishConfig \/ RunCallbacks
    \/ \E cb \in Callbacks : OnChange(cb)

\* The OS reports changes, and the runtime polls a ready task.  Changes end (MaxWrites):
\* one every 300 ms would put the load off for ever.
WatcherFairness ==
    /\ WF_watcherVars(StartWatching)
    /\ WF_watcherVars(Notify) /\ WF_watcherVars(ReceiveEvent) /\ WF_watcherVars(Debounced)
    /\ WF_watcherVars(PublishConfig) /\ WF_watcherVars(RunCallbacks)

WatcherSpec == WatcherInit /\ [][WatcherNext]_watcherVars /\ WatcherFairness
------------------------------------------------------------------------------
CaughtUp == config = file.version /\ \A cb \in DOMAIN told : told[cb] \in {-1, config}

(***************************************************************************)
(* Once changes stop, and the file is valid, the configuration is the      *)
(* file's and every callback has been called with it or was registered     *)
(* after: no change is lost to the debounce, to a full channel or to a     *)
(* load under way - only to the time before the file is watched, and then  *)
(* until the next change.                                                  *)
(***************************************************************************)
ConfigCatchesUp == <>[](watcher # "failed" /\ file.ok /\ ~missed => CaughtUp)
=============================================================================

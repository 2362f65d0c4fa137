----------------------------- MODULE SessionLoop -----------------------------
(***************************************************************************)
(* One session (src/src/main.go): the acquisition of its lock, startup     *)
(* reconciliation under initializeWatching, the select loop of run with    *)
(* its sync goroutine, timer, wrapped command, watcher, lock and signal    *)
(* channels, the final sync, and the deferred clean-up.                    *)
(*                                                                         *)
(* Simplifications:                                                        *)
(*  - a sync succeeds or fails as a whole (Repository has its steps);      *)
(*  - the lock refresh is a source of at most one error (RemoteLock has    *)
(*    its steps), and of the acquisition only whether rclone runs or the   *)
(*    session sleeps until the next look at the lock is kept;              *)
(*  - the events queued by the kernel and those in the channel are one     *)
(*    set, since a later event of a path repeats an earlier one;           *)
(*  - of the timer only whether it is armed is kept, not its delay.        *)
(***************************************************************************)
EXTENDS Integers, FiniteSets

CONSTANTS
    Name,        \* the paths of the watched directory
    MaxSignals   \* bound: signals sent to the session

ASSUME SessionAssumption == MaxSignals \in Nat

Buffer == 2  \* the capacity of the signal channel

Options == [uploadOnly : BOOLEAN, interval : BOOLEAN, command : BOOLEAN]

VARIABLES
    options,         \* as given on the command line
    phase,           \* acquire, startup, loop, closing (deferred calls), exited
    code,            \* the exit status that run returns
    unread,          \* paths with events that the session has not received
    watcher,         \* open, closing (Close called), ended (channels closed)
    watcherFault,    \* an error waits in the channel of the watcher
    lockFault,       \* an error waits in the channel of the refresh loop
    lockAlive,       \* the refresh loop has not failed
    sigs,            \* signals that wait in their channel
    sent,            \* signals sent so far
    cmd,             \* wrapped command: none (commandDone is nil), running, exited
    killed,          \* it has been sent SIGKILL
    cancelled,       \* the runner has been cancelled
    pending, batch,  \* the changed paths, and those being synced
    result,          \* sync goroutine: none (~active), running, or its answer;
                     \* acquiring: running for rclone, none for the sleep
    stopping, finalAttempted, syncReady, abandoned, interrupted,
    eventsOpen,      \* ~watcherClosed: eventC is not nil
    errorsOpen,      \* errorC is not nil
    watcherErr, lockErr,
    timer,           \* timerC is not nil
    signalsSeen,     \* as far as run looks at it: 0, 1 or 2
    behind,          \* history: paths whose last change is not on the remote
    touched,         \* history: paths changed since the sync started
    tried            \* history: paths in a batch since their last change

watchVars   == <<unread, watcher, watcherFault, eventsOpen, errorsOpen>>
lockVars    == <<lockFault, lockAlive, lockErr>>
signalVars  == <<options, sigs, sent, signalsSeen, interrupted, abandoned>>
commandVars == <<cmd, killed>>
syncVars    == <<cancelled, pending, batch, result, syncReady, timer, finalAttempted>>
exitVars    == <<phase, code, stopping, watcherErr>>
history     == <<behind, touched, tried>>
vars == <<watchVars, lockVars, signalVars, commandVars, syncVars, exitVars, history>>

Codes == {"unset", "command", "failed", "signal"}
Answers == {"ok", "err", "lost"}

UploadOnly == options.uploadOnly  \* no lock, no startup reconciliation
Interval == options.interval      \* --interval is positive
Command == options.command        \* a command is wrapped

\* The types; a signal beyond the capacity of its channel is not kept, and the
\* loop has a batch exactly while a sync is active.
TypeOK ==
    /\ options \in Options
    /\ phase \in {"acquire", "startup", "loop", "closing", "exited"}
    /\ code \in Codes
    /\ unread \subseteq Name
    /\ watcher \in {"open", "closing", "ended"}
    /\ sigs \in 0 .. Buffer
    /\ sent \in 0 .. MaxSignals
    /\ signalsSeen \in 0 .. 2
    /\ cmd \in {"none", "running", "exited"}
    /\ pending \subseteq Name
    /\ batch \subseteq Name
    /\ result \in {"none", "running"} \cup Answers
    /\ behind \subseteq Name
    /\ touched \subseteq Name
    /\ tried \subseteq Name
    /\ phase = "loop" => (result = "none" <=> batch = {})
    /\ {watcherFault, lockFault, lockAlive, killed, cancelled, stopping,
        finalAttempted, syncReady, abandoned, interrupted, eventsOpen,
        errorsOpen, watcherErr, lockErr, timer} \subseteq BOOLEAN

\* Acquire reads the remote state; with --upload-only the loop is entered at
\* once, and stopped at once if the command cannot be started.
Init ==
    /\ options \in Options
    /\ phase = IF UploadOnly THEN "loop" ELSE "acquire"
    /\ result = IF UploadOnly THEN "none" ELSE "running"
    /\ stopping \in {FALSE, UploadOnly /\ Command}
    /\ cmd = IF UploadOnly /\ Command /\ ~stopping THEN "running" ELSE "none"
    /\ watcher = IF stopping THEN "closing" ELSE "open"
    /\ timer = (UploadOnly /\ Interval /\ ~stopping)
    /\ behind \in IF UploadOnly THEN {{}} ELSE {{}, Name}
    /\ lockAlive = FALSE
    /\ code = "unset"
    /\ unread = {}
    /\ eventsOpen = TRUE
    /\ errorsOpen = TRUE
    /\ sigs = 0
    /\ sent = 0
    /\ signalsSeen = 0
    /\ pending = {}
    /\ batch = {}
    /\ touched = {}
    /\ tried = {}
    /\ watcherFault = FALSE
    /\ lockFault = FALSE
    /\ killed = FALSE
    /\ cancelled = FALSE
    /\ finalAttempted = FALSE
    /\ syncReady = FALSE
    /\ abandoned = FALSE
    /\ interrupted = FALSE
    /\ watcherErr = FALSE
    /\ lockErr = FALSE

-----------------------------------------------------------------------------
(* The goroutines and processes around the loop *)

\* A path changes while the kernel still records it.
Change(n) ==
    /\ phase \in {"startup", "loop"}
    /\ watcher # "ended"
    /\ unread' = unread \cup {n}
    /\ behind' = behind \cup {n}
    /\ touched' = touched \cup {n}
    /\ tried' = tried \ {n}
    /\ UNCHANGED <<watcher, watcherFault, eventsOpen, errorsOpen, lockVars,
                   signalVars, commandVars, syncVars, exitVars>>

\* readLoop reports an error.  Events may be missing from then on; it returns,
\* or goes on until it has drained the queue.
WatcherFails ==
    /\ phase \in {"startup", "loop"}
    /\ watcher # "ended"
    /\ watcherFault' = TRUE
    /\ watcher' \in {"closing", "ended"}
    /\ unread' \in SUBSET unread
    /\ UNCHANGED <<eventsOpen, errorsOpen, lockVars, signalVars, commandVars,
                   syncVars, exitVars, history>>

\* After Close, readLoop drains the queue and closes its channels.
WatcherEnds ==
    /\ watcher = "closing"
    /\ watcher' = "ended"
    /\ UNCHANGED <<unread, watcherFault, eventsOpen, errorsOpen, lockVars,
                   signalVars, commandVars, syncVars, exitVars, history>>

\* failRefresh: the runner is cancelled, then the error is sent.
LockFails ==
    /\ phase \in {"startup", "loop"}
    /\ lockAlive
    /\ lockAlive' = FALSE
    /\ lockFault' = TRUE
    /\ cancelled' = TRUE
    /\ UNCHANGED <<watchVars, lockErr, signalVars, commandVars, pending, batch,
                   result, syncReady, timer, finalAttempted, exitVars, history>>

\* The goroutine of InitializeGeneration or of Sync returns.  A full
\* reconciliation covers every path, a batch those that it was given.
SyncReturns(r) ==
    /\ phase # "acquire"
    /\ result = "running"
    /\ r = "ok" => ~cancelled
    /\ r = "lost" => ~UploadOnly
    /\ result' = r
    /\ behind' = IF r # "ok" THEN behind
                 ELSE IF phase = "startup" THEN behind \cap touched
                 ELSE behind \ (batch \ touched)
    /\ UNCHANGED <<watchVars, lockVars, signalVars, commandVars, cancelled, pending,
                   batch, syncReady, timer, finalAttempted, exitVars, touched, tried>>

CommandExits ==
    /\ cmd = "running"
    /\ cmd' = "exited"
    /\ UNCHANGED <<watchVars, lockVars, signalVars, killed, syncVars, exitVars, history>>

\* os/signal does not wait for room in the channel.
Queued(n) == IF n < Buffer THEN n + 1 ELSE n

\* SIGINT or SIGTERM; one that finds the channel full is dropped.
Signal ==
    /\ phase \in {"acquire", "startup", "loop"}
    /\ sent < MaxSignals
    /\ sent' = sent + 1
    /\ sigs' = Queued(sigs)
    /\ UNCHANGED <<watchVars, lockVars, options, signalsSeen, interrupted, abandoned,
                   commandVars, syncVars, exitVars, history>>

-----------------------------------------------------------------------------
(* Helpers of the loop *)

active == result # "none"

\* watcher.Close()
CloseWatcher == watcher' = IF watcher = "open" THEN "closing" ELSE watcher

\* Mutant: a sync is started without any changes.
startSyncAlways(p) ==
    IF active
      THEN pending' = p /\ UNCHANGED <<batch, result, touched, tried>>
      ELSE /\ batch' = p
           /\ pending' = {}
           /\ result' = "running"
           /\ touched' = {}
           /\ tried' = tried \cup p

\* startSync with changed paths p
startSync(p) ==
    IF active \/ p = {}
      THEN pending' = p /\ UNCHANGED <<batch, result, touched, tried>>
      ELSE /\ batch' = p
           /\ pending' = {}
           /\ result' = "running"
           /\ touched' = {}
           /\ tried' = tried \cup p

Return(c) == phase' = "closing" /\ code' = c

\* Mutant: the timer stays armed and the command is left running.
abortForLockFailurePartly ==
    /\ lockErr' = TRUE
    /\ cancelled' = TRUE
    /\ stopping' = TRUE
    /\ CloseWatcher
    /\ UNCHANGED <<timer, syncReady, killed>>

\* A failure of the lock stops everything, the wrapped command included.
abortForLockFailure ==
    IF lockErr
      THEN UNCHANGED <<lockErr, cancelled, stopping, timer, syncReady, killed, watcher>>
      ELSE /\ lockErr' = TRUE
           /\ cancelled' = TRUE
           /\ stopping' = TRUE
           /\ timer' = FALSE
           /\ syncReady' = FALSE
           /\ killed' = (killed \/ cmd # "none")
           /\ CloseWatcher

\* Mutant: the failed batch is dropped.
mergeFailedBatchDropped(p, b) == p

mergeFailedBatch(p, b) == p \cup b

\* The closed channels of the watcher, received by either select.
EventsClosed ==
    /\ phase \in {"startup", "loop"}
    /\ eventsOpen /\ watcher = "ended" /\ unread = {}
    /\ eventsOpen' = FALSE
    /\ UNCHANGED <<unread, watcher, watcherFault, errorsOpen, lockVars, signalVars,
                   commandVars, syncVars, exitVars, history>>

ErrorsClosed ==
    /\ phase \in {"startup", "loop"}
    /\ errorsOpen /\ watcher = "ended" /\ ~watcherFault
    /\ errorsOpen' = FALSE
    /\ UNCHANGED <<unread, watcher, watcherFault, eventsOpen, lockVars, signalVars,
                   commandVars, syncVars, exitVars, history>>

-----------------------------------------------------------------------------
(* Acquire: nothing cancels a running rclone, signals count during the sleep *)

\* The lock is taken and the startup reconciliation begins with an open watcher.
Acquired ==
    /\ phase = "acquire"
    /\ result = "running"
    /\ phase' = "startup"
    /\ lockAlive' = TRUE
    /\ UNCHANGED <<watchVars, lockFault, lockErr, signalVars, commandVars, syncVars,
                   code, stopping, watcherErr, history>>

\* The lock is active, or could not be verified yet: the session sleeps.
AcquireWaits ==
    /\ phase = "acquire"
    /\ result = "running"
    /\ result' = "none"
    /\ UNCHANGED <<watchVars, lockVars, signalVars, commandVars, cancelled, pending,
                   batch, syncReady, timer, finalAttempted, exitVars, history>>

AcquireWakes ==
    /\ phase = "acquire"
    /\ result = "none"
    /\ result' = "running"
    /\ UNCHANGED <<watchVars, lockVars, signalVars, commandVars, cancelled, pending,
                   batch, syncReady, timer, finalAttempted, exitVars, history>>

\* Acquire fails and run returns at once, or newWatcher fails under the lock.
AcquireFails ==
    /\ phase = "acquire"
    /\ result = "running"
    /\ code' = "failed"
    /\ result' = "none"
    /\ \/ phase' = "exited" /\ UNCHANGED watcher
       \/ phase' = "closing" /\ watcher' = "ended"
    /\ UNCHANGED <<unread, watcherFault, eventsOpen, errorsOpen, lockVars, signalVars,
                   commandVars, cancelled, pending, batch, syncReady, timer,
                   finalAttempted, stopping, watcherErr, history>>

\* Mutant: the sleep does not select on the signals.
AcquireDeaf == FALSE

AcquireSignal ==
    /\ phase = "acquire"
    /\ result = "none"
    /\ sigs > 0
    /\ sigs' = sigs - 1
    /\ phase' = "exited"
    /\ code' = "signal"
    /\ UNCHANGED <<watchVars, lockVars, options, sent, signalsSeen, interrupted, abandoned,
                   commandVars, syncVars, stopping, watcherErr, history>>

AcquireReturns == Acquired \/ AcquireWaits \/ AcquireFails

-----------------------------------------------------------------------------
(* initializeWatching *)

StartupEvent(n) ==
    /\ phase = "startup"
    /\ n \in unread
    /\ unread' = unread \ {n}
    /\ pending' = pending \cup {n}
    /\ UNCHANGED <<watcher, watcherFault, eventsOpen, errorsOpen, lockVars, signalVars,
                   commandVars, cancelled, batch, result, syncReady, timer,
                   finalAttempted, exitVars, history>>

StartupError ==
    /\ phase = "startup"
    /\ watcherFault
    /\ watcherFault' = FALSE
    /\ watcherErr' = TRUE
    /\ cancelled' = TRUE
    /\ UNCHANGED <<unread, watcher, eventsOpen, errorsOpen, lockVars, signalVars,
                   commandVars, pending, batch, result, syncReady, timer,
                   finalAttempted, phase, code, stopping, history>>

StartupSignal ==
    /\ phase = "startup"
    /\ sigs > 0
    /\ sigs' = sigs - 1
    /\ interrupted' = TRUE
    /\ cancelled' = TRUE
    /\ UNCHANGED <<watchVars, lockVars, options, sent, signalsSeen, abandoned, commandVars,
                   pending, batch, result, syncReady, timer, finalAttempted,
                   exitVars, history>>

\* The wrapped command is started, or cannot be, which is like its end.
StartCommand ==
    \/ /\ Command
       /\ cmd' = "running"
       /\ timer' = Interval
       /\ UNCHANGED <<watcher, stopping>>
    \/ /\ Command
       /\ cmd' = "none"
       /\ stopping' = TRUE
       /\ timer' = FALSE
       /\ CloseWatcher
    \/ /\ ~Command
       /\ timer' = Interval
       /\ UNCHANGED <<cmd, watcher, stopping>>

\* Startup is over: the loop begins only if nothing has gone wrong, the lock
\* included.
StartupDone ==
    /\ phase = "startup"
    /\ result \in Answers
    /\ result' = "none"
    /\ \/ /\ interrupted
          /\ Return("signal")
          /\ UNCHANGED <<watchVars, cmd, timer, stopping>>
       \/ /\ ~interrupted
          /\ watcherErr \/ result # "ok" \/ lockFault
          /\ Return("failed")
          /\ UNCHANGED <<watchVars, cmd, timer, stopping>>
       \/ /\ ~interrupted /\ ~watcherErr /\ result = "ok" /\ ~lockFault
          /\ phase' = "loop"
          /\ StartCommand
          /\ eventsOpen' = TRUE
          /\ errorsOpen' = TRUE
          /\ UNCHANGED <<unread, watcherFault, code>>
    /\ UNCHANGED <<lockVars, signalVars, killed, cancelled, pending, batch,
                   syncReady, finalAttempted, watcherErr, history>>

-----------------------------------------------------------------------------
(* The loop of run *)

\* Mutant: the channel of the watcher's errors is not waited for.
AtEndEventsOnly ==
    /\ phase = "loop"
    /\ stopping /\ ~eventsOpen /\ ~active /\ cmd = "none"

\* The condition at the head of the loop: nothing is left to wait for.
AtEnd ==
    /\ phase = "loop"
    /\ stopping /\ ~eventsOpen /\ ~errorsOpen /\ ~active /\ cmd = "none"

\* Mutant: a failed watcher excludes the final sync.
FinalSyncDueIfWatched == pending # {} /\ ~finalAttempted /\ ~watcherErr

FinalSyncDue == pending # {} /\ ~finalAttempted

\* One final sync, unless the lock is lost.
FinalSync ==
    /\ AtEnd
    /\ ~lockErr
    /\ FinalSyncDue
    /\ startSync(pending)
    /\ finalAttempted' = TRUE
    /\ UNCHANGED <<watchVars, lockVars, signalVars, commandVars, cancelled,
                   syncReady, timer, exitVars, behind>>

\* Then the session fails, or is marked as finished, which may fail as well.
Finish ==
    /\ AtEnd
    /\ lockErr \/ ~FinalSyncDue
    /\ IF lockErr \/ watcherErr \/ pending # {}
         THEN Return("failed")
         ELSE \/ Return("command")
              \/ ~UploadOnly /\ Return("failed")
    /\ UNCHANGED <<watchVars, lockVars, signalVars, commandVars, syncVars,
                   stopping, watcherErr, history>>

Selecting == phase = "loop" /\ ~AtEnd

EventCase(n) ==
    /\ Selecting
    /\ n \in unread
    /\ unread' = unread \ {n}
    /\ IF syncReady /\ ~active /\ ~stopping
         THEN syncReady' = FALSE /\ startSync(pending \cup {n})
         ELSE /\ pending' = pending \cup {n}
              /\ UNCHANGED <<syncReady, batch, result, touched, tried>>
    /\ UNCHANGED <<watcher, watcherFault, eventsOpen, errorsOpen, lockVars, signalVars,
                   commandVars, cancelled, timer, finalAttempted, exitVars, behind>>

ErrorCase ==
    /\ Selecting
    /\ watcherFault
    /\ watcherFault' = FALSE
    /\ watcherErr' = TRUE
    /\ IF watcherErr
         THEN UNCHANGED <<stopping, timer, watcher>>
         ELSE stopping' = TRUE /\ timer' = FALSE /\ CloseWatcher
    /\ UNCHANGED <<unread, eventsOpen, errorsOpen, lockVars, signalVars, commandVars,
                   cancelled, pending, batch, result, syncReady, finalAttempted,
                   phase, code, history>>

LockCase ==
    /\ Selecting
    /\ lockFault
    /\ lockFault' = FALSE
    /\ abortForLockFailure
    /\ UNCHANGED <<unread, watcherFault, eventsOpen, errorsOpen, lockAlive, signalVars,
                   cmd, pending, batch, result, finalAttempted, phase, code,
                   watcherErr, history>>

TimerCase ==
    /\ Selecting
    /\ timer
    /\ timer' = FALSE
    /\ syncReady' = (pending = {} \/ syncReady)
    /\ startSync(pending)
    /\ UNCHANGED <<watchVars, lockVars, signalVars, commandVars, cancelled,
                   finalAttempted, exitVars, behind>>

\* Mutant: the timer is reset but its channel is not selected again.
RearmNever(due) == UNCHANGED <<syncReady, timer>>

\* The timer is armed for the next sync or retry, unless the session stops.
Rearm(due) ==
    IF stopping \/ ~due
      THEN UNCHANGED <<syncReady, timer>>
      ELSE syncReady' = FALSE /\ timer' = TRUE

ResultCase ==
    /\ Selecting
    /\ result \in Answers
    /\ result' = "none"
    /\ batch' = {}
    /\ \/ /\ result = "lost"
          /\ abortForLockFailure
          /\ UNCHANGED pending
       \/ /\ result = "err"
          /\ pending' = mergeFailedBatch(pending, batch)
          /\ Rearm(TRUE)
          /\ UNCHANGED <<lockErr, cancelled, stopping, killed, watcher>>
       \/ /\ result = "ok"
          /\ Rearm(Interval)
          /\ UNCHANGED <<pending, lockErr, cancelled, stopping, killed, watcher>>
    /\ UNCHANGED <<unread, watcherFault, eventsOpen, errorsOpen, lockFault, lockAlive,
                   signalVars, cmd, finalAttempted, phase, code, watcherErr, history>>

CommandCase ==
    /\ Selecting
    /\ cmd = "exited"
    /\ cmd' = "none"
    /\ stopping' = TRUE
    /\ timer' = (timer /\ stopping)
    /\ syncReady' = (syncReady /\ stopping)
    /\ CloseWatcher
    /\ UNCHANGED <<unread, watcherFault, eventsOpen, errorsOpen, lockVars, signalVars,
                   killed, cancelled, pending, batch, result, finalAttempted,
                   phase, code, watcherErr, history>>

\* Mutant: the second signal is not enough.
AbandonsOnThird(seen) == cmd = "none" /\ ~abandoned /\ seen > 2

\* A repeated signal abandons the final sync.
Abandons(seen) == cmd = "none" /\ ~abandoned /\ seen >= 2

\* A signal is passed on to a running command and counted otherwise.  The first
\* one stops the session, a repeated one abandons the final sync.
SignalCase ==
    LET seen == IF cmd = "none" /\ signalsSeen < 2 THEN signalsSeen + 1
                ELSE signalsSeen
    IN
    /\ Selecting
    /\ sigs > 0
    /\ sigs' = sigs - 1
    /\ signalsSeen' = seen
    /\ \/ /\ ~stopping
          /\ stopping' = TRUE
          /\ timer' = FALSE
          /\ syncReady' = FALSE
          /\ IF cmd = "none" THEN CloseWatcher ELSE UNCHANGED watcher
          /\ UNCHANGED <<abandoned, finalAttempted, cancelled>>
       \/ /\ stopping
          /\ ~Abandons(seen)
          /\ UNCHANGED <<stopping, timer, syncReady, watcher, abandoned,
                         finalAttempted, cancelled>>
       \/ /\ stopping
          /\ Abandons(seen)
          /\ abandoned' = TRUE
          /\ finalAttempted' = TRUE
          /\ cancelled' = TRUE
          /\ UNCHANGED <<stopping, timer, syncReady, watcher>>
    /\ UNCHANGED <<unread, watcherFault, eventsOpen, errorsOpen, lockVars, options, sent,
                   interrupted, commandVars, pending, batch, result, phase, code,
                   watcherErr, history>>

\* The deferred calls: the watcher is closed and drained, the refresh loop
\* stopped and the lock released, which may fail and changes the exit status.
Close ==
    /\ phase = "closing"
    /\ watcher = "ended"
    /\ phase' = "exited"
    /\ code' \in IF UploadOnly THEN {code} ELSE {code, "failed"}
    /\ unread' = {}
    /\ UNCHANGED <<watcher, watcherFault, eventsOpen, errorsOpen, lockVars, signalVars,
                   commandVars, syncVars, stopping, watcherErr, history>>

CloseWatcherDeferred ==
    /\ phase = "closing"
    /\ watcher = "open"
    /\ CloseWatcher
    /\ UNCHANGED <<unread, watcherFault, eventsOpen, errorsOpen, lockVars, signalVars,
                   commandVars, syncVars, exitVars, history>>

LoopStep ==
    \/ AcquireReturns \/ AcquireWakes \/ AcquireSignal
    \/ EventsClosed \/ ErrorsClosed
    \/ StartupError \/ StartupSignal \/ StartupDone
    \/ FinalSync \/ Finish
    \/ ErrorCase \/ LockCase \/ TimerCase \/ ResultCase \/ CommandCase \/ SignalCase
    \/ Close \/ CloseWatcherDeferred
    \/ \E n \in Name : StartupEvent(n) \/ EventCase(n)

Next ==
    \/ LoopStep
    \/ \E n \in Name : Change(n)
    \/ WatcherFails \/ WatcherEnds \/ LockFails \/ CommandExits \/ Signal
    \/ \E r \in Answers : SyncReturns(r)

Spec == Init /\ [][Next]_vars

\* A ready case of a select is chosen sooner or later; readLoop ends after
\* Close; a killed command and the commands of a cancelled runner end.  Nothing
\* is assumed of a command or an rclone process that nobody has stopped.
Fairness ==
    /\ \A n \in Name : WF_vars(StartupEvent(n)) /\ WF_vars(EventCase(n))
    /\ WF_vars(EventsClosed) /\ WF_vars(ErrorsClosed)
    /\ WF_vars(StartupError) /\ WF_vars(StartupSignal) /\ WF_vars(StartupDone)
    /\ WF_vars(FinalSync) /\ WF_vars(Finish)
    /\ WF_vars(ErrorCase) /\ WF_vars(LockCase) /\ WF_vars(TimerCase)
    /\ WF_vars(ResultCase) /\ WF_vars(CommandCase) /\ WF_vars(SignalCase)
    /\ WF_vars(CloseWatcherDeferred) /\ WF_vars(UploadOnly /\ Close)
    /\ WF_vars(AcquireWakes) /\ SF_vars(AcquireSignal)
    /\ WF_vars(WatcherEnds)
    /\ WF_vars(killed /\ CommandExits)
    /\ WF_vars(cancelled /\ \E r \in Answers : SyncReturns(r))

\* The rclone commands that nothing cancels return: those of Acquire and the
\* ones with which Close releases the lock.
UncancelledReturn == WF_vars(AcquireReturns) /\ WF_vars(Close)

FairSpec == Spec /\ Fairness /\ UncancelledReturn

-----------------------------------------------------------------------------
(* Properties *)

\* A session that ends with the status of its command has brought every change
\* that the watcher saw to the remote and knows of no failure, whatever the
\* order in which events, results, errors and signals were received (the
\* conditions at the head of the loop before FinishSession).
CleanExitIsComplete ==
    code = "command" => behind = {} /\ ~watcherErr /\ ~watcherFault /\ ~lockErr

\* No change is forgotten: it is in a channel, in the changed paths or in the
\* batch, until the session gives up for want of its lock or of its watcher
\* (queueChange, startSync, mergeFailedBatch).
NoChangeForgotten ==
    phase = "loop" /\ ~lockErr /\ ~watcherErr /\ ~watcherFault =>
        behind \subseteq unread \cup pending \cup batch

\* A session that fails with its lock in hand, and was not told to abandon the
\* final sync, leaves no change behind that it has not tried to sync since the
\* change was made: those it knows of, and all of them unless the watcher has
\* failed (the last events, finalAttempted and the retries before it).
LastChangesAreTried ==
    phase = "closing" /\ code = "failed" /\ stopping /\ ~lockErr /\ ~abandoned =>
        pending \subseteq tried /\ (watcherErr \/ behind \subseteq tried)

\* While it runs with an interval, the session always has a way to the next
\* sync: one is running, the timer is armed or the next event starts one
\* (timer, timerC and syncReady).
TimerNeverLost ==
    phase = "loop" /\ Interval /\ ~stopping => active \/ timer \/ syncReady

\* No sync starts once the loop has noticed that the lock is lost
\* (abortForLockFailure).
NoSyncAfterLockLoss ==
    [][lockErr /\ ~active => result' = "none"]_vars

\* A lost lock ends the session, even if the wrapped command or rclone would
\* have run for ever (abortForLockFailure).
LockLossEnds == lockFault ~> phase = "exited"

\* "Once shutdown is in progress and no wrapped command is running, a further
\* signal abandons the final sync and exits" (README), even if rclone hangs: two
\* signals end a session without a running command, the one that began the
\* shutdown included.  When none did, the code counts the further one as the
\* first (signalsSeen).
TwoSignalsEnd ==
    (phase = "loop" /\ cmd = "none" /\ signalsSeen + sigs >= 2) ~> phase = "exited"

\* A signal ends the acquisition, however long the lock stays active, if the
\* calls of rclone return (the select of the wait in Acquire).
SignalEndsWait == (phase = "acquire" /\ sigs > 0) ~> phase # "acquire"
=============================================================================

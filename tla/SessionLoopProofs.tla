--------------------------- MODULE SessionLoopProofs ---------------------------
(***************************************************************************)
(* Proofs about SessionLoop, for any set of paths and any number of        *)
(* signals: what the select loop of run keeps true whatever the order in   *)
(* which events, errors, results, signals and the timer are received.      *)
(***************************************************************************)
EXTENDS SessionLoop, TLAPS

\* No error of the watcher is known or waits in its channel: every change since
\* the watcher was opened has been recorded.
Watched == ~watcherErr /\ ~watcherFault

\* Until the loop begins nothing is stopped, nothing is being synced from the
\* changed paths and the loop has seen no failure of the lock.
BeforeLoop ==
    /\ phase \in {"acquire", "startup"} =>
           batch = {} /\ ~stopping /\ ~lockErr /\ ~finalAttempted
    /\ phase = "acquire" => touched = {}
    /\ phase = "startup" => active

\* Paths are taken from the changed ones only for a sync that is running.
IdleBatch == result = "none" => batch = {}

\* A channel of the watcher is given up when readLoop has ended and nothing is
\* left in it.
ChannelsDrained ==
    /\ ~eventsOpen => watcher = "ended" /\ unread = {}
    /\ ~errorsOpen => watcher = "ended" /\ ~watcherFault

\* A path that changed under a running sync is in a channel or in the changed
\* paths: the sync is not taken to cover it.
TouchedKnown ==
    phase \in {"startup", "loop"} /\ Watched /\ active => touched \subseteq unread \cup pending

\* Once a sync has succeeded, the paths that are still behind are known.
SyncedKnown ==
    phase \in {"startup", "loop"} /\ Watched /\ ~lockErr /\ result = "ok" =>
        behind \subseteq unread \cup pending

\* A session that stops starts no sync but the final one, and one that knows of
\* the loss of its lock stops.
StopsSyncing ==
    /\ stopping => ~timer
    /\ lockErr => stopping

\* The final sync has what is left, and nothing can change any more.
FinalTried ==
    phase = "loop" /\ finalAttempted /\ ~abandoned =>
        stopping /\ ~eventsOpen /\ pending \cup batch \subseteq tried

\* The exit status of the command is returned from the end of the loop.
CleanExit == code = "command" => phase \in {"closing", "exited"}

\* What an action of the session preserves beside the types.
LoopInv ==
    /\ BeforeLoop
    /\ IdleBatch
    /\ ChannelsDrained
    /\ TouchedKnown
    /\ SyncedKnown
    /\ StopsSyncing
    /\ CleanExit
    /\ CleanExitIsComplete
    /\ NoChangeForgotten
    /\ FinalTried
    /\ LastChangesAreTried
    /\ TimerNeverLost

\* The inductive invariant.
IInv == TypeOK /\ LoopInv


-----------------------------------------------------------------------------
(* Types: one lemma for each action *)

LEMMA InitType == Init => TypeOK
<1> SUFFICES ASSUME Init PROVE TypeOK
  OBVIOUS
<1>1. UploadOnly \in BOOLEAN /\ Interval \in BOOLEAN /\ Command \in BOOLEAN
  BY DEF Init, Options, UploadOnly, Interval, Command
<1>2. /\ stopping \in BOOLEAN /\ timer \in BOOLEAN
      /\ behind \subseteq Name
  BY <1>1 DEF Init
<1>3. sigs \in 0 .. Buffer /\ sent \in 0 .. MaxSignals /\ signalsSeen \in 0 .. 2
  BY SessionAssumption DEF Init, Buffer
<1>4. /\ phase \in {"acquire", "startup", "loop", "closing", "exited"}
      /\ result \in {"none", "running"}
      /\ cmd \in {"none", "running", "exited"}
      /\ watcher \in {"open", "closing", "ended"}
  BY DEF Init
<1>5. QED
  BY <1>2, <1>3, <1>4 DEF Init, TypeOK, Codes

LEMMA AcquiredType ==
    ASSUME TypeOK, Acquired
    PROVE  TypeOK'
BY DEF TypeOK, Acquired, commandVars, history, signalVars, syncVars, watchVars,
       Codes

LEMMA AcquireWaitsType ==
    ASSUME TypeOK, AcquireWaits
    PROVE  TypeOK'
BY DEF TypeOK, AcquireWaits, commandVars, exitVars, history, lockVars, signalVars,
       watchVars

LEMMA AcquireWakesType ==
    ASSUME TypeOK, AcquireWakes
    PROVE  TypeOK'
BY DEF TypeOK, AcquireWakes, commandVars, exitVars, history, lockVars, signalVars,
       watchVars

LEMMA AcquireFailsType ==
    ASSUME TypeOK, AcquireFails
    PROVE  TypeOK'
BY DEF TypeOK, AcquireFails, commandVars, history, lockVars, signalVars, Codes

LEMMA AcquireSignalType ==
    ASSUME TypeOK, AcquireSignal
    PROVE  TypeOK'
<1>1. sigs' \in 0 .. Buffer
  BY DEF TypeOK, AcquireSignal, Buffer
<1>2. QED
  BY <1>1 DEF TypeOK, AcquireSignal, commandVars, history, lockVars, syncVars,
              watchVars, Codes

LEMMA EventsClosedType ==
    ASSUME TypeOK, EventsClosed
    PROVE  TypeOK'
BY DEF TypeOK, EventsClosed, commandVars, exitVars, history, lockVars, signalVars,
       syncVars

LEMMA ErrorsClosedType ==
    ASSUME TypeOK, ErrorsClosed
    PROVE  TypeOK'
BY DEF TypeOK, ErrorsClosed, commandVars, exitVars, history, lockVars, signalVars,
       syncVars

LEMMA StartupEventType ==
    ASSUME TypeOK, NEW n \in Name, StartupEvent(n)
    PROVE  TypeOK'
BY DEF TypeOK, StartupEvent, commandVars, exitVars, history, lockVars, signalVars

LEMMA StartupErrorType ==
    ASSUME TypeOK, StartupError
    PROVE  TypeOK'
BY DEF TypeOK, StartupError, commandVars, history, lockVars, signalVars, Codes

LEMMA StartupSignalType ==
    ASSUME TypeOK, StartupSignal
    PROVE  TypeOK'
<1>1. sigs' \in 0 .. Buffer
  BY DEF TypeOK, StartupSignal, Buffer
<1>2. QED
  BY <1>1 DEF TypeOK, StartupSignal, commandVars, exitVars, history, lockVars,
              watchVars

LEMMA StartupDoneType ==
    ASSUME TypeOK, BeforeLoop, StartupDone
    PROVE  TypeOK'
<1>1. CASE phase' = "loop"
  <2>1. /\ cmd' \in {"none", "running", "exited"}
        /\ watcher' \in {"open", "closing", "ended"}
        /\ stopping' \in BOOLEAN
        /\ timer' \in BOOLEAN
    BY <1>1 DEF TypeOK, StartupDone, StartCommand, CloseWatcher, Return, Interval,
                Options
  <2>2. QED
    BY <1>1, <2>1 DEF TypeOK, BeforeLoop, StartupDone, Return, lockVars, signalVars,
                      history
<1>2. CASE phase' # "loop"
  BY <1>2 DEF TypeOK, StartupDone, Return, watchVars, lockVars, signalVars, history,
              Codes
<1>3. QED
  BY <1>1, <1>2

LEMMA FinalSyncType ==
    ASSUME TypeOK, FinalSync
    PROVE  TypeOK'
BY DEF TypeOK, FinalSync, startSync, active, AtEnd, FinalSyncDue, commandVars,
       exitVars, lockVars, signalVars, watchVars

LEMMA FinishType ==
    ASSUME TypeOK, Finish
    PROVE  TypeOK'
BY DEF TypeOK, Finish, Return, AtEnd, active, FinalSyncDue, commandVars, history,
       lockVars, signalVars, syncVars, watchVars, Codes

LEMMA EventCaseType ==
    ASSUME TypeOK, NEW n \in Name, EventCase(n)
    PROVE  TypeOK'
BY DEF TypeOK, EventCase, active, startSync, Selecting, AtEnd, commandVars,
       exitVars, lockVars, signalVars

LEMMA ErrorCaseType ==
    ASSUME TypeOK, ErrorCase
    PROVE  TypeOK'
BY DEF TypeOK, ErrorCase, CloseWatcher, Selecting, AtEnd, active, commandVars,
       history, lockVars, signalVars, Codes

LEMMA LockCaseType ==
    ASSUME TypeOK, LockCase
    PROVE  TypeOK'
BY DEF TypeOK, LockCase, abortForLockFailure, CloseWatcher, Selecting, AtEnd,
       active, history, signalVars, Codes

LEMMA TimerCaseType ==
    ASSUME TypeOK, TimerCase
    PROVE  TypeOK'
BY DEF TypeOK, TimerCase, startSync, active, Selecting, AtEnd, commandVars,
       exitVars, lockVars, signalVars, watchVars

LEMMA ResultCaseType ==
    ASSUME TypeOK, ResultCase
    PROVE  TypeOK'
<1>1. CASE result = "lost"
  BY <1>1 DEF TypeOK, ResultCase, abortForLockFailure, CloseWatcher, signalVars,
              history
<1>2. CASE result = "err"
  BY <1>2 DEF TypeOK, ResultCase, mergeFailedBatch, Rearm, signalVars, history
<1>3. CASE result = "ok"
  BY <1>3 DEF TypeOK, ResultCase, Rearm, signalVars, history
<1>4. QED
  BY <1>1, <1>2, <1>3 DEF ResultCase

LEMMA CommandCaseType ==
    ASSUME TypeOK, CommandCase
    PROVE  TypeOK'
BY DEF TypeOK, CommandCase, CloseWatcher, Selecting, AtEnd, active, history,
       lockVars, signalVars, Codes

LEMMA SignalCaseType ==
    ASSUME TypeOK, SignalCase
    PROVE  TypeOK'
<1>1. sigs' \in 0 .. Buffer /\ signalsSeen' \in 0 .. 2
  BY DEF TypeOK, SignalCase, Buffer
<1>2. /\ {stopping', timer', syncReady', abandoned', finalAttempted', cancelled'}
           \subseteq BOOLEAN
      /\ watcher' \in {watcher, "closing"}
  <2>1. watcher' \in {watcher, "closing"}
    BY DEF SignalCase, CloseWatcher
  <2>2. QED
    BY <2>1 DEF TypeOK, SignalCase
<1>3. UNCHANGED <<unread, watcherFault, eventsOpen, errorsOpen, lockVars, options, sent,
                  interrupted, commandVars, pending, batch, result, phase, code,
                  watcherErr, history>>
  BY DEF SignalCase
<1>4. QED
  BY <1>1, <1>2, <1>3 DEF TypeOK, lockVars, commandVars, history

LEMMA CloseType ==
    ASSUME TypeOK, Close
    PROVE  TypeOK'
BY DEF TypeOK, Close, commandVars, history, lockVars, signalVars, syncVars, Codes

LEMMA CloseWatcherDeferredType ==
    ASSUME TypeOK, CloseWatcherDeferred
    PROVE  TypeOK'
BY DEF TypeOK, CloseWatcherDeferred, CloseWatcher, commandVars, exitVars, history,
       lockVars, signalVars, syncVars

LEMMA ChangeType ==
    ASSUME TypeOK, NEW n \in Name, Change(n)
    PROVE  TypeOK'
BY DEF TypeOK, Change, commandVars, exitVars, lockVars, signalVars, syncVars

LEMMA WatcherFailsType ==
    ASSUME TypeOK, WatcherFails
    PROVE  TypeOK'
BY DEF TypeOK, WatcherFails, commandVars, exitVars, history, lockVars, signalVars,
       syncVars

LEMMA WatcherEndsType ==
    ASSUME TypeOK, WatcherEnds
    PROVE  TypeOK'
BY DEF TypeOK, WatcherEnds, commandVars, exitVars, history, lockVars, signalVars,
       syncVars

LEMMA LockFailsType ==
    ASSUME TypeOK, LockFails
    PROVE  TypeOK'
BY DEF TypeOK, LockFails, commandVars, exitVars, history, signalVars, watchVars

LEMMA SyncReturnsType ==
    ASSUME TypeOK, NEW r \in Answers, SyncReturns(r)
    PROVE  TypeOK'
BY DEF TypeOK, SyncReturns, commandVars, exitVars, lockVars, signalVars, watchVars,
       Answers

LEMMA CommandExitsType ==
    ASSUME TypeOK, CommandExits
    PROVE  TypeOK'
BY DEF TypeOK, CommandExits, exitVars, history, lockVars, signalVars, syncVars,
       watchVars

LEMMA SignalType ==
    ASSUME TypeOK, Signal
    PROVE  TypeOK'
<1>1. sigs' \in 0 .. Buffer /\ sent' \in 0 .. MaxSignals
  BY SessionAssumption DEF TypeOK, Signal, Queued, Buffer
<1>2. QED
  BY <1>1 DEF TypeOK, Signal, watchVars, lockVars, commandVars, syncVars, exitVars,
              history

-----------------------------------------------------------------------------
(* The loop invariant: one lemma for each action *)

USE DEF IInv, TypeOK, LoopInv, BeforeLoop, IdleBatch, ChannelsDrained, TouchedKnown,
        SyncedKnown, StopsSyncing, CleanExit, CleanExitIsComplete, NoChangeForgotten,
        FinalTried, LastChangesAreTried, TimerNeverLost, Watched, active, Interval

LEMMA InitLoopInv == Init => LoopInv
<1> SUFFICES ASSUME Init PROVE LoopInv
  OBVIOUS
<1>1. TypeOK
  BY InitType
<1>2. stopping => UploadOnly
  BY DEF Init
<1>3. QED
  BY <1>1, <1>2 DEF Init

LEMMA AcquiredStep ==
    ASSUME IInv, Acquired
    PROVE  LoopInv'
BY DEF Acquired, commandVars, history, signalVars, syncVars, watchVars

LEMMA AcquireWaitsStep ==
    ASSUME IInv, AcquireWaits
    PROVE  LoopInv'
BY DEF AcquireWaits, commandVars, exitVars, history, lockVars, signalVars, watchVars

LEMMA AcquireWakesStep ==
    ASSUME IInv, AcquireWakes
    PROVE  LoopInv'
BY DEF AcquireWakes, commandVars, exitVars, history, lockVars, signalVars, watchVars

LEMMA AcquireFailsStep ==
    ASSUME IInv, AcquireFails
    PROVE  LoopInv'
BY DEF AcquireFails, commandVars, history, lockVars, signalVars

LEMMA AcquireSignalStep ==
    ASSUME IInv, AcquireSignal
    PROVE  LoopInv'
BY DEF AcquireSignal, commandVars, history, lockVars, syncVars, watchVars

LEMMA EventsClosedStep ==
    ASSUME IInv, EventsClosed
    PROVE  LoopInv'
BY DEF EventsClosed, commandVars, exitVars, history, lockVars, signalVars, syncVars

LEMMA ErrorsClosedStep ==
    ASSUME IInv, ErrorsClosed
    PROVE  LoopInv'
BY DEF ErrorsClosed, commandVars, exitVars, history, lockVars, signalVars, syncVars

\* An event of startup reconciliation only moves its path to the changed ones.
LEMMA StartupEventStep ==
    ASSUME IInv, NEW n \in Name, StartupEvent(n)
    PROVE  LoopInv'
BY DEF StartupEvent, commandVars, exitVars, history, lockVars, signalVars

LEMMA StartupErrorStep ==
    ASSUME IInv, StartupError
    PROVE  LoopInv'
BY DEF StartupError, commandVars, history, lockVars, signalVars

LEMMA StartupSignalStep ==
    ASSUME IInv, StartupSignal
    PROVE  LoopInv'
BY DEF StartupSignal, commandVars, exitVars, history, lockVars, watchVars

\* The loop begins after a reconciliation that has succeeded, so that what is
\* behind is what changed under it.
LEMMA StartupDoneStep ==
    ASSUME IInv, StartupDone
    PROVE  LoopInv'
<1>1. CASE phase' = "loop"
  <2>1. Watched => behind \subseteq unread \cup pending
    BY <1>1 DEF StartupDone, Return
  <2>2. stopping' => ~timer'
    BY <1>1 DEF StartupDone, Return, StartCommand
  <2>3. Interval /\ ~stopping' => timer'
    BY <1>1 DEF StartupDone, Return, StartCommand
  <2>4. UNCHANGED <<options, batch, lockErr, watcherErr, watcherFault, unread, pending,
                    behind, touched, code, finalAttempted>>
    BY <1>1 DEF StartupDone, Return, lockVars, signalVars, history
  <2>5. eventsOpen' /\ errorsOpen' /\ result' = "none" /\ phase = "startup"
    BY <1>1 DEF StartupDone, Return
  <2>6. QED
    BY <1>1, <2>1, <2>2, <2>3, <2>4, <2>5
<1>2. CASE phase' # "loop"
  BY <1>2 DEF StartupDone, Return, watchVars, lockVars, signalVars, history
<1>3. QED
  BY <1>1, <1>2

\* The paths of the final sync move to the batch, which is empty before.
LEMMA FinalSyncStep ==
    ASSUME IInv, FinalSync
    PROVE  LoopInv'
BY DEF FinalSync, startSync, AtEnd, FinalSyncDue, commandVars, exitVars, lockVars,
       signalVars, watchVars

\* At the end of the loop nothing is left: the channel of the events is closed,
\* hence empty, no batch is under way and the changed paths are looked at.
LEMMA FinishStep ==
    ASSUME IInv, Finish
    PROVE  LoopInv'
<1>1. unread = {} /\ batch = {} /\ ~watcherFault
  BY DEF Finish, AtEnd
<1>2. lockErr \/ watcherErr \/ pending # {} \/ behind = {}
  BY <1>1 DEF Finish, AtEnd
<1>3. QED
  BY <1>1, <1>2 DEF Finish, AtEnd, FinalSyncDue, Return, watchVars, lockVars,
                    signalVars, commandVars, syncVars, history

\* The path of an event moves to the changed paths, or with them to the batch.
LEMMA EventCaseStep ==
    ASSUME IInv, NEW n \in Name, EventCase(n)
    PROVE  LoopInv'
BY DEF EventCase, startSync, Selecting, AtEnd, commandVars, exitVars, lockVars,
       signalVars

\* An error that is received is remembered.
LEMMA ErrorCaseStep ==
    ASSUME IInv, ErrorCase
    PROVE  LoopInv'
BY DEF ErrorCase, CloseWatcher, Selecting, AtEnd, commandVars, history, lockVars,
       signalVars

\* The lock is lost: everything is stopped.
LEMMA LockCaseStep ==
    ASSUME IInv, LockCase
    PROVE  LoopInv'
BY DEF LockCase, abortForLockFailure, CloseWatcher, Selecting, AtEnd, history,
       signalVars

\* The timer starts a sync, or leaves syncReady for the next event.
LEMMA TimerCaseStep ==
    ASSUME IInv, TimerCase
    PROVE  LoopInv'
BY DEF TimerCase, startSync, Selecting, AtEnd, commandVars, exitVars, lockVars,
       signalVars, watchVars

\* The batch is given up if the sync has succeeded, kept if it has failed.
LEMMA ResultCaseStep ==
    ASSUME IInv, ResultCase
    PROVE  LoopInv'
<1>1. CASE result = "lost"
  BY <1>1 DEF ResultCase, abortForLockFailure, CloseWatcher, Selecting, signalVars,
              history
<1>2. CASE result = "err"
  BY <1>2 DEF ResultCase, mergeFailedBatch, Rearm, Selecting, signalVars, history
<1>3. CASE result = "ok"
  BY <1>3 DEF ResultCase, Rearm, Selecting, signalVars, history
<1>4. QED
  BY <1>1, <1>2, <1>3 DEF ResultCase

\* The end of the command stops the timer with the session.
LEMMA CommandCaseStep ==
    ASSUME IInv, CommandCase
    PROVE  LoopInv'
BY DEF CommandCase, CloseWatcher, Selecting, AtEnd, history, lockVars, signalVars

LEMMA SignalCaseStep ==
    ASSUME IInv, SignalCase
    PROVE  LoopInv'
BY DEF SignalCase, CloseWatcher, Selecting, AtEnd, Abandons, commandVars, history,
       lockVars

LEMMA CloseStep ==
    ASSUME IInv, Close
    PROVE  LoopInv'
BY DEF Close, commandVars, history, lockVars, signalVars, syncVars

LEMMA CloseWatcherDeferredStep ==
    ASSUME IInv, CloseWatcherDeferred
    PROVE  LoopInv'
BY DEF CloseWatcherDeferred, CloseWatcher, commandVars, exitVars, history, lockVars,
       signalVars, syncVars

\* A change is recorded by the watcher as long as the channel is open.
LEMMA ChangeStep ==
    ASSUME IInv, NEW n \in Name, Change(n)
    PROVE  LoopInv'
BY DEF Change, commandVars, exitVars, lockVars, signalVars, syncVars

LEMMA WatcherFailsStep ==
    ASSUME IInv, WatcherFails
    PROVE  LoopInv'
BY DEF WatcherFails, commandVars, exitVars, history, lockVars, signalVars, syncVars

LEMMA WatcherEndsStep ==
    ASSUME IInv, WatcherEnds
    PROVE  LoopInv'
BY DEF WatcherEnds, commandVars, exitVars, history, lockVars, signalVars, syncVars

LEMMA LockFailsStep ==
    ASSUME IInv, LockFails
    PROVE  LoopInv'
BY DEF LockFails, commandVars, exitVars, history, signalVars, watchVars

\* A sync that succeeds covers its batch but for the paths that changed under it,
\* which are known.
LEMMA SyncReturnsStep ==
    ASSUME IInv, NEW r \in Answers, SyncReturns(r)
    PROVE  LoopInv'
<1>1. CASE r = "ok" /\ phase = "startup"
  BY <1>1 DEF SyncReturns, watchVars, lockVars, signalVars, commandVars, exitVars
<1>2. CASE r = "ok" /\ phase # "startup"
  BY <1>2 DEF SyncReturns, watchVars, lockVars, signalVars, commandVars, exitVars
<1>3. CASE r # "ok"
  BY <1>3 DEF SyncReturns, Answers, watchVars, lockVars, signalVars, commandVars,
              exitVars
<1>4. QED
  BY <1>1, <1>2, <1>3

LEMMA CommandExitsStep ==
    ASSUME IInv, CommandExits
    PROVE  LoopInv'
BY DEF CommandExits, exitVars, history, lockVars, signalVars, syncVars, watchVars

LEMMA SignalStep ==
    ASSUME IInv, Signal
    PROVE  LoopInv'
BY DEF Signal, Queued, Buffer, commandVars, exitVars, history, lockVars, syncVars,
       watchVars

LEMMA StutterStep ==
    ASSUME IInv, UNCHANGED vars
    PROVE  IInv'
BY DEF vars, watchVars, lockVars, signalVars, commandVars, syncVars, exitVars, history

HIDE DEF IInv, TypeOK, LoopInv, BeforeLoop, IdleBatch, ChannelsDrained, TouchedKnown,
         SyncedKnown, StopsSyncing, CleanExit, CleanExitIsComplete, NoChangeForgotten,
         FinalTried, LastChangesAreTried, TimerNeverLost, Watched, active, Interval

-----------------------------------------------------------------------------
(* Every step keeps the invariant, and the theorems *)

LEMMA NextIInv ==
    ASSUME IInv, [Next]_vars
    PROVE  IInv'
<1>0. TypeOK
  BY DEF IInv
<1>1. CASE Acquired
  BY <1>0, <1>1, AcquiredType, AcquiredStep DEF IInv
<1>2. CASE AcquireWaits
  BY <1>0, <1>2, AcquireWaitsType, AcquireWaitsStep DEF IInv
<1>3. CASE AcquireWakes
  BY <1>0, <1>3, AcquireWakesType, AcquireWakesStep DEF IInv
<1>4. CASE AcquireFails
  BY <1>0, <1>4, AcquireFailsType, AcquireFailsStep DEF IInv
<1>5. CASE AcquireSignal
  BY <1>0, <1>5, AcquireSignalType, AcquireSignalStep DEF IInv
<1>6. CASE EventsClosed
  BY <1>0, <1>6, EventsClosedType, EventsClosedStep DEF IInv
<1>7. CASE ErrorsClosed
  BY <1>0, <1>7, ErrorsClosedType, ErrorsClosedStep DEF IInv
<1>8. ASSUME NEW n \in Name, StartupEvent(n) PROVE IInv'
  BY <1>0, <1>8, StartupEventType, StartupEventStep DEF IInv
<1>9. CASE StartupError
  BY <1>0, <1>9, StartupErrorType, StartupErrorStep DEF IInv
<1>10. CASE StartupSignal
  BY <1>0, <1>10, StartupSignalType, StartupSignalStep DEF IInv
<1>11. CASE StartupDone
  BY <1>0, <1>11, StartupDoneType, StartupDoneStep DEF IInv, LoopInv
<1>12. CASE FinalSync
  BY <1>0, <1>12, FinalSyncType, FinalSyncStep DEF IInv
<1>13. CASE Finish
  BY <1>0, <1>13, FinishType, FinishStep DEF IInv
<1>14. ASSUME NEW n \in Name, EventCase(n) PROVE IInv'
  BY <1>0, <1>14, EventCaseType, EventCaseStep DEF IInv
<1>15. CASE ErrorCase
  BY <1>0, <1>15, ErrorCaseType, ErrorCaseStep DEF IInv
<1>16. CASE LockCase
  BY <1>0, <1>16, LockCaseType, LockCaseStep DEF IInv
<1>17. CASE TimerCase
  BY <1>0, <1>17, TimerCaseType, TimerCaseStep DEF IInv
<1>18. CASE ResultCase
  BY <1>0, <1>18, ResultCaseType, ResultCaseStep DEF IInv
<1>19. CASE CommandCase
  BY <1>0, <1>19, CommandCaseType, CommandCaseStep DEF IInv
<1>20. CASE SignalCase
  BY <1>0, <1>20, SignalCaseType, SignalCaseStep DEF IInv
<1>21. CASE Close
  BY <1>0, <1>21, CloseType, CloseStep DEF IInv
<1>22. CASE CloseWatcherDeferred
  BY <1>0, <1>22, CloseWatcherDeferredType, CloseWatcherDeferredStep DEF IInv
<1>23. ASSUME NEW n \in Name, Change(n) PROVE IInv'
  BY <1>0, <1>23, ChangeType, ChangeStep DEF IInv
<1>24. CASE WatcherFails
  BY <1>0, <1>24, WatcherFailsType, WatcherFailsStep DEF IInv
<1>25. CASE WatcherEnds
  BY <1>0, <1>25, WatcherEndsType, WatcherEndsStep DEF IInv
<1>26. CASE LockFails
  BY <1>0, <1>26, LockFailsType, LockFailsStep DEF IInv
<1>27. ASSUME NEW r \in Answers, SyncReturns(r) PROVE IInv'
  BY <1>0, <1>27, SyncReturnsType, SyncReturnsStep DEF IInv
<1>28. CASE CommandExits
  BY <1>0, <1>28, CommandExitsType, CommandExitsStep DEF IInv
<1>29. CASE Signal
  BY <1>0, <1>29, SignalType, SignalStep DEF IInv
<1>30. CASE UNCHANGED vars
  BY <1>30, StutterStep
<1>31. QED
  BY <1>1, <1>2, <1>3, <1>4, <1>5, <1>6, <1>7, <1>8, <1>9, <1>10, <1>11, <1>12,
     <1>13, <1>14, <1>15, <1>16, <1>17, <1>18, <1>19, <1>20, <1>21, <1>22, <1>23,
     <1>24, <1>25, <1>26, <1>27, <1>28, <1>29, <1>30
     DEF Next, LoopStep, AcquireReturns

LEMMA Inductive == Spec => []IInv
<1>1. Init => IInv
  BY InitType, InitLoopInv DEF IInv
<1>2. IInv /\ [Next]_vars => IInv'
  BY NextIInv
<1>3. QED
  BY <1>1, <1>2, PTL DEF Spec

\* The variables of run keep their types, and at most as many signals wait as
\* their channel holds.
THEOREM TypeCorrect == Spec => []TypeOK
<1>1. IInv => TypeOK
  BY DEF IInv
<1>2. QED
  BY Inductive, <1>1, PTL

\* In the loop of run every change that the watcher recorded and that is not on
\* the remote is in a channel, in the changed paths or in the batch, as long as
\* neither the lock nor the watcher has failed.
THEOREM ChangesAreKept == Spec => []NoChangeForgotten
<1>1. IInv => NoChangeForgotten
  BY DEF IInv, LoopInv
<1>2. QED
  BY Inductive, <1>1, PTL

\* run returns the status of the command only when every change is on the remote
\* and neither the watcher nor the lock has failed.
THEOREM CleanExits == Spec => []CleanExitIsComplete
<1>1. IInv => CleanExitIsComplete
  BY DEF IInv, LoopInv
<1>2. QED
  BY Inductive, <1>1, PTL

\* When run gives up under its lock, and no repeated signal has told it to, every
\* change that it leaves behind was in a sync after it was made.
THEOREM ChangesAreTried == Spec => []LastChangesAreTried
<1>1. IInv => LastChangesAreTried
  BY DEF IInv, LoopInv
<1>2. QED
  BY Inductive, <1>1, PTL

\* With an interval, run never waits without a running sync, an armed timer or
\* the readiness to sync at the next event.
THEOREM TimerKept == Spec => []TimerNeverLost
<1>1. IInv => TimerNeverLost
  BY DEF IInv, LoopInv
<1>2. QED
  BY Inductive, <1>1, PTL

\* A step that makes a sync run is one of a session that waits for the lock, or
\* that has not noticed the loss of the lock.
LEMMA SyncStarts ==
    ASSUME IInv, Next, result = "none", result' # "none"
    PROVE  ~lockErr
<1>1. CASE AcquireWakes
  BY <1>1 DEF IInv, LoopInv, BeforeLoop, AcquireWakes
<1>2. CASE FinalSync
  BY <1>2 DEF FinalSync
<1>3. CASE TimerCase
  BY <1>3 DEF IInv, LoopInv, StopsSyncing, TimerCase
<1>4. CASE \E n \in Name : EventCase(n)
  BY <1>4 DEF IInv, LoopInv, StopsSyncing, EventCase
<1>5. CASE AcquireReturns \/ AcquireSignal \/ StartupDone \/ ResultCase
  BY <1>5 DEF AcquireReturns, Acquired, AcquireWaits, AcquireFails, AcquireSignal,
              StartupDone, ResultCase, syncVars
<1>6. CASE \/ EventsClosed \/ ErrorsClosed \/ StartupError \/ StartupSignal \/ Finish
           \/ ErrorCase \/ LockCase \/ CommandCase \/ SignalCase
           \/ Close \/ CloseWatcherDeferred
           \/ \E n \in Name : StartupEvent(n)
  BY <1>6 DEF EventsClosed, ErrorsClosed, StartupError, StartupSignal, Finish,
              ErrorCase, LockCase, CommandCase, SignalCase, Close,
              CloseWatcherDeferred, StartupEvent, syncVars
<1>7. CASE \/ \E n \in Name : Change(n)
           \/ WatcherFails \/ WatcherEnds \/ LockFails \/ CommandExits \/ Signal
           \/ \E r \in Answers : SyncReturns(r)
  BY <1>7 DEF Change, WatcherFails, WatcherEnds, LockFails, CommandExits, Signal,
              SyncReturns, syncVars
<1>8. QED
  BY <1>1, <1>2, <1>3, <1>4, <1>5, <1>6, <1>7 DEF Next, LoopStep

\* Once run knows that the lock is lost, no sync starts: not by the timer, not by
\* an event, and not as the final one.
THEOREM LockLossIsFinal == Spec => NoSyncAfterLockLoss
<1>1. IInv /\ [Next]_vars => [lockErr /\ ~active => result' = "none"]_vars
  BY SyncStarts DEF active
<1>2. QED
  BY Inductive, <1>1, PTL DEF Spec, NoSyncAfterLockLoss

=============================================================================

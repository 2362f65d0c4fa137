# A TLA+ model of rclonewatch

rclonewatch watches a directory, uploads changes with rclone in batches, and
shares the destination safely with other hosts through a state file that holds
a lease and a generation number. This directory holds a TLA+ model of its
concurrent and failure-prone parts, TLC configurations that check it on small
instances, an abstract lease that the lock protocol is shown to implement, and
machine-checked proofs of the safety properties of all seven models.

## The system

| Component | Code | State it keeps | Operations |
|---|---|---|---|
| Remote lock | `syncstate.go` | the lock in the remote state file; `remote`, `lockExpiry`, `pending`, `pendingExpiry` | `Acquire`, `refreshLoop`, `replaceOwnedRemote`, `Close` |
| Generation protocol | `syncstate.go`, `syncer.Sync` | generation, sync ID, `syncing` on both sides; `active` locally; the payload | `validateAcquisition`, `InitializeGeneration`, `InitializeRemote`, `BeforeRemoteChange`, `AfterRemoteChange`, `FinishSession` |
| Session loop | `main.go` (`run`, `initializeWatching`) | pending paths, active sync, timer, stop flags | the cases of the `select`, the final sync, deferred calls |
| Directory watcher | `watcher_linux.go` | the inotify watch table | `newWatcher`, `rebuild`, `readLoop`, `handle`, `Close` |
| Scoped sync | `payload.go`, `syncer.Sync` | the batch and its scopes; the two trees | `reconciliationScopes`, `syncScopes`, `syncScopeGroup`, `fullSync`, `standardLocalPath` |
| Paths, backend, options, help | `syncpath.go`, `backend.go`, `options.go`, `help.go` | none | parsing and resolving |
| Terminal | `terminal_linux.go` | the foreground process group | `started`, `wait`, `suspend`, `reclaim` |

How they interact: `run` acquires the lock, starts `refreshLoop` as a goroutine,
opens the watcher and reconciles under `initializeWatching` while events are
collected. The `select` loop then gathers paths and hands batches to one sync
goroutine at a time, which calls `BeforeRemoteChange`, rclone and
`AfterRemoteChange`. The refresh loop and the sync goroutine both write the remote
state file through `replaceOwnedRemote`, one at a time (`updateMu`). A failed
refresh cancels every rclone command and reports to the loop. On the way out
`FinishSession` marks the local state as clean and `Close` releases the lock.

What is hard: several processes write one object without a common clock; a
write may be applied although it failed, or late; a process may die between any
two writes to the two state files and the payload; the loop may receive its
channels in any order; and all of it must end even if rclone or the wrapped
command hangs. `PROJECT.json` lists these hazards with their lines.

What makes each part correct:

- *Lock*: no two sessions work at a time; each stops before its lease ends.
- *Generations*: skipping reconciliation is safe; nothing unsynced is dropped;
  nothing published by another host is overwritten unseen; half a batch is
  never taken for a whole one.
- *Loop*: a clean status means that everything was synced; no change is lost
  on the way; the session ends when it must.
- *Watcher*: every change under the root yields an event or a full
  reconciliation, across directory creation, moves and queue overflow; the two
  maps agree with the kernel; `Close` ends the reader.
- *Scopes*: the scopes cover the changed paths, no more than needed and without
  overlap; a batch that succeeds makes its paths agree; nothing else is touched;
  no difference between the trees is ever unknown.
- *Names*: a path is spelled as rclone lists it; only names that rclone reads alike share
  a spelling.
- *Terminal*: a stop of the command reaches the shell, a resumption the command,
  and nobody keeps a terminal that is not theirs.

## Modules

| Module | Contents |
|---|---|
| `Lease` | the abstract lease: who may work, and for how long |
| `RemoteLock` | the lock protocol, with time, lost and late writes, crashes |
| `Repository` | the generation protocol on several hosts |
| `SessionLoop` | one session, from the acquisition of its lock to its end |
| `Watcher` | the inotify watcher, with the kernel and the programs around it |
| `ScopedSync` | the reconciliation of a batch of changed paths with rclone |
| `NameEncoding` | `standardLocalPath` against rclone's encodings |
| `Terminal` | job control of the wrapped command |
| `MC*` | the constants of the TLC runs; `SessionLoop` and `NameEncoding` get theirs from the cfg, `Terminal` has none |
| `RemoteLockProofs`, `RepositoryProofs`, `SessionLoopProofs`, `ScopedSyncProofs`, `NameEncodingProofs`, `WatcherProofs`, `TerminalProofs` | theorems about the module of that name |
| `WatcherCoreProofs` | the lemmas of `WatcherProofs` about trees, events and watches |

`RemoteLock` implements `Lease`. `Repository` takes from `RemoteLock` that one session
works at a time, and from `SessionLoop` that a batch contains the queued paths;
`SessionLoop` takes a sync as one step that succeeds or fails, from `Watcher` that
every change comes through the channel, and from `ScopedSync` that a sync of a
batch brings its paths to the remote or fails.

### RemoteLock

A *session* is one run of the program. `pc` says which operation it is in:
`waiting` is the loop of `Acquire`; `acqWrite`/`acqVerify` its write and the
verifying read; `adoptWrite`/`adoptVerify` those of an adopted persistent lock;
`held` is a session with its lock; `updWrite`/`updVerify` and
`relWrite`/`relVerify` are the two halves of `replaceOwnedRemote` for refreshes,
data updates and the release. Reads and writes of the remote object are
separate steps. `WriteLands` applies a write and returns with or without an
error; `WriteFails` returns an error and leaves the write unapplied or, as a
*stray*, on its way; `StrayLands` applies it later, under its ETag condition.

Time is discrete and every deadline is kept as the time left until it (`expiry`,
`pendingLeft`, `observedLeft`, `candLeft`). `Tick` decreases all of them and
cannot pass a watchdog that is due, which is at most `Latency` late
(`Latency < Window`: the safety window of the code has to absorb the timer's
delay). All clocks run at the same rate; none is compared with another, as in
the code. The polling and refresh timers may fire at any moment.

`owned`, `pending` and their expiries are the fields of `syncState`. The history
variables `issuer` and `left` record who created each lock and how long it
truly lasts; no action reads them.

`LeaseLeft` is the refinement mapping to `Lease`: a session that holds a verified
lock, whose runner is not cancelled, has its `expiry` left, any other has
nothing. An acquisition that is verified is `Grant`, an update `Renew`; a release,
a cancellation or a crash is `End`; `Tick` is `Pass`; all reads, writes and late
writes are stutters.

The lock's timestamp is a serial number, because the code uses it only to tell
locks apart. The rest of the file is one value `data`.

### Repository

The remote state, the local state of each host and the payload on both sides.
`cur` is the host whose session holds the lock. `replaceOwnedRemote` is one step
with three outcomes: applied and verified (`ReplaceOk`), failed and possibly
applied (`ReplaceErr`), lost (`ReplaceLost`). rclone handles one file per step,
so a crash or a failure can come between any two files, and files may be edited
meanwhile. `Advance` (local write) and `Publish` (remote write) are the two
halves of `BeforeRemoteChange`; `AfterRemoteChange` and `CompleteLocal` those of
`AfterRemoteChange`.

The repository ID of a state file is the number of times the remote had been
wiped when it was created. `Wipe` deletes the remote state file between two
sessions, with or without the payload; the next session initialises the remote
under the ID of its local state if it has one.

`author`, `base` and `doubt` are history: who created a sync ID, on which one a
directory builds, and whether a write that returned an error has changed the
remote. The options `--fail-on-incomplete-sync` and
`--force-delete-untracked-remote` are chosen anew by every start.

Assumption: after a session has ended cleanly, the directory does not change
until the next one has marked itself active. rclonewatch does not claim to
notice such changes (`Found` allows every other unwatched change; it is enough to make them when the
next session of the host starts, since nobody looks at the files before).

### SessionLoop

One action per case of each `select`, plus the actions of the goroutines around
it: `Change`, `WatcherFails`, `WatcherEnds` (inotify and `readLoop`), `LockFails`
(`failRefresh`), `SyncReturns`, `CommandExits`, `Signal`. `behind`, `touched` and `tried`
are history: which paths have a change that is not on the remote, which have changed
since the running sync began, and which have been in a batch since they last changed. `AtEnd` is the condition at the head of
the loop; `FinalSync` and `Finish` are its two branches.

The options that shape the loop (`--upload-only`, `--interval`, a wrapped command)
are chosen in the initial state. A session with a lock begins in the phase `acquire`: `result` is `running` while
`Acquire` has an rclone call at work and `none` while it sleeps, which is the only
time when it looks at the signals.

### Watcher

`at` is the tree: the path of every existing directory. `cur` and `repl` are
inotify instances, the one that is read and the one that `rebuild` prepares, each
with its queue of events, the directories that the kernel watches and the maps
`byDescriptor` and `byPath`. `Mkdir`, `Rmdir`, `Write`, `Rename` and `MoveRoot` are
other programs; they queue events at every instance that watches the directories
concerned, or one overflow event. `WalkDir` is a stack of directories to visit
(add a watch) and to list, one per step, so that the tree can change between the
watch of a directory and the listing of its contents. `handle` takes one event;
`readLoopEnds` is the drain after `Close`. `stale` is history: what has changed
since it was last reported.

`Kind` tells three kinds of renames apart. One onto an existing empty directory is
`over`. One to where the reader has still to walk is `fresh` (`Unwalked`): the reader is
walking or rebuilding, the new parent has no watch yet, or the queue holds an event
of something that appeared at, above or below the new path. All others are `settled`.

### ScopedSync

Two trees of paths that hold nothing, a directory or a file. `Begin` makes a batch
of any of the changed paths (reports arrive late) and computes
`reconciliationScopes`; `syncScopes` looks at the source again and splits the
scopes into deleted and existing ones; each of the two rclone calls is a step that
deletes and a step that copies. `Included` and `Listed` are what the filters of
`syncScopeGroup` let through. `Fail` ends the batch anywhere, with part of the
effect of the pass at work. A full sync is the scope of the root. `Collapse` gives what
the sorted loop of `reconciliationScopes` selects; the loop itself is `SelectLoop` of
`MCScopedSync`, which compares the two on every set of paths of the instance. `touched`
is history: the paths at and below the edits since the batch began. What rclone does
with a filter is external, modelled from the comments and the tests in `src/`: an
excluded or state file is neither copied nor deleted, a directory is removed when
it is empty, a file is not copied onto a directory. Excludes match files here; a pattern
that hides a whole directory from rclone, such as `/d/**`, is left out.

### NameEncoding

One step per character of `standardLocalPath`. Characters are of six classes: the
quote, the null picture (with the full-width slash, which it treats alike), the
other control pictures, control characters, the full-width dot, and the rest. The
reference is what rclone does: decode the name as local, encode it as Standard.

### Terminal

`fg` is the terminal's foreground group and `job` what the shell is doing. `pc` is
the goroutine in `wait`. No signal takes effect when it is sent: `pending` holds the
stops on the way to rclonewatch and to the command, of Ctrl-Z and of `suspend` alike,
and the SIGCONT that os/signal has yet to put into the channel of `suspend`; `Deliver`,
`CommandStops` and `Handle` are their effects. Looking at the foreground group and
setting it are separate steps too (`reclaim` and `Take`, `Check` and `Give`), and so are
the handler, the SIGTSTP and the end of the wait in `suspend` (`suspend`, `Kill`,
`Resumed`). The user presses Ctrl-Z, a background command reads from the terminal, the
shell resumes the job in either way. `seen` is history: whether the shell knows of the
last stop that `suspend` has asked for.

`given` is chosen in the initial state: whether SIGTSTP is ignored; `stopsJob`, whether
Ctrl-Z may come while rclonewatch has the terminal, as in the moments between `reclaim` and
the next stop or hand-over; `wakesJob`, whether `fg` may send SIGCONT to a job that is
running, which is up to the shell.

## Runs

| Run | Checks | Instance |
|---|---|---|
| `lock_updates` | `MutualExclusion`, `StopsBeforeExpiry`, `LeaseInvariant` | 2 sessions, different TTLs and waits, refreshes and data updates with a pending candidate, a stray write |
| `lock_persistent` | `ImplementsLease`, `WaitEnds`, `LeaseOverStops` | 2 invocations with one ID and a stranger, a stray write, with fairness |
| `lock_loss` | `LossIsReal`: violated | 1 session |
| `repo_recovery` | `CleanSkipIsSound`, `TrackedWhileRunning`, `NoStaleOverwrite`, `KnownEditsSurvive`, `PayloadChangesAreMarked` | 2 hosts, 2 files, uncertain writes, the remote state deleted once |
| `repo_discard` | `OwnEditsSurvive`: violated | 1 host, 1 file, uncertain writes |
| `session` | `CleanExitIsComplete`, `NoChangeForgotten`, `LastChangesAreTried`, `TimerNeverLost`, `NoSyncAfterLockLoss`, `LockLossEnds`, `TwoSignalsEnd`, `SignalEndsWait` | 1 path, all options, 3 signals, with fairness |
| `watch_overflow` | `NothingMissed`, `WatchesAreExact`, `CloseEnds` | 3 directories, 3 changes, a queue of 2, settled renames, faults, with fairness |
| `watch_fresh` | `NothingMissed`: violated | 3 changes, every kind of rename |
| `scopes_deep` | `ScopesAreExact`, `ReplacementsConverge`, `SyncedPathsAgree`, `DeletionsOnlyDelete`, `NoCollateral` | all pairs of trees over 5 paths on three levels, batches of 2, an excluded file, a name that is not UTF-8 |
| `scopes_edits` | `NothingForgotten` | 4 paths, a state file, 3 edits at any time |
| `names` | `SpelledAsListed` | all names of up to 5 characters |
| `term_jobs` | `StopIsHandled`, `HandedBackInTurn`, `StopIsMirrored`, `ContinueIsMirrored`, `TerminalComesBack` | one command, no bound, with fairness |

`TypeOK` is checked for every module but `NameEncoding`. Each property of a
passing run fails under a small change of the model that a plausible bug would
make; `PROJECT.json` lists these mutants.

### Bounds

- `MaxStamp` 2 or 3 (locks): sessions acquire, refresh and take over from each
  other; a refresh or an update can follow one of uncertain outcome. The watchdog is
  punctual in the runs (`Latency` 0); the proofs cover every delay below the window.
- TTLs of `Window` + 1 and + 2 ticks: the observer's TTL is shorter or longer than
  the owner's; there is time before and after the deadline.
- `MaxStray` 1: one write outlives its issuer.
- `MaxGen` 2 and `MaxId` 3: a recovery or a batch of each host, and equal generations
  with different sync IDs; also the limit of the generation counter.
- `MaxWipes` 1: the remote is initialised, left behind by one host, wiped, and
  initialised by the other before the first one returns.
- `Watcher`: 3 directories on 2 levels have a parent, a child and a sibling; the watcher
  starts on any tree of them; with 3 changes one can be created, filled or moved, and
  changed again. `QueueSize` 2 overflows with the third event, also during a rebuild.
- `ScopedSync`: from every pair of trees one batch and its retries. 2 paths in a
  batch can overlap or share an ancestor. Two file versions tell an old file from a
  new one. `MaxEdits` 3: an edit in each of the gaps between the two rounds of
  `Lstat` calls and the passes of rclone. `scopes_deep` has no edits: that
  `SyncedPathsAgree` holds with them too is the theorem `Agrees`.
- `MaxLen` 5: two runs of quotes, odd and even, with a character after each.
- `MaxSignals` 3 with a channel of capacity 2: a signal is dropped.
- One path in `session`: it can be unread, pending, in the batch and behind at the
  same time, which is all that the loop tells apart.

The sessions of `RemoteLock` start once each; a restart is another session.
Symmetry is used for hosts, files, file versions and the directories below the
watched root, which no definition tells apart, and never in a liveness run. The
session, watcher, name and terminal runs turn the deadlock check off: a session,
the reader, a walk over a name and a command end. So does `repo_recovery`: after the
remote was initialised again under its old ID and the session died before its
local state followed, every host may be more than an unpublished generation ahead,
and `validateAcquisition` refuses them all until somebody intervenes.

### Fairness

`session` assumes weak fairness of every case of the `select` (Go's `select`
chooses uniformly among ready cases), of `readLoop` after `Close`, of a command
that was sent `SIGKILL`, and of rclone commands whose runner was cancelled
(`exec.CommandContext` kills them). The signal case of `Acquire`'s sleep is strongly
fair: it is ready in every sleep, and would otherwise have to lose to the timer
every time. Nothing is assumed of a command or an rclone process that nobody has
stopped: both may hang. Two calls of rclone are cancelled by nobody, those of
`Acquire` and the release in `Close`. That they return is a named assumption,
`UncancelledReturn`, which the code does not enforce: without it neither
`SignalEndsWait` nor `TwoSignalsEnd` holds.

`lock_persistent` assumes that time passes, that the poll timer and the watchdogs
fire, and that an rclone call returns (the watchdog cancels the runner of an
acquisition that takes too long). Crashes, lost writes and refreshes that never
succeed remain possible. `watch_overflow` assumes that the reader goes on while it
has something to do; `term_jobs` that rclonewatch goes on while it runs, that its
signals are delivered, by the kernel and by os/signal, and that the shell notices the
stop of its job. Neither the
user nor the command has to do anything.

### What the violated runs show

- `lock_loss`: `replaceOwnedRemote` remembers only the latest unverified
  candidate. A refresh that was applied but whose answer was lost, followed by
  one that was not applied, leaves the session with its own lock in the file and
  no memory of it, and it gives up the lease as lost.
- `repo_discard`: each attempt to publish a generation stores a new sync ID
  locally. After an attempt that was applied but reported as failed, a second
  attempt and a crash, the next start takes the host's own publication for that
  of another writer and imports it over the unsynced edits. `KnownEditsSurvive` says
  that this needs a write that was applied although it failed.
- `watch_fresh`: during the first walk a directory x with its watch installed is renamed
  into a sibling y that the walk has still to reach. The walk finds x there and gives its
  descriptor the new path; the queued event of the move out then removes the watch by
  that descriptor. `byPath` still names the new path, y was not watched when x came in, and
  nothing installs the watch again.

### Limits of the claims

Where the code does not have a property in full, the property says so and this is
what it leaves out:

- `NoStaleOverwrite` and `KnownEditsSurvive` speak of a repository under the latest ID.
  After the remote state file is deleted, a host with a local state initialises the
  remote again under the old repository ID; an unpublished advance of another host,
  one generation ahead of the new history, then passes for its continuation.
- `NothingMissed` and `WatchesAreExact` are checked and proved for the renames of kind
  `settled`. The `fresh` ones include more than the case of `watch_fresh`: while the
  creation of a directory is queued that has since been removed, another one can be
  renamed to its path; the walk for the queued event then visits a directory whose
  descriptor still has its old path, and gives it a second one. A rename over an empty watched directory (`over`) loses the
  watch: `add` takes the directory for watched because its path is, until the
  IN_IGNORED of the replaced one removes the entry.
- While other programs edit the source during a batch, `ScopesAreExact`,
  `ReplacementsConverge` and `DeletionsOnlyDelete` say nothing (`touched`): an edit between
  the passes can put a file in the way of a directory, or bring a deleted path back.
  `SyncedPathsAgree` leaves out only the edited paths, and `NothingForgotten` says that
  the next batch has them.
- `TwoSignalsEnd` counts the signals that came while no command was running, the one that
  began the shutdown included, and asks for two. The documentation (`README.md:79`) says
  that once shutdown is in progress and no command is running, a further signal
  abandons the final sync. When no such signal began it (the command could not be
  started, or has exited, or the watcher has failed) the first one is only counted
  (`main.go:620`), and a hanging rclone keeps the session until the second.
- `TerminalComesBack` speaks of a command that ran. The child takes the terminal
  before its exec; when that fails nothing takes it back.
- `HandedBackInTurn` speaks of a session that is `Undisturbed`: only
  `suspend` stops rclonewatch, and `fg` sends SIGCONT only to a stopped job. Otherwise the
  code does not have it. `suspend` takes any SIGCONT since `signal.Notify` for the
  resumption; one that comes before its own SIGTSTP, from an `fg` of the job that still runs
  in the background or after a Ctrl-Z at rclonewatch, ends the wait at once, and the
  terminal goes to the command while SIGTSTP is under way. That SIGTSTP, or a Ctrl-Z, may
  take effect between `tcgetpgrp` and `tcsetpgrp`; resumed in the background, rclonewatch
  then takes the terminal from the shell's prompt. `StopIsHandled`, `StopIsMirrored`,
  `ContinueIsMirrored` and `TerminalComesBack` hold in those sessions too.
- An orphaned process group discards SIGTSTP, and `suspend` waits for ever; the model has
  none.
- `NoCollateral` allows that a scope wider than its path, because a directory is gone or a
  name is not valid UTF-8, brings the siblings of the path up to date as well.
- Without conditional writes nothing is said of `MutualExclusion`; `StopsBeforeExpiry`
  is proved for that case too.

## Proofs

Every safety property that a passing run checks, invariant or action property, is also a
theorem: it holds for all values of the constants that satisfy the assumptions, not
only on the instance of the run. Each proof has an inductive invariant, which TLC has
checked on the instance of the run before; the theorems follow from it.

### RemoteLockProofs

`RemoteLockProofs` proves, for every set of sessions, all TTLs, windows, waits and
bounds that satisfy the assumptions of `RemoteLock`:

- `TypeCorrect`: `Spec => []TypeOK`. The induction needs one more fact, that a
  session which verifies or holds has a file and a candidate (`HasFiles`).
- `LeaseIsSound`: with conditional writes, `Spec => []LeaseInvariant`.
- `Exclusion`: with conditional writes, `Spec => []MutualExclusion`.
- `Watched`: `Spec => []StopsBeforeExpiry`, with or without conditional writes.
- `Refinement`: with conditional writes, `Spec => ImplementsLease`. A session that
  becomes live finds no other live one, by `MutualExclusion` of the next state, and
  `ClocksAgree` bounds what it believes by its TTL; that a renewal never shortens a
  lease is the part of `PhaseIsSound` about `updVerify`, and `Timely` makes the end of
  a lease a step of its own or a tick.

`MutualExclusion` is not inductive. Its strengthening, `LeaseInvariant`, says:

- `FilesAreKnown`, `StampsAreIssued`, `OwnersTakeTurns`: every lock anywhere was
  created by a known session with that session's TTL;
- `ClocksAgree`: an observer waits at least as long as the observed lock truly
  lasts, and a session believes in its own locks, verified, pending or being
  written, no longer than that;
- `PhaseIsSound`, `StraysAreHarmless`: a write in progress or on its way either
  replaces a lock that is absent, over or left behind by its session, or
  prolongs the lease of the session that issued the lock it replaces;
- `LiveIsOwner`: the remote lock is that of the live session and lasts at least
  as long as it believes.

The ETag condition makes a harmless write harmless when it is applied: what it
replaces is what it was checked against. Two live sessions would then both have
issued the lock in the file. `Watched` rests on `Timely`: the time left of a
session that nothing has cancelled, and of a candidate under verification, is
above the point up to which a watchdog may be late.

The proofs use these assumptions: owner tokens are distinct except among
persistent invocations under one ID, which follow each other; a TTL is at least
the safety window; the watchdog's delay is below the window.

### RepositoryProofs

For any hosts, files, contents, generations, sync IDs and wipes: `TypeCorrect`,
`CleanSkips` (`CleanSkipIsSound`), `RunningTracks` (`TrackedWhileRunning`), `PayloadMarked`
(`PayloadChangesAreMarked`), `NoOverwrite` (`NoStaleOverwrite`) and `EditsSurvive`
(`KnownEditsSurvive`). The invariant has three layers, each inductive given the ones
before it:

- `Shape`: what a session holds at each point of its control. During startup and between
  the announcement of a batch and its completion no write is in doubt (`Settled`), and the
  local state says active while files may change (`ActiveIsMarked`).
- `Content`: what a state file says of the payload. `CleanSkipIsSound` compares a host with
  the remote state; a crash may leave the verified state or the pending candidate there
  instead, so `CleanIsCurrent` compares it with all three. It needs that sync IDs are
  `Fresh`, and that a completed generation is never announced again (`CompletedOnce`).
  `Tracked` says where the differing files are noted at each point of a batch.
- `Lineage`: whose generations the state files name. A host builds on the ID in its state
  file, and an advance that was never published on the generation before it
  (`BuildsOnLocal`); the remote is at most one announcement ahead of what the session has
  verified (`NotBehindOwn`) and no host ahead of the remote by more than that
  (`LocalNotAhead`); without a write of unknown effect the host that created the remote's
  sync ID is not behind it (`CertainUnlessDoubt`).

Assumptions (`RepositoryAssumption`, `NoneAssumption`): the absent value is no host and no
state, and the initial content is a content.

### SessionLoopProofs

For any set of paths and number of signals: `TypeCorrect`, `ChangesAreKept`
(`NoChangeForgotten`), `CleanExits` (`CleanExitIsComplete`), `ChangesAreTried`
(`LastChangesAreTried`), `TimerKept` (`TimerNeverLost`) and `LockLossIsFinal` (`NoSyncAfterLockLoss`). None of them is
inductive alone. That a successful sync covers its batch needs `TouchedKnown`: a path
that changed under it is in the channel or pending again; from the moment the result is
there `SyncedKnown` takes over. That a closed channel holds nothing back is
`ChannelsDrained`; that nothing is armed or started on the way out `StopsSyncing`. Once
the final sync has begun, what is pending has been tried since its last change
(`FinalTried`); the watcher has ended by then and nothing new arrives.

### ScopedSyncProofs

For any trees, batches, edits and failures: `TypeCorrect`, `Scopes` (`ScopesAreExact`),
`Converges` (`ReplacementsConverge`), `Agrees` (`SyncedPathsAgree`), `OnlyDeletes`
(`DeletionsOnlyDelete`), `Spares` (`NoCollateral`) and, if the two sides agree at first
(`AnyDest` is false), `Remembers` (`NothingForgotten`).

- The paths are sequences ordered by prefix (`PrefixOrder`). That `Representable` and
  `Promote` choose something, and that `Collapse` covers its argument, follows from the
  least element of a set of lengths (`Least`).
- A pass, whole or in part, takes a path to what the source has, or to nothing if it
  deletes it, touches only what the filters list, and nothing hidden (`Pass`). It leaves a
  tree (`DeleteTree`, `CopyTree`) and never undoes an agreement (`SettledStays`).
- `Progress` follows each path that no edit has touched: its scope is still to be handled,
  or the deleting pass has cleared the way (`Cleared`), or the two sides agree. A scope of
  the first group that no edit has touched is gone from the source (`GroupIsDeleted`),
  so that nothing has to be made there.
- What an edit touches is hidden or reported anew (`TouchedIsKnown`); with `Progress` this
  is `NothingForgotten` at the end of a batch.

Assumptions (`ScopesAssumption`): a path comes with its ancestors, nothing lies below a
state file or an excluded file, the root's name is valid, and a file's contents are told
from a directory and from nothing.

### NameEncodingProofs

For names of any length: `SpecSpelledAsListed` (`SpelledAsListed`) and
`SpecSpellingIsFaithful` (`SpellingIsFaithful`). The reference encodings are recursive
functions. The first part shows that their equations have a solution, by a least
counterexample among the lengths of names. The invariant says what has been written when a
part of the name is left: the result so far, the quotation marks that are still counted
and the rest of the name give the encoding of the whole name. An even number of
quotation marks is decoded in pairs, and the odd one belongs to what follows. The second
theorem follows from the first, since Standard read back is the identity; it is proved
and not checked by a run.

### WatcherProofs

`SpecTypeOK` (`TypeOK`) holds for every tree, queue size, number of changes and kind of
rename. If `Renames` is at most `{"settled"}`, `SpecNothingMissed` (`NothingMissed`) and
`SpecWatchesAreExact` (`WatchesAreExact`) hold too, with faults, overflows and a moved root.
`watch_fresh` shows that the condition on the renames is needed.

Neither property is inductive: both speak of an empty queue only. The invariant
`WatchInv` says of the instance in use, unless it has an overflow event in its queue or
the watcher has failed:

- `Core`, while the root exists. A path in the maps that no queued event removes is right,
  and so are all above it (`Exact`). The last queued event of a link of a watched
  directory agrees with the tree (`Links`). Each directory is watched under its path, or
  a queued creation or the walk will reach it (`Covered`). A watch whose path is wrong is
  removed by an event that comes before any creation that could lead a walk to it
  (`Misplaced`). The walk is where the tree is, unless an event removes that place
  (`Walking`). IN_IGNORED is the last event of its descriptor (`Ignored`).
- `RootGone`, when the root has been moved away: the event that says so is queued and the
  root's descriptor is still known, so that the reader fails rather than ends in peace.
- `ReportedIn`: each unreported item is at or below the path of a queued event, or still
  to be walked.

With an empty queue and no walk these leave nothing but the two properties. Settled
renames are used for `Misplaced`: no creation is queued that would lead the walk to a
moved directory before the event of its move. After an overflow nothing is claimed of
the old instance. The walk of the new one starts from an empty instance, where `Core`
holds because the walk covers everything, and its takeover reports the root.

The lemmas of `WatcherCoreProofs` say that every kind of step keeps `Core`: an added, a
removed and a moved directory, with their events; an event taken from the queue; a
directory visited or listed. `WatcherProofs` has the types of the operators and applies
these lemmas to the actions.

Assumption (`WatcherAssumption`): the directories are finitely many, the bounds are
positive, and directory names are not the name of the files.

### TerminalProofs

`TypeCorrect`, `StopsHandled` (`StopIsHandled`) and `HandedInTurn` (`HandedBackInTurn`). The
invariant `IInv` adds to the first two `Phases`: where the goroutine is when the command
has not started or has exited. That of the third, `HandInv`, holds of a session that is `Undisturbed`. It says that a stop of
rclonewatch is sent by `suspend` only, and a SIGCONT only after it has taken effect
(`Orderly`), so that from the end of the wait to the hand-over nothing is under way that
could stop the job, and a job that found itself in the foreground is still there
(`Foreground`).

### Only model-checked

- Liveness (`WaitEnds`, `LeaseOverStops`, `LockLossEnds`, `TwoSignalsEnd`, `SignalEndsWait`,
  `CloseEnds`, `StopIsMirrored`, `ContinueIsMirrored`, `TerminalComesBack`): it rests on fairness, hence on
  `ENABLED`, which the prover does not handle.
- The equality of `Collapse` with the sorted loop of `reconciliationScopes` (`SelectLoop` of
  `MCScopedSync`): the loop is a recursive operator, which the prover does not handle.

## Not modelled

- Parsing of paths, remotes and options, and the glob escapes of
  `scopeFilterPath` and `literalFilterPath`: string handling without state.
- JSON encoding, log output, help text; backend detection (its answer is
  `Conditional`); the rclone process itself, apart from its outcomes.
- State files without sync IDs, which older versions wrote.
- Late writes of state files in `Repository` (`RemoteLock` has them); processes
  left behind by a killed session that go on uploading.
- Excludes that hide a whole directory, in `ScopedSync`.
- Edits between a clean end and the next session's active marker.
- The length of the retry back-off; the size of the watcher's event channel, whose
  reader is always there.
- Symbolic links, and files named like directories, in `Watcher`; metadata changes
  that leave a file's contents alone.

## Plan

1. `RemoteLock`, `Repository`, `SessionLoop`, their runs, the proofs about the lease. Done.
2. `Lease`, refined by `RemoteLock`, checked and proved. Done.
3. `Watcher`, `ScopedSync`, `NameEncoding`, `Terminal` and their runs. Done.
4. Proofs about `SessionLoop`, `Repository`, `ScopedSync` and `Terminal`. Done.
5. Proofs about `NameEncoding` and `Watcher`. Done.
6. A composition of the lease with the generation protocol, with late writes. Left out: it
   would multiply the two largest state spaces.

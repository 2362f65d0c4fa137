------------------------------ MODULE Repository ------------------------------
(***************************************************************************)
(* The generation protocol (src/src/syncstate.go with syncer.Sync and the  *)
(* batching of src/src/main.go): how the state file on the remote, the     *)
(* state file of each host and the payload on both sides change together,  *)
(* so that a session that is killed at any point is recovered by the next  *)
(* one and no host overwrites what another one has published.              *)
(*                                                                         *)
(* Simplifications:                                                        *)
(*  - the lease is that of RemoteLock: at most one session works at a      *)
(*    time, and a lost lease ends it (GiveUp) or kills it (Crash);         *)
(*  - replaceOwnedRemote is one step with the outcomes that its two reads  *)
(*    and its write can have; the lock is left out of the contents;        *)
(*  - a sync ID is a serial number, 0 is the empty one; a repository ID    *)
(*    tells how often the remote had been wiped when it was created; there *)
(*    is no state file of a version without sync IDs;                      *)
(*  - rclone copies or deletes one file at a time; a value of a file       *)
(*    stands for its contents and 0 for its absence;                       *)
(*  - the watcher has seen an edit as soon as it is made.                  *)
(***************************************************************************)
EXTENDS Integers, FiniteSets

CONSTANTS
    Host,              \* the machines that use the repository
    Name,              \* the files of the payload
    Value,             \* the contents of a file; 0 is its absence
    MaxGen,            \* the last generation, ^uint64(0)
    MaxId,             \* bound: sync IDs created in a behaviour
    MaxWipes,          \* bound: how often somebody deletes the remote state file
    None               \* no host, no state file, no candidate

ASSUME RepositoryAssumption ==
    /\ None \notin Host
    /\ 0 \in Value
    /\ MaxGen \in Nat \ {0}
    /\ MaxId \in Nat /\ MaxWipes \in Nat

SyncId == 0 .. MaxId
Payload == [Name -> Value]
RepoId == 0 .. MaxWipes
RemoteState == [repo : RepoId, gen : 0 .. MaxGen, id : SyncId, syncing : BOOLEAN]
LocalState ==
    [repo : RepoId, gen : 1 .. MaxGen, id : SyncId, syncing : BOOLEAN, active : BOOLEAN]

ASSUME NoneAssumption == None \notin RemoteState /\ None \notin LocalState

VARIABLES
    remote,      \* the state file on the remote
    rp,          \* the payload on the remote
    local,       \* local[h]: the state file of h
    lp,          \* lp[h]: the watched directory of h
    cur,         \* the host whose session holds the lock
    pc,          \* what that session does
    own,         \* syncState.remote: the remote state as last verified
    pend,        \* syncState.pending: a candidate written, not verified
    dirty,       \* run's pending: the changed paths not yet in a batch
    batch,       \* the paths of the sync in progress
    todo,        \* the files that its rclone command has still to process
    recovering,  \* the sync is InitializeGeneration's, not the main loop's
    wipes,       \* how often the remote state file has been deleted
    nextId,      \* the next unused sync ID
    author,      \* history: author[i] is the host that created sync ID i
    base,        \* history: the sync ID that the directory of h builds on
    doubt        \* history: since the last wipe a write that returned an error
                 \* has changed the remote

files   == <<remote, rp, doubt>>
hosts   == <<local, lp>>
process == <<cur, pc, own, pend, dirty, batch, todo, recovering>>
history == <<wipes, nextId, author, base>>
vars    == <<files, hosts, process, history>>

Startup == {"start", "clear", "seed", "promoted", "import"}
Syncing == {"advance", "publish", "upload", "completed"}
PCs == {"idle", "running", "closing"} \cup Startup \cup Syncing

\* The types, and a session has a host, which has its local state only from
\* generation 1 on.
TypeOK ==
    /\ remote \in RemoteState \cup {None}
    /\ rp \in Payload
    /\ local \in [Host -> LocalState \cup {None}]
    /\ lp \in [Host -> Payload]
    /\ cur \in Host \cup {None}
    /\ pc \in PCs
    /\ cur = None <=> pc = "idle"
    /\ own \in RemoteState \cup {None}
    /\ pend \in RemoteState \cup {None}
    /\ dirty \subseteq Name
    /\ batch \subseteq Name
    /\ todo \subseteq Name
    /\ recovering \in BOOLEAN
    /\ wipes \in RepoId
    /\ nextId \in 1 .. (MaxId + 1)
    /\ author \in [SyncId -> Host \cup {None}]
    /\ base \in [Host -> SyncId]
    /\ doubt \in BOOLEAN

\* Nobody has used the destination with rclonewatch yet; it need not be empty.
Init ==
    /\ remote = None
    /\ rp \in Payload
    /\ local = [h \in Host |-> None]
    /\ lp = [h \in Host |-> [n \in Name |-> 0]]
    /\ cur = None
    /\ pc = "idle"
    /\ own = None
    /\ pend = None
    /\ dirty = {}
    /\ batch = {}
    /\ todo = {}
    /\ recovering = FALSE
    /\ wipes = 0
    /\ nextId = 1
    /\ author = [i \in SyncId |-> None]
    /\ base = [h \in Host |-> 0]
    /\ doubt = FALSE

-----------------------------------------------------------------------------
(* Helpers *)

\* A fresh rand.Text() of the current session.
NewSyncId ==
    /\ nextId <= MaxId
    /\ nextId' = nextId + 1
    /\ UNCHANGED wipes
    /\ author' = [author EXCEPT ![nextId] = cur]

\* Mutant: equal generations are taken for the same one.
needsSyncFromRemoteByGeneration(l, r) == r.gen # 0 /\ (l # None => l.gen < r.gen)

\* Mutant: another sync ID counts whatever its generation.
needsSyncFromRemoteById(l, r) ==
    r.gen # 0 /\ (l # None => l.gen < r.gen \/ l.id # r.id)

needsSyncFromRemote(l, r) ==
    /\ r.gen # 0
    /\ l # None => l.gen < r.gen \/ (l.gen = r.gen /\ l.id # r.id)

\* The local state is one generation ahead and was never published.
localIncompleteAdvance(l, r) == l.syncing /\ l.gen = r.gen + 1

\* With or without --fail-on-incomplete-sync (strict) and
\* --force-delete-untracked-remote (force)
validateAcquisition(l, r, strict, force) ==
    /\ r # None /\ l # None => l.repo = r.repo
    /\ strict /\ r # None => ~(r.syncing /\ needsSyncFromRemote(l, r))
    /\ r = None /\ ~force => rp = [n \in Name |-> 0]
    /\ r # None /\ l # None =>
          r.gen = 0 \/ l.gen <= r.gen \/ localIncompleteAdvance(l, r)

\* Mutant: the generation before the change is stored.
writeLocalBehind(g, i, s, a) ==
    local' = [local EXCEPT ![cur] =
                 [repo |-> own.repo, gen |-> g - 1, id |-> i, syncing |-> s, active |-> a]]

writeLocal(g, i, s, a) ==
    local' = [local EXCEPT ![cur] =
                 [repo |-> own.repo, gen |-> g, id |-> i, syncing |-> s, active |-> a]]

\* The session is over and its memory is gone.
Exit ==
    /\ cur' = None
    /\ pc' = "idle"
    /\ own' = None
    /\ pend' = None
    /\ dirty' = {}
    /\ batch' = {}
    /\ todo' = {}
    /\ recovering' = FALSE

-----------------------------------------------------------------------------
(* replaceOwnedRemote *)

StillOwned == remote \in {own, pend}

ReplaceOk(cand) ==
    /\ StillOwned
    /\ remote' = cand
    /\ own' = cand
    /\ pend' = None
    /\ UNCHANGED doubt

\* The first read fails, or the write fails, or the read that verifies it: in
\* the last two cases the candidate is pending and may be in the remote file.
\* (That of a refresh differs from own only in the lock, which is left out.)
ReplaceErr(cand) ==
    /\ UNCHANGED own
    /\ \/ UNCHANGED <<remote, pend, doubt>>
       \/ /\ StillOwned
          /\ pend' = IF cand = own THEN None ELSE cand
          /\ \/ UNCHANGED <<remote, doubt>>
             \/ remote' = cand /\ doubt' = (doubt \/ remote # cand)

\* errLockOwnershipLost: the remote holds neither of the two known states.
ReplaceLost ==
    /\ ~StillOwned
    /\ pend' = None
    /\ UNCHANGED <<remote, own, doubt>>

-----------------------------------------------------------------------------
(* Startup *)

\* The repository ID of a new state file: that of the local state, or a new one.
NewRepoId(h) == IF local[h] = None THEN wipes ELSE local[h].repo

\* The directory of h as its next session finds it: files may have changed while
\* nobody watched, before the first session or after one that did not end
\* cleanly.  (A change after a clean end is not noticed by the next start.)
Found(h) ==
    IF local[h] # None /\ ~local[h].active THEN {lp[h]} ELSE Payload

\* Acquire writes the lock, around an empty state when there is none, and the
\* watcher is set up before the state is looked at again.
Start(h) ==
    /\ cur = None
    /\ \E strict, force \in BOOLEAN :
           validateAcquisition(local[h], remote, strict, force)
    /\ cur' = h
    /\ pc' = "start"
    /\ remote' = IF remote = None
                   THEN [repo |-> NewRepoId(h), gen |-> 0, id |-> 0, syncing |-> FALSE]
                   ELSE remote
    /\ own' = remote'
    /\ \E found \in Found(h) : lp' = [lp EXCEPT ![h] = found]
    /\ UNCHANGED <<rp, doubt, local, pend, dirty, batch, todo, recovering, history>>

\* Mutant: the marker is not stored.
MarkActiveNever == UNCHANGED local

\* The marker is stored before the work that it protects begins.
MarkActive ==
    local' = IF local[cur] = None THEN local
             ELSE [local EXCEPT ![cur].active = TRUE]

\* InitializeGeneration up to its first remote operation.
InitializeGeneration ==
    LET l == local[cur]
        incomplete == l.syncing \/ own.syncing \/ l.active
    IN
    /\ pc = "start"
    /\ MarkActive
    /\ \/ /\ own.gen = 0
          /\ pc' = "clear"
          /\ todo' = Name
          /\ UNCHANGED <<batch, recovering>>
       \/ /\ own.gen # 0
          /\ needsSyncFromRemote(l, own)
          /\ pc' = "import"
          /\ todo' = Name
          /\ UNCHANGED <<batch, recovering>>
       \/ /\ own.gen # 0
          /\ ~needsSyncFromRemote(l, own)
          /\ incomplete
          /\ pc' = "advance"
          /\ batch' = Name
          /\ recovering' = TRUE
          /\ UNCHANGED todo
       \/ /\ own.gen # 0
          /\ ~needsSyncFromRemote(l, own)
          /\ ~incomplete
          /\ pc' = "running"
          /\ UNCHANGED <<todo, batch, recovering>>
    /\ UNCHANGED <<files, lp, cur, own, pend, dirty, history>>

\* InitializeRemote: deleteRemotePayload, then syncToRemote.
ClearFile(n) ==
    /\ pc = "clear"
    /\ n \in todo
    /\ rp' = [rp EXCEPT ![n] = 0]
    /\ todo' = todo \ {n}
    /\ UNCHANGED <<remote, doubt, hosts, cur, pc, own, pend, dirty, batch, recovering,
                   history>>

Seed ==
    /\ pc = "clear"
    /\ todo = {}
    /\ pc' = "seed"
    /\ todo' = Name
    /\ UNCHANGED <<files, hosts, cur, own, pend, dirty, batch, recovering, history>>

\* Generation 1 with a fresh sync ID completes the initialization.
InitializeRemote ==
    LET cand == [own EXCEPT !.gen = 1, !.id = nextId, !.syncing = FALSE] IN
    /\ pc = "seed"
    /\ todo = {}
    /\ NewSyncId
    /\ \/ /\ ReplaceOk(cand)
          /\ pc' = "promoted"
          /\ base' = [base EXCEPT ![cur] = nextId]
       \/ /\ ReplaceErr(cand)
          /\ pc' = "closing"
          /\ UNCHANGED base
    /\ UNCHANGED <<rp, hosts, cur, dirty, batch, todo, recovering>>

InitializeLocal ==
    /\ pc = "promoted"
    /\ writeLocal(1, own.id, FALSE, TRUE)
    /\ pc' = "running"
    /\ UNCHANGED <<files, lp, cur, own, pend, dirty, batch, todo, recovering, history>>

\* syncFromRemote; the watcher sees rclone's own writes.
ImportFile(n) ==
    /\ pc = "import"
    /\ n \in todo
    /\ lp' = [lp EXCEPT ![cur][n] = rp[n]]
    /\ dirty' = dirty \cup {n}
    /\ todo' = todo \ {n}
    /\ UNCHANGED <<files, local, cur, pc, own, pend, batch, recovering, history>>

\* The imported state is recorded with its syncing flag.
ImportLocal ==
    /\ pc = "import"
    /\ todo = {}
    /\ writeLocal(own.gen, own.id, own.syncing, TRUE)
    /\ base' = [base EXCEPT ![cur] = own.id]
    /\ pc' = "running"
    /\ UNCHANGED <<files, lp, cur, own, pend, dirty, batch, todo, recovering, wipes, nextId, author>>

-----------------------------------------------------------------------------
(* A batch: BeforeRemoteChange, the rclone command, AfterRemoteChange *)

StartBatch ==
    /\ pc = "running"
    /\ dirty # {}
    /\ batch' = dirty
    /\ dirty' = {}
    /\ pc' = "advance"
    /\ UNCHANGED <<files, hosts, cur, own, pend, todo, recovering, history>>

\* Mutant: the paths of a failed batch are dropped.
BatchOverDropped ==
    /\ batch' = {} /\ todo' = {} /\ recovering' = FALSE
    /\ pc' = IF recovering THEN "closing" ELSE "running"
    /\ UNCHANGED dirty

\* A batch that fails goes back to the changed paths; a recovery that fails
\* ends the session, which stays active in the local state.
BatchOver ==
    /\ batch' = {}
    /\ todo' = {}
    /\ recovering' = FALSE
    /\ \/ recovering /\ pc' = "closing" /\ UNCHANGED dirty
       \/ ~recovering /\ pc' = "running" /\ dirty' = dirty \cup batch

\* The local state runs ahead of the remote one, never behind it.
Advance ==
    /\ pc = "advance"
    /\ own.gen < MaxGen
    /\ NewSyncId
    /\ writeLocal(own.gen + 1, nextId, TRUE, TRUE)
    /\ pc' = "publish"
    /\ UNCHANGED <<files, lp, cur, own, pend, dirty, batch, todo, recovering, base>>

\* Mutant: the new generation is published as a complete one.
NextGenerationComplete ==
    [own EXCEPT !.gen = @ + 1, !.id = local[cur].id, !.syncing = FALSE]

\* The remote state that announces the batch.
NextGeneration ==
    [own EXCEPT !.gen = @ + 1, !.id = local[cur].id, !.syncing = TRUE]

Publish ==
    LET cand == NextGeneration IN
    /\ pc = "publish"
    /\ \/ /\ ReplaceOk(cand)
          /\ pc' = "upload"
          /\ todo' = batch
          /\ base' = [base EXCEPT ![cur] = cand.id]
          /\ UNCHANGED <<dirty, batch, recovering>>
       \/ /\ ReplaceErr(cand)
          /\ BatchOver
          /\ UNCHANGED base
       \/ /\ ReplaceLost
          /\ pc' = "closing"
          /\ UNCHANGED <<dirty, batch, todo, recovering, base>>
    /\ UNCHANGED <<rp, hosts, cur, wipes, nextId, author>>

\* rclone processes one file: the remote gets what the source holds now.
UploadFile(n) ==
    /\ pc \in {"seed", "upload"}
    /\ n \in todo
    /\ rp' = [rp EXCEPT ![n] = lp[cur][n]]
    /\ todo' = todo \ {n}
    /\ UNCHANGED <<remote, doubt, hosts, cur, pc, own, pend, dirty, batch, recovering,
                   history>>

\* The generation cannot be incremented, the local state cannot be written, or
\* the rclone command fails after any number of files.
BatchFails ==
    /\ pc \in {"advance", "upload", "completed"}
    /\ BatchOver
    /\ UNCHANGED <<files, hosts, cur, own, pend, history>>

AfterRemoteChange ==
    LET cand == [own EXCEPT !.syncing = FALSE] IN
    /\ pc = "upload"
    /\ todo = {}
    /\ \/ /\ ReplaceOk(cand)
          /\ pc' = "completed"
          /\ UNCHANGED <<dirty, batch, todo, recovering>>
       \/ /\ ReplaceErr(cand)
          /\ BatchOver
    /\ UNCHANGED <<rp, hosts, cur, history>>

CompleteLocal ==
    /\ pc = "completed"
    /\ writeLocal(own.gen, own.id, FALSE, TRUE)
    /\ pc' = "running"
    /\ batch' = {}
    /\ recovering' = FALSE
    /\ UNCHANGED <<files, lp, cur, own, pend, dirty, todo, history>>

-----------------------------------------------------------------------------
(* Concurrent activity, shutdown and failures *)

\* refreshLoop replaces the lock around the state last verified: a candidate
\* whose fate was unknown is taken back.
Refresh ==
    /\ cur # None
    /\ pc # "closing"
    /\ \/ ReplaceOk(own)
       \/ ReplaceErr(own)
    /\ UNCHANGED <<rp, hosts, cur, pc, dirty, batch, todo, recovering, history>>

\* A program changes a file while the session watches.
Edit(n) ==
    /\ pc \notin {"idle", "start", "closing"}
    /\ \E v \in Value \ {lp[cur][n]} : lp' = [lp EXCEPT ![cur][n] = v]
    /\ dirty' = dirty \cup {n}
    /\ UNCHANGED <<files, local, cur, pc, own, pend, batch, todo, recovering, history>>

\* Every change has been synced: the local state says so.
FinishSession ==
    /\ pc = "running"
    /\ dirty = {}
    /\ local' = [local EXCEPT ![cur].active = FALSE]
    /\ pc' = "closing"
    /\ UNCHANGED <<files, lp, cur, own, pend, dirty, batch, todo, recovering, history>>

\* A failed startup or final sync, a signal, a lost lease or a watcher failure
\* ends the session without FinishSession.
GiveUp ==
    /\ pc \notin {"idle", "closing"}
    /\ pc' = "closing"
    /\ UNCHANGED <<files, hosts, cur, own, pend, dirty, batch, todo, recovering, history>>

\* Close writes the state last verified without the lock.
Close ==
    /\ pc = "closing"
    /\ \/ StillOwned /\ remote' = own
       \/ ~StillOwned /\ UNCHANGED remote
    /\ Exit
    /\ UNCHANGED <<rp, doubt, hosts, history>>

\* The process is killed, its machine fails, or Close fails or has a
\* persistent lock to retain.
Crash ==
    /\ cur # None
    /\ Exit
    /\ UNCHANGED <<files, hosts, history>>

\* Somebody deletes the state file between two sessions, with or without the
\* payload, so that the next one initializes the remote again.
Wipe ==
    /\ cur = None
    /\ remote # None
    /\ wipes < MaxWipes
    /\ wipes' = wipes + 1
    /\ remote' = None
    /\ rp' \in {rp, [n \in Name |-> 0]}
    /\ doubt' = FALSE
    /\ UNCHANGED <<hosts, process, nextId, author, base>>

Next ==
    \/ Wipe
    \/ \E h \in Host : Start(h)
    \/ InitializeGeneration \/ Seed \/ InitializeRemote \/ InitializeLocal
    \/ ImportLocal \/ StartBatch \/ Advance \/ Publish \/ BatchFails
    \/ AfterRemoteChange \/ CompleteLocal \/ Refresh
    \/ \E n \in Name : ClearFile(n) \/ ImportFile(n) \/ UploadFile(n) \/ Edit(n)
    \/ FinishSession \/ GiveUp \/ Close \/ Crash

Spec == Init /\ [][Next]_vars

-----------------------------------------------------------------------------
(* Properties *)

\* What InitializeGeneration finds when it skips reconciliation.
Clean(h) ==
    /\ local[h] # None
    /\ remote # None
    /\ ~local[h].active /\ ~local[h].syncing /\ ~remote.syncing
    /\ local[h].gen = remote.gen
    /\ local[h].id = remote.id

\* Skipping reconciliation loses nothing: a host whose state says that it is
\* clean and current has exactly the payload of the remote, whatever crashes,
\* failed batches, uncertain writes and sessions of other hosts came before
\* (InitializeGeneration, FinishSession).
CleanSkipIsSound == \A h \in Host : Clean(h) => lp[h] = rp

\* While the main loop waits, every file that differs from the remote is queued
\* for a batch, also after a batch has failed half-way or startup has imported
\* or uploaded under concurrent edits (mergeFailedBatch, initializeWatching).
TrackedWhileRunning ==
    pc = "running" => {n \in Name : lp[cur][n] # rp[n]} \subseteq dirty

\* A host never uploads over a generation of another host that its directory
\* does not build on: what another host has published is imported first, also
\* after the remote has been wiped and initialized under a new repository ID
\* (the generations, sync IDs and repository IDs in validateAcquisition and
\* InitializeGeneration).  Under an old repository ID a new history is not safe
\* from an advance that was never published.
NoStaleOverwrite ==
    pc \in {"advance", "publish"} /\ own.repo = wipes =>
        own.id = base[cur] \/ author[own.id] = cur

\* A session changes the remote payload only while the remote state says that it is
\* incomplete, so that a reader of a completed generation has all of it
\* (BeforeRemoteChange and AfterRemoteChange around every upload).
PayloadChangesAreMarked ==
    [][cur # None /\ rp' # rp => remote # None /\ (remote.gen = 0 \/ remote.syncing)]_vars

\* Startup discards the files of a host that has a state of its own only in
\* favour of the work of another host (README: an abandoned or interrupted
\* session is recovered at the next start).
OwnEditsSurvive ==
    pc = "import" /\ local[cur] # None => author[own.id] # cur

\* They do survive unless a failed write has had an effect of which the session
\* never learnt, or the remote was initialized again under an old repository ID: the
\* host's own last generation is not taken for that of another (the sync ID
\* that BeforeRemoteChange stores before it publishes).
KnownEditsSurvive ==
    pc = "import" /\ ~doubt /\ own.repo = wipes => OwnEditsSurvive
=============================================================================

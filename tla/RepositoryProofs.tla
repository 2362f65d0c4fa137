--------------------------- MODULE RepositoryProofs ---------------------------
(***************************************************************************)
(* Proofs about Repository, for any number of hosts, files, contents,      *)
(* generations, sync IDs and wipes.  The invariant is built in three       *)
(* layers, each inductive given the ones before it:                        *)
(*  - Shape: what a session holds at each point of its control;            *)
(*  - Content: what a state file says of the payload;                      *)
(*  - Lineage: whose generations the state files name.                     *)
(***************************************************************************)
EXTENDS Repository, TLAPS

\* The remote states that the remote holds now or may be given by the session.
Known == {remote, own, pend} \ {None}

\* Where the session has a generation to build on, and where a local state too.
Working == {"promoted", "import", "running"} \cup Syncing
Recorded == {"running"} \cup Syncing

-----------------------------------------------------------------------------
(* Shape *)

\* A session has verified a state, and the remote has one; without a session
\* nothing is in memory.
SessionHasState ==
    /\ cur # None => remote # None /\ own # None
    /\ cur = None => own = None /\ pend = None

\* No write is in doubt during startup and between the announcement of a batch
\* and its completion.
Settled ==
    pc \in Startup \cup {"upload", "completed"} => remote = own /\ pend = None

\* What the control of the session says of the states.
Phases ==
    /\ pc \in {"clear", "seed"} => own.gen = 0
    /\ pc = "upload" => own.syncing
    /\ pc \in {"completed", "promoted"} => ~own.syncing
    /\ pc = "promoted" => own.gen = 1
    /\ pc \in Working => own.gen # 0
    /\ pc \in Recorded => local[cur] # None
    /\ pc = "publish" => local[cur].gen = own.gen + 1 /\ local[cur].syncing

\* The local state says that a session is active while files may change.
ActiveIsMarked ==
    pc \notin {"idle", "start", "closing"} /\ local[cur] # None => local[cur].active

Shape == TypeOK /\ SessionHasState /\ Settled /\ Phases /\ ActiveIsMarked

-----------------------------------------------------------------------------
(* Content *)

\* Sync IDs that a session creates are in no state file.
Fresh ==
    /\ \A h \in Host : local[h] # None => local[h].id < nextId
    /\ \A x \in Known : x.id < nextId
    /\ pc = "publish" =>
          \A h \in Host \ {cur} : local[h] # None => local[h].id # local[cur].id

\* What a host has recorded as complete is not announced as incomplete again.
CompletedOnce ==
    \A h \in Host, x \in Known :
        local[h] # None /\ ~local[h].syncing /\ local[h].id = x.id => ~x.syncing

\* The state file of h lets InitializeGeneration skip reconciliation with x.
CleanFor(h, x) ==
    /\ local[h] # None
    /\ ~local[h].active /\ ~local[h].syncing /\ ~x.syncing
    /\ local[h].gen = x.gen
    /\ local[h].id = x.id

CleanIsCurrent == \A h \in Host, x \in Known : CleanFor(h, x) => lp[h] = rp

\* Acquire has refused a local state that is ahead of the remote one.
Validated ==
    pc = "start" /\ local[cur] # None /\ own.gen # 0 =>
        local[cur].gen <= own.gen \/ localIncompleteAdvance(local[cur], own)

\* The files that may differ from the remote in a session.
Differing == {n \in Name : lp[cur][n] # rp[n]}

Tracked ==
    /\ pc \in {"running", "promoted", "completed"} => Differing \subseteq dirty
    /\ pc \in {"advance", "publish"} => Differing \subseteq dirty \cup batch
    /\ pc \in {"seed", "import", "upload"} => Differing \subseteq dirty \cup todo
    /\ pc = "upload" => todo \subseteq batch

Content == Fresh /\ CompletedOnce /\ CleanIsCurrent /\ Validated /\ Tracked

-----------------------------------------------------------------------------
(* Lineage *)

\* Repository IDs are not from the future, and a wipe makes every local state
\* one of an older repository.
Repositories ==
    /\ \A h \in Host : local[h] # None => local[h].repo <= wipes
    /\ \A x \in Known : x.repo <= wipes
    /\ remote = None => \A h \in Host : local[h] # None => local[h].repo < wipes

\* A local state of the repository that is there since the last wipe.
Current(h) == local[h] # None /\ local[h].repo = wipes

\* A session starts with a state file of the repository that it finds.
OwnRepository ==
    pc \in Startup /\ local[cur] # None => local[cur].repo = own.repo

\* The remote is ahead of the verified state by an announcement, or equal to it
\* but for the syncing flag.
NotBehindOwn ==
    cur # None => \A x \in Known :
        /\ x.repo = own.repo
        /\ x.gen >= own.gen
        /\ x.gen = own.gen => x.id = own.id

\* Nobody has a state of a repository without a generation, and nobody is
\* ahead of the remote by more than the announcement.
LocalNotAhead ==
    \A h \in Host, x \in Known : Current(h) /\ x.repo = wipes =>
        x.gen # 0 /\ local[h].gen <= x.gen + 1

\* Host h has imported, published or created sync ID i.
Builds(h, i) == i = base[h] \/ author[i] = h

\* A host builds on the ID in its state file, and an advance that was never
\* published builds on the generation before it.
BuildsOnLocal ==
    \A h \in Host : Current(h) =>
        /\ Builds(h, local[h].id)
        /\ \A x \in Known :
              x.repo = wipes /\ local[h].syncing /\ local[h].gen = x.gen + 1 =>
                  Builds(h, x.id)

\* So does a session on the generation that it has verified.
BuildsOnOwn ==
    /\ pc \in Recorded /\ own.repo = wipes => Builds(cur, own.id)
    /\ pc \in {"promoted", "upload", "completed"} => own.id = base[cur]
    /\ pc = "publish" => author[local[cur].id] = cur

\* Unless a failed write has had an effect, the remote holds what the session
\* has verified, and the state file of the host that created its sync ID is
\* not behind it.
CertainUnlessDoubt ==
    ~doubt =>
        /\ cur # None => remote = own
        /\ \A h \in Host :
              Current(h) /\ remote # None /\ remote.repo = wipes /\ author[remote.id] = h =>
                  ~needsSyncFromRemote(local[h], remote)

Lineage ==
    /\ Repositories
    /\ OwnRepository
    /\ NotBehindOwn
    /\ LocalNotAhead
    /\ BuildsOnLocal
    /\ BuildsOnOwn
    /\ CertainUnlessDoubt
    /\ KnownEditsSurvive

-----------------------------------------------------------------------------
(* Lemmas about the helpers *)

\* What a session reads and verifies is a remote state.
LEMMA SessionTypes ==
    ASSUME Shape, pc # "idle"
    PROVE  /\ cur \in Host /\ cur # None
           /\ own \in RemoteState /\ own # None
           /\ remote \in RemoteState /\ remote # None
           /\ own.repo \in RepoId /\ own.gen \in 0 .. MaxGen
           /\ own.id \in SyncId /\ own.syncing \in BOOLEAN
<1>1. cur # None /\ cur \in Host
  BY DEF Shape, TypeOK
<1>2. own \in RemoteState /\ remote \in RemoteState
  BY <1>1 DEF Shape, TypeOK, SessionHasState
<1>3. QED
  BY <1>1, <1>2, NoneAssumption DEF RemoteState

LEMMA LocalTypes ==
    ASSUME TypeOK, NEW h \in Host, local[h] # None
    PROVE  /\ local[h] \in LocalState
           /\ local[h].repo \in RepoId /\ local[h].gen \in 1 .. MaxGen
           /\ local[h].id \in SyncId
           /\ local[h].syncing \in BOOLEAN /\ local[h].active \in BOOLEAN
BY DEF TypeOK, LocalState

\* A fresh sync ID is the next number.
LEMMA NewSyncIdTypes ==
    ASSUME TypeOK, NewSyncId
    PROVE  /\ nextId \in SyncId /\ nextId' \in 1 .. (MaxId + 1) /\ nextId' = nextId + 1
           /\ author' \in [SyncId -> Host \cup {None}]
           /\ author'[nextId] = cur
           /\ \A i \in SyncId : i # nextId => author'[i] = author[i]
           /\ wipes' = wipes
<1>1. nextId \in SyncId /\ nextId' \in 1 .. (MaxId + 1) /\ nextId' = nextId + 1
  BY RepositoryAssumption DEF TypeOK, NewSyncId, SyncId
<1>2. QED
  BY <1>1 DEF TypeOK, NewSyncId

\* A state file is replaced, and no other.
LEMMA ReplaceLocal ==
    ASSUME TypeOK, NEW c \in Host, NEW l \in LocalState, local' = [local EXCEPT ![c] = l]
    PROVE  /\ local' \in [Host -> LocalState \cup {None}]
           /\ local'[c] = l /\ local'[c] # None
           /\ \A h \in Host \ {c} : local'[h] = local[h]
<1>1. l # None
  BY NoneAssumption
<1>2. QED
  BY <1>1 DEF TypeOK

\* So does the host of the session with its own.
LEMMA WriteLocalTypes ==
    ASSUME Shape, pc # "idle", NEW g \in 1 .. MaxGen, NEW i \in SyncId,
           NEW s \in BOOLEAN, NEW a \in BOOLEAN, writeLocal(g, i, s, a)
    PROVE  /\ local' \in [Host -> LocalState \cup {None}]
           /\ local'[cur] # None
           /\ local'[cur].repo = own.repo /\ local'[cur].gen = g /\ local'[cur].id = i
           /\ local'[cur].syncing = s /\ local'[cur].active = a
           /\ \A h \in Host \ {cur} : local'[h] = local[h]
<1> DEFINE l == [repo |-> own.repo, gen |-> g, id |-> i, syncing |-> s, active |-> a]
<1>1. cur \in Host /\ own.repo \in RepoId
  BY SessionTypes
<1>2. l \in LocalState
  BY <1>1 DEF LocalState
<1>3. local' = [local EXCEPT ![cur] = l] /\ TypeOK
  BY DEF writeLocal, Shape
<1>4. /\ local' \in [Host -> LocalState \cup {None}]
      /\ local'[cur] = l /\ local'[cur] # None
      /\ \A h \in Host \ {cur} : local'[h] = local[h]
  <2> HIDE DEF l
  <2>1. QED
    BY <1>1, <1>2, <1>3, ReplaceLocal
<1>5. QED
  BY <1>4

\* ImportLocal copies the verified state to the state file.
LEMMA ImportLocalWrites ==
    ASSUME Shape, ImportLocal
    PROVE  /\ local' \in [Host -> LocalState \cup {None}]
           /\ local'[cur] # None
           /\ local'[cur].repo = own.repo /\ local'[cur].gen = own.gen
           /\ local'[cur].id = own.id /\ local'[cur].syncing = own.syncing
           /\ local'[cur].active
           /\ \A h \in Host \ {cur} : local'[h] = local[h]
<1> DEFINE l == [repo |-> own.repo, gen |-> own.gen, id |-> own.id,
                 syncing |-> own.syncing, active |-> TRUE]
<1>1. /\ cur \in Host /\ own.repo \in RepoId /\ own.gen \in 0 .. MaxGen
      /\ own.id \in SyncId /\ own.syncing \in BOOLEAN
  BY SessionTypes DEF ImportLocal
<1>2. own.gen # 0
  BY DEF ImportLocal, Shape, Phases, Working
<1>3. l \in LocalState
  <2>1. own.gen \in 1 .. MaxGen
    BY <1>1, <1>2, RepositoryAssumption
  <2>2. QED
    BY <1>1, <2>1 DEF LocalState
<1>4. local' = [local EXCEPT ![cur] = l] /\ TypeOK
  BY DEF ImportLocal, writeLocal, Shape
<1>5. /\ local' \in [Host -> LocalState \cup {None}]
      /\ local'[cur] = l /\ local'[cur] # None
      /\ \A h \in Host \ {cur} : local'[h] = local[h]
  <2> HIDE DEF l
  <2>1. QED
    BY <1>1, <1>3, <1>4, ReplaceLocal
<1>6. QED
  BY <1>5

\* Advance records the next generation, which is not published yet.
LEMMA AdvanceWrites ==
    ASSUME Shape, Advance
    PROVE  /\ local' \in [Host -> LocalState \cup {None}]
           /\ local'[cur] # None
           /\ local'[cur].repo = own.repo /\ local'[cur].gen = own.gen + 1
           /\ local'[cur].id = nextId /\ local'[cur].syncing /\ local'[cur].active
           /\ \A h \in Host \ {cur} : local'[h] = local[h]
<1> DEFINE l == [repo |-> own.repo, gen |-> own.gen + 1, id |-> nextId,
                 syncing |-> TRUE, active |-> TRUE]
<1>1. cur \in Host /\ own.repo \in RepoId /\ own.gen \in 0 .. MaxGen
  BY SessionTypes DEF Advance
<1>2. nextId \in SyncId
  BY NewSyncIdTypes DEF Advance, Shape
<1>3. l \in LocalState
  <2>1. own.gen + 1 \in 1 .. MaxGen
    BY <1>1, RepositoryAssumption DEF Advance
  <2>2. QED
    BY <1>1, <1>2, <2>1 DEF LocalState
<1>4. local' = [local EXCEPT ![cur] = l] /\ TypeOK
  BY DEF Advance, writeLocal, Shape
<1>5. /\ local' \in [Host -> LocalState \cup {None}]
      /\ local'[cur] = l /\ local'[cur] # None
      /\ \A h \in Host \ {cur} : local'[h] = local[h]
  <2> HIDE DEF l
  <2>1. QED
    BY <1>1, <1>3, <1>4, ReplaceLocal
<1>6. QED
  BY <1>5

\* Only the marker of a state file changes.
LEMMA MarkerTypes ==
    ASSUME TypeOK, NEW c \in Host, local[c] # None, NEW a \in BOOLEAN,
           local' = [local EXCEPT ![c].active = a]
    PROVE  /\ local' \in [Host -> LocalState \cup {None}]
           /\ local'[c] # None
           /\ local'[c].repo = local[c].repo /\ local'[c].gen = local[c].gen
           /\ local'[c].id = local[c].id /\ local'[c].syncing = local[c].syncing
           /\ local'[c].active = a
           /\ \A h \in Host \ {c} : local'[h] = local[h]
<1> DEFINE l == [local[c] EXCEPT !.active = a]
<1>1. local[c] \in LocalState /\ local \in [Host -> LocalState \cup {None}]
  BY LocalTypes DEF TypeOK
<1>2. l \in LocalState /\ l.repo = local[c].repo /\ l.gen = local[c].gen
      /\ l.id = local[c].id /\ l.syncing = local[c].syncing /\ l.active = a
  BY <1>1 DEF LocalState
<1>3. local' = [local EXCEPT ![c] = l]
  OBVIOUS
<1>4. l # None
  BY <1>2, NoneAssumption
<1> HIDE DEF l
<1>5. local'[c] = l
  BY <1>1, <1>3
<1>6. local' \in [Host -> LocalState \cup {None}] /\ \A h \in Host \ {c} : local'[h] = local[h]
  BY <1>1, <1>2, <1>3
<1>7. QED
  BY <1>2, <1>4, <1>5, <1>6

\* What replaceOwnedRemote leaves behind: the candidate is verified, or it may be on
\* the remote and is then pending.
LEMMA ReplaceOkKnown ==
    ASSUME NEW cand \in RemoteState, ReplaceOk(cand)
    PROVE  remote' = cand /\ own' = cand /\ pend' = None /\ doubt' = doubt
           /\ Known' = {cand}
<1>1. cand # None
  BY NoneAssumption
<1>2. QED
  BY <1>1 DEF ReplaceOk, Known

LEMMA ReplaceErrKnown ==
    ASSUME Shape, pc # "idle", NEW cand \in RemoteState, ReplaceErr(cand)
    PROVE  /\ own' = own
           /\ remote' \in {remote, cand}
           /\ pend' \in {pend, cand, None}
           /\ doubt' \in BOOLEAN
           /\ ~doubt' => ~doubt /\ remote' = remote
           /\ Known' \subseteq Known \cup {cand}
<1>1. cand # None /\ doubt \in BOOLEAN
  BY NoneAssumption DEF Shape, TypeOK
<1>2. /\ own' = own
      /\ remote' \in {remote, cand}
      /\ pend' \in {pend, cand, None}
  BY DEF ReplaceErr
<1>3. doubt' \in BOOLEAN /\ (~doubt' => ~doubt /\ remote' = remote)
  BY <1>1 DEF ReplaceErr
<1>4. QED
  BY <1>1, <1>2, <1>3 DEF Known

\* The candidate of InitializeRemote.
FirstGeneration == [own EXCEPT !.gen = 1, !.id = nextId, !.syncing = FALSE]

\* The candidate of AfterRemoteChange.
Completion == [own EXCEPT !.syncing = FALSE]

LEMMA FirstGenerationTypes ==
    ASSUME own \in RemoteState, nextId \in SyncId
    PROVE  /\ FirstGeneration \in RemoteState
           /\ FirstGeneration.repo = own.repo /\ FirstGeneration.gen = 1
           /\ FirstGeneration.id = nextId /\ ~FirstGeneration.syncing
<1>1. 1 \in 0 .. MaxGen
  BY RepositoryAssumption
<1>2. QED
  BY <1>1 DEF FirstGeneration, RemoteState

LEMMA CompletionTypes ==
    ASSUME own \in RemoteState
    PROVE  /\ Completion \in RemoteState
           /\ Completion.repo = own.repo /\ Completion.gen = own.gen
           /\ Completion.id = own.id /\ ~Completion.syncing
BY DEF Completion, RemoteState

LEMMA NextGenerationTypes ==
    ASSUME Shape, pc = "publish"
    PROVE  /\ NextGeneration \in RemoteState
           /\ NextGeneration.repo = own.repo /\ NextGeneration.gen = own.gen + 1
           /\ NextGeneration.gen = local[cur].gen
           /\ NextGeneration.id = local[cur].id /\ NextGeneration.syncing
<1>1. own \in RemoteState /\ own.gen \in 0 .. MaxGen /\ cur \in Host
  BY SessionTypes
<1>2. local[cur] # None /\ local[cur].gen = own.gen + 1
  BY DEF Shape, Phases, Recorded, Syncing
<1>3. local[cur].id \in SyncId /\ own.gen + 1 \in 0 .. MaxGen
  BY <1>1, <1>2, LocalTypes, RepositoryAssumption DEF Shape
<1>4. QED
  BY <1>1, <1>2, <1>3 DEF NextGeneration, RemoteState

-----------------------------------------------------------------------------
(* Shape: one lemma for each action *)

LEMMA InitShape == Init => Shape
<1> SUFFICES ASSUME Init PROVE Shape
  OBVIOUS
<1>1. TypeOK
  <2>1. nextId \in 1 .. (MaxId + 1) /\ wipes \in RepoId /\ 0 \in SyncId
    BY RepositoryAssumption DEF Init, RepoId, SyncId
  <2>2. lp \in [Host -> Payload]
    BY RepositoryAssumption DEF Init, Payload
  <2>3. QED
    BY <2>1, <2>2, RepositoryAssumption DEF Init, TypeOK, PCs
<1>2. QED
  BY <1>1 DEF Init, Shape, SessionHasState, Settled, Phases, ActiveIsMarked, Startup,
              Syncing, Working, Recorded

USE RepositoryAssumption, NoneAssumption
USE DEF Shape, SessionHasState, Settled, Phases, ActiveIsMarked, PCs, Startup, Syncing,
        Working, Recorded

LEMMA WipeShape ==
    ASSUME Shape, Wipe
    PROVE  Shape'
<1>1. wipes' \in RepoId
  BY DEF TypeOK, RepoId, Wipe
<1>2. rp' \in Payload
  BY DEF TypeOK, Payload, Wipe
<1>3. QED
  BY <1>1, <1>2 DEF TypeOK, Wipe, hosts, process

LEMMA StartShape ==
    ASSUME Shape, NEW h \in Host, Start(h)
    PROVE  Shape'
<1>1. remote' \in RemoteState
  BY LocalTypes DEF TypeOK, Start, NewRepoId, RemoteState, RepoId, SyncId
<1>2. lp' \in [Host -> Payload]
  BY DEF TypeOK, Start, Found
<1>3. QED
  BY <1>1, <1>2 DEF TypeOK, Start, history

LEMMA InitializeGenerationShape ==
    ASSUME Shape, InitializeGeneration
    PROVE  Shape'
<1>1. /\ cur \in Host /\ local \in [Host -> LocalState \cup {None}]
      /\ UNCHANGED <<files, lp, cur, own, pend, dirty, history>>
  BY SessionTypes DEF InitializeGeneration, TypeOK
<1>2. /\ local' \in [Host -> LocalState \cup {None}]
      /\ local[cur] = None => local' = local
      /\ local[cur] # None => local'[cur] # None /\ local'[cur].active
  BY <1>1, MarkerTypes DEF InitializeGeneration, MarkActive
<1>3. TypeOK'
  BY <1>1, <1>2 DEF TypeOK, InitializeGeneration, files, history
<1>4. pc' \in {"clear", "import", "advance", "running"}
  BY DEF InitializeGeneration
<1>5. /\ pc' = "clear" => own.gen = 0
      /\ pc' # "clear" => own.gen # 0
      /\ pc' \in {"advance", "running"} => local[cur] # None
  BY DEF InitializeGeneration, needsSyncFromRemote
<1>6. QED
  BY <1>1, <1>2, <1>3, <1>4, <1>5 DEF InitializeGeneration, files

LEMMA ClearFileShape ==
    ASSUME Shape, NEW n \in Name, ClearFile(n)
    PROVE  Shape'
BY DEF TypeOK, Payload, ClearFile, hosts, history

LEMMA SeedShape ==
    ASSUME Shape, Seed
    PROVE  Shape'
BY DEF TypeOK, Seed, files, hosts, history

LEMMA InitializeRemoteShape ==
    ASSUME Shape, InitializeRemote
    PROVE  Shape'
<1>1. own \in RemoteState /\ cur \in Host
  BY SessionTypes DEF InitializeRemote
<1>2. /\ nextId \in SyncId /\ nextId' \in 1 .. (MaxId + 1) /\ wipes' = wipes
      /\ author' \in [SyncId -> Host \cup {None}]
  BY NewSyncIdTypes DEF InitializeRemote
<1>3. FirstGeneration \in RemoteState /\ FirstGeneration.gen = 1 /\ ~FirstGeneration.syncing
  BY <1>1, <1>2, FirstGenerationTypes
<1>4. base' \in [Host -> SyncId]
  BY <1>1, <1>2 DEF InitializeRemote, TypeOK
<1>5. UNCHANGED <<rp, local, lp, cur, dirty, batch, todo, recovering>>
  BY DEF InitializeRemote, hosts
<1>6. CASE ReplaceOk(FirstGeneration) /\ pc' = "promoted"
  <2>1. remote' = FirstGeneration /\ own' = FirstGeneration /\ pend' = None /\ doubt' = doubt
    BY <1>3, <1>6, ReplaceOkKnown
  <2>2. QED
    BY <1>2, <1>3, <1>4, <1>5, <1>6, <2>1 DEF TypeOK, InitializeRemote
<1>7. CASE ReplaceErr(FirstGeneration) /\ pc' = "closing"
  <2>1. /\ own' = own /\ remote' \in {remote, FirstGeneration}
        /\ pend' \in {pend, FirstGeneration, None} /\ doubt' \in BOOLEAN
    BY <1>3, <1>7, ReplaceErrKnown DEF InitializeRemote
  <2>2. QED
    BY <1>2, <1>3, <1>4, <1>5, <1>7, <2>1 DEF TypeOK, InitializeRemote
<1>8. QED
  BY <1>6, <1>7 DEF InitializeRemote, FirstGeneration

LEMMA InitializeLocalShape ==
    ASSUME Shape, InitializeLocal
    PROVE  Shape'
<1>1. own.id \in SyncId /\ 1 \in 1 .. MaxGen
  BY SessionTypes DEF InitializeLocal
<1>2. /\ local' \in [Host -> LocalState \cup {None}]
      /\ local'[cur] # None /\ local'[cur].active
  BY <1>1, WriteLocalTypes DEF InitializeLocal
<1>3. QED
  BY <1>2 DEF TypeOK, InitializeLocal, files, history

LEMMA ImportFileShape ==
    ASSUME Shape, NEW n \in Name, ImportFile(n)
    PROVE  Shape'
BY DEF TypeOK, Payload, ImportFile, files, history

LEMMA ImportLocalShape ==
    ASSUME Shape, ImportLocal
    PROVE  Shape'
<1>1. cur \in Host /\ own.id \in SyncId
  BY SessionTypes DEF ImportLocal
<1>2. QED
  BY <1>1, ImportLocalWrites DEF TypeOK, ImportLocal, files

LEMMA StartBatchShape ==
    ASSUME Shape, StartBatch
    PROVE  Shape'
BY DEF TypeOK, StartBatch, files, hosts, history

LEMMA AdvanceShape ==
    ASSUME Shape, Advance
    PROVE  Shape'
<1>1. /\ nextId' \in 1 .. (MaxId + 1) /\ wipes' = wipes
      /\ author' \in [SyncId -> Host \cup {None}]
  BY NewSyncIdTypes DEF Advance
<1>2. QED
  BY <1>1, AdvanceWrites DEF TypeOK, Advance, files

LEMMA PublishShape ==
    ASSUME Shape, Publish
    PROVE  Shape'
<1>1. /\ NextGeneration \in RemoteState
      /\ NextGeneration.gen # 0 /\ NextGeneration.syncing
      /\ NextGeneration.id \in SyncId
      /\ cur \in Host /\ local[cur] # None
  BY NextGenerationTypes, SessionTypes DEF Publish, RemoteState
<1>2. UNCHANGED <<rp, local, lp, cur, wipes, nextId, author>> /\ pc = "publish"
  BY DEF Publish, hosts
<1>3. CASE ReplaceOk(NextGeneration) /\ pc' = "upload"
  <2>1. remote' = NextGeneration /\ own' = NextGeneration /\ pend' = None /\ doubt' = doubt
    BY <1>1, <1>3, ReplaceOkKnown
  <2>2. /\ todo' \subseteq Name /\ base' \in [Host -> SyncId]
        /\ UNCHANGED <<dirty, batch, recovering>>
    BY <1>1, <1>3 DEF Publish, TypeOK, ReplaceErr, BatchOver
  <2>3. QED
    BY <1>1, <1>2, <1>3, <2>1, <2>2 DEF TypeOK
<1>4. CASE ReplaceErr(NextGeneration) /\ BatchOver /\ base' = base
  <2>1. /\ own' = own /\ remote' \in {remote, NextGeneration}
        /\ pend' \in {pend, NextGeneration, None} /\ doubt' \in BOOLEAN
    BY <1>1, <1>2, <1>4, ReplaceErrKnown
  <2>2. QED
    BY <1>1, <1>2, <1>4, <2>1 DEF TypeOK, BatchOver
<1>5. CASE ReplaceLost /\ pc' = "closing" /\ UNCHANGED <<dirty, batch, todo, recovering, base>>
  BY <1>1, <1>2, <1>5 DEF TypeOK, ReplaceLost
<1>6. QED
  BY <1>3, <1>4, <1>5 DEF Publish

LEMMA UploadFileShape ==
    ASSUME Shape, NEW n \in Name, UploadFile(n)
    PROVE  Shape'
BY DEF TypeOK, Payload, UploadFile, hosts, history

LEMMA BatchFailsShape ==
    ASSUME Shape, BatchFails
    PROVE  Shape'
BY DEF TypeOK, BatchFails, BatchOver, files, hosts, history

LEMMA AfterRemoteChangeShape ==
    ASSUME Shape, AfterRemoteChange
    PROVE  Shape'
<1>1. /\ Completion \in RemoteState /\ Completion.gen = own.gen /\ ~Completion.syncing
      /\ own.gen # 0 /\ pc = "upload"
  BY CompletionTypes, SessionTypes DEF AfterRemoteChange
<1>2. UNCHANGED <<rp, local, lp, cur, wipes, nextId, author, base>>
  BY DEF AfterRemoteChange, hosts, history
<1>3. CASE ReplaceOk(Completion) /\ pc' = "completed" /\ UNCHANGED <<dirty, batch, todo, recovering>>
  <2>1. remote' = Completion /\ own' = Completion /\ pend' = None /\ doubt' = doubt
    BY <1>1, <1>3, ReplaceOkKnown
  <2>2. QED
    BY <1>1, <1>2, <1>3, <2>1 DEF TypeOK
<1>4. CASE ReplaceErr(Completion) /\ BatchOver
  <2>1. /\ own' = own /\ remote' \in {remote, Completion}
        /\ pend' \in {pend, Completion, None} /\ doubt' \in BOOLEAN
    BY <1>1, <1>4, ReplaceErrKnown
  <2>2. QED
    BY <1>1, <1>2, <1>4, <2>1 DEF TypeOK, BatchOver
<1>5. QED
  BY <1>3, <1>4 DEF AfterRemoteChange, Completion

LEMMA CompleteLocalShape ==
    ASSUME Shape, CompleteLocal
    PROVE  Shape'
<1>1. own.id \in SyncId /\ own.gen \in 1 .. MaxGen
  BY SessionTypes DEF CompleteLocal
<1>2. /\ local' \in [Host -> LocalState \cup {None}]
      /\ local'[cur] # None /\ local'[cur].active
  BY <1>1, WriteLocalTypes DEF CompleteLocal
<1>3. QED
  BY <1>2 DEF TypeOK, CompleteLocal, files, history

LEMMA RefreshShape ==
    ASSUME Shape, Refresh
    PROVE  Shape'
<1>1. own \in RemoteState /\ pc # "idle"
  BY SessionTypes DEF Refresh, TypeOK
<1>2. UNCHANGED <<rp, local, lp, cur, pc, dirty, batch, todo, recovering, wipes, nextId,
                  author, base>>
  BY DEF Refresh, hosts, history
<1>3. /\ own' = own /\ remote' \in {remote, own}
      /\ pend' \in {pend, None} /\ doubt' \in BOOLEAN
  BY <1>1 DEF Refresh, ReplaceOk, ReplaceErr, TypeOK
<1>4. QED
  BY <1>1, <1>2, <1>3 DEF TypeOK

LEMMA EditShape ==
    ASSUME Shape, NEW n \in Name, Edit(n)
    PROVE  Shape'
BY DEF TypeOK, Payload, Edit, files, history

LEMMA FinishSessionShape ==
    ASSUME Shape, FinishSession
    PROVE  Shape'
<1>1. cur \in Host /\ local[cur] # None
  BY SessionTypes DEF FinishSession
<1>2. local' \in [Host -> LocalState \cup {None}]
  BY <1>1, MarkerTypes DEF FinishSession
<1>3. QED
  BY <1>2 DEF TypeOK, FinishSession, files, history

LEMMA GiveUpShape ==
    ASSUME Shape, GiveUp
    PROVE  Shape'
BY DEF TypeOK, GiveUp, files, hosts, history

LEMMA CloseShape ==
    ASSUME Shape, Close
    PROVE  Shape'
BY DEF TypeOK, Close, Exit, StillOwned, hosts, history

LEMMA CrashShape ==
    ASSUME Shape, Crash
    PROVE  Shape'
BY DEF TypeOK, Crash, Exit, files, hosts, history

LEMMA StutterShape ==
    ASSUME Shape, UNCHANGED vars
    PROVE  Shape'
BY DEF TypeOK, vars, files, hosts, process, history

HIDE DEF Shape, SessionHasState, Settled, Phases, ActiveIsMarked, PCs, Startup, Syncing,
         Working, Recorded

LEMMA NextShape ==
    ASSUME Shape, [Next]_vars
    PROVE  Shape'
<1>1. CASE Wipe
  BY <1>1, WipeShape
<1>2. ASSUME NEW h \in Host, Start(h) PROVE Shape'
  BY <1>2, StartShape
<1>3. CASE InitializeGeneration
  BY <1>3, InitializeGenerationShape
<1>4. ASSUME NEW n \in Name, ClearFile(n) PROVE Shape'
  BY <1>4, ClearFileShape
<1>5. CASE Seed
  BY <1>5, SeedShape
<1>6. CASE InitializeRemote
  BY <1>6, InitializeRemoteShape
<1>7. CASE InitializeLocal
  BY <1>7, InitializeLocalShape
<1>8. ASSUME NEW n \in Name, ImportFile(n) PROVE Shape'
  BY <1>8, ImportFileShape
<1>9. CASE ImportLocal
  BY <1>9, ImportLocalShape
<1>10. CASE StartBatch
  BY <1>10, StartBatchShape
<1>11. CASE Advance
  BY <1>11, AdvanceShape
<1>12. CASE Publish
  BY <1>12, PublishShape
<1>13. ASSUME NEW n \in Name, UploadFile(n) PROVE Shape'
  BY <1>13, UploadFileShape
<1>14. CASE BatchFails
  BY <1>14, BatchFailsShape
<1>15. CASE AfterRemoteChange
  BY <1>15, AfterRemoteChangeShape
<1>16. CASE CompleteLocal
  BY <1>16, CompleteLocalShape
<1>17. CASE Refresh
  BY <1>17, RefreshShape
<1>18. ASSUME NEW n \in Name, Edit(n) PROVE Shape'
  BY <1>18, EditShape
<1>19. CASE FinishSession
  BY <1>19, FinishSessionShape
<1>20. CASE GiveUp
  BY <1>20, GiveUpShape
<1>21. CASE Close
  BY <1>21, CloseShape
<1>22. CASE Crash
  BY <1>22, CrashShape
<1>23. CASE UNCHANGED vars
  BY <1>23, StutterShape
<1>24. QED
  BY <1>1, <1>2, <1>3, <1>4, <1>5, <1>6, <1>7, <1>8, <1>9, <1>10, <1>11, <1>12,
     <1>13, <1>14, <1>15, <1>16, <1>17, <1>18, <1>19, <1>20, <1>21, <1>22, <1>23 DEF Next

LEMMA ShapeInvariant == Spec => []Shape
<1>1. Shape /\ [Next]_vars => Shape'
  BY NextShape
<1>2. QED
  BY InitShape, <1>1, PTL DEF Spec

\* The state files, the payloads and the variables of the session keep their
\* types: generations and sync IDs stay in range, and a local state has at least
\* generation 1.
THEOREM TypeCorrect == Spec => []TypeOK
<1>1. Shape => TypeOK
  BY DEF Shape
<1>2. QED
  BY ShapeInvariant, <1>1, PTL

\* The steps of rclone on the remote payload: deleteRemotePayload, syncToRemote and
\* a batch.  All happen under a state without a generation or marked as syncing.
LEMMA PayloadStep ==
    ASSUME Shape, Next, cur # None, rp' # rp
    PROVE  remote # None /\ (remote.gen = 0 \/ remote.syncing)
<1>1. CASE \E n \in Name : ClearFile(n) \/ UploadFile(n)
  <2>1. pc \in {"clear", "seed", "upload"}
    BY <1>1 DEF ClearFile, UploadFile
  <2>2. remote = own /\ (own.gen = 0 \/ own.syncing)
    BY <2>1 DEF Shape, Settled, Phases, Startup
  <2>3. QED
    BY <2>1, <2>2, SessionTypes
<1>2. CASE ~ \E n \in Name : ClearFile(n) \/ UploadFile(n)
  BY <1>2 DEF Next, Wipe, Start, InitializeGeneration, Seed, InitializeRemote,
              InitializeLocal, ImportLocal, StartBatch, Advance, Publish, BatchFails,
              AfterRemoteChange, CompleteLocal, Refresh, ImportFile, Edit,
              FinishSession, GiveUp, Close, Crash, files
<1>3. QED
  BY <1>1, <1>2

\* A session changes the payload on the remote only while the state file says that
\* it is incomplete, whichever writes of the state file fail or stay in doubt.
THEOREM PayloadMarked == Spec => PayloadChangesAreMarked
<1>1. Shape /\ [Next]_vars =>
        [cur # None /\ rp' # rp => remote # None /\ (remote.gen = 0 \/ remote.syncing)]_vars
  BY PayloadStep
<1>2. QED
  BY ShapeInvariant, <1>1, PTL DEF Spec, PayloadChangesAreMarked

-----------------------------------------------------------------------------
(* Content: one lemma for each action *)

LEMMA KnownTypes ==
    ASSUME TypeOK, NEW x \in Known
    PROVE  /\ x \in RemoteState /\ x # None
           /\ x.repo \in RepoId /\ x.gen \in 0 .. MaxGen
           /\ x.id \in SyncId /\ x.syncing \in BOOLEAN
BY DEF TypeOK, Known, RemoteState

\* Payloads that differ nowhere are equal.
LEMMA NoDifference ==
    ASSUME TypeOK, cur \in Host
    PROVE  Differing = {} <=> lp[cur] = rp
<1>1. lp[cur] \in Payload /\ rp \in Payload
  BY DEF TypeOK
<1>2. ASSUME \A n \in Name : lp[cur][n] = rp[n] PROVE lp[cur] = rp
  BY <1>1, <1>2 DEF Payload
<1>3. QED
  BY <1>2 DEF Differing

LEMMA InitContent == Init => Content
BY DEF Init, Content, Fresh, CompletedOnce, CleanIsCurrent, CleanFor, Validated, Tracked,
       Known

\* The states that a session settles on while it changes the remote payload: no
\* host is clean with respect to them.
LEMMA NobodyClean ==
    ASSUME Shape, pc \in {"clear", "seed", "upload"}, NEW h \in Host, NEW x \in Known
    PROVE  ~CleanFor(h, x)
<1>1. x = own
  BY DEF Shape, Settled, Startup, Known
<1>2. own.gen = 0 \/ own.syncing
  BY DEF Shape, Phases
<1>3. local[h] # None => local[h].gen # 0
  BY LocalTypes DEF Shape
<1>4. QED
  BY <1>1, <1>2, <1>3 DEF CleanFor

\* A candidate that no host has recorded as complete may become known: nobody is
\* clean with respect to it.
LEMMA CandidateContent ==
    ASSUME Shape, Content, NEW cand \in RemoteState, Known' \subseteq Known \cup {cand},
           UNCHANGED <<local, lp, rp>>, nextId' \in Nat, nextId <= nextId',
           cand.id < nextId', pc' # "publish",
           \A h \in Host : local[h] # None /\ ~local[h].syncing => local[h].id # cand.id
    PROVE  (Fresh /\ CompletedOnce /\ CleanIsCurrent)'
<1>1. Fresh'
  <2>1. nextId \in Nat /\ SyncId \subseteq Nat
    BY DEF Shape, TypeOK, SyncId
  <2>2. ASSUME NEW h \in Host, local[h] # None PROVE local[h].id < nextId'
    <3>1. local[h].id \in Nat /\ local[h].id < nextId
      BY <2>1, <2>2, LocalTypes DEF Content, Fresh, Shape
    <3>2. QED
      BY <2>1, <3>1
  <2>3. ASSUME NEW x \in Known' PROVE x.id < nextId'
    <3>1. CASE x = cand
      BY <3>1
    <3>2. CASE x \in Known
      <4>1. x.id \in Nat /\ x.id < nextId
        BY <2>1, <3>2, KnownTypes DEF Content, Fresh, Shape
      <4>2. QED
        BY <2>1, <4>1
    <3>3. QED
      BY <3>1, <3>2
  <2>4. QED
    BY <2>2, <2>3 DEF Fresh
<1>2. CompletedOnce'
  BY DEF Content, CompletedOnce
<1>3. CleanIsCurrent'
  BY DEF Content, CleanIsCurrent, CleanFor
<1>4. QED
  BY <1>1, <1>2, <1>3

USE DEF Content, Fresh, CompletedOnce, CleanIsCurrent, CleanFor, Validated, Tracked,
        Differing, Known, Shape, SessionHasState, Settled, Phases, ActiveIsMarked, Startup,
        Syncing, Working, Recorded

LEMMA WipeContent ==
    ASSUME Shape, Shape', Content, Wipe
    PROVE  Content'
BY DEF TypeOK, Wipe, hosts, process

LEMMA StartContent ==
    ASSUME Shape, Shape', Content, NEW h \in Host, Start(h)
    PROVE  Content'
<1>1. CASE remote = None
  <2>1. \A x \in Known' : x.gen = 0 /\ x.id = 0 /\ ~x.syncing
    BY <1>1 DEF Start
  <2>2. \A i \in Host : local[i] # None => local[i].gen # 0
    BY LocalTypes
  <2>3. QED
    BY <1>1, <2>1, <2>2 DEF TypeOK, Start, validateAcquisition, history
<1>2. CASE remote # None
  <2>1. Known' = {remote} /\ remote \in Known /\ local' = local /\ rp' = rp
    BY <1>2 DEF Start
  <2>2. ASSUME NEW i \in Host, CleanFor(i, remote) PROVE lp'[i] = rp
    <3>1. lp[i] = rp /\ (i = h => Found(h) = {lp[h]})
      BY <2>1, <2>2 DEF Found
    <3>2. QED
      BY <3>1 DEF Start, TypeOK
  <2>3. CleanIsCurrent'
    BY <2>1, <2>2
  <2>4. (Fresh /\ CompletedOnce /\ Tracked)'
    BY <2>1 DEF Start, history
  <2>5. Validated'
    BY <1>2 DEF Start, validateAcquisition
  <2>6. QED
    BY <2>3, <2>4, <2>5
<1>3. QED
  BY <1>1, <1>2

LEMMA InitializeGenerationContent ==
    ASSUME Shape, Shape', Content, InitializeGeneration
    PROVE  Content'
<1>1. cur \in Host /\ own \in Known /\ own.gen \in 0 .. MaxGen
  BY SessionTypes DEF InitializeGeneration
<1>2. UNCHANGED <<remote, own, pend, cur, lp, rp, nextId>>
  BY DEF InitializeGeneration, files, history
<1>3. \A h \in Host :
        /\ local'[h] # None <=> local[h] # None
        /\ local[h] # None =>
              /\ local'[h].id = local[h].id /\ local'[h].gen = local[h].gen
              /\ local'[h].syncing = local[h].syncing
              /\ ~local'[h].active => ~local[h].active
  BY <1>1, MarkerTypes DEF InitializeGeneration, MarkActive
<1>4. (Fresh /\ CompletedOnce /\ CleanIsCurrent /\ Validated)'
  BY <1>2, <1>3 DEF InitializeGeneration
<1>5. CASE pc' = "running"
  <2>1. /\ own.gen # 0 /\ ~needsSyncFromRemote(local[cur], own)
        /\ ~local[cur].syncing /\ ~own.syncing /\ ~local[cur].active
        /\ pc = "start" /\ dirty' = dirty
    BY <1>5 DEF InitializeGeneration
  <2>2. local[cur] # None /\ local[cur].gen \in 1 .. MaxGen
    BY <1>1, <2>1, LocalTypes DEF needsSyncFromRemote
  <2>3. local[cur].gen = own.gen /\ local[cur].id = own.id
    BY <1>1, <2>1, <2>2 DEF needsSyncFromRemote, localIncompleteAdvance
  <2>4. lp[cur] = rp
    BY <1>1, <2>1, <2>2, <2>3
  <2>5. QED
    BY <1>1, <1>2, <1>4, <1>5, <2>4
<1>6. CASE pc' # "running"
  <2>1. /\ pc' \in {"clear", "import", "advance"}
        /\ pc' = "import" => todo' = Name
        /\ pc' = "advance" => batch' = Name
    BY <1>6 DEF InitializeGeneration
  <2>2. QED
    BY <1>4, <2>1
<1>7. QED
  BY <1>5, <1>6

LEMMA ClearFileContent ==
    ASSUME Shape, Shape', Content, NEW n \in Name, ClearFile(n)
    PROVE  Content'
<1>1. UNCHANGED <<remote, own, pend, local, lp, nextId, cur, pc>> /\ pc = "clear"
  BY DEF ClearFile, hosts, history
<1>2. CleanIsCurrent'
  BY <1>1, NobodyClean
<1>3. QED
  BY <1>1, <1>2

LEMMA SeedContent ==
    ASSUME Shape, Shape', Content, Seed
    PROVE  Content'
BY DEF TypeOK, Seed, files, hosts, history

LEMMA InitializeRemoteContent ==
    ASSUME Shape, Shape', Content, InitializeRemote
    PROVE  Content'
<1>1. own \in RemoteState /\ TypeOK
  BY SessionTypes DEF InitializeRemote
<1>2. /\ nextId \in SyncId /\ nextId \in Nat /\ nextId' = nextId + 1
      /\ UNCHANGED <<local, lp, rp, cur, dirty, todo>>
      /\ todo = {} /\ pc = "seed" /\ pc' \in {"promoted", "closing"}
  BY <1>1, NewSyncIdTypes DEF InitializeRemote, SyncId, hosts
<1>3. FirstGeneration \in RemoteState /\ FirstGeneration.id = nextId
  BY <1>1, <1>2, FirstGenerationTypes
<1>4. Known' \subseteq Known \cup {FirstGeneration}
  <2>1. ReplaceOk(FirstGeneration) \/ ReplaceErr(FirstGeneration)
    BY DEF InitializeRemote, FirstGeneration
  <2> HIDE DEF Known
  <2>2. QED
    BY <1>2, <1>3, <2>1, ReplaceOkKnown, ReplaceErrKnown
<1>5. \A h \in Host : local[h] # None => local[h].id # FirstGeneration.id
  BY <1>2, <1>3, LocalTypes DEF SyncId
<1>6. (Fresh /\ CompletedOnce /\ CleanIsCurrent)'
  <2> HIDE DEF Known, Fresh, CompletedOnce, CleanIsCurrent, Content, Shape
  <2>1. QED
    BY <1>2, <1>3, <1>4, <1>5, CandidateContent
<1>7. (Validated /\ Tracked)'
  BY <1>2
<1>8. QED
  BY <1>6, <1>7

LEMMA InitializeLocalContent ==
    ASSUME Shape, Shape', Content, InitializeLocal
    PROVE  Content'
BY DEF TypeOK, InitializeLocal, writeLocal, files, history

LEMMA ImportFileContent ==
    ASSUME Shape, Shape', Content, NEW n \in Name, ImportFile(n)
    PROVE  Content'
BY DEF TypeOK, ImportFile, files, history

LEMMA ImportLocalContent ==
    ASSUME Shape, Shape', Content, ImportLocal
    PROVE  Content'
BY DEF TypeOK, ImportLocal, writeLocal, files

LEMMA StartBatchContent ==
    ASSUME Shape, Shape', Content, StartBatch
    PROVE  Content'
BY DEF TypeOK, StartBatch, files, hosts, history

LEMMA AdvanceContent ==
    ASSUME Shape, Shape', Content, Advance
    PROVE  Content'
<1>1. TypeOK
  OBVIOUS
<1>2. nextId \in SyncId /\ nextId \in Nat /\ nextId' = nextId + 1
  BY <1>1, NewSyncIdTypes DEF Advance, SyncId
<1>3. /\ local'[cur].id = nextId /\ local'[cur].syncing
      /\ \A h \in Host \ {cur} : local'[h] = local[h]
  BY AdvanceWrites
<1>4. UNCHANGED <<remote, own, pend, lp, rp, cur, dirty, batch>> /\ pc' = "publish"
  BY DEF Advance, files
<1>5. SyncId \subseteq Nat
  BY DEF SyncId
<1>6. Fresh'
  <2>1. ASSUME NEW x \in Known PROVE x.id < nextId + 1
    <3> HIDE DEF Known
    <3>1. x.id \in Nat /\ x.id < nextId
      BY <1>1, <1>5, KnownTypes
    <3>2. QED
      BY <1>2, <3>1
  <2>2. \A h \in Host \ {cur} : local[h] # None => local[h].id < nextId
    OBVIOUS
  <2>3. \A h \in Host \ {cur} : local[h] # None => local[h].id \in Nat
    BY <1>1, <1>5, LocalTypes
  <2>4. QED
    BY <1>2, <1>3, <1>4, <2>1, <2>2, <2>3
<1>7. (CompletedOnce /\ CleanIsCurrent)'
  BY <1>3, <1>4
<1>8. (Validated /\ Tracked)'
  BY <1>4 DEF Advance
<1>9. QED
  BY <1>6, <1>7, <1>8

LEMMA PublishContent ==
    ASSUME Shape, Shape', Content, Publish
    PROVE  Content'
<1>1. /\ NextGeneration \in RemoteState /\ NextGeneration.id = local[cur].id
      /\ NextGeneration.syncing /\ cur \in Host
  BY NextGenerationTypes, SessionTypes DEF Publish
<1>2. /\ UNCHANGED <<local, lp, rp, cur, nextId>> /\ pc = "publish"
      /\ nextId \in Nat /\ local[cur] # None /\ local[cur].syncing
  BY DEF Publish, hosts, TypeOK
<1>3. ASSUME ReplaceOk(NextGeneration) \/ ReplaceErr(NextGeneration)
      PROVE  (Fresh /\ CompletedOnce /\ CleanIsCurrent)'
  <2>1. Known' \subseteq Known \cup {NextGeneration}
    <3> HIDE DEF Known
    <3>1. QED
      BY <1>1, <1>2, <1>3, ReplaceOkKnown, ReplaceErrKnown
  <2>2. \A h \in Host : local[h] # None /\ ~local[h].syncing =>
            local[h].id # NextGeneration.id
    BY <1>1, <1>2
  <2>3. NextGeneration.id < nextId /\ nextId <= nextId /\ pc' # "publish"
    BY <1>1, <1>2 DEF Publish, BatchOver
  <2>4. QED
    <3> HIDE DEF Known, Fresh, CompletedOnce, CleanIsCurrent, Content, Shape
    <3>1. QED
      BY <1>1, <1>2, <2>1, <2>2, <2>3, CandidateContent
<1>4. ASSUME ReplaceLost, pc' = "closing"
      PROVE  (Fresh /\ CompletedOnce /\ CleanIsCurrent)'
  <2>1. Known' \subseteq Known
    BY <1>4 DEF ReplaceLost
  <2>2. QED
    BY <1>2, <1>4, <2>1
<1>5. (Fresh /\ CompletedOnce /\ CleanIsCurrent)'
  BY <1>3, <1>4 DEF Publish
<1>6. (Validated /\ Tracked)'
  <2>1. CASE pc' = "upload"
    BY <1>2, <2>1 DEF Publish, BatchOver
  <2>2. CASE pc' # "upload"
    BY <1>2, <2>2 DEF Publish, BatchOver
  <2>3. QED
    BY <2>1, <2>2
<1>7. QED
  BY <1>5, <1>6

LEMMA UploadFileContent ==
    ASSUME Shape, Shape', Content, NEW n \in Name, UploadFile(n)
    PROVE  Content'
<1>1. /\ UNCHANGED <<remote, own, pend, local, lp, nextId, cur, pc, dirty, batch>>
      /\ pc \in {"seed", "upload"} /\ todo' = todo \ {n}
  BY DEF UploadFile, hosts, history
<1>2. CleanIsCurrent'
  BY <1>1, NobodyClean
<1>3. rp'[n] = lp[cur][n] /\ \A m \in Name \ {n} : rp'[m] = rp[m]
  BY DEF UploadFile, TypeOK, Payload
<1>4. QED
  BY <1>1, <1>2, <1>3

LEMMA BatchFailsContent ==
    ASSUME Shape, Shape', Content, BatchFails
    PROVE  Content'
BY DEF TypeOK, BatchFails, BatchOver, files, hosts, history

LEMMA AfterRemoteChangeContent ==
    ASSUME Shape, Shape', Content, AfterRemoteChange
    PROVE  Content'
<1>1. /\ Completion \in RemoteState /\ Completion.id = own.id
      /\ own \in Known /\ own.syncing
  BY CompletionTypes, SessionTypes DEF AfterRemoteChange
<1>2. /\ UNCHANGED <<local, lp, rp, cur, nextId>> /\ pc = "upload" /\ nextId \in Nat
  BY DEF AfterRemoteChange, hosts, history, TypeOK
<1>3. Known' \subseteq Known \cup {Completion}
  <2>1. ReplaceOk(Completion) \/ ReplaceErr(Completion)
    BY DEF AfterRemoteChange, Completion
  <2> HIDE DEF Known
  <2>2. QED
    BY <1>1, <1>2, <2>1, ReplaceOkKnown, ReplaceErrKnown
<1>4. \A h \in Host : local[h] # None /\ ~local[h].syncing => local[h].id # Completion.id
  BY <1>1
<1>5. Completion.id < nextId /\ nextId <= nextId /\ pc' # "publish"
  BY <1>1, <1>2 DEF AfterRemoteChange, BatchOver
<1>6. (Fresh /\ CompletedOnce /\ CleanIsCurrent)'
  <2> HIDE DEF Known, Fresh, CompletedOnce, CleanIsCurrent, Content, Shape
  <2>1. QED
    BY <1>1, <1>2, <1>3, <1>4, <1>5, CandidateContent
<1>7. (Validated /\ Tracked)'
  BY <1>2 DEF AfterRemoteChange, BatchOver
<1>8. QED
  BY <1>6, <1>7

LEMMA CompleteLocalContent ==
    ASSUME Shape, Shape', Content, CompleteLocal
    PROVE  Content'
BY DEF TypeOK, CompleteLocal, writeLocal, files, history

LEMMA RefreshContent ==
    ASSUME Shape, Shape', Content, Refresh
    PROVE  Content'
BY DEF TypeOK, Refresh, ReplaceOk, StillOwned, ReplaceErr, hosts, history

LEMMA EditContent ==
    ASSUME Shape, Shape', Content, NEW n \in Name, Edit(n)
    PROVE  Content'
BY DEF TypeOK, Edit, files, history

LEMMA FinishSessionContent ==
    ASSUME Shape, Shape', Content, FinishSession
    PROVE  Content'
<1>1. cur \in Host /\ local[cur] # None /\ TypeOK
  BY SessionTypes DEF FinishSession
<1>2. /\ UNCHANGED <<remote, own, pend, lp, rp, nextId, cur, dirty>>
      /\ pc = "running" /\ pc' = "closing"
  BY DEF FinishSession, files, history
<1>3. /\ local'[cur].id = local[cur].id /\ local'[cur].gen = local[cur].gen
      /\ local'[cur].syncing = local[cur].syncing /\ local'[cur] # None
      /\ \A h \in Host \ {cur} : local'[h] = local[h]
  BY <1>1, MarkerTypes DEF FinishSession
<1>4. lp[cur] = rp
  BY <1>1, NoDifference DEF FinishSession
<1>5. CleanIsCurrent'
  BY <1>2, <1>3, <1>4
<1>6. (Fresh /\ CompletedOnce)'
  BY <1>1, <1>2, <1>3
<1>7. QED
  BY <1>2, <1>5, <1>6

LEMMA GiveUpContent ==
    ASSUME Shape, Shape', Content, GiveUp
    PROVE  Content'
BY DEF TypeOK, GiveUp, files, hosts, history

LEMMA CloseContent ==
    ASSUME Shape, Shape', Content, Close
    PROVE  Content'
BY DEF TypeOK, Close, Exit, StillOwned, hosts, history

LEMMA CrashContent ==
    ASSUME Shape, Shape', Content, Crash
    PROVE  Content'
BY DEF TypeOK, Crash, Exit, files, hosts, history

LEMMA StutterContent ==
    ASSUME Content, UNCHANGED vars
    PROVE  Content'
BY DEF localIncompleteAdvance, vars, files, hosts, process, history

HIDE DEF Content, Fresh, CompletedOnce, CleanIsCurrent, CleanFor, Validated, Tracked,
         Differing, Known, Shape, SessionHasState, Settled, Phases, ActiveIsMarked, Startup,
         Syncing, Working, Recorded

LEMMA NextContent ==
    ASSUME Shape, Content, [Next]_vars
    PROVE  Content'
<1>0. Shape'
  BY NextShape
<1>1. CASE Wipe
  BY <1>0, <1>1, WipeContent
<1>2. ASSUME NEW h \in Host, Start(h) PROVE Content'
  BY <1>0, <1>2, StartContent
<1>3. CASE InitializeGeneration
  BY <1>0, <1>3, InitializeGenerationContent
<1>4. ASSUME NEW n \in Name, ClearFile(n) PROVE Content'
  BY <1>0, <1>4, ClearFileContent
<1>5. CASE Seed
  BY <1>0, <1>5, SeedContent
<1>6. CASE InitializeRemote
  BY <1>0, <1>6, InitializeRemoteContent
<1>7. CASE InitializeLocal
  BY <1>0, <1>7, InitializeLocalContent
<1>8. ASSUME NEW n \in Name, ImportFile(n) PROVE Content'
  BY <1>0, <1>8, ImportFileContent
<1>9. CASE ImportLocal
  BY <1>0, <1>9, ImportLocalContent
<1>10. CASE StartBatch
  BY <1>0, <1>10, StartBatchContent
<1>11. CASE Advance
  BY <1>0, <1>11, AdvanceContent
<1>12. CASE Publish
  BY <1>0, <1>12, PublishContent
<1>13. ASSUME NEW n \in Name, UploadFile(n) PROVE Content'
  BY <1>0, <1>13, UploadFileContent
<1>14. CASE BatchFails
  BY <1>0, <1>14, BatchFailsContent
<1>15. CASE AfterRemoteChange
  BY <1>0, <1>15, AfterRemoteChangeContent
<1>16. CASE CompleteLocal
  BY <1>0, <1>16, CompleteLocalContent
<1>17. CASE Refresh
  BY <1>0, <1>17, RefreshContent
<1>18. ASSUME NEW n \in Name, Edit(n) PROVE Content'
  BY <1>0, <1>18, EditContent
<1>19. CASE FinishSession
  BY <1>0, <1>19, FinishSessionContent
<1>20. CASE GiveUp
  BY <1>0, <1>20, GiveUpContent
<1>21. CASE Close
  BY <1>0, <1>21, CloseContent
<1>22. CASE Crash
  BY <1>0, <1>22, CrashContent
<1>23. CASE UNCHANGED vars
  BY <1>23, StutterContent
<1>24. QED
  BY <1>1, <1>2, <1>3, <1>4, <1>5, <1>6, <1>7, <1>8, <1>9, <1>10, <1>11, <1>12,
     <1>13, <1>14, <1>15, <1>16, <1>17, <1>18, <1>19, <1>20, <1>21, <1>22, <1>23 DEF Next

LEMMA ContentInvariant == Spec => []Content
<1>1. Shape /\ Content /\ [Next]_vars => Content'
  BY NextContent
<1>2. QED
  BY InitContent, ShapeInvariant, <1>1, PTL DEF Spec

\* The main loop never loses sight of a file that differs from the remote: not
\* after failed batches, uncertain writes, or a startup under concurrent edits.
THEOREM RunningTracks == Spec => []TrackedWhileRunning
<1>1. Content => TrackedWhileRunning
  BY DEF Content, Tracked, Differing, TrackedWhileRunning
<1>2. QED
  BY ContentInvariant, <1>1, PTL

\* Where InitializeGeneration would skip reconciliation there is nothing to
\* reconcile, whatever sessions of this and other hosts, crashes, failed and
\* uncertain writes and wipes came before.
THEOREM CleanSkips == Spec => []CleanSkipIsSound
<1>1. Content => CleanSkipIsSound
  BY DEF Content, CleanIsCurrent, CleanFor, Known, Clean, CleanSkipIsSound
<1>2. QED
  BY ContentInvariant, <1>1, PTL

-----------------------------------------------------------------------------
(* Lineage: one lemma for each action *)

LEMMA InitLineage == Init => Lineage
BY DEF Init, Lineage, Repositories, OwnRepository, NotBehindOwn, LocalNotAhead, Current,
       BuildsOnLocal, BuildsOnOwn, CertainUnlessDoubt, KnownEditsSurvive, Known, Startup,
       Recorded, Syncing

\* The numbers in the state files.
LEMMA LocalNumbers ==
    ASSUME Shape, Content, NEW h \in Host, local[h] # None
    PROVE  /\ local[h].repo \in Nat /\ local[h].gen \in Nat /\ local[h].gen # 0
           /\ local[h].id \in SyncId /\ local[h].id # nextId
<1>1. local[h].id < nextId /\ nextId \in Nat
  BY DEF Content, Fresh, Shape, TypeOK
<1>2. /\ local[h].repo \in RepoId /\ local[h].gen \in 1 .. MaxGen
      /\ local[h].id \in SyncId
  BY LocalTypes DEF Shape
<1>3. QED
  BY <1>1, <1>2 DEF RepoId, SyncId

LEMMA KnownNumbers ==
    ASSUME Shape, Content, NEW x \in Known
    PROVE  /\ x.repo \in Nat /\ x.gen \in Nat /\ x.id \in SyncId /\ x.id # nextId
<1>1. x.id < nextId /\ nextId \in Nat
  BY DEF Content, Fresh, Shape, TypeOK
<1>2. x.repo \in RepoId /\ x.gen \in 0 .. MaxGen /\ x.id \in SyncId
  BY KnownTypes DEF Shape
<1>3. QED
  BY <1>1, <1>2 DEF RepoId, SyncId

LEMMA OwnKnown ==
    ASSUME Shape, pc # "idle"
    PROVE  own \in Known /\ remote \in Known /\ cur \in Host /\ cur # None
BY SessionTypes DEF Known

\* During startup and under an announced batch the verified state is the only
\* one.
LEMMA OnlyOwn ==
    ASSUME Shape, pc \in Startup \cup {"upload", "completed"}
    PROVE  remote = own /\ Known = {own}
BY SessionTypes DEF Shape, Settled, Known, Startup

USE DEF Lineage, Repositories, OwnRepository, NotBehindOwn, LocalNotAhead, Current,
        BuildsOnLocal, Builds, BuildsOnOwn, CertainUnlessDoubt, KnownEditsSurvive,
        OwnEditsSurvive, Startup, Syncing, Recorded

LEMMA WipeLineage ==
    ASSUME Shape, Shape', Content, Lineage, Wipe
    PROVE  Lineage'
<1>1. /\ Known' = {} /\ UNCHANGED <<local, cur, pc, own, base, author>>
      /\ wipes' = wipes + 1 /\ pc = "idle" /\ cur = None
  BY DEF Wipe, hosts, process, Known, Shape, SessionHasState, TypeOK
<1>2. ASSUME NEW h \in Host, local[h] # None PROVE local[h].repo < wipes + 1
  <2>1. local[h].repo <= wipes /\ local[h].repo \in Nat /\ wipes \in Nat
    BY <1>2, LocalNumbers DEF Shape, TypeOK, RepoId
  <2>2. QED
    BY <2>1
<1>3. ASSUME NEW h \in Host, Current(h)' PROVE FALSE
  <2>1. local[h] # None /\ local[h].repo = wipes + 1
    BY <1>1, <1>3
  <2>2. local[h].repo <= wipes /\ local[h].repo \in Nat /\ wipes \in Nat
    BY <2>1, LocalNumbers DEF Shape, TypeOK, RepoId
  <2>3. QED
    BY <2>1, <2>2
<1>4. Repositories'
  <2>1. \A h \in Host : local[h] # None => local[h].repo <= wipes + 1
    BY LocalNumbers DEF Shape, TypeOK, RepoId
  <2>2. QED
    BY <1>1, <1>2, <2>1
<1>5. QED
  BY <1>1, <1>3, <1>4

LEMMA StartLineage ==
    ASSUME Shape, Shape', Content, Lineage, NEW h \in Host, Start(h)
    PROVE  Lineage'
<1>1. /\ cur = None /\ cur' = h /\ pc' = "start" /\ own' = remote' /\ h # None
      /\ UNCHANGED <<local, wipes, base, author, doubt>>
      /\ remote # None /\ local[h] # None => local[h].repo = remote.repo
  BY DEF Start, history, validateAcquisition
<1>2. own = None /\ pend = None /\ pend' = None
  BY <1>1 DEF Start, Shape, SessionHasState
<1>3. CASE remote = None
  <2>1. /\ remote'.gen = 0 /\ remote'.repo = NewRepoId(h) /\ remote' # None
        /\ Known' = {remote'}
    <3>1. /\ remote' = [repo |-> NewRepoId(h), gen |-> 0, id |-> 0, syncing |-> FALSE]
          /\ remote' # None
      BY <1>1, <1>3 DEF Start, Shape, SessionHasState
    <3>2. QED
      BY <1>1, <1>2, <3>1 DEF Known
  <2>2. ASSUME NEW i \in Host PROVE ~Current(i)
    <3>1. local[i] # None => local[i].repo < wipes /\ local[i].repo \in Nat /\ wipes \in Nat
      BY <1>3, LocalNumbers DEF Shape, TypeOK, RepoId
    <3>2. QED
      BY <3>1
  <2>3. remote'.repo <= wipes
    <3>1. wipes \in Nat /\ wipes <= wipes
      BY DEF Shape, TypeOK, RepoId
    <3>2. QED
      BY <2>1, <3>1 DEF NewRepoId
  <2>4. OwnRepository'
    BY <1>1, <2>1 DEF NewRepoId
  <2>5. NotBehindOwn'
    <3>1. remote'.gen >= remote'.gen
      BY <2>1
    <3>2. QED
      BY <1>1, <2>1, <3>1
  <2>6. QED
    BY <1>1, <2>1, <2>2, <2>3, <2>4, <2>5
<1>4. CASE remote # None
  <2>1. remote' = remote /\ own' = remote /\ Known = {remote} /\ Known' = {remote}
    BY <1>1, <1>2, <1>4 DEF Start, Known
  <2>2. remote.gen >= remote.gen
    BY <2>1, KnownNumbers
  <2>3. QED
    BY <1>1, <1>4, <2>1, <2>2
<1>5. QED
  BY <1>3, <1>4

LEMMA InitializeGenerationLineage ==
    ASSUME Shape, Shape', Content, Lineage, InitializeGeneration
    PROVE  Lineage'
<1>1. /\ cur \in Host /\ own \in Known /\ remote = own /\ Known = {own} /\ pc = "start"
      /\ remote # None
      /\ UNCHANGED <<remote, own, pend, cur, wipes, base, author, doubt>> /\ Known' = Known
  BY OwnKnown, OnlyOwn DEF InitializeGeneration, files, history, Known
<1>2. \A h \in Host :
        /\ local'[h] # None <=> local[h] # None
        /\ local[h] # None =>
              /\ local'[h].id = local[h].id /\ local'[h].gen = local[h].gen
              /\ local'[h].syncing = local[h].syncing /\ local'[h].repo = local[h].repo
  <2>1. CASE local[cur] = None
    BY <2>1 DEF InitializeGeneration, MarkActive
  <2>2. CASE local[cur] # None
    <3>1. local' = [local EXCEPT ![cur].active = TRUE] /\ TypeOK
      BY <2>2 DEF InitializeGeneration, MarkActive, Shape
    <3>2. QED
      BY <1>1, <2>2, <3>1, MarkerTypes
  <2>3. QED
    BY <2>1, <2>2
<1>3. pc' \in {"clear", "import", "advance", "running"}
  BY DEF InitializeGeneration
<1>4. BuildsOnOwn'
  <2>1. CASE pc' \in {"advance", "running"} /\ own.repo = wipes
    <3>1. own.gen # 0 /\ ~needsSyncFromRemote(local[cur], own)
      BY <2>1 DEF InitializeGeneration
    <3>2. local[cur] # None /\ Current(cur)
      BY <1>1, <2>1, <3>1 DEF needsSyncFromRemote
    <3>3. local[cur].gen \in Nat /\ own.gen \in Nat
      BY <1>1, <3>2, LocalNumbers, KnownNumbers
    <3>4. \/ local[cur].gen = own.gen /\ local[cur].id = own.id
          \/ local[cur].syncing /\ local[cur].gen = own.gen + 1
      BY <1>1, <3>1, <3>2, <3>3 DEF needsSyncFromRemote, Content, Validated,
                                    localIncompleteAdvance
    <3>5. Builds(cur, own.id)
      BY <1>1, <2>1, <3>2, <3>4
    <3>6. QED
      BY <1>1, <2>1, <3>5
  <2>2. QED
    BY <1>1, <1>3, <2>1
<1>5. KnownEditsSurvive'
  <2>1. CASE pc' = "import" /\ ~doubt /\ own.repo = wipes /\ local[cur] # None
    <3>1. needsSyncFromRemote(local[cur], own)
      BY <2>1 DEF InitializeGeneration
    <3>2. author[own.id] # cur
      BY <1>1, <2>1, <3>1
    <3>3. QED
      BY <1>1, <3>2
  <2>2. QED
    BY <1>1, <1>2, <2>1
<1>6. (Repositories /\ OwnRepository /\ NotBehindOwn /\ LocalNotAhead /\ BuildsOnLocal)'
  BY <1>1, <1>2, <1>3
<1>7. CertainUnlessDoubt'
  BY <1>1, <1>2 DEF needsSyncFromRemote
<1>8. QED
  BY <1>4, <1>5, <1>6, <1>7

LEMMA ClearFileLineage ==
    ASSUME Shape, Shape', Content, Lineage, NEW n \in Name, ClearFile(n)
    PROVE  Lineage'
BY DEF needsSyncFromRemote, Known, Shape, SessionHasState, Settled, Phases, TypeOK,
       ClearFile, hosts, history

LEMMA SeedLineage ==
    ASSUME Shape, Shape', Content, Lineage, Seed
    PROVE  Lineage'
BY DEF needsSyncFromRemote, Known, Shape, SessionHasState, Settled, Phases, TypeOK,
       Seed, files, hosts, history

LEMMA InitializeRemoteLineage ==
    ASSUME Shape, Shape', Content, Lineage, InitializeRemote
    PROVE  Lineage'
<1> DEFINE fg == FirstGeneration
<1>1. /\ cur \in Host /\ cur # None /\ own \in Known /\ remote = own /\ Known = {own}
      /\ pc = "seed" /\ own.gen = 0 /\ TypeOK /\ own \in RemoteState
  BY OwnKnown, OnlyOwn, SessionTypes DEF InitializeRemote, Shape, Phases
<1>2. /\ nextId \in SyncId /\ author'[nextId] = cur /\ wipes' = wipes
      /\ \A i \in SyncId : i # nextId => author'[i] = author[i]
  BY <1>1, NewSyncIdTypes DEF InitializeRemote
<1>3. /\ fg \in RemoteState /\ fg.repo = own.repo /\ fg.gen = 1 /\ fg.id = nextId
  BY <1>1, <1>2, FirstGenerationTypes
<1>4. UNCHANGED <<local, cur>>
  BY DEF InitializeRemote, hosts
<1>5. \/ /\ ReplaceOk(fg) /\ pc' = "promoted"
         /\ base' = [base EXCEPT ![cur] = nextId]
      \/ ReplaceErr(fg) /\ pc' = "closing" /\ base' = base
  BY DEF InitializeRemote, FirstGeneration
<1> HIDE DEF fg
<1>6. /\ Known' \subseteq {own, fg} /\ own' \in {own, fg} /\ own' \in Known'
      /\ remote' \in Known' /\ remote' # None
      /\ pc' = "promoted" => own' = fg /\ Known' = {fg}
      /\ pc' = "closing" => own' = own
      /\ ~doubt' => ~doubt /\ remote' = own'
  <2>1. Shape' => own' \in Known' /\ remote' \in Known' /\ remote' # None
    BY <1>1, <1>4 DEF Shape, SessionHasState, Known
  <2>2. CASE ReplaceOk(fg) /\ pc' = "promoted"
    BY <1>3, <2>1, <2>2, ReplaceOkKnown
  <2>3. CASE ReplaceErr(fg) /\ pc' = "closing"
    BY <1>1, <1>3, <2>1, <2>3, ReplaceErrKnown
  <2>4. QED
    BY <1>5, <2>2, <2>3
<1>7. \A x \in Known' : x.repo = own.repo
  BY <1>3, <1>6
\* Nobody has a state of this repository.
<1>8. own.repo = wipes => \A h \in Host : ~Current(h)
  BY <1>1
<1>9. Repositories'
  BY <1>1, <1>2, <1>4, <1>6, <1>7
<1>10. OwnRepository'
  BY <1>1, <1>3, <1>4, <1>5, <1>6
<1>11. NotBehindOwn'
  <2>1. ASSUME NEW x \in Known' PROVE x.gen >= own'.gen /\ (x.gen = own'.gen => x.id = own'.id)
    BY <1>1, <1>3, <1>5, <1>6
  <2>2. QED
    BY <1>6, <1>7, <2>1
<1>12. LocalNotAhead'
  BY <1>2, <1>4, <1>7, <1>8
<1>13. BuildsOnLocal'
  <2>1. ASSUME NEW h \in Host, Current(h) PROVE Builds(h, local[h].id)'
    <3>1. h # cur
      BY <1>1, <1>8, <2>1
    <3>2. base'[h] = base[h] /\ author'[local[h].id] = author[local[h].id]
      BY <1>1, <1>2, <1>5, <2>1, <3>1, LocalNumbers DEF TypeOK
    <3>3. QED
      BY <1>4, <2>1, <3>2
  <2>2. QED
    BY <1>2, <1>4, <1>7, <1>8, <2>1
<1>14. BuildsOnOwn'
  BY <1>1, <1>3, <1>4, <1>5, <1>6 DEF TypeOK
<1>15. CertainUnlessDoubt'
  BY <1>2, <1>4, <1>6, <1>7, <1>8
<1>16. QED
  BY <1>5, <1>9, <1>10, <1>11, <1>12, <1>13, <1>14, <1>15

LEMMA InitializeLocalLineage ==
    ASSUME Shape, Shape', Content, Lineage, InitializeLocal
    PROVE  Lineage'
<1>1. /\ cur \in Host /\ remote = own /\ Known = {own} /\ pc = "promoted" /\ own \in Known
      /\ UNCHANGED <<remote, own, pend, cur, wipes, author, doubt>> /\ Known' = Known
      /\ own.gen \in Nat /\ own.gen # 0 /\ pc' = "running" /\ remote # None
  BY OwnKnown, OnlyOwn, KnownNumbers DEF InitializeLocal, files, history, Known, Shape, Phases, Working
<1>2. /\ local'[cur].repo = own.repo /\ local'[cur].gen = own.gen /\ local'[cur].id = own.id
      /\ local'[cur].syncing = FALSE /\ local'[cur] # None
      /\ \A h \in Host \ {cur} : local'[h] = local[h]
  <2>1. own.id \in SyncId /\ 1 \in 1 .. MaxGen /\ own.gen = 1
    BY <1>1, KnownNumbers DEF Shape, Phases
  <2>2. QED
    BY <1>1, <2>1, WriteLocalTypes DEF InitializeLocal
<1>3. base' = base /\ base[cur] = own.id
  BY <1>1 DEF InitializeLocal, history
<1>4. Repositories'
  BY <1>1, <1>2
<1>5. LocalNotAhead'
  BY <1>1, <1>2
<1>6. BuildsOnLocal'
  BY <1>1, <1>2, <1>3
<1>7. BuildsOnOwn'
  BY <1>1, <1>3
<1>8. CertainUnlessDoubt'
  BY <1>1, <1>2 DEF needsSyncFromRemote
<1>9. QED
  BY <1>1, <1>4, <1>5, <1>6, <1>7, <1>8

LEMMA ImportFileLineage ==
    ASSUME Shape, Shape', Content, Lineage, NEW n \in Name, ImportFile(n)
    PROVE  Lineage'
BY DEF needsSyncFromRemote, Known, Shape, SessionHasState, Settled, Phases, TypeOK,
       ImportFile, files, history

LEMMA ImportLocalLineage ==
    ASSUME Shape, Shape', Content, Lineage, ImportLocal
    PROVE  Lineage'
<1>1. /\ cur \in Host /\ remote = own /\ Known = {own} /\ pc = "import" /\ own \in Known
      /\ UNCHANGED <<remote, own, pend, cur, wipes, author, doubt>> /\ Known' = Known
      /\ own.gen \in Nat /\ own.gen # 0 /\ pc' = "running" /\ remote # None
  BY OwnKnown, OnlyOwn, KnownNumbers DEF ImportLocal, files, history, Known, Shape, Phases, Working
<1>2. /\ local'[cur].repo = own.repo /\ local'[cur].gen = own.gen /\ local'[cur].id = own.id
      /\ local'[cur].syncing = own.syncing /\ local'[cur] # None
      /\ \A h \in Host \ {cur} : local'[h] = local[h]
  BY ImportLocalWrites
<1>3. base'[cur] = own.id /\ \A h \in Host \ {cur} : base'[h] = base[h]
  BY <1>1 DEF ImportLocal, Shape, TypeOK
<1>4. Repositories'
  BY <1>1, <1>2
<1>5. LocalNotAhead'
  BY <1>1, <1>2
<1>6. BuildsOnLocal'
  BY <1>1, <1>2, <1>3
<1>7. BuildsOnOwn'
  BY <1>1, <1>3
<1>8. CertainUnlessDoubt'
  BY <1>1, <1>2 DEF needsSyncFromRemote
<1>9. QED
  BY <1>1, <1>4, <1>5, <1>6, <1>7, <1>8

LEMMA StartBatchLineage ==
    ASSUME Shape, Shape', Content, Lineage, StartBatch
    PROVE  Lineage'
BY DEF needsSyncFromRemote, Known, Shape, SessionHasState, Settled, Phases, TypeOK,
       StartBatch, files, hosts, history

LEMMA AdvanceLineage ==
    ASSUME Shape, Shape', Content, Lineage, Advance
    PROVE  Lineage'
<1>1. /\ cur \in Host /\ own \in Known /\ remote \in Known /\ pc = "advance"
      /\ UNCHANGED <<remote, own, pend, cur, wipes, base, doubt>> /\ Known' = Known
      /\ own.gen \in Nat /\ own.gen # 0 /\ pc' = "publish" /\ TypeOK
      /\ remote # None
  BY OwnKnown, KnownNumbers DEF Advance, NewSyncId, files, Known, Shape, Phases, Working
<1>2. /\ nextId \in SyncId /\ author'[nextId] = cur
      /\ \A i \in SyncId : i # nextId => author'[i] = author[i]
  BY <1>1, NewSyncIdTypes DEF Advance
<1>3. /\ local'[cur].repo = own.repo /\ local'[cur].gen = own.gen + 1
      /\ local'[cur].id = nextId /\ local'[cur].syncing /\ local'[cur] # None
      /\ \A h \in Host \ {cur} : local'[h] = local[h]
  BY AdvanceWrites
<1>4. /\ \A x \in Known : author'[x.id] = author[x.id]
      /\ \A h \in Host : local[h] # None => author'[local[h].id] = author[local[h].id]
  BY <1>2, KnownNumbers, LocalNumbers
<1>5. Repositories'
  BY <1>1, <1>3
<1>6. LocalNotAhead'
  <2>1. ASSUME NEW x \in Known, own.repo = wipes
        PROVE  x.gen # 0 /\ own.gen + 1 <= x.gen + 1
    <3>1. x.gen \in Nat /\ x.gen >= own.gen
      BY <1>1, KnownNumbers, OwnKnown
    <3>2. QED
      BY <1>1, <3>1
  <2>2. QED
    BY <1>1, <1>3, <2>1
<1>7. Builds(cur, own.id)' \/ own.repo # wipes
  BY <1>1, <1>4
<1>8. BuildsOnLocal'
  <2>1. ASSUME Current(cur)', NEW x \in Known, own.gen + 1 = x.gen + 1
        PROVE  Builds(cur, x.id)'
    <3>1. x.gen = own.gen
      BY <1>1, <2>1, KnownNumbers
    <3>2. x.id = own.id /\ own.repo = wipes
      BY <1>1, <1>3, <2>1, <3>1, OwnKnown
    <3>3. QED
      BY <1>1, <1>7, <3>2
  <2>2. ASSUME NEW h \in Host \ {cur}, Current(h)
        PROVE  /\ Builds(h, local[h].id)'
               /\ \A x \in Known :
                     x.repo = wipes /\ local[h].syncing /\ local[h].gen = x.gen + 1 =>
                        Builds(h, x.id)'
    BY <1>1, <1>3, <1>4, <2>2
  <2>3. Builds(cur, local[cur].id)'
    BY <1>1, <1>2, <1>3
  <2>4. QED
    BY <1>1, <1>3, <2>1, <2>2, <2>3
<1>9. BuildsOnOwn'
  BY <1>1, <1>2, <1>3, <1>7
<1>10. CertainUnlessDoubt'
  <2>1. ~doubt => ~needsSyncFromRemote(local'[cur], remote)
    BY <1>1, <1>3, OwnKnown DEF needsSyncFromRemote
  <2>2. QED
    BY <1>1, <1>3, <1>4, <2>1
<1>11. QED
  BY <1>1, <1>5, <1>6, <1>8, <1>9, <1>10

LEMMA PublishLineage ==
    ASSUME Shape, Shape', Content, Lineage, Publish
    PROVE  Lineage'
<1> DEFINE ng == NextGeneration
<1>1. /\ cur \in Host /\ cur # None /\ own \in Known /\ remote \in Known /\ pc = "publish"
      /\ UNCHANGED <<local, cur, wipes, nextId, author>>
      /\ own.gen \in Nat /\ own.gen # 0 /\ local[cur] # None /\ TypeOK
  BY OwnKnown, KnownNumbers DEF Publish, hosts, Shape, Phases, Working
<1>2. /\ ng \in RemoteState /\ ng.repo = own.repo /\ ng.gen = own.gen + 1
      /\ ng.gen = local[cur].gen /\ ng.id = local[cur].id
  BY <1>1, NextGenerationTypes
<1>3. /\ author[ng.id] = cur
      /\ own.repo = wipes => Builds(cur, own.id)
  BY <1>1, <1>2
\* The candidate is as good as the states before it.
<1>4. ASSUME NEW h \in Host, Current(h), own.repo = wipes
      PROVE  local[h].gen <= ng.gen + 1 /\ local[h].gen # ng.gen + 1
  <2>1. local[h].gen \in Nat /\ local[h].gen <= own.gen + 1
    BY <1>1, <1>4, LocalNumbers
  <2>2. QED
    BY <1>1, <1>2, <2>1
<1>5. CASE /\ ReplaceOk(ng) /\ pc' = "upload" /\ base' = [base EXCEPT ![cur] = ng.id]
  <2> HIDE DEF ng
  <2>1. remote' = ng /\ own' = ng /\ Known' = {ng} /\ doubt' = doubt /\ remote' # None
    BY <1>2, <1>5, ReplaceOkKnown
  <2>2. base'[cur] = ng.id /\ \A h \in Host \ {cur} : base'[h] = base[h]
    BY <1>1, <1>5 DEF TypeOK
  <2>3. Repositories' /\ NotBehindOwn'
    BY <1>1, <1>2, <2>1
  <2>4. LocalNotAhead'
    BY <1>1, <1>2, <1>4, <2>1
  <2>5. BuildsOnLocal'
    <3>1. ASSUME NEW h \in Host, Current(h) PROVE Builds(h, local[h].id)'
      BY <1>1, <1>2, <2>2, <3>1
    <3>2. QED
      BY <1>1, <1>2, <1>4, <2>1, <3>1
  <2>6. BuildsOnOwn'
    BY <1>1, <1>5, <2>1, <2>2
  <2>7. CertainUnlessDoubt'
    <3>1. ~needsSyncFromRemote(local[cur], ng)
      BY <1>1, <1>2, LocalNumbers DEF needsSyncFromRemote
    <3>2. QED
      BY <1>1, <1>3, <2>1, <3>1
  <2>8. QED
    BY <1>5, <2>3, <2>4, <2>5, <2>6, <2>7
<1>6. CASE ReplaceErr(ng) /\ BatchOver /\ base' = base
  <2> HIDE DEF ng
  <2>1. /\ own' = own /\ remote' \in {remote, ng} /\ Known' \subseteq Known \cup {ng}
        /\ ~doubt' => ~doubt /\ remote' = remote
    BY <1>1, <1>2, <1>6, ReplaceErrKnown
  <2>2. pc' \in {"running", "closing"} /\ remote' # None
    BY <1>1, <1>2, <1>6, <2>1 DEF BatchOver, Known
  <2>3. Repositories' /\ NotBehindOwn'
    BY <1>1, <1>2, <2>1, <2>2
  <2>4. LocalNotAhead'
    BY <1>1, <1>2, <1>4, <2>1
  <2>5. BuildsOnLocal'
    BY <1>1, <1>2, <1>4, <1>6, <2>1
  <2>6. BuildsOnOwn'
    BY <1>1, <1>3, <1>6, <2>1, <2>2
  <2>7. CertainUnlessDoubt'
    BY <1>1, <2>1
  <2>8. QED
    BY <2>2, <2>3, <2>4, <2>5, <2>6, <2>7
<1>7. CASE ReplaceLost /\ pc' = "closing" /\ base' = base
  <2>1. Known' \subseteq Known /\ UNCHANGED <<remote, own, doubt>>
    BY <1>7 DEF ReplaceLost, Known
  <2>2. QED
    BY <1>1, <1>7, <2>1
<1>8. QED
  BY <1>5, <1>6, <1>7 DEF Publish

LEMMA UploadFileLineage ==
    ASSUME Shape, Shape', Content, Lineage, NEW n \in Name, UploadFile(n)
    PROVE  Lineage'
BY DEF needsSyncFromRemote, Known, Shape, SessionHasState, Settled, Phases, TypeOK,
       UploadFile, hosts, history

LEMMA BatchFailsLineage ==
    ASSUME Shape, Shape', Content, Lineage, BatchFails
    PROVE  Lineage'
BY DEF needsSyncFromRemote, Known, Shape, SessionHasState, Settled, Phases, TypeOK,
       BatchFails, BatchOver, files, hosts, history

LEMMA AfterRemoteChangeLineage ==
    ASSUME Shape, Shape', Content, Lineage, AfterRemoteChange
    PROVE  Lineage'
<1>1. /\ cur \in Host /\ cur # None /\ own \in Known /\ remote = own /\ Known = {own}
      /\ pc = "upload" /\ UNCHANGED <<local, cur, wipes, nextId, author, base>>
      /\ own \in RemoteState /\ own.gen \in Nat
  BY OwnKnown, OnlyOwn, KnownNumbers, SessionTypes DEF AfterRemoteChange, hosts, history
<1>2. /\ Completion \in RemoteState /\ Completion.repo = own.repo
      /\ Completion.gen = own.gen /\ Completion.id = own.id
  BY <1>1, CompletionTypes
<1>3. /\ Known' \subseteq {own, Completion} /\ own' \in Known' /\ remote' \in Known'
      /\ ~doubt' => ~doubt /\ remote' = own'
      /\ pc' \in {"completed", "running", "closing"}
  <2>1. own' \in Known' /\ remote' \in Known'
    BY <1>1 DEF Shape, SessionHasState, Known
  <2>2. CASE ReplaceOk(Completion) /\ pc' = "completed"
    BY <1>2, <2>1, <2>2, ReplaceOkKnown
  <2>3. CASE ReplaceErr(Completion) /\ BatchOver
    BY <1>1, <1>2, <2>1, <2>3, ReplaceErrKnown DEF BatchOver
  <2>4. QED
    BY <2>2, <2>3 DEF AfterRemoteChange, Completion
<1>4. /\ \A x \in Known' : x.repo = own.repo /\ x.gen = own.gen /\ x.id = own.id
      /\ remote' # None /\ own.gen >= own.gen
  BY <1>1, <1>2, <1>3 DEF Known
<1>5. (Repositories /\ NotBehindOwn /\ LocalNotAhead)'
  BY <1>1, <1>3, <1>4
<1>6. (BuildsOnLocal /\ BuildsOnOwn)'
  BY <1>1, <1>3, <1>4
<1>7. CertainUnlessDoubt'
  BY <1>1, <1>3, <1>4 DEF needsSyncFromRemote
<1>8. QED
  BY <1>1, <1>3, <1>5, <1>6, <1>7

LEMMA CompleteLocalLineage ==
    ASSUME Shape, Shape', Content, Lineage, CompleteLocal
    PROVE  Lineage'
<1>1. /\ cur \in Host /\ remote = own /\ Known = {own} /\ pc = "completed" /\ own \in Known
      /\ UNCHANGED <<remote, own, pend, cur, wipes, author, doubt>> /\ Known' = Known
      /\ own.gen \in Nat /\ own.gen # 0 /\ pc' = "running" /\ remote # None
  BY OwnKnown, OnlyOwn, KnownNumbers DEF CompleteLocal, files, history, Known, Shape, Phases, Working
<1>2. /\ local'[cur].repo = own.repo /\ local'[cur].gen = own.gen /\ local'[cur].id = own.id
      /\ local'[cur].syncing = FALSE /\ local'[cur] # None
      /\ \A h \in Host \ {cur} : local'[h] = local[h]
  <2>1. own.id \in SyncId /\ own.gen \in 1 .. MaxGen
    BY <1>1, SessionTypes
  <2>2. QED
    BY <1>1, <2>1, WriteLocalTypes DEF CompleteLocal
<1>3. base' = base /\ base[cur] = own.id
  BY <1>1 DEF CompleteLocal, history
<1>4. Repositories'
  BY <1>1, <1>2
<1>5. LocalNotAhead'
  BY <1>1, <1>2
<1>6. BuildsOnLocal'
  BY <1>1, <1>2, <1>3
<1>7. BuildsOnOwn'
  BY <1>1, <1>3
<1>8. CertainUnlessDoubt'
  BY <1>1, <1>2 DEF needsSyncFromRemote
<1>9. QED
  BY <1>1, <1>4, <1>5, <1>6, <1>7, <1>8

LEMMA RefreshLineage ==
    ASSUME Shape, Shape', Content, Lineage, Refresh
    PROVE  Lineage'
BY DEF needsSyncFromRemote, Known, Shape, SessionHasState, Settled, Phases, TypeOK,
       Refresh, ReplaceOk, StillOwned, ReplaceErr, hosts, history

LEMMA EditLineage ==
    ASSUME Shape, Shape', Content, Lineage, NEW n \in Name, Edit(n)
    PROVE  Lineage'
BY DEF needsSyncFromRemote, Known, Shape, SessionHasState, Settled, Phases, TypeOK,
       Edit, files, history

LEMMA FinishSessionLineage ==
    ASSUME Shape, Shape', Content, Lineage, FinishSession
    PROVE  Lineage'
BY DEF needsSyncFromRemote, Known, Shape, SessionHasState, Settled, Phases, TypeOK,
       FinishSession, files, history

LEMMA GiveUpLineage ==
    ASSUME Shape, Shape', Content, Lineage, GiveUp
    PROVE  Lineage'
BY DEF needsSyncFromRemote, Known, Shape, SessionHasState, Settled, Phases, TypeOK,
       GiveUp, files, hosts, history

LEMMA CloseLineage ==
    ASSUME Shape, Shape', Content, Lineage, Close
    PROVE  Lineage'
BY DEF needsSyncFromRemote, Known, Shape, SessionHasState, Settled, Phases, TypeOK,
       Close, Exit, StillOwned, hosts, history

LEMMA CrashLineage ==
    ASSUME Shape, Shape', Content, Lineage, Crash
    PROVE  Lineage'
BY DEF needsSyncFromRemote, Known, Shape, SessionHasState, Settled, Phases, TypeOK,
       Crash, Exit, files, hosts, history

LEMMA StutterLineage ==
    ASSUME Lineage, UNCHANGED vars
    PROVE  Lineage'
BY DEF needsSyncFromRemote, Known, vars, files, hosts, process, history

HIDE DEF Lineage, Repositories, OwnRepository, NotBehindOwn, LocalNotAhead, Current,
         BuildsOnLocal, Builds, BuildsOnOwn, CertainUnlessDoubt, KnownEditsSurvive,
         OwnEditsSurvive, Startup, Syncing, Recorded

LEMMA NextLineage ==
    ASSUME Shape, Content, Lineage, [Next]_vars
    PROVE  Lineage'
<1>0. Shape'
  BY NextShape
<1>1. CASE Wipe
  BY <1>0, <1>1, WipeLineage
<1>2. ASSUME NEW h \in Host, Start(h) PROVE Lineage'
  BY <1>0, <1>2, StartLineage
<1>3. CASE InitializeGeneration
  BY <1>0, <1>3, InitializeGenerationLineage
<1>4. ASSUME NEW n \in Name, ClearFile(n) PROVE Lineage'
  BY <1>0, <1>4, ClearFileLineage
<1>5. CASE Seed
  BY <1>0, <1>5, SeedLineage
<1>6. CASE InitializeRemote
  BY <1>0, <1>6, InitializeRemoteLineage
<1>7. CASE InitializeLocal
  BY <1>0, <1>7, InitializeLocalLineage
<1>8. ASSUME NEW n \in Name, ImportFile(n) PROVE Lineage'
  BY <1>0, <1>8, ImportFileLineage
<1>9. CASE ImportLocal
  BY <1>0, <1>9, ImportLocalLineage
<1>10. CASE StartBatch
  BY <1>0, <1>10, StartBatchLineage
<1>11. CASE Advance
  BY <1>0, <1>11, AdvanceLineage
<1>12. CASE Publish
  BY <1>0, <1>12, PublishLineage
<1>13. ASSUME NEW n \in Name, UploadFile(n) PROVE Lineage'
  BY <1>0, <1>13, UploadFileLineage
<1>14. CASE BatchFails
  BY <1>0, <1>14, BatchFailsLineage
<1>15. CASE AfterRemoteChange
  BY <1>0, <1>15, AfterRemoteChangeLineage
<1>16. CASE CompleteLocal
  BY <1>0, <1>16, CompleteLocalLineage
<1>17. CASE Refresh
  BY <1>0, <1>17, RefreshLineage
<1>18. ASSUME NEW n \in Name, Edit(n) PROVE Lineage'
  BY <1>0, <1>18, EditLineage
<1>19. CASE FinishSession
  BY <1>0, <1>19, FinishSessionLineage
<1>20. CASE GiveUp
  BY <1>0, <1>20, GiveUpLineage
<1>21. CASE Close
  BY <1>0, <1>21, CloseLineage
<1>22. CASE Crash
  BY <1>0, <1>22, CrashLineage
<1>23. CASE UNCHANGED vars
  BY <1>23, StutterLineage
<1>24. QED
  BY <1>1, <1>2, <1>3, <1>4, <1>5, <1>6, <1>7, <1>8, <1>9, <1>10, <1>11, <1>12,
     <1>13, <1>14, <1>15, <1>16, <1>17, <1>18, <1>19, <1>20, <1>21, <1>22, <1>23 DEF Next

LEMMA LineageInvariant == Spec => []Lineage
<1>1. Shape /\ Content /\ Lineage /\ [Next]_vars => Lineage'
  BY NextLineage
<1>2. QED
  BY InitLineage, ShapeInvariant, ContentInvariant, <1>1, PTL DEF Spec

\* A session that is about to publish a generation of the current repository has
\* imported, published or created the generation that it replaces: no host
\* overwrites what another one has published unseen.
THEOREM NoOverwrite == Spec => []NoStaleOverwrite
<1>1. Lineage => NoStaleOverwrite
  BY DEF Lineage, BuildsOnOwn, Builds, NoStaleOverwrite, Recorded, Syncing
<1>2. QED
  BY LineageInvariant, <1>1, PTL

\* A host whose state file belongs to the current repository never discards its
\* files in favour of a generation of its own, unless a write of the state file
\* that returned an error has taken effect.
THEOREM EditsSurvive == Spec => []KnownEditsSurvive
<1>1. Lineage => KnownEditsSurvive
  BY DEF Lineage
<1>2. QED
  BY LineageInvariant, <1>1, PTL

=============================================================================

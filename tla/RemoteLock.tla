------------------------------ MODULE RemoteLock ------------------------------
(***************************************************************************)
(* The lease on the remote state file (src/src/syncstate.go): Acquire, the *)
(* refresh loop and its watchdog, replaceOwnedRemote with its pending      *)
(* candidate, Close, and the persistent lock.                              *)
(*                                                                         *)
(* A session is one run of the program.  Several sessions share one remote *)
(* object.  Reading it is one step; a write is issued in one step and      *)
(* takes effect in a later one, or never, or after its issuer has given up *)
(* on it (a stray write).                                                  *)
(*                                                                         *)
(* Simplifications:                                                        *)
(*  - the part of the file that is not the lock (repository, generation,   *)
(*    sync ID, syncing flag) is one value, data, only compared;            *)
(*  - an ETag is the contents it was read with;                            *)
(*  - a deadline is kept as the time left until it, in ticks, and all      *)
(*    timers run at the same rate (no process reads another one's clock);  *)
(*  - the stamp of a lock is a serial number: only its identity is used;   *)
(*  - the polling and refresh timers may fire at any moment before the     *)
(*    deadline that bounds them.                                           *)
(***************************************************************************)
EXTENDS Integers, FiniteSets

CONSTANTS
    Session,      \* the runs of the program; each one starts at most once
    Owner,        \* Owner[s]: the lock owner token of s, or its persistent ID
    Foreign,      \* the owner of a lock left by an older version
    Persistent,   \* the sessions started with --persistent-lock
    TTL,          \* TTL[s]: the lock TTL that s is configured with
    WaitMode,     \* WaitMode[s]: --lock-wait of s
    Window,       \* refreshSafetyWindow
    Latency,      \* how late a watchdog timer may fire
    Conditional,  \* consistentWrites: writes carry If-Match / If-None-Match
    Data,         \* values of the rest of the file; 0 is that of a new file
    MaxStamp,     \* bound: locks created in a behaviour
    MaxStray,     \* bound: stray writes in flight at a time
    NoFile,       \* the remote object does not exist, or a nil pointer to one
    NoLock        \* the lock field is nil

Modes == {"default", "zero", "finite", "inf"}

ASSUME SessionsAssumption ==
    /\ Persistent \subseteq Session
    /\ Foreign \notin {Owner[s] : s \in Session}
    \* owner tokens are random, only persistent IDs can be shared
    /\ \A s, t \in Session :
          Owner[s] = Owner[t] => s = t \/ {s, t} \subseteq Persistent
    /\ WaitMode \in [Session -> Modes]

ASSUME TimesAssumption ==
    /\ Window \in Nat
    /\ Latency \in Nat
    /\ Latency < Window
    /\ TTL \in [Session -> Nat]
    /\ \A s \in Session : TTL[s] >= Window

ASSUME ValuesAssumption ==
    /\ Conditional \in BOOLEAN
    /\ 0 \in Data
    /\ MaxStamp \in Nat
    /\ MaxStray \in Nat

Stamp == 0 .. MaxStamp

\* syncFileLock.  Stamp 0 and TTL 0 are those of a lock of an older version.
Lock == [owner : {Owner[s] : s \in Session} \cup {Foreign},
         stamp : Stamp,
         ttl   : Nat]

\* syncFileData as published remotely (never with the active marker).
File == [data : Data, lock : Lock \cup {NoLock}]

ASSUME SentinelsAssumption ==
    /\ NoFile \notin File
    /\ NoLock \notin Lock

VARIABLES
    remote,        \* the remote object
    stray,         \* writes whose issuer no longer waits for them
    pc,            \* where each session is
    seen,          \* the file an operation of the session read last
    observed,      \* Acquire: the lock whose expiry is awaited
    observedLeft,  \*   and the time left until it counts as expired
    cand,          \* the candidate being written and verified
    candLeft,      \*   and the time left of its lock once verified
    writeErr,      \* Acquire: the write returned an error
    owned,         \* syncState.remote: the file as last verified
    expiry,        \*   and the time left until syncState.lockExpiry
    pending,       \* syncState.pending: a candidate written, not verified
    pendingLeft,   \*   and the time left until syncState.pendingExpiry
    cancelled,     \* the runner of the session has been cancelled
    lost,          \* the session has reported errLockOwnershipLost
    nextStamp,     \* the next unused stamp
    issuer,        \* history: issuer[k] is the session that created lock k
    left           \* history: left[k] is the true time left of lock k

fileVars    == <<remote, stray>>
waitVars    == <<observed, observedLeft>>
candVars    == <<seen, cand, candLeft, writeErr>>
ownVars     == <<owned, expiry, pending, pendingLeft>>
controlVars == <<pc, cancelled, lost>>
stampVars   == <<nextStamp, issuer, left>>
vars == <<fileVars, waitVars, candVars, ownVars, controlVars, stampVars>>

-----------------------------------------------------------------------------
(* Helpers *)

LockOf(f) == IF f = NoFile THEN NoLock ELSE f.lock

DataOf(f) == IF f = NoFile THEN 0 ELSE f.data

ownedBy(f, s) == LockOf(f) # NoLock /\ LockOf(f).owner = Owner[s]

\* Mutant: every lock is given the TTL of the observer.
lockTTLOfObserver(l, s) == TTL[s]

\* Mutant: the safety window of the owner is not waited for, and an absent TTL
\* is not replaced.
lockTTLShortened(l, s) == l.ttl - Window

\* A TTL that is absent from the file falls back to that of the observer.
lockTTL(l, s) == IF l.ttl <= 0 THEN TTL[s] ELSE l.ttl

newLock(s) == [owner |-> Owner[s], stamp |-> nextStamp, ttl |-> TTL[s]]

\* The stamp of newLock(s) has been used by s.
Stamped(s) ==
    /\ nextStamp <= MaxStamp
    /\ nextStamp' = nextStamp + 1
    /\ issuer' = [issuer EXCEPT ![nextStamp] = s]
    /\ left' = [left EXCEPT ![nextStamp] = TTL[s]]

canWait(s) == WaitMode[s] # "zero"

defaultWait(s) == WaitMode[s] = "default"

Acquiring == {"acqWrite", "acqVerify"}
Holding   == {"held", "updWrite", "updVerify"}
Writing   == {"acqWrite", "adoptWrite", "updWrite", "relWrite"}
Verifying == {"acqVerify", "adoptVerify", "updVerify", "relVerify"}
PCs == {"off", "waiting", "held", "done"} \cup Writing \cup Verifying

\* The session s is over and its memory is gone; the remote file stays.
Exit(s) ==
    /\ pc' = [pc EXCEPT ![s] = "done"]
    /\ seen' = [seen EXCEPT ![s] = NoFile]
    /\ observed' = [observed EXCEPT ![s] = NoLock]
    /\ observedLeft' = [observedLeft EXCEPT ![s] = 0]
    /\ cand' = [cand EXCEPT ![s] = NoFile]
    /\ candLeft' = [candLeft EXCEPT ![s] = 0]
    /\ writeErr' = [writeErr EXCEPT ![s] = FALSE]
    /\ owned' = [owned EXCEPT ![s] = NoFile]
    /\ expiry' = [expiry EXCEPT ![s] = 0]
    /\ pending' = [pending EXCEPT ![s] = NoFile]
    /\ pendingLeft' = [pendingLeft EXCEPT ![s] = 0]
    /\ cancelled' = [cancelled EXCEPT ![s] = FALSE]

\* An operation has returned: its local variables are gone.
OperationOver(s) ==
    /\ seen' = [seen EXCEPT ![s] = NoFile]
    /\ cand' = [cand EXCEPT ![s] = NoFile]
    /\ candLeft' = [candLeft EXCEPT ![s] = 0]
    /\ writeErr' = [writeErr EXCEPT ![s] = FALSE]

\* The types; what is left of a lease or of a wait is never negative, whatever
\* TTL a file has (lockTTL).
TypeOK ==
    /\ remote \in File \cup {NoFile}
    /\ stray \subseteq [cond : File \cup {NoFile}, val : File]
    /\ pc \in [Session -> PCs]
    /\ seen \in [Session -> File \cup {NoFile}]
    /\ observed \in [Session -> Lock \cup {NoLock}]
    /\ observedLeft \in [Session -> Nat]
    /\ cand \in [Session -> File \cup {NoFile}]
    /\ candLeft \in [Session -> Nat]
    /\ writeErr \in [Session -> BOOLEAN]
    /\ owned \in [Session -> File \cup {NoFile}]
    /\ expiry \in [Session -> Nat]
    /\ pending \in [Session -> File \cup {NoFile}]
    /\ pendingLeft \in [Session -> Nat]
    /\ cancelled \in [Session -> BOOLEAN]
    /\ lost \in [Session -> BOOLEAN]
    /\ nextStamp \in 1 .. (MaxStamp + 1)
    /\ issuer \in [Stamp -> Session \cup {Foreign}]
    /\ left \in [Stamp -> Nat]

\* No session has started.  The remote file is absent, unlocked, or locked by
\* a process of an older version that wrote no TTL and is gone.
Init ==
    /\ remote \in {NoFile, [data |-> 0, lock |-> NoLock],
                   [data |-> 0,
                    lock |-> [owner |-> Foreign, stamp |-> 0, ttl |-> 0]]}
    /\ stray = {}
    /\ pc = [s \in Session |-> "off"]
    /\ seen = [s \in Session |-> NoFile]
    /\ observed = [s \in Session |-> NoLock]
    /\ observedLeft = [s \in Session |-> 0]
    /\ cand = [s \in Session |-> NoFile]
    /\ candLeft = [s \in Session |-> 0]
    /\ writeErr = [s \in Session |-> FALSE]
    /\ owned = [s \in Session |-> NoFile]
    /\ expiry = [s \in Session |-> 0]
    /\ pending = [s \in Session |-> NoFile]
    /\ pendingLeft = [s \in Session |-> 0]
    /\ cancelled = [s \in Session |-> FALSE]
    /\ lost = [s \in Session |-> FALSE]
    /\ nextStamp = 1
    /\ issuer = [k \in Stamp |-> Foreign]
    /\ left = [k \in Stamp |-> 0]

-----------------------------------------------------------------------------
(* Acquire *)

\* The default wait follows one lock only: a different one is an error.
Refreshed(s, l) ==
    defaultWait(s) /\ observed[s] # NoLock /\ l # observed[s]

\* The head of Acquire's loop for the file f just read: note the time when a
\* lock is first observed, keep it while the lock is the same.
Follow(s, f) ==
    LET l == LockOf(f) IN
    \/ /\ l = NoLock \/ (l = observed[s] /\ canWait(s))
       /\ pc' = [pc EXCEPT ![s] = "waiting"]
       /\ seen' = [seen EXCEPT ![s] = f]
       /\ cand' = [cand EXCEPT ![s] = NoFile]
       /\ candLeft' = [candLeft EXCEPT ![s] = 0]
       /\ writeErr' = [writeErr EXCEPT ![s] = FALSE]
       /\ UNCHANGED <<observed, observedLeft, ownVars, cancelled>>
    \/ /\ l # NoLock /\ l # observed[s] /\ canWait(s) /\ ~Refreshed(s, l)
       /\ pc' = [pc EXCEPT ![s] = "waiting"]
       /\ seen' = [seen EXCEPT ![s] = f]
       /\ observed' = [observed EXCEPT ![s] = l]
       /\ observedLeft' = [observedLeft EXCEPT ![s] = lockTTL(l, s)]
       /\ cand' = [cand EXCEPT ![s] = NoFile]
       /\ candLeft' = [candLeft EXCEPT ![s] = 0]
       /\ writeErr' = [writeErr EXCEPT ![s] = FALSE]
       /\ UNCHANGED <<ownVars, cancelled>>
    \/ /\ l # NoLock /\ (~canWait(s) \/ Refreshed(s, l))
       /\ Exit(s)

\* The first read of a session.  Sessions under one persistent ID follow each
\* other: a later invocation starts after the earlier one has ended.
AcquireStart(s) ==
    /\ pc[s] = "off"
    /\ \A t \in Session \ {s} : Owner[t] = Owner[s] => pc[t] \in {"off", "done"}
    /\ ~(s \in Persistent /\ ownedBy(remote, s))
    /\ Follow(s, remote)
    /\ UNCHANGED <<fileVars, lost, stampVars>>

\* A persistent session finds its own ID in the file and refreshes the lock
\* at once, through replaceOwnedRemote with the file it read as previous.  (If
\* the second read finds another file the session ends without a write.)
AdoptStart(s) ==
    /\ pc[s] = "off"
    /\ \A t \in Session \ {s} : Owner[t] = Owner[s] => pc[t] \in {"off", "done"}
    /\ s \in Persistent
    /\ ownedBy(remote, s)
    /\ Stamped(s)
    /\ pc' = [pc EXCEPT ![s] = "adoptWrite"]
    /\ seen' = [seen EXCEPT ![s] = remote]
    /\ cand' = [cand EXCEPT ![s] = [remote EXCEPT !.lock = newLock(s)]]
    /\ candLeft' = [candLeft EXCEPT ![s] = TTL[s]]
    /\ pending' = [pending EXCEPT ![s] = [remote EXCEPT !.lock = newLock(s)]]
    /\ pendingLeft' = [pendingLeft EXCEPT ![s] = TTL[s]]
    /\ UNCHANGED <<fileVars, waitVars, writeErr, owned, expiry, cancelled, lost>>

\* The lock is still there when the poll timer fires: read the file again.
Poll(s) ==
    /\ pc[s] = "waiting"
    /\ LockOf(seen[s]) # NoLock
    /\ Follow(s, remote)
    /\ UNCHANGED <<fileVars, lost, stampVars>>

\* A read error, a failed validateAcquisition, the deadline of a finite wait or
\* of the verification, or a signal ends the acquisition; a lock that was
\* already written is left behind.
GiveUp(s) ==
    /\ pc[s] \in {"waiting", "acqVerify"}
    /\ Exit(s)
    /\ UNCHANGED <<fileVars, lost, stampVars>>

\* Mutant: the lock of an older version is waited for for ever.
ExpiredIfKnown(s) ==
    /\ LockOf(seen[s]) = observed[s] /\ observedLeft[s] = 0
    /\ observed[s] # NoLock => observed[s].owner # Foreign

Expired(s) == LockOf(seen[s]) = observed[s] /\ observedLeft[s] = 0

\* The lock read last is absent or has expired: write a lock of one's own.
\* The lease runs from the moment before the write is issued.
AcquireWrite(s) ==
    /\ pc[s] = "waiting"
    /\ LockOf(seen[s]) = NoLock \/ Expired(s)
    /\ Stamped(s)
    /\ pc' = [pc EXCEPT ![s] = "acqWrite"]
    /\ cand' = [cand EXCEPT ![s] = [data |-> DataOf(seen[s]), lock |-> newLock(s)]]
    /\ candLeft' = [candLeft EXCEPT ![s] = TTL[s]]
    /\ UNCHANGED <<fileVars, waitVars, seen, writeErr, ownVars, cancelled, lost>>

\* The verifying read returns the candidate: the lock is held.
AcquireOk(s) ==
    /\ pc[s] = "acqVerify"
    /\ remote = cand[s]
    /\ pc' = [pc EXCEPT ![s] = "held"]
    /\ owned' = [owned EXCEPT ![s] = remote]
    /\ expiry' = [expiry EXCEPT ![s] = candLeft[s]]
    /\ OperationOver(s)
    /\ UNCHANGED <<fileVars, waitVars, pending, pendingLeft, cancelled, lost, stampVars>>

\* Another writer won the race and this session may wait for its lock.
MayRetry(s) ==
    /\ canWait(s)
    /\ IF writeErr[s]
         THEN Conditional /\ LockOf(remote) # LockOf(seen[s])
         ELSE /\ LockOf(remote) # NoLock
              /\ ~ownedBy(remote, s) \/ DataOf(remote) # DataOf(cand[s])
    /\ ~Refreshed(s, LockOf(remote))

\* The verifying read returns something else.
AcquireLostRace(s) ==
    /\ pc[s] = "acqVerify"
    /\ remote # cand[s]
    /\ \/ MayRetry(s) /\ Follow(s, remote)
       \/ ~MayRetry(s) /\ Exit(s)
    /\ UNCHANGED <<fileVars, lost, stampVars>>

-----------------------------------------------------------------------------
(* Remote writes *)

\* writeRemote of s returns with or without an error.  Acquire verifies in
\* both cases; replaceOwnedRemote returns at once on an error.
WriteReturns(s, err) ==
    \/ /\ pc[s] = "acqWrite"
       /\ pc' = [pc EXCEPT ![s] = "acqVerify"]
       /\ writeErr' = [writeErr EXCEPT ![s] = err]
       /\ UNCHANGED <<waitVars, seen, cand, candLeft, ownVars, cancelled>>
    \/ /\ pc[s] = "updWrite" /\ ~err
       /\ pc' = [pc EXCEPT ![s] = "updVerify"]
       /\ UNCHANGED <<waitVars, candVars, ownVars, cancelled>>
    \/ /\ pc[s] = "updWrite" /\ err
       /\ pc' = [pc EXCEPT ![s] = "held"]
       /\ OperationOver(s)
       /\ UNCHANGED <<waitVars, ownVars, cancelled>>
    \/ /\ pc[s] = "adoptWrite" /\ ~err
       /\ pc' = [pc EXCEPT ![s] = "adoptVerify"]
       /\ UNCHANGED <<waitVars, candVars, ownVars, cancelled>>
    \/ /\ pc[s] = "relWrite" /\ ~err
       /\ pc' = [pc EXCEPT ![s] = "relVerify"]
       /\ UNCHANGED <<waitVars, candVars, ownVars, cancelled>>
    \/ /\ pc[s] \in {"adoptWrite", "relWrite"} /\ err
       /\ Exit(s)

\* Mutant: the ETag is not sent.
PreconditionIgnored(cond) == TRUE

\* A write that carries the ETag of cond takes effect only on that contents.
Precondition(cond) == Conditional => remote = cond

\* The write takes effect.  Its answer may be lost; the answer to a command
\* of a cancelled runner always is, but the release has a runner of its own.
WriteLands(s) ==
    /\ pc[s] \in Writing
    /\ Precondition(seen[s])
    /\ remote' = cand[s]
    /\ \E err \in BOOLEAN :
          /\ cancelled[s] /\ pc[s] # "relWrite" => err
          /\ WriteReturns(s, err)
    /\ UNCHANGED <<stray, lost, stampVars>>

\* The write fails: it is refused, or it is still on its way to the store.
WriteFails(s) ==
    /\ pc[s] \in Writing
    /\ WriteReturns(s, TRUE)
    /\ \/ stray' = stray
       \/ /\ Cardinality(stray) < MaxStray
          /\ stray' = stray \cup {[cond |-> seen[s], val |-> cand[s]]}
    /\ UNCHANGED <<remote, lost, stampVars>>

\* A stray write reaches the store.
StrayLands ==
    /\ \E w \in stray :
          /\ stray' = stray \ {w}
          /\ remote' = IF Precondition(w.cond) THEN w.val ELSE remote
    /\ UNCHANGED <<waitVars, candVars, ownVars, controlVars, stampVars>>

-----------------------------------------------------------------------------
(* replaceOwnedRemote, under updateMu: one at a time in a session *)

\* errLockOwnershipLost: the runner is cancelled and only Close remains.
OwnershipLost(s) ==
    /\ pc' = [pc EXCEPT ![s] = "held"]
    /\ pending' = [pending EXCEPT ![s] = NoFile]
    /\ pendingLeft' = [pendingLeft EXCEPT ![s] = 0]
    /\ cancelled' = [cancelled EXCEPT ![s] = TRUE]
    /\ lost' = [lost EXCEPT ![s] = TRUE]
    /\ OperationOver(s)
    /\ UNCHANGED <<fileVars, waitVars, owned, expiry>>

IsPending(s) == pending[s] # NoFile /\ remote = pending[s]

\* The file read first is the one verified last, or an unverified candidate.
StillOwned(s) == ownedBy(remote, s) /\ (remote = owned[s] \/ IsPending(s))

\* Mutant: the lock last verified replaces that of the pending file.
KeptLockVerified(s, lock) == lock

\* A candidate that keeps the lock keeps that of the pending file in its place.
KeptLock(s, lock) ==
    IF IsPending(s) /\ lock = owned[s].lock THEN remote.lock ELSE lock

\* The expiry that goes with the lock of the candidate: a new lock runs from
\* now, a kept one has the expiry it was written with.
CandidateLeft(s, lock) ==
    IF lock = NoLock THEN 0
    ELSE IF lock # remote.lock THEN lock.ttl
    ELSE IF IsPending(s) THEN pendingLeft[s]
    ELSE expiry[s]

\* The first half: read the file, check it, remember the candidate as pending
\* and issue the write.
BeginReplace(s, data, lock, next) ==
    /\ StillOwned(s)
    /\ LET kept == KeptLock(s, lock)
           file == [data |-> data, lock |-> kept]
           time == CandidateLeft(s, kept)
       IN  /\ cand' = [cand EXCEPT ![s] = file]
           /\ candLeft' = [candLeft EXCEPT ![s] = time]
           /\ pending' = [pending EXCEPT ![s] = file]
           /\ pendingLeft' = [pendingLeft EXCEPT ![s] = time]
    /\ seen' = [seen EXCEPT ![s] = remote]
    /\ pc' = [pc EXCEPT ![s] = next]
    /\ UNCHANGED <<fileVars, waitVars, writeErr, owned, expiry, cancelled, lost>>

\* refreshLoop: a new lock around the same data, while the deadline is ahead.
Refresh(s) ==
    /\ pc[s] = "held"
    /\ ~cancelled[s]
    /\ expiry[s] > Window
    /\ \/ BeginReplace(s, owned[s].data, newLock(s), "updWrite") /\ Stamped(s)
       \/ ~StillOwned(s) /\ OwnershipLost(s) /\ UNCHANGED stampVars

\* InitializeRemote, BeforeRemoteChange, AfterRemoteChange: new data under
\* the same lock.
Update(s) ==
    /\ pc[s] = "held"
    /\ ~cancelled[s]
    /\ \/ \E d \in Data \ {owned[s].data} :
             BeginReplace(s, d, owned[s].lock, "updWrite")
       \/ ~StillOwned(s) /\ OwnershipLost(s)
    /\ UNCHANGED stampVars

\* Close without a persistent lock: clear the lock if it is still one's own.
Release(s) ==
    /\ pc[s] = "held"
    /\ s \notin Persistent
    /\ \/ BeginReplace(s, owned[s].data, NoLock, "relWrite")
       \/ ~StillOwned(s) /\ Exit(s) /\ UNCHANGED <<fileVars, lost>>
    /\ UNCHANGED stampVars

\* Close with a persistent lock.
Retain(s) ==
    /\ pc[s] = "held"
    /\ s \in Persistent
    /\ Exit(s)
    /\ UNCHANGED <<fileVars, lost, stampVars>>

\* The second half: the read that follows the write returns the candidate.
ReplaceOk(s) ==
    /\ remote = cand[s]
    /\ \/ /\ pc[s] \in {"updVerify", "adoptVerify"}
          /\ ~cancelled[s]
          /\ pc' = [pc EXCEPT ![s] = "held"]
          /\ owned' = [owned EXCEPT ![s] = remote]
          /\ expiry' = [expiry EXCEPT ![s] = candLeft[s]]
          /\ pending' = [pending EXCEPT ![s] = NoFile]
          /\ pendingLeft' = [pendingLeft EXCEPT ![s] = 0]
          /\ OperationOver(s)
          /\ UNCHANGED <<waitVars, cancelled>>
       \/ /\ pc[s] = "relVerify"
          /\ Exit(s)
    /\ UNCHANGED <<fileVars, lost, stampVars>>

\* It fails, or it returns the file that the candidate should have replaced:
\* the operation fails, the candidate stays pending.
ReplaceFails(s) ==
    /\ \/ /\ pc[s] = "updVerify"
          /\ pc' = [pc EXCEPT ![s] = "held"]
          /\ OperationOver(s)
          /\ UNCHANGED <<waitVars, ownVars, cancelled>>
       \/ /\ pc[s] \in {"adoptVerify", "relVerify"}
          /\ Exit(s)
    /\ UNCHANGED <<fileVars, lost, stampVars>>

\* It returns something else.
ReplaceLost(s) ==
    /\ pc[s] = "updVerify"
    /\ ~cancelled[s]
    /\ remote \notin {cand[s], seen[s]}
    /\ OwnershipLost(s)
    /\ UNCHANGED stampVars

-----------------------------------------------------------------------------
(* Time and failures *)

\* Mutant: the timer of a deadline that has passed is never set.
WatchdogAhead(s) ==
    /\ pc[s] \in Holding /\ ~cancelled[s]
    /\ expiry[s] \in 1 .. Window
    /\ cancelled' = [cancelled EXCEPT ![s] = TRUE]
    /\ UNCHANGED <<fileVars, waitVars, candVars, ownVars, pc, lost, stampVars>>

\* The watchdog cancels the session's commands shortly before the expiry.
Watchdog(s) ==
    /\ pc[s] \in Holding
    /\ ~cancelled[s]
    /\ expiry[s] <= Window
    /\ cancelled' = [cancelled EXCEPT ![s] = TRUE]
    /\ UNCHANGED <<fileVars, waitVars, candVars, ownVars, pc, lost, stampVars>>

\* The process is killed or its machine fails.
Crash(s) ==
    /\ pc[s] \notin {"off", "done"}
    /\ Exit(s)
    /\ UNCHANGED <<fileVars, lost, stampVars>>

Dec(n) == IF n > 0 THEN n - 1 ELSE 0

\* Mutant: the watchdog is set to the expiry itself.
WatchdogDueAtExpiry(s, time) == time <= 0

\* A watchdog that guards s with this much time left cannot be later.
WatchdogDue(s, time) == time <= Window - Latency

\* Time passes, but never past a watchdog that has to fire.
Tick ==
    /\ \A s \in Session :
          /\ pc[s] \in Holding /\ ~cancelled[s] => ~WatchdogDue(s, expiry[s])
          /\ pc[s] \in Acquiring => ~WatchdogDue(s, candLeft[s])
    /\ observedLeft' = [s \in Session |-> Dec(observedLeft[s])]
    /\ candLeft' = [s \in Session |-> Dec(candLeft[s])]
    /\ expiry' = [s \in Session |-> Dec(expiry[s])]
    /\ pendingLeft' = [s \in Session |-> Dec(pendingLeft[s])]
    /\ left' = [k \in Stamp |-> Dec(left[k])]
    /\ UNCHANGED <<fileVars, observed, seen, cand, writeErr, owned, pending,
                   controlVars, nextStamp, issuer>>

Next ==
    \/ \E s \in Session :
          \/ AcquireStart(s) \/ AdoptStart(s) \/ Poll(s) \/ GiveUp(s)
          \/ AcquireWrite(s) \/ AcquireOk(s) \/ AcquireLostRace(s)
          \/ WriteLands(s) \/ WriteFails(s)
          \/ Refresh(s) \/ Update(s) \/ Release(s) \/ Retain(s)
          \/ ReplaceOk(s) \/ ReplaceFails(s) \/ ReplaceLost(s)
          \/ Watchdog(s) \/ Crash(s)
    \/ StrayLands
    \/ Tick

Spec == Init /\ [][Next]_vars

\* The poll timer and the watchdogs fire; rclone returns, at the latest when its
\* runner is cancelled, and a session goes on with its answer.
Fairness ==
    /\ WF_vars(Tick)
    /\ \A s \in Session :
        /\ WF_vars(Poll(s)) /\ WF_vars(AcquireWrite(s)) /\ WF_vars(Watchdog(s))
        /\ WF_vars(pc[s] = "acqWrite" /\ (WriteLands(s) \/ WriteFails(s)))
        /\ WF_vars(AcquireOk(s) \/ AcquireLostRace(s) \/ (pc[s] = "acqVerify" /\ GiveUp(s)))

FairSpec == Spec /\ Fairness

-----------------------------------------------------------------------------
(* Properties *)

\* The commands of s may change the payload: its lease has been verified, its
\* runner is not cancelled and its own clock says that the lease runs.
Live(s) == pc[s] \in Holding /\ ~cancelled[s] /\ expiry[s] > 0

\* The time for which each session may go on working
LeaseLeft == [s \in Session |-> IF Live(s) THEN expiry[s] ELSE 0]

Abstract == INSTANCE Lease WITH lease <- LeaseLeft

\* With conditional writes the file and the clocks implement a lease: it is
\* granted while nobody has one, never shortened by an update with an uncertain
\* outcome, and never outlives its TTL (Acquire, replaceOwnedRemote, refreshLoop).
ImplementsLease == Abstract!Spec

\* Two sessions never work on the destination at the same time: whoever takes
\* over an expired lock has waited at least as long as its owner believes in
\* it, whatever the TTLs of the two, and whatever writes were lost or late
\* (Acquire's wait for the stored TTL against lockExpiry of the owner).
MutualExclusion == \A s, t \in Session : Live(s) /\ Live(t) => s = t

\* The commands of a session that acquired its lock by waiting are cancelled
\* before the lease runs out, also while an update with an uncertain outcome
\* or a blocked one is in progress (the watchdogs of Acquire and refreshLoop).
StopsBeforeExpiry ==
    \A s \in Session \ Persistent :
        pc[s] \in Holding /\ ~cancelled[s] => expiry[s] > 0

\* The lock is nil, that of an older version, or one that its issuer created.
KnownLock(l) ==
    \/ l = NoLock
    \/ l = [owner |-> Foreign, stamp |-> 0, ttl |-> 0]
    \/ /\ l.stamp \in 1 .. (nextStamp - 1)
       /\ l.owner = Owner[issuer[l.stamp]]
       /\ l.ttl = TTL[issuer[l.stamp]]

\* Every lock in a file, also in one on its way, is a known one.
FilesAreKnown ==
    /\ KnownLock(LockOf(remote))
    /\ \A w \in stray : KnownLock(LockOf(w.cond)) /\ KnownLock(LockOf(w.val))

\* The stamps in use belong to sessions that have started, and no lease is
\* longer than the TTL of its session.
StampsAreIssued ==
    /\ left[0] = 0
    /\ \A k \in 1 .. (nextStamp - 1) :
          /\ issuer[k] \in Session
          /\ pc[issuer[k]] # "off"
          /\ left[k] <= TTL[issuer[k]]

\* Sessions with the same owner follow each other.
OwnersTakeTurns ==
    \A s, t \in Session :
        s # t /\ Owner[s] = Owner[t] =>
            pc[s] \in {"off", "done"} \/ pc[t] \in {"off", "done"}

\* The write from file f to file g cannot end the lease of a live session: the
\* lock of f is absent, over or left behind, or g prolongs it.
Harmless(f, g) ==
    \/ LockOf(f) = NoLock
    \/ left[LockOf(f).stamp] = 0
    \/ pc[issuer[LockOf(f).stamp]] = "done"
    \/ /\ LockOf(g) # NoLock
       /\ issuer[LockOf(g).stamp] = issuer[LockOf(f).stamp]
       /\ left[LockOf(f).stamp] <= left[LockOf(g).stamp]

\* A write still on its way is harmless.
StraysAreHarmless == \A w \in stray : Harmless(w.cond, w.val)

\* s issued the lock l and believes in it no longer than it lasts.
Believes(s, l, time) ==
    l # NoLock =>
        /\ l.stamp \in 1 .. (nextStamp - 1)
        /\ issuer[l.stamp] = s
        /\ l.owner = Owner[s]
        /\ l.ttl = TTL[s]
        /\ time <= left[l.stamp]

\* While it waits, s waits at least as long as the lock lasts; it believes in
\* its own locks no longer than that.
ClocksAgree(s) ==
    /\ KnownLock(LockOf(seen[s]))
    /\ KnownLock(observed[s])
    /\ observed[s] # NoLock => left[observed[s].stamp] <= observedLeft[s]
    /\ Believes(s, LockOf(cand[s]), candLeft[s])
    /\ Believes(s, LockOf(owned[s]), expiry[s])
    /\ Believes(s, LockOf(pending[s]), pendingLeft[s])

\* What each phase of an operation of s rests on.
PhaseIsSound(s) ==
    /\ pc[s] \in Acquiring \cup {"updWrite", "updVerify", "adoptWrite", "adoptVerify"} =>
          LockOf(cand[s]) # NoLock
    /\ pc[s] \in Holding => LockOf(owned[s]) # NoLock
    /\ pc[s] \in {"acqWrite", "updWrite", "adoptWrite"} => Harmless(seen[s], cand[s])
    /\ pc[s] = "relWrite" =>
          LockOf(seen[s]) # NoLock /\ issuer[LockOf(seen[s]).stamp] = s
    /\ pc[s] \in {"updWrite", "updVerify"} /\ Live(s) =>
          expiry[s] <= left[LockOf(cand[s]).stamp]

\* The lock in the remote file is that of the live session s, and lasts.
LiveIsOwner(s) ==
    Live(s) =>
        /\ LockOf(remote) # NoLock
        /\ issuer[LockOf(remote).stamp] = s
        /\ expiry[s] <= left[LockOf(remote).stamp]

\* With conditional writes the lease is sound, for the reasons that its parts
\* name: this is the inductive invariant behind MutualExclusion (Acquire's
\* wait, the ETag conditions and the pending candidate of replaceOwnedRemote).
LeaseInvariant ==
    /\ StampsAreIssued
    /\ FilesAreKnown
    /\ OwnersTakeTurns
    /\ StraysAreHarmless
    /\ \A s \in Session : ClocksAgree(s) /\ PhaseIsSound(s) /\ LiveIsOwner(s)

\* A session reports errLockOwnershipLost only when the lock in the remote
\* file is not its own (replaceOwnedRemote).
LossIsReal ==
    [][\A s \in Session : lost'[s] /\ ~lost[s] => ~ownedBy(remote, s)]_vars

\* A lock left behind, by a crash or by a lost answer, does not keep a waiting
\* session out for ever (observed and its expiry in Acquire).  The bound on
\* stamps ends the model, not the program.
WaitEnds ==
    \A s \in Session :
        pc[s] = "waiting" ~> pc[s] \in Holding \cup {"done"} \/ nextStamp > MaxStamp

\* A session whose lease is over is stopped, also one that adopted its
\* persistent lock too slowly for any lease to be left (refreshLoop).
LeaseOverStops ==
    \A s \in Session :
        pc[s] \in Holding /\ expiry[s] = 0 ~>
            cancelled[s] \/ pc[s] \notin Holding \/ expiry[s] > 0
=============================================================================

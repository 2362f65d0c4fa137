--------------------------- MODULE RemoteLockProofs ---------------------------
(* Proofs about RemoteLock, for any number of sessions, TTLs and writes. *)
EXTENDS RemoteLock, TLAPS

-----------------------------------------------------------------------------
(* Types *)

\* A session keeps its place among the locks: newLock builds a lock.
LEMMA NewLockType ==
    ASSUME TypeOK, NEW s \in Session, nextStamp <= MaxStamp
    PROVE  newLock(s) \in Lock
BY TimesAssumption, ValuesAssumption DEF TypeOK, newLock, Lock, Stamp

\* The lock and the data of a file are of their types, as for a nil pointer.
LEMMA PartTypes ==
    ASSUME NEW f \in File \cup {NoFile}
    PROVE  LockOf(f) \in Lock \cup {NoLock} /\ DataOf(f) \in Data
BY ValuesAssumption DEF LockOf, DataOf, File

LEMMA InitType == Init => TypeOK
BY ValuesAssumption, TimesAssumption
   DEF Init, TypeOK, File, Lock, PCs, Stamp, Writing, Verifying

LEMMA ExitType ==
    ASSUME TypeOK, NEW s \in Session, Exit(s), UNCHANGED <<fileVars, lost, stampVars>>
    PROVE  TypeOK'
BY DEF TypeOK, Exit, fileVars, stampVars, PCs

LEMMA FollowType ==
    ASSUME TypeOK, NEW s \in Session, NEW f \in File \cup {NoFile}, Follow(s, f),
           UNCHANGED <<fileVars, lost, stampVars>>
    PROVE  TypeOK'
<1>1. LockOf(f) \in Lock \cup {NoLock}
  BY PartTypes
<1>2. LockOf(f) \in Lock => lockTTL(LockOf(f), s) \in Nat
  BY TimesAssumption DEF lockTTL, Lock
<1>3. CASE Exit(s)
  BY <1>3, ExitType
<1>4. CASE ~Exit(s)
  <2>1. /\ pc' = [pc EXCEPT ![s] = "waiting"]
        /\ seen' = [seen EXCEPT ![s] = f]
        /\ cand' = [cand EXCEPT ![s] = NoFile]
        /\ candLeft' = [candLeft EXCEPT ![s] = 0]
        /\ writeErr' = [writeErr EXCEPT ![s] = FALSE]
        /\ UNCHANGED <<ownVars, cancelled>>
    BY <1>4 DEF Follow
  <2>2. /\ observed' \in [Session -> Lock \cup {NoLock}]
        /\ observedLeft' \in [Session -> Nat]
    BY <1>1, <1>2, <1>4 DEF TypeOK, Follow
  <2> QED
    BY <2>1, <2>2 DEF TypeOK, fileVars, stampVars, ownVars, PCs
<1> QED
  BY <1>3, <1>4

LEMMA StampedType ==
    ASSUME TypeOK, NEW s \in Session, Stamped(s)
    PROVE  /\ nextStamp' \in 1 .. (MaxStamp + 1)
           /\ issuer' \in [Stamp -> Session \cup {Foreign}]
           /\ left' \in [Stamp -> Nat]
           /\ newLock(s) \in Lock
<1>1. nextStamp \in Stamp /\ nextStamp' \in 1 .. (MaxStamp + 1) /\ nextStamp <= MaxStamp
  BY ValuesAssumption DEF TypeOK, Stamped, Stamp
<1>2. TTL[s] \in Nat
  BY TimesAssumption
<1> QED
  BY <1>1, <1>2, NewLockType DEF TypeOK, Stamped

\* The first half of an update of the remote file.
LEMMA BeginReplaceType ==
    ASSUME TypeOK, NEW s \in Session, NEW d \in Data, NEW l \in Lock \cup {NoLock},
           NEW next \in PCs, BeginReplace(s, d, l, next)
    PROVE  /\ pc' \in [Session -> PCs]
           /\ seen' \in [Session -> File \cup {NoFile}]
           /\ cand' \in [Session -> File \cup {NoFile}]
           /\ candLeft' \in [Session -> Nat]
           /\ pending' \in [Session -> File \cup {NoFile}]
           /\ pendingLeft' \in [Session -> Nat]
           /\ UNCHANGED <<fileVars, waitVars, writeErr, owned, expiry, cancelled, lost>>
<1> DEFINE kept == KeptLock(s, l)
           file == [data |-> d, lock |-> kept]
           time == CandidateLeft(s, kept)
<1>1. remote \in File
  BY DEF BeginReplace, StillOwned, ownedBy, LockOf, TypeOK
<1>2. kept \in Lock \cup {NoLock}
  BY <1>1 DEF KeptLock, File
<1>3. file \in File
  BY <1>2 DEF File
<1>4. time \in Nat
  BY <1>2 DEF CandidateLeft, TypeOK, Lock
<1>5. /\ cand' = [cand EXCEPT ![s] = file]
      /\ candLeft' = [candLeft EXCEPT ![s] = time]
      /\ pending' = [pending EXCEPT ![s] = file]
      /\ pendingLeft' = [pendingLeft EXCEPT ![s] = time]
      /\ seen' = [seen EXCEPT ![s] = remote]
      /\ pc' = [pc EXCEPT ![s] = next]
  BY DEF BeginReplace
<1> HIDE DEF kept, file, time
<1> QED
  BY <1>1, <1>3, <1>4, <1>5 DEF TypeOK, BeginReplace

LEMMA OwnershipLostType ==
    ASSUME TypeOK, NEW s \in Session, OwnershipLost(s), UNCHANGED stampVars
    PROVE  TypeOK'
BY DEF TypeOK, OwnershipLost, OperationOver, fileVars, waitVars, stampVars, PCs

\* What the types rest on: a session that holds the lock has a verified file,
\* and an operation in progress has a candidate.
HasFiles ==
    \A s \in Session :
        /\ pc[s] \in Holding => owned[s] # NoFile
        /\ pc[s] \in Writing \cup Verifying => cand[s] # NoFile

TypeInv == TypeOK /\ HasFiles

LEMMA OwnedFile ==
    ASSUME TypeInv, NEW s \in Session, pc[s] \in Holding
    PROVE  owned[s].data \in Data /\ owned[s].lock \in Lock \cup {NoLock}
BY DEF TypeInv, HasFiles, TypeOK, File

-----------------------------------------------------------------------------
(* One lemma for each action: it preserves TypeOK *)

LEMMA AcquireStartType ==
    ASSUME TypeInv, NEW s \in Session, AcquireStart(s)
    PROVE  TypeOK'
BY FollowType DEF AcquireStart, TypeInv, TypeOK

LEMMA PollType ==
    ASSUME TypeInv, NEW s \in Session, Poll(s)
    PROVE  TypeOK'
BY FollowType DEF Poll, TypeInv, TypeOK

LEMMA AcquireLostRaceType ==
    ASSUME TypeInv, NEW s \in Session, AcquireLostRace(s)
    PROVE  TypeOK'
BY FollowType, ExitType DEF AcquireLostRace, TypeInv, TypeOK

LEMMA AdoptStartType ==
    ASSUME TypeInv, NEW s \in Session, AdoptStart(s)
    PROVE  TypeOK'
<1>1. remote \in File
  BY DEF AdoptStart, ownedBy, LockOf, TypeInv, TypeOK
<1>2. Stamped(s) /\ newLock(s) \in Lock
  BY StampedType DEF AdoptStart, TypeInv
<1>3. [remote EXCEPT !.lock = newLock(s)] \in File
  BY <1>1, <1>2 DEF File
<1>4. TTL[s] \in Nat
  BY TimesAssumption
<1>5. /\ nextStamp' \in 1 .. (MaxStamp + 1)
      /\ issuer' \in [Stamp -> Session \cup {Foreign}]
      /\ left' \in [Stamp -> Nat]
  BY <1>2, StampedType DEF TypeInv
<1> QED
  BY <1>1, <1>3, <1>4, <1>5
     DEF AdoptStart, TypeInv, TypeOK, fileVars, waitVars, PCs, Writing

LEMMA AcquireWriteType ==
    ASSUME TypeInv, NEW s \in Session, AcquireWrite(s)
    PROVE  TypeOK'
<1>1. Stamped(s) /\ newLock(s) \in Lock
  BY StampedType DEF AcquireWrite, TypeInv
<1>2. DataOf(seen[s]) \in Data
  BY PartTypes DEF TypeInv, TypeOK
<1>3. [data |-> DataOf(seen[s]), lock |-> newLock(s)] \in File
  BY <1>1, <1>2 DEF File
<1>4. TTL[s] \in Nat
  BY TimesAssumption
<1>5. /\ nextStamp' \in 1 .. (MaxStamp + 1)
      /\ issuer' \in [Stamp -> Session \cup {Foreign}]
      /\ left' \in [Stamp -> Nat]
  BY <1>1, StampedType DEF TypeInv
<1> QED
  BY <1>3, <1>4, <1>5
     DEF AcquireWrite, TypeInv, TypeOK, fileVars, waitVars, ownVars, PCs, Writing

LEMMA AcquireOkType ==
    ASSUME TypeInv, NEW s \in Session, AcquireOk(s)
    PROVE  TypeOK'
BY DEF AcquireOk, TypeInv, TypeOK, OperationOver, fileVars, waitVars, stampVars, PCs

\* The answer to a write changes neither the file nor the stamps.
LEMMA WriteReturnsType ==
    ASSUME TypeInv, NEW s \in Session, NEW err \in BOOLEAN, WriteReturns(s, err)
    PROVE  /\ pc' \in [Session -> PCs]
           /\ seen' \in [Session -> File \cup {NoFile}]
           /\ observed' \in [Session -> Lock \cup {NoLock}]
           /\ observedLeft' \in [Session -> Nat]
           /\ cand' \in [Session -> File \cup {NoFile}]
           /\ candLeft' \in [Session -> Nat]
           /\ writeErr' \in [Session -> BOOLEAN]
           /\ owned' \in [Session -> File \cup {NoFile}]
           /\ expiry' \in [Session -> Nat]
           /\ pending' \in [Session -> File \cup {NoFile}]
           /\ pendingLeft' \in [Session -> Nat]
           /\ cancelled' \in [Session -> BOOLEAN]
<1>1. CASE Exit(s)
  BY <1>1 DEF Exit, TypeInv, TypeOK, PCs
<1>2. CASE ~Exit(s) /\ ~OperationOver(s)
  <2>1. /\ \E p \in PCs : pc' = [pc EXCEPT ![s] = p]
        /\ writeErr' = [writeErr EXCEPT ![s] = err] \/ UNCHANGED writeErr
        /\ UNCHANGED <<waitVars, seen, cand, candLeft, ownVars, cancelled>>
    BY <1>2 DEF WriteReturns, PCs, Verifying, candVars
  <2> QED
    BY <2>1 DEF TypeInv, TypeOK, waitVars, ownVars
<1>3. CASE ~Exit(s) /\ OperationOver(s)
  <2>1. /\ \E p \in PCs : pc' = [pc EXCEPT ![s] = p]
        /\ UNCHANGED <<waitVars, ownVars, cancelled>>
    BY <1>3 DEF WriteReturns, PCs, Verifying, candVars
  <2> QED
    BY <1>3, <2>1 DEF OperationOver, TypeInv, TypeOK, waitVars, ownVars
<1> QED
  BY <1>1, <1>2, <1>3

LEMMA WriteLandsType ==
    ASSUME TypeInv, NEW s \in Session, WriteLands(s)
    PROVE  TypeOK'
<1>1. PICK err \in BOOLEAN : WriteReturns(s, err)
  BY DEF WriteLands
<1>2. remote' \in File \cup {NoFile}
  BY DEF WriteLands, TypeInv, TypeOK
<1> QED
  BY <1>1, <1>2, WriteReturnsType DEF WriteLands, TypeInv, TypeOK, stampVars

LEMMA WriteFailsType ==
    ASSUME TypeInv, NEW s \in Session, WriteFails(s)
    PROVE  TypeOK'
<1>1. cand[s] \in File
  BY DEF WriteFails, TypeInv, TypeOK, HasFiles
<1>2. [cond |-> seen[s], val |-> cand[s]] \in [cond : File \cup {NoFile}, val : File]
  BY <1>1 DEF TypeInv, TypeOK
<1>3. stray' \subseteq [cond : File \cup {NoFile}, val : File]
  BY <1>2 DEF WriteFails, TypeInv, TypeOK
<1> QED
  BY <1>3, WriteReturnsType DEF WriteFails, TypeInv, TypeOK, stampVars

LEMMA StrayLandsType ==
    ASSUME TypeInv, StrayLands
    PROVE  TypeOK'
<1>1. /\ stray' \subseteq [cond : File \cup {NoFile}, val : File]
      /\ remote' \in File \cup {NoFile}
  BY DEF StrayLands, TypeInv, TypeOK
<1> QED
  BY <1>1 DEF StrayLands, TypeInv, TypeOK, waitVars, candVars, ownVars,
              controlVars, stampVars

LEMMA RefreshType ==
    ASSUME TypeInv, NEW s \in Session, Refresh(s)
    PROVE  TypeOK'
<1>1. CASE BeginReplace(s, owned[s].data, newLock(s), "updWrite") /\ Stamped(s)
  <2>1. /\ owned[s].data \in Data
        /\ newLock(s) \in Lock
        /\ "updWrite" \in PCs
    BY <1>1, OwnedFile, StampedType DEF Refresh, Holding, TypeInv, PCs, Writing
  <2> QED
    BY <1>1, <2>1, BeginReplaceType, StampedType DEF TypeInv, TypeOK, fileVars, waitVars
<1>2. CASE OwnershipLost(s) /\ UNCHANGED stampVars
  BY <1>2, OwnershipLostType DEF TypeInv
<1> QED
  BY <1>1, <1>2 DEF Refresh

LEMMA UpdateType ==
    ASSUME TypeInv, NEW s \in Session, Update(s)
    PROVE  TypeOK'
<1>1. UNCHANGED stampVars
  BY DEF Update
<1>2. ASSUME NEW d \in Data, BeginReplace(s, d, owned[s].lock, "updWrite")
      PROVE  TypeOK'
  <2>1. owned[s].lock \in Lock \cup {NoLock} /\ "updWrite" \in PCs
    BY OwnedFile DEF Update, Holding, TypeInv, PCs, Writing
  <2> QED
    BY <1>1, <1>2, <2>1, BeginReplaceType DEF TypeInv, TypeOK, fileVars, waitVars, stampVars
<1>3. CASE OwnershipLost(s)
  BY <1>1, <1>3, OwnershipLostType DEF TypeInv
<1> QED
  BY <1>2, <1>3 DEF Update

LEMMA ReleaseType ==
    ASSUME TypeInv, NEW s \in Session, Release(s)
    PROVE  TypeOK'
<1>1. UNCHANGED stampVars
  BY DEF Release
<1>2. CASE BeginReplace(s, owned[s].data, NoLock, "relWrite")
  <2>1. owned[s].data \in Data /\ "relWrite" \in PCs
    BY OwnedFile DEF Release, Holding, TypeInv, PCs, Writing
  <2> QED
    BY <1>1, <1>2, <2>1, BeginReplaceType DEF TypeInv, TypeOK, fileVars, waitVars, stampVars
<1>3. CASE Exit(s) /\ UNCHANGED <<fileVars, lost>>
  BY <1>1, <1>3, ExitType DEF TypeInv
<1> QED
  BY <1>2, <1>3 DEF Release

LEMMA ReplaceOkType ==
    ASSUME TypeInv, NEW s \in Session, ReplaceOk(s)
    PROVE  TypeOK'
<1>1. CASE Exit(s)
  BY <1>1, ExitType DEF ReplaceOk, TypeInv
<1>2. CASE ~Exit(s)
  <2>1. /\ pc' = [pc EXCEPT ![s] = "held"]
        /\ owned' = [owned EXCEPT ![s] = remote]
        /\ expiry' = [expiry EXCEPT ![s] = candLeft[s]]
        /\ pending' = [pending EXCEPT ![s] = NoFile]
        /\ pendingLeft' = [pendingLeft EXCEPT ![s] = 0]
        /\ OperationOver(s)
        /\ UNCHANGED <<waitVars, cancelled, fileVars, lost, stampVars>>
    BY <1>2 DEF ReplaceOk
  <2> QED
    BY <2>1 DEF OperationOver, TypeInv, TypeOK, fileVars, waitVars, stampVars, PCs
<1> QED
  BY <1>1, <1>2

LEMMA ReplaceFailsType ==
    ASSUME TypeInv, NEW s \in Session, ReplaceFails(s)
    PROVE  TypeOK'
<1>1. CASE Exit(s)
  BY <1>1, ExitType DEF ReplaceFails, TypeInv
<1>2. CASE ~Exit(s)
  <2>1. /\ pc' = [pc EXCEPT ![s] = "held"]
        /\ OperationOver(s)
        /\ UNCHANGED <<waitVars, ownVars, cancelled, fileVars, lost, stampVars>>
    BY <1>2 DEF ReplaceFails
  <2> QED
    BY <2>1 DEF OperationOver, TypeInv, TypeOK, fileVars, waitVars, ownVars, stampVars, PCs
<1> QED
  BY <1>1, <1>2

LEMMA TickType ==
    ASSUME TypeInv, Tick
    PROVE  TypeOK'
<1>1. \A n \in Nat : Dec(n) \in Nat
  BY DEF Dec
<1> QED
  BY <1>1 DEF Tick, TypeInv, TypeOK, fileVars, controlVars

LEMMA OtherTypes ==
    ASSUME TypeInv, NEW s \in Session,
           GiveUp(s) \/ Retain(s) \/ ReplaceLost(s) \/ Watchdog(s) \/ Crash(s)
    PROVE  TypeOK'
<1>1. CASE GiveUp(s) \/ Retain(s) \/ Crash(s)
  BY <1>1, ExitType DEF GiveUp, Retain, Crash, TypeInv
<1>2. CASE ReplaceLost(s)
  BY <1>2, OwnershipLostType DEF ReplaceLost, TypeInv
<1>3. CASE Watchdog(s)
  BY <1>3 DEF Watchdog, TypeInv, TypeOK, fileVars, waitVars, candVars, ownVars, stampVars
<1> QED
  BY <1>1, <1>2, <1>3

-----------------------------------------------------------------------------
(* HasFiles is preserved *)

LEMMA ExitFiles ==
    ASSUME TypeInv, NEW s \in Session, Exit(s)
    PROVE  HasFiles'
BY DEF TypeInv, TypeOK, HasFiles, Exit, Holding, Writing, Verifying

LEMMA FollowFiles ==
    ASSUME TypeInv, NEW s \in Session, NEW f, Follow(s, f)
    PROVE  HasFiles'
<1>1. CASE Exit(s)
  BY <1>1, ExitFiles
<1>2. CASE ~Exit(s)
  <2>1. /\ pc' = [pc EXCEPT ![s] = "waiting"]
        /\ cand' = [cand EXCEPT ![s] = NoFile]
        /\ UNCHANGED owned
    BY <1>2 DEF Follow, ownVars
  <2> QED
    BY <2>1 DEF TypeInv, TypeOK, HasFiles, Holding, Writing, Verifying
<1> QED
  BY <1>1, <1>2

LEMMA BeginReplaceFiles ==
    ASSUME TypeInv, NEW s \in Session, NEW d \in Data, NEW l \in Lock \cup {NoLock},
           NEW next \in {"updWrite", "relWrite"}, BeginReplace(s, d, l, next),
           pc[s] \in Holding
    PROVE  HasFiles'
<1>1. remote \in File
  BY DEF BeginReplace, StillOwned, ownedBy, LockOf, TypeInv, TypeOK
<1>2. [data |-> d, lock |-> KeptLock(s, l)] \in File
  BY <1>1 DEF KeptLock, File
<1>3. /\ cand' = [cand EXCEPT ![s] = [data |-> d, lock |-> KeptLock(s, l)]]
      /\ pc' = [pc EXCEPT ![s] = next]
      /\ UNCHANGED owned
  BY DEF BeginReplace
<1> QED
  BY <1>2, <1>3, SentinelsAssumption DEF TypeInv, TypeOK, HasFiles, Holding, Writing, Verifying

LEMMA OwnershipLostFiles ==
    ASSUME TypeInv, NEW s \in Session, OwnershipLost(s), pc[s] \in Holding
    PROVE  HasFiles'
BY DEF TypeInv, TypeOK, HasFiles, OwnershipLost, OperationOver, Holding, Writing, Verifying

LEMMA WriteReturnsFiles ==
    ASSUME TypeInv, NEW s \in Session, NEW err \in BOOLEAN, WriteReturns(s, err)
    PROVE  HasFiles'
<1>1. CASE Exit(s)
  BY <1>1, ExitFiles
<1>2. CASE pc[s] = "updWrite" /\ err /\ OperationOver(s)
  <2>1. pc' = [pc EXCEPT ![s] = "held"] /\ UNCHANGED owned
    BY <1>2 DEF WriteReturns, ownVars
  <2> QED
    BY <1>2, <2>1 DEF OperationOver, TypeInv, TypeOK, HasFiles, Holding, Writing, Verifying
<1>3. CASE ~Exit(s) /\ ~(pc[s] = "updWrite" /\ err)
  <2>1. /\ \E p \in Verifying : pc' = [pc EXCEPT ![s] = p] /\ (p \in Holding => pc[s] = "updWrite")
        /\ pc[s] \in Writing
        /\ UNCHANGED <<owned, cand>>
    BY <1>3 DEF WriteReturns, ownVars, candVars, Verifying, Writing, Holding
  <2> QED
    BY <2>1 DEF TypeInv, TypeOK, HasFiles, Holding, Writing, Verifying
<1> QED
  BY <1>1, <1>2, <1>3 DEF WriteReturns

LEMMA AcquireFiles ==
    ASSUME TypeInv, NEW s \in Session,
           AdoptStart(s) \/ AcquireWrite(s) \/ AcquireOk(s)
    PROVE  HasFiles'
<1>1. CASE AdoptStart(s)
  <2>1. [remote EXCEPT !.lock = newLock(s)] \in File
    BY <1>1, StampedType DEF AdoptStart, ownedBy, LockOf, TypeInv, TypeOK, File
  <2> QED
    BY <1>1, <2>1, SentinelsAssumption
       DEF AdoptStart, TypeInv, TypeOK, HasFiles, Holding, Writing, Verifying
<1>2. CASE AcquireWrite(s)
  <2>1. [data |-> DataOf(seen[s]), lock |-> newLock(s)] \in File
    BY <1>2, StampedType, PartTypes DEF AcquireWrite, TypeInv, TypeOK, File
  <2> QED
    BY <1>2, <2>1, SentinelsAssumption
       DEF AcquireWrite, ownVars, TypeInv, TypeOK, HasFiles, Holding, Writing, Verifying
<1>3. CASE AcquireOk(s)
  BY <1>3 DEF AcquireOk, OperationOver, TypeInv, TypeOK, HasFiles, Holding, Writing, Verifying
<1> QED
  BY <1>1, <1>2, <1>3

LEMMA UpdateFiles ==
    ASSUME TypeInv, NEW s \in Session, Refresh(s) \/ Update(s) \/ Release(s)
    PROVE  HasFiles'
<1>1. /\ pc[s] \in Holding
      /\ owned[s].data \in Data
      /\ owned[s].lock \in Lock \cup {NoLock}
  BY OwnedFile DEF Refresh, Update, Release, Holding
<1>2. CASE Refresh(s)
  BY <1>1, <1>2, BeginReplaceFiles, OwnershipLostFiles, StampedType DEF Refresh, TypeInv
<1>3. CASE Update(s)
  BY <1>1, <1>3, BeginReplaceFiles, OwnershipLostFiles DEF Update
<1>4. CASE Release(s)
  BY <1>1, <1>4, BeginReplaceFiles, ExitFiles DEF Release
<1> QED
  BY <1>2, <1>3, <1>4

LEMMA ReplaceFiles ==
    ASSUME TypeInv, NEW s \in Session, ReplaceOk(s) \/ ReplaceFails(s) \/ ReplaceLost(s)
    PROVE  HasFiles'
<1>1. CASE Exit(s)
  BY <1>1, ExitFiles
<1>2. CASE ReplaceOk(s) /\ ~Exit(s)
  <2>1. /\ pc[s] \in Verifying
        /\ remote = cand[s]
        /\ pc' = [pc EXCEPT ![s] = "held"]
        /\ owned' = [owned EXCEPT ![s] = remote]
        /\ OperationOver(s)
    BY <1>2 DEF ReplaceOk, Verifying
  <2> QED
    BY <2>1 DEF OperationOver, TypeInv, TypeOK, HasFiles, Holding, Writing, Verifying
<1>3. CASE ReplaceFails(s) /\ ~Exit(s)
  <2>1. /\ pc[s] \in Holding
        /\ pc' = [pc EXCEPT ![s] = "held"]
        /\ UNCHANGED owned
        /\ OperationOver(s)
    BY <1>3 DEF ReplaceFails, Holding, ownVars
  <2> QED
    BY <2>1 DEF OperationOver, TypeInv, TypeOK, HasFiles, Holding, Writing, Verifying
<1>4. CASE ReplaceLost(s)
  BY <1>4, OwnershipLostFiles DEF ReplaceLost, Holding
<1> QED
  BY <1>1, <1>2, <1>3, <1>4

\* Steps that leave the phases and the files of the sessions alone.
LEMMA QuietFiles ==
    ASSUME TypeInv, UNCHANGED <<pc, owned, cand>>
    PROVE  HasFiles'
BY DEF TypeInv, HasFiles

-----------------------------------------------------------------------------
(* The type invariant *)

LEMMA TypeStep ==
    ASSUME TypeInv, [Next]_vars
    PROVE  TypeInv'
<1>1. ASSUME NEW s \in Session,
             \/ AcquireStart(s) \/ AdoptStart(s) \/ Poll(s)
             \/ AcquireWrite(s) \/ AcquireOk(s) \/ AcquireLostRace(s)
      PROVE  TypeInv'
  BY <1>1, AcquireStartType, AdoptStartType, PollType, AcquireWriteType, AcquireOkType,
     AcquireLostRaceType, FollowFiles, AcquireFiles, ExitFiles
     DEF AcquireStart, Poll, AcquireLostRace, TypeInv
<1>2. ASSUME NEW s \in Session, WriteLands(s) \/ WriteFails(s)
      PROVE  TypeInv'
  <2>1. PICK err \in BOOLEAN : WriteReturns(s, err)
    BY <1>2 DEF WriteLands, WriteFails
  <2> QED
    BY <1>2, <2>1, WriteLandsType, WriteFailsType, WriteReturnsFiles DEF TypeInv
<1>3. ASSUME NEW s \in Session,
             \/ Refresh(s) \/ Update(s) \/ Release(s)
             \/ ReplaceOk(s) \/ ReplaceFails(s) \/ ReplaceLost(s)
      PROVE  TypeInv'
  BY <1>3, RefreshType, UpdateType, ReleaseType, ReplaceOkType, ReplaceFailsType,
     OtherTypes, UpdateFiles, ReplaceFiles DEF TypeInv
<1>4. ASSUME NEW s \in Session, GiveUp(s) \/ Retain(s) \/ Crash(s)
      PROVE  TypeInv'
  BY <1>4, OtherTypes, ExitFiles DEF GiveUp, Retain, Crash, TypeInv
<1>5. ASSUME NEW s \in Session, Watchdog(s)
      PROVE  TypeInv'
  BY <1>5, OtherTypes, QuietFiles DEF Watchdog, candVars, ownVars, TypeInv
<1>6. CASE StrayLands
  BY <1>6, StrayLandsType, QuietFiles DEF StrayLands, controlVars, candVars, ownVars, TypeInv
<1>7. CASE Tick
  BY <1>7, TickType, QuietFiles DEF Tick, controlVars, TypeInv
<1>8. CASE UNCHANGED vars
  BY <1>8 DEF vars, fileVars, waitVars, candVars, ownVars, controlVars, stampVars,
              TypeInv, TypeOK, HasFiles
<1> QED
  BY <1>1, <1>2, <1>3, <1>4, <1>5, <1>6, <1>7, <1>8 DEF Next

LEMMA TypeInvariance == Spec => []TypeInv
<1>1. Init => TypeInv
  BY InitType DEF Init, TypeInv, HasFiles, Holding, Writing, Verifying
<1>2. TypeInv /\ [Next]_vars => TypeInv'
  BY TypeStep
<1> QED
  BY <1>1, <1>2, PTL DEF Spec

\* The state of the lease protocol always has its type, whatever the number of
\* sessions and the interleaving of their reads and writes (Acquire, refreshLoop,
\* replaceOwnedRemote and Close).
THEOREM TypeCorrect == Spec => []TypeOK
<1>1. TypeInv => TypeOK
  BY DEF TypeInv
<1> QED
  BY <1>1, TypeInvariance, PTL

-----------------------------------------------------------------------------
(* How a step changes the phases and the history *)

\* A session that has started stays so, and one that is over stays so.
Forward == \A t \in Session : /\ pc[t] = "done" => pc'[t] = "done"
                              /\ pc[t] # "off" => pc'[t] # "off"

\* The locks issued so far keep their issuers and grow older together.
Aged ==
    /\ nextStamp' >= nextStamp
    /\ \A k \in 0 .. (nextStamp - 1) :
          issuer'[k] = issuer[k] /\ left'[k] <= left[k]
    /\ \A j, k \in 0 .. (nextStamp - 1) : left[j] <= left[k] => left'[j] <= left'[k]

LEMMA ForwardStep ==
    ASSUME TypeInv, [Next]_vars
    PROVE  Forward
<1>1. ASSUME NEW s \in Session, NEW x \in PCs \ {"off"},
             pc' = [pc EXCEPT ![s] = x], pc[s] # "done"
      PROVE  Forward
  BY <1>1 DEF Forward, TypeInv, TypeOK
<1>2. ASSUME UNCHANGED pc
      PROVE  Forward
  BY <1>2 DEF Forward
<1> USE DEF PCs, Writing, Verifying
<1>3. ASSUME NEW s \in Session, Exit(s), pc[s] # "done"
      PROVE  Forward
  BY <1>1, <1>3 DEF Exit
<1>4. ASSUME NEW s \in Session, NEW f, Follow(s, f), pc[s] # "done"
      PROVE  Forward
  BY <1>1, <1>3, <1>4 DEF Follow
<1>5. ASSUME NEW s \in Session,
             \/ AcquireStart(s) \/ AdoptStart(s) \/ Poll(s) \/ GiveUp(s)
             \/ AcquireWrite(s) \/ AcquireOk(s) \/ AcquireLostRace(s)
             \/ Retain(s) \/ Crash(s)
      PROVE  Forward
  BY <1>1, <1>3, <1>4, <1>5
     DEF AcquireStart, AdoptStart, Poll, GiveUp, AcquireWrite, AcquireOk,
         AcquireLostRace, Retain, Crash
<1>6. ASSUME NEW s \in Session, NEW err \in BOOLEAN, WriteReturns(s, err)
      PROVE  Forward
  BY <1>1, <1>3, <1>6 DEF WriteReturns
<1>7. ASSUME NEW s \in Session,
             \/ WriteLands(s) \/ WriteFails(s)
      PROVE  Forward
  BY <1>6, <1>7 DEF WriteLands, WriteFails
<1>8. ASSUME NEW s \in Session,
             \/ Refresh(s) \/ Update(s) \/ Release(s)
             \/ ReplaceOk(s) \/ ReplaceFails(s) \/ ReplaceLost(s)
      PROVE  Forward
  BY <1>1, <1>3, <1>8
     DEF Refresh, Update, Release, ReplaceOk, ReplaceFails, ReplaceLost,
         BeginReplace, OwnershipLost
<1>9. ASSUME NEW s \in Session, Watchdog(s)
      PROVE  Forward
  BY <1>2, <1>9 DEF Watchdog
<1>10. CASE StrayLands \/ Tick \/ UNCHANGED vars
  BY <1>2, <1>10 DEF StrayLands, Tick, controlVars, vars
<1> QED
  BY <1>5, <1>7, <1>8, <1>9, <1>10 DEF Next

LEMMA AgedStep ==
    ASSUME TypeInv, [Next]_vars
    PROVE  Aged
<1>0. /\ 0 .. (nextStamp - 1) \subseteq Stamp
      /\ nextStamp \in Nat
      /\ \A k \in Stamp : left[k] \in Nat
  BY ValuesAssumption DEF TypeInv, TypeOK, Stamp
<1>1. ASSUME UNCHANGED stampVars
      PROVE  Aged
  BY <1>0, <1>1 DEF Aged, stampVars
<1>2. ASSUME NEW s \in Session, Stamped(s)
      PROVE  Aged
  <2>1. nextStamp' >= nextStamp
    BY <1>0, <1>2 DEF Stamped
  <2>2. \A k \in 0 .. (nextStamp - 1) : issuer'[k] = issuer[k] /\ left'[k] = left[k]
    BY <1>0, <1>2 DEF Stamped, TypeInv, TypeOK
  <2> QED
    BY <1>0, <2>1, <2>2 DEF Aged
<1>3. ASSUME Tick
      PROVE  Aged
  <2>1. /\ UNCHANGED <<nextStamp, issuer>>
        /\ left' = [k \in Stamp |-> Dec(left[k])]
    BY <1>3 DEF Tick
  <2>2. 0 .. (nextStamp - 1) \subseteq Stamp
    BY <1>0
  <2>3. \A k \in Stamp : left[k] \in Nat /\ left'[k] = Dec(left[k])
    BY <2>1 DEF TypeInv, TypeOK
  <2>4. \A m, n \in Nat : Dec(n) <= n /\ (m <= n => Dec(m) <= Dec(n))
    BY DEF Dec
  <2>5. \A k \in Stamp : left'[k] <= left[k]
    BY <2>3, <2>4
  <2>6. \A j, k \in Stamp : left[j] <= left[k] => left'[j] <= left'[k]
    BY <2>3, <2>4
  <2>7. nextStamp' >= nextStamp
    BY <2>1 DEF TypeInv, TypeOK
  <2> QED
    BY <2>1, <2>2, <2>5, <2>6, <2>7 DEF Aged
<1>4. ASSUME NEW s \in Session,
             \/ AdoptStart(s) \/ AcquireWrite(s) \/ Refresh(s)
      PROVE  Aged
  BY <1>1, <1>2, <1>4 DEF AdoptStart, AcquireWrite, Refresh
<1>5. ASSUME NEW s \in Session,
             \/ AcquireStart(s) \/ Poll(s) \/ GiveUp(s) \/ AcquireOk(s)
             \/ AcquireLostRace(s) \/ WriteLands(s) \/ WriteFails(s)
             \/ Update(s) \/ Release(s) \/ Retain(s) \/ ReplaceOk(s)
             \/ ReplaceFails(s) \/ ReplaceLost(s) \/ Watchdog(s) \/ Crash(s)
      PROVE  Aged
  BY <1>1, <1>5
     DEF AcquireStart, Poll, GiveUp, AcquireOk, AcquireLostRace, WriteLands, WriteFails,
         Update, Release, Retain, ReplaceOk, ReplaceFails, ReplaceLost, Watchdog, Crash
<1>6. CASE StrayLands \/ UNCHANGED vars
  BY <1>1, <1>6 DEF StrayLands, vars
<1> QED
  BY <1>3, <1>4, <1>5, <1>6 DEF Next

-----------------------------------------------------------------------------
(* What a step leaves true of locks, of writes and of other sessions *)

LEMMA KnownKept ==
    ASSUME TypeInv, TypeInv', Aged, NEW l \in Lock \cup {NoLock}, KnownLock(l)
    PROVE  KnownLock(l)'
BY DEF KnownLock, Aged, TypeInv, TypeOK

LEMMA KnownStamp ==
    ASSUME TypeInv, NEW l \in Lock, KnownLock(l)
    PROVE  l.stamp \in 0 .. (nextStamp - 1)
BY SentinelsAssumption DEF KnownLock, TypeInv, TypeOK

\* Every step but Tick leaves the time of the locks issued so far alone.
Paused == \A k \in 0 .. (nextStamp - 1) : left'[k] = left[k]

LEMMA StampedPaused ==
    ASSUME TypeInv, NEW s \in Session, Stamped(s)
    PROVE  Paused
BY ValuesAssumption DEF Paused, Stamped, TypeInv, TypeOK, Stamp

LEMMA BelievesKept ==
    ASSUME TypeInv, TypeInv', Aged, Paused, NEW s \in Session,
           NEW l \in Lock \cup {NoLock}, NEW time \in Nat, Believes(s, l, time)
    PROVE  Believes(s, l, time)'
BY DEF Believes, Aged, Paused, TypeInv, TypeOK

LEMMA HarmlessKept ==
    ASSUME TypeInv, TypeInv', Aged, Forward, StampsAreIssued,
           NEW f \in File \cup {NoFile}, NEW g \in File \cup {NoFile},
           KnownLock(LockOf(f)), KnownLock(LockOf(g)), Harmless(f, g)
    PROVE  Harmless(f, g)'
<1>1. LockOf(f) \in Lock \cup {NoLock} /\ LockOf(g) \in Lock \cup {NoLock}
  BY PartTypes
<1>2. CASE LockOf(f) = NoLock
  BY <1>2 DEF Harmless
<1>3. CASE LockOf(f) # NoLock
  <2> DEFINE k == LockOf(f).stamp
  <2>1. k \in 0 .. (nextStamp - 1) /\ k \in Stamp
    BY <1>1, <1>3, KnownStamp DEF Lock
  <2>2. left[k] \in Nat /\ left'[k] \in Nat /\ left'[k] <= left[k] /\ issuer'[k] = issuer[k]
    BY <2>1 DEF Aged, TypeInv, TypeOK
  <2>3. CASE left[k] = 0
    BY <1>3, <2>2, <2>3 DEF Harmless
  <2>4. CASE left[k] # 0 /\ pc[issuer[k]] = "done"
    <3>1. issuer[k] \in Session
      BY <2>1, <2>4 DEF StampsAreIssued, TypeInv, TypeOK
    <3>2. pc'[issuer'[k]] = "done"
      BY <2>2, <2>4, <3>1 DEF Forward
    <3> QED
      BY <3>2 DEF Harmless
  <2>5. CASE left[k] # 0 /\ pc[issuer[k]] # "done"
    <3> DEFINE j == LockOf(g).stamp
    <3>1. LockOf(g) # NoLock /\ issuer[j] = issuer[k] /\ left[k] <= left[j]
      BY <1>3, <2>5 DEF Harmless
    <3>2. j \in 0 .. (nextStamp - 1)
      BY <1>1, <3>1, KnownStamp
    <3>3. issuer'[j] = issuer'[k] /\ left'[k] <= left'[j]
      BY <2>1, <3>1, <3>2 DEF Aged
    <3> QED
      BY <3>1, <3>3 DEF Harmless
  <2> QED
    BY <2>3, <2>4, <2>5
<1> QED
  BY <1>2, <1>3

\* A lock just created is known and believed in.
LEMMA NewLockBelieved ==
    ASSUME TypeInv, TypeInv', NEW s \in Session, Stamped(s),
           NEW l, l = newLock(s), NEW time \in Nat, time <= TTL[s]
    PROVE  /\ Believes(s, l, time)'
           /\ l \in Lock
           /\ left'[l.stamp] = TTL[s]
           /\ issuer'[l.stamp] = s
<1>1. /\ l = [owner |-> Owner[s], stamp |-> nextStamp, ttl |-> TTL[s]]
      /\ nextStamp \in Stamp
      /\ nextStamp \in 1 .. (nextStamp' - 1)
      /\ issuer' = [issuer EXCEPT ![nextStamp] = s]
      /\ left' = [left EXCEPT ![nextStamp] = TTL[s]]
  BY ValuesAssumption DEF Stamped, newLock, TypeInv, TypeOK, Stamp
<1>2. left'[nextStamp] = TTL[s] /\ issuer'[nextStamp] = s
  BY <1>1 DEF TypeInv, TypeOK
<1>3. l \in Lock
  BY StampedType DEF TypeInv
<1> QED
  BY <1>1, <1>2, <1>3 DEF Believes

\* A lock that its session believes in is known.
LEMMA BelievedIsKnown ==
    ASSUME NEW s \in Session, NEW l, NEW time, Believes(s, l, time)
    PROVE  KnownLock(l)
BY DEF Believes, KnownLock

-----------------------------------------------------------------------------
(* Sessions that take no part in a step *)

\* The memory and the phase of t do not change.
Untouched(t) ==
    /\ pc'[t] = pc[t]
    /\ seen'[t] = seen[t]
    /\ observed'[t] = observed[t]
    /\ observedLeft'[t] = observedLeft[t]
    /\ cand'[t] = cand[t]
    /\ candLeft'[t] = candLeft[t]
    /\ owned'[t] = owned[t]
    /\ expiry'[t] = expiry[t]
    /\ pending'[t] = pending[t]
    /\ pendingLeft'[t] = pendingLeft[t]
    /\ cancelled'[t] = cancelled[t]

LEMMA UntouchedClocks ==
    ASSUME TypeInv, TypeInv', Aged, Paused, NEW t \in Session, Untouched(t), ClocksAgree(t)
    PROVE  ClocksAgree(t)'
<1>1. /\ LockOf(seen[t]) \in Lock \cup {NoLock}
      /\ LockOf(cand[t]) \in Lock \cup {NoLock}
      /\ LockOf(owned[t]) \in Lock \cup {NoLock}
      /\ LockOf(pending[t]) \in Lock \cup {NoLock}
      /\ observed[t] \in Lock \cup {NoLock}
      /\ candLeft[t] \in Nat /\ expiry[t] \in Nat /\ pendingLeft[t] \in Nat
  BY PartTypes DEF TypeInv, TypeOK
<1>2. KnownLock(LockOf(seen[t]))' /\ KnownLock(observed[t])'
  BY <1>1, KnownKept DEF ClocksAgree, Untouched
<1>3. /\ Believes(t, LockOf(cand[t]), candLeft[t])'
      /\ Believes(t, LockOf(owned[t]), expiry[t])'
      /\ Believes(t, LockOf(pending[t]), pendingLeft[t])'
  BY <1>1, BelievesKept DEF ClocksAgree, Untouched
<1>4. observed'[t] # NoLock => left'[observed'[t].stamp] <= observedLeft'[t]
  BY <1>1, KnownStamp DEF ClocksAgree, Untouched, Paused
<1> QED
  BY <1>2, <1>3, <1>4 DEF ClocksAgree

LEMMA UntouchedPhase ==
    ASSUME TypeInv, TypeInv', Aged, Paused, Forward, StampsAreIssued,
           NEW t \in Session, Untouched(t), ClocksAgree(t), PhaseIsSound(t)
    PROVE  PhaseIsSound(t)'
<1>1. /\ seen[t] \in File \cup {NoFile}
      /\ cand[t] \in File \cup {NoFile}
      /\ LockOf(seen[t]) \in Lock \cup {NoLock}
      /\ LockOf(cand[t]) \in Lock \cup {NoLock}
  BY PartTypes DEF TypeInv, TypeOK
<1>2. KnownLock(LockOf(seen[t])) /\ KnownLock(LockOf(cand[t]))
  BY BelievedIsKnown DEF ClocksAgree
<1>3. /\ LockOf(seen[t]) # NoLock => LockOf(seen[t]).stamp \in 0 .. (nextStamp - 1)
      /\ LockOf(cand[t]) # NoLock => LockOf(cand[t]).stamp \in 0 .. (nextStamp - 1)
  BY <1>1, <1>2, KnownStamp
<1>4. pc'[t] \in {"acqWrite", "updWrite", "adoptWrite"} => Harmless(seen[t], cand[t])'
  BY <1>1, <1>2, HarmlessKept DEF PhaseIsSound, Untouched
<1>5. pc'[t] = "relWrite" =>
        LockOf(seen'[t]) # NoLock /\ issuer'[LockOf(seen'[t]).stamp] = t
  BY <1>3 DEF PhaseIsSound, Untouched, Aged
<1>6. /\ pc'[t] \in Acquiring \cup {"updWrite", "updVerify", "adoptWrite", "adoptVerify"} =>
           LockOf(cand'[t]) # NoLock
      /\ pc'[t] \in Holding => LockOf(owned'[t]) # NoLock
  BY DEF PhaseIsSound, Untouched
<1>7. Live(t)' <=> Live(t)
  BY DEF Live, Untouched
<1>8. pc'[t] \in {"updWrite", "updVerify"} /\ Live(t)' =>
        expiry'[t] <= left'[LockOf(cand'[t]).stamp]
  BY <1>3, <1>6, <1>7 DEF PhaseIsSound, Untouched, Paused
<1> QED
  BY <1>4, <1>5, <1>6, <1>8 DEF PhaseIsSound

LEMMA UntouchedLive ==
    ASSUME TypeInv, TypeInv', Aged, Paused, FilesAreKnown, NEW t \in Session,
           Untouched(t), LiveIsOwner(t), UNCHANGED remote
    PROVE  LiveIsOwner(t)'
<1>1. LockOf(remote) # NoLock => LockOf(remote).stamp \in 0 .. (nextStamp - 1)
  BY PartTypes, KnownStamp DEF FilesAreKnown, TypeInv, TypeOK
<1>2. Live(t)' <=> Live(t)
  BY DEF Live, Untouched
<1> QED
  BY <1>1, <1>2 DEF LiveIsOwner, Untouched, Aged, Paused

\* The heart of the matter: a harmless write does not end a live session.
LEMMA HarmlessWrite ==
    ASSUME TypeInv, StampsAreIssued, NEW t \in Session, LiveIsOwner(t), Live(t),
           FilesAreKnown, NEW g \in File, Harmless(remote, g)
    PROVE  /\ LockOf(g) # NoLock
           /\ issuer[LockOf(g).stamp] = t
           /\ left[LockOf(remote).stamp] <= left[LockOf(g).stamp]
<1>1. /\ LockOf(remote) # NoLock
      /\ issuer[LockOf(remote).stamp] = t
      /\ expiry[t] <= left[LockOf(remote).stamp]
      /\ expiry[t] > 0
      /\ expiry[t] \in Nat
      /\ pc[t] # "done"
  BY DEF LiveIsOwner, Live, Holding, TypeInv, TypeOK
<1>2. left[LockOf(remote).stamp] # 0
  BY <1>1
<1> QED
  BY <1>1, <1>2 DEF Harmless

LEMMA StampsKept ==
    ASSUME TypeInv, TypeInv', Aged, Forward, StampsAreIssued, UNCHANGED nextStamp
    PROVE  StampsAreIssued'
<1>1. ASSUME NEW k \in 1 .. (nextStamp - 1)
      PROVE  /\ issuer'[k] \in Session
             /\ pc'[issuer'[k]] # "off"
             /\ left'[k] <= TTL[issuer'[k]]
  <2>1. /\ issuer'[k] = issuer[k] /\ left'[k] <= left[k]
        /\ k \in Stamp
    BY ValuesAssumption DEF Aged, TypeInv, TypeOK, Stamp
  <2>2. /\ issuer[k] \in Session
        /\ pc[issuer[k]] # "off"
        /\ left[k] <= TTL[issuer[k]]
    BY DEF StampsAreIssued
  <2>3. left[k] \in Nat /\ left'[k] \in Nat /\ TTL[issuer[k]] \in Nat
    BY <2>1, <2>2, TimesAssumption DEF TypeInv, TypeOK
  <2> QED
    BY <2>1, <2>2, <2>3 DEF Forward
<1>2. left'[0] = 0
  <2>1. 0 \in Stamp /\ 0 \in 0 .. (nextStamp - 1)
    BY ValuesAssumption DEF Stamp, TypeInv, TypeOK
  <2> QED
    BY <2>1 DEF StampsAreIssued, Aged, TypeInv, TypeOK
<1> QED
  BY <1>1, <1>2 DEF StampsAreIssued

LEMMA StampedKept ==
    ASSUME TypeInv, TypeInv', Aged, Paused, Forward, StampsAreIssued,
           NEW s \in Session, Stamped(s), pc'[s] # "off"
    PROVE  StampsAreIssued'
<1>1. /\ nextStamp \in Nat \ {0}
      /\ nextStamp' = nextStamp + 1
      /\ nextStamp \in Stamp
      /\ issuer' = [issuer EXCEPT ![nextStamp] = s]
      /\ left' = [left EXCEPT ![nextStamp] = TTL[s]]
      /\ TTL[s] \in Nat
  BY ValuesAssumption, TimesAssumption DEF Stamped, TypeInv, TypeOK, Stamp
<1>2. ASSUME NEW k \in 1 .. (nextStamp' - 1)
      PROVE  /\ issuer'[k] \in Session
             /\ pc'[issuer'[k]] # "off"
             /\ left'[k] <= TTL[issuer'[k]]
  <2>1. CASE k = nextStamp
    BY <1>1, <2>1 DEF TypeInv, TypeOK
  <2>2. CASE k # nextStamp
    <3>1. k \in 1 .. (nextStamp - 1)
      BY <1>1, <2>2
    <3>2. issuer'[k] = issuer[k] /\ left'[k] = left[k]
      BY <3>1 DEF Aged, Paused
    <3> QED
      BY <3>1, <3>2 DEF StampsAreIssued, Forward
  <2> QED
    BY <2>1, <2>2
<1>3. left'[0] = 0
  BY <1>1 DEF StampsAreIssued, Paused
<1> QED
  BY <1>2, <1>3 DEF StampsAreIssued

LEMMA TurnsKept ==
    ASSUME OwnersTakeTurns,
           \A t \in Session : pc[t] \in {"off", "done"} => pc'[t] \in {"off", "done"}
    PROVE  OwnersTakeTurns'
BY DEF OwnersTakeTurns

LEMMA TurnTaken ==
    ASSUME TypeInv, OwnersTakeTurns, NEW s \in Session,
           \A t \in Session \ {s} : Owner[t] = Owner[s] => pc[t] \in {"off", "done"},
           \A t \in Session \ {s} : pc'[t] = pc[t]
    PROVE  OwnersTakeTurns'
BY DEF OwnersTakeTurns

\* The files and the writes on their way do not change.
LEMMA FilesKept ==
    ASSUME TypeInv, TypeInv', Aged, Forward, StampsAreIssued, FilesAreKnown,
           StraysAreHarmless, UNCHANGED fileVars
    PROVE  FilesAreKnown' /\ StraysAreHarmless'
<1>1. remote' = remote /\ stray' = stray
  BY DEF fileVars
<1>2. LockOf(remote) \in Lock \cup {NoLock}
  BY PartTypes DEF TypeInv, TypeOK
<1>3. KnownLock(LockOf(remote))'
  BY <1>1, <1>2, KnownKept DEF FilesAreKnown
<1>4. ASSUME NEW w \in stray
      PROVE  /\ KnownLock(LockOf(w.cond))' /\ KnownLock(LockOf(w.val))'
             /\ Harmless(w.cond, w.val)'
  <2>1. w.cond \in File \cup {NoFile} /\ w.val \in File
    BY DEF TypeInv, TypeOK
  <2>2. LockOf(w.cond) \in Lock \cup {NoLock} /\ LockOf(w.val) \in Lock \cup {NoLock}
    BY <2>1, PartTypes
  <2>3. KnownLock(LockOf(w.cond)) /\ KnownLock(LockOf(w.val)) /\ Harmless(w.cond, w.val)
    BY DEF FilesAreKnown, StraysAreHarmless
  <2> QED
    BY <2>1, <2>2, <2>3, KnownKept, HarmlessKept
<1> QED
  BY <1>1, <1>3, <1>4 DEF FilesAreKnown, StraysAreHarmless

-----------------------------------------------------------------------------
(* The lease: the steps that leave the remote file alone *)

Sound(t) == ClocksAgree(t) /\ PhaseIsSound(t) /\ LiveIsOwner(t)

\* Only s takes part in the step.
Alone(s) == \A t \in Session \ {s} : Untouched(t)

LEMMA SoundAlone ==
    ASSUME LeaseInvariant, TypeInv, TypeInv', Aged, Paused, Forward,
           NEW s \in Session, UNCHANGED fileVars, Alone(s),
           StampsAreIssued', OwnersTakeTurns', Sound(s)'
    PROVE  LeaseInvariant'
<1>1. FilesAreKnown' /\ StraysAreHarmless'
  BY FilesKept DEF LeaseInvariant
<1>2. ASSUME NEW t \in Session \ {s}
      PROVE  Sound(t)'
  <2>1. Untouched(t) /\ ClocksAgree(t) /\ PhaseIsSound(t) /\ LiveIsOwner(t)
    BY DEF Alone, LeaseInvariant
  <2>2. UNCHANGED remote
    BY DEF fileVars
  <2>3. StampsAreIssued /\ FilesAreKnown
    BY DEF LeaseInvariant
  <2>4. ClocksAgree(t)'
    BY <2>1, UntouchedClocks
  <2>5. PhaseIsSound(t)'
    BY <2>1, <2>3, UntouchedPhase
  <2>6. LiveIsOwner(t)'
    BY <2>1, <2>2, <2>3, UntouchedLive
  <2> QED
    BY <2>4, <2>5, <2>6 DEF Sound
<1> QED
  BY <1>1, <1>2 DEF LeaseInvariant, Sound

LEMMA StampsPaused ==
    ASSUME TypeInv, UNCHANGED stampVars
    PROVE  Paused /\ nextStamp' = nextStamp /\ issuer' = issuer /\ left' = left
BY DEF Paused, stampVars

LEMMA ExitSound ==
    ASSUME TypeInv, NEW s \in Session, Exit(s)
    PROVE  Sound(s)' /\ Alone(s) /\ pc'[s] = "done"
<1>1. /\ pc'[s] = "done" /\ seen'[s] = NoFile /\ observed'[s] = NoLock
      /\ cand'[s] = NoFile /\ owned'[s] = NoFile /\ pending'[s] = NoFile
  BY DEF Exit, TypeInv, TypeOK
<1>2. ~Live(s)'
  BY <1>1 DEF Live, Holding
<1>3. Sound(s)'
  BY <1>1, <1>2
     DEF Sound, ClocksAgree, PhaseIsSound, LiveIsOwner, KnownLock, Believes, LockOf,
         Acquiring, Holding
<1>4. Alone(s)
  BY DEF Exit, Alone, Untouched, TypeInv, TypeOK
<1> QED
  BY <1>1, <1>3, <1>4

\* The session that takes the step had started.
LEMMA StartedTurns ==
    ASSUME TypeInv, LeaseInvariant, NEW s \in Session, Alone(s), pc[s] \notin {"off", "done"}
    PROVE  OwnersTakeTurns'
BY TurnsKept DEF LeaseInvariant, Alone, Untouched

\* The session ends: its memory is gone, and the others do not notice.
LEMMA ExitLease ==
    ASSUME LeaseInvariant, TypeInv, TypeInv', Aged, Forward, NEW s \in Session,
           Exit(s), UNCHANGED <<fileVars, stampVars>>
    PROVE  LeaseInvariant'
<1>1. Sound(s)' /\ Alone(s) /\ pc'[s] = "done"
  BY ExitSound
<1>2. Paused /\ UNCHANGED nextStamp
  BY StampsPaused
<1>3. StampsAreIssued'
  BY <1>2, StampsKept DEF LeaseInvariant
<1>4. OwnersTakeTurns'
  BY <1>1, TurnsKept DEF LeaseInvariant, Alone, Untouched
<1> QED
  BY <1>1, <1>2, <1>3, <1>4, SoundAlone

\* A lock that Acquire reads lasts no longer than the reader will wait for it.
LEMMA ObservedLongEnough ==
    ASSUME TypeInv, StampsAreIssued, NEW s \in Session, NEW l \in Lock, KnownLock(l)
    PROVE  left[l.stamp] <= lockTTL(l, s)
<1>0. l # NoLock /\ TTL[s] \in Nat
  BY SentinelsAssumption, TimesAssumption
<1>1. CASE l = [owner |-> Foreign, stamp |-> 0, ttl |-> 0]
  BY <1>0, <1>1 DEF StampsAreIssued, lockTTL
<1>2. CASE l.stamp \in 1 .. (nextStamp - 1) /\ l.ttl = TTL[issuer[l.stamp]]
  <2>1. /\ issuer[l.stamp] \in Session
        /\ left[l.stamp] <= TTL[issuer[l.stamp]]
    BY <1>2 DEF StampsAreIssued
  <2>2. TTL[issuer[l.stamp]] \in Nat /\ TTL[issuer[l.stamp]] > 0
    BY <2>1, TimesAssumption
  <2> QED
    BY <1>2, <2>1, <2>2 DEF lockTTL
<1> QED
  BY <1>0, <1>1, <1>2 DEF KnownLock

LEMMA FollowSound ==
    ASSUME LeaseInvariant, TypeInv, TypeInv', Aged, Forward, NEW s \in Session,
           Follow(s, remote), UNCHANGED <<fileVars, stampVars>>
    PROVE  Sound(s)' /\ Alone(s)
<1>1. CASE Exit(s)
  BY <1>1, ExitSound
<1>2. CASE ~Exit(s)
  <2> DEFINE l == LockOf(remote)
  <2>1. /\ pc' = [pc EXCEPT ![s] = "waiting"]
        /\ seen' = [seen EXCEPT ![s] = remote]
        /\ cand' = [cand EXCEPT ![s] = NoFile]
        /\ candLeft' = [candLeft EXCEPT ![s] = 0]
        /\ UNCHANGED <<owned, expiry, pending, pendingLeft, cancelled>>
    BY <1>2 DEF Follow, ownVars
  <2>2. \/ UNCHANGED <<observed, observedLeft>>
        \/ /\ l # NoLock
           /\ observed' = [observed EXCEPT ![s] = l]
           /\ observedLeft' = [observedLeft EXCEPT ![s] = lockTTL(l, s)]
    BY <1>2 DEF Follow
  <2>3. Alone(s)
    BY <2>1, <2>2 DEF Alone, Untouched, TypeInv, TypeOK
  <2>4. Paused /\ left' = left
    BY StampsPaused
  <2>5. ~Live(s)' /\ pc'[s] = "waiting" /\ seen'[s] = remote /\ cand'[s] = NoFile
    BY <2>1 DEF Live, Holding, TypeInv, TypeOK
  <2>6. PhaseIsSound(s)' /\ LiveIsOwner(s)'
    BY <2>5 DEF PhaseIsSound, LiveIsOwner, Acquiring, Holding
  <2>7. l \in Lock \cup {NoLock} /\ KnownLock(l)
    BY PartTypes DEF LeaseInvariant, FilesAreKnown, TypeInv, TypeOK
  <2>8. KnownLock(l)'
    BY <2>7, KnownKept DEF fileVars
  <2>9. /\ LockOf(owned[s]) \in Lock \cup {NoLock} /\ LockOf(pending[s]) \in Lock \cup {NoLock}
        /\ expiry[s] \in Nat /\ pendingLeft[s] \in Nat /\ observed[s] \in Lock \cup {NoLock}
    BY PartTypes DEF TypeInv, TypeOK
  <2>10. /\ Believes(s, LockOf(owned[s]), expiry[s])'
         /\ Believes(s, LockOf(pending[s]), pendingLeft[s])'
    BY <2>1, <2>4, <2>9, BelievesKept DEF LeaseInvariant, ClocksAgree
  <2>11. KnownLock(observed[s])'
    <3>1. KnownLock(observed[s])
      BY DEF LeaseInvariant, ClocksAgree
    <3>2. CASE UNCHANGED observed
      BY <2>9, <3>1, <3>2, KnownKept
    <3>3. CASE observed' = [observed EXCEPT ![s] = l]
      <4>1. observed'[s] = l
        BY <3>3 DEF TypeInv, TypeOK
      <4> QED
        BY <2>8, <4>1 DEF KnownLock, fileVars
    <3> QED
      BY <2>2, <3>2, <3>3
  <2>12. observed'[s] # NoLock => left'[observed'[s].stamp] <= observedLeft'[s]
    <3>1. CASE UNCHANGED <<observed, observedLeft>>
      BY <2>4, <3>1 DEF LeaseInvariant, ClocksAgree
    <3>2. CASE ~UNCHANGED <<observed, observedLeft>>
      <4>1. l \in Lock /\ observed'[s] = l /\ observedLeft'[s] = lockTTL(l, s)
        BY <2>2, <2>7, <3>2 DEF TypeInv, TypeOK
      <4>2. left[l.stamp] <= lockTTL(l, s)
        BY <2>7, <4>1, ObservedLongEnough DEF LeaseInvariant
      <4> QED
        BY <2>4, <4>1, <4>2
    <3> QED
      BY <3>1, <3>2
  <2>13. KnownLock(LockOf(seen[s]))'
    BY <2>5, <2>8 DEF KnownLock, fileVars
  <2>14. Believes(s, LockOf(cand[s]), candLeft[s])'
    BY <2>5 DEF Believes, LockOf
  <2> QED
    BY <2>3, <2>6, <2>10, <2>11, <2>12, <2>13, <2>14 DEF Sound, ClocksAgree
<1> QED
  BY <1>1, <1>2

\* A read of Acquire that leads to waiting or to giving up.
LEMMA ReadLease ==
    ASSUME LeaseInvariant, TypeInv, TypeInv', Aged, Forward, NEW s \in Session,
           AcquireStart(s) \/ Poll(s) \/ AcquireLostRace(s)
    PROVE  LeaseInvariant'
<1>1. UNCHANGED <<fileVars, stampVars>>
  BY DEF AcquireStart, Poll, AcquireLostRace
<1>2. CASE Exit(s)
  BY <1>1, <1>2, ExitLease
<1>3. CASE Follow(s, remote)
  <2>1. Sound(s)' /\ Alone(s)
    BY <1>1, <1>3, FollowSound
  <2>2. Paused /\ UNCHANGED nextStamp
    BY <1>1, StampsPaused
  <2>3. StampsAreIssued'
    BY <2>2, StampsKept DEF LeaseInvariant
  <2>4. OwnersTakeTurns'
    <3>1. CASE AcquireStart(s)
      BY <2>1, <3>1, TurnTaken DEF AcquireStart, LeaseInvariant, Alone, Untouched
    <3>2. CASE Poll(s) \/ AcquireLostRace(s)
      BY <2>1, <3>2, StartedTurns DEF Poll, AcquireLostRace
    <3> QED
      BY <3>1, <3>2
  <2> QED
    BY <1>1, <2>1, <2>2, <2>3, <2>4, SoundAlone
<1> QED
  BY <1>2, <1>3 DEF AcquireStart, Poll, AcquireLostRace

-----------------------------------------------------------------------------
(* The lease: new locks *)

\* A session that is neither live nor has a write in progress before the step
\* and issues one whose new lock is cand'[s].
LEMMA NewWriteSound ==
    ASSUME LeaseInvariant, TypeInv, TypeInv', Aged, Forward, NEW s \in Session, Stamped(s),
           Alone(s), pc'[s] \in {"acqWrite", "adoptWrite"},
           LockOf(cand'[s]) = newLock(s), candLeft'[s] = TTL[s],
           seen'[s] = seen[s] \/ seen'[s] = remote,
           observed'[s] = observed[s], observedLeft'[s] = observedLeft[s],
           owned'[s] = owned[s], expiry'[s] = expiry[s],
           \/ pending'[s] = pending[s] /\ pendingLeft'[s] = pendingLeft[s]
           \/ pending'[s] = cand'[s] /\ pendingLeft'[s] = TTL[s],
           Harmless(seen[s], cand[s])'
    PROVE  Sound(s)'
<1>1. Paused /\ TTL[s] \in Nat
  BY StampedPaused, TimesAssumption
<1>2. newLock(s) \in Lock
  BY StampedType DEF TypeInv
<1>3. PICK l : l = newLock(s)
  OBVIOUS
<1>4. Believes(s, l, TTL[s])' /\ l \in Lock
  BY <1>1, <1>3, NewLockBelieved
<1>5. Believes(s, LockOf(cand[s]), candLeft[s])'
  BY <1>3, <1>4 DEF Believes
<1>6. /\ LockOf(owned[s]) \in Lock \cup {NoLock} /\ expiry[s] \in Nat
      /\ LockOf(pending[s]) \in Lock \cup {NoLock} /\ pendingLeft[s] \in Nat
      /\ LockOf(seen[s]) \in Lock \cup {NoLock}
      /\ LockOf(remote) \in Lock \cup {NoLock}
      /\ observed[s] \in Lock \cup {NoLock}
  BY PartTypes DEF TypeInv, TypeOK
<1>7. Believes(s, LockOf(owned[s]), expiry[s])'
  BY <1>1, <1>6, BelievesKept DEF LeaseInvariant, ClocksAgree
<1>8. Believes(s, LockOf(pending[s]), pendingLeft[s])'
  <2>1. CASE pending'[s] = pending[s] /\ pendingLeft'[s] = pendingLeft[s]
    BY <1>1, <1>6, <2>1, BelievesKept DEF LeaseInvariant, ClocksAgree
  <2>2. CASE pending'[s] = cand'[s] /\ pendingLeft'[s] = TTL[s]
    BY <1>5, <2>2
  <2> QED
    BY <2>1, <2>2
<1>9. KnownLock(LockOf(seen[s]))'
  <2>1. KnownLock(LockOf(seen[s])) /\ KnownLock(LockOf(remote))
    BY DEF LeaseInvariant, ClocksAgree, FilesAreKnown
  <2>2. PICK m \in Lock \cup {NoLock} : m = LockOf(seen'[s]) /\ KnownLock(m)
    BY <1>6, <2>1
  <2>3. KnownLock(m)'
    BY <2>2, KnownKept
  <2> QED
    BY <2>2, <2>3 DEF KnownLock
<1>10. KnownLock(observed[s])'
  BY <1>6, KnownKept DEF LeaseInvariant, ClocksAgree
<1>11. observed'[s] # NoLock => left'[observed'[s].stamp] <= observedLeft'[s]
  BY <1>1, <1>6, KnownStamp DEF LeaseInvariant, ClocksAgree, Paused
<1>12. ~Live(s)'
  BY DEF Live, Holding
<1>13. PhaseIsSound(s)'
  BY <1>2, <1>12, SentinelsAssumption DEF PhaseIsSound, Acquiring, Holding
<1> QED
  BY <1>5, <1>7, <1>8, <1>9, <1>10, <1>11, <1>12, <1>13
     DEF Sound, ClocksAgree, LiveIsOwner

LEMMA AcquireWriteLease ==
    ASSUME LeaseInvariant, TypeInv, TypeInv', Aged, Forward, NEW s \in Session,
           AcquireWrite(s)
    PROVE  LeaseInvariant'
<1>1. /\ pc[s] = "waiting"
      /\ LockOf(seen[s]) = NoLock \/ Expired(s)
      /\ Stamped(s)
      /\ pc' = [pc EXCEPT ![s] = "acqWrite"]
      /\ cand' = [cand EXCEPT ![s] = [data |-> DataOf(seen[s]), lock |-> newLock(s)]]
      /\ candLeft' = [candLeft EXCEPT ![s] = TTL[s]]
      /\ UNCHANGED <<observed, observedLeft, seen, owned, expiry, pending, pendingLeft,
                     cancelled, fileVars>>
  BY DEF AcquireWrite, waitVars, ownVars
<1>2. Alone(s)
  BY <1>1 DEF Alone, Untouched, TypeInv, TypeOK
<1>3. [data |-> DataOf(seen[s]), lock |-> newLock(s)] \in File
  BY <1>1, StampedType, PartTypes DEF TypeInv, TypeOK, File
<1>4. LockOf(cand'[s]) = newLock(s) /\ candLeft'[s] = TTL[s] /\ pc'[s] = "acqWrite"
  BY <1>1, <1>3, SentinelsAssumption DEF LockOf, TypeInv, TypeOK
<1>5. Harmless(seen[s], cand[s])'
  <2>1. CASE LockOf(seen[s]) = NoLock
    BY <1>1, <2>1 DEF Harmless
  <2>2. CASE LockOf(seen[s]) # NoLock
    <3>1. /\ LockOf(seen[s]) = observed[s]
          /\ observed[s] \in Lock
          /\ left[observed[s].stamp] <= 0
          /\ KnownLock(observed[s])
      BY <1>1, <2>2 DEF Expired, LeaseInvariant, ClocksAgree, TypeInv, TypeOK
    <3>2. observed[s].stamp \in 0 .. (nextStamp - 1) /\ observed[s].stamp \in Stamp
      BY <3>1, KnownStamp DEF Lock
    <3>3. left'[observed[s].stamp] = 0
      BY <1>1, <3>1, <3>2, StampedPaused DEF Paused, TypeInv, TypeOK
    <3> QED
      BY <1>1, <3>1, <3>3 DEF Harmless
  <2> QED
    BY <2>1, <2>2
<1>6. Sound(s)'
  BY <1>1, <1>2, <1>4, <1>5, NewWriteSound
<1>7. Paused /\ StampsAreIssued'
  BY <1>1, <1>4, StampedPaused, StampedKept DEF LeaseInvariant
<1>8. OwnersTakeTurns'
  BY <1>1, <1>2, StartedTurns
<1> QED
  BY <1>1, <1>2, <1>6, <1>7, <1>8, SoundAlone

LEMMA AdoptStartLease ==
    ASSUME LeaseInvariant, TypeInv, TypeInv', Aged, Forward, NEW s \in Session,
           AdoptStart(s)
    PROVE  LeaseInvariant'
<1>1. /\ pc[s] = "off"
      /\ \A t \in Session \ {s} : Owner[t] = Owner[s] => pc[t] \in {"off", "done"}
      /\ ownedBy(remote, s)
      /\ Stamped(s)
      /\ pc' = [pc EXCEPT ![s] = "adoptWrite"]
      /\ seen' = [seen EXCEPT ![s] = remote]
      /\ cand' = [cand EXCEPT ![s] = [remote EXCEPT !.lock = newLock(s)]]
      /\ candLeft' = [candLeft EXCEPT ![s] = TTL[s]]
      /\ pending' = [pending EXCEPT ![s] = [remote EXCEPT !.lock = newLock(s)]]
      /\ pendingLeft' = [pendingLeft EXCEPT ![s] = TTL[s]]
      /\ UNCHANGED <<observed, observedLeft, owned, expiry, cancelled, fileVars>>
  BY DEF AdoptStart, waitVars
<1>2. Alone(s)
  BY <1>1 DEF Alone, Untouched, TypeInv, TypeOK
<1>3. remote \in File /\ newLock(s) \in Lock
  BY <1>1, StampedType DEF ownedBy, LockOf, TypeInv, TypeOK
<1>4. [remote EXCEPT !.lock = newLock(s)] \in File /\ [remote EXCEPT !.lock = newLock(s)].lock = newLock(s)
  BY <1>3 DEF File
<1>5. /\ cand'[s] = [remote EXCEPT !.lock = newLock(s)] /\ pending'[s] = cand'[s]
      /\ candLeft'[s] = TTL[s] /\ pendingLeft'[s] = TTL[s]
      /\ pc'[s] = "adoptWrite" /\ seen'[s] = remote
  BY <1>1 DEF TypeInv, TypeOK
<1>6. LockOf(cand'[s]) = newLock(s)
  BY <1>4, <1>5, SentinelsAssumption DEF LockOf
<1>7. Harmless(seen[s], cand[s])'
  <2> DEFINE l == LockOf(remote)
  <2>1. l # NoLock /\ l.owner = Owner[s] /\ KnownLock(l)
    BY <1>1 DEF ownedBy, LeaseInvariant, FilesAreKnown
  <2>2. l # [owner |-> Foreign, stamp |-> 0, ttl |-> 0]
    BY <2>1, SessionsAssumption
  <2>3. l.stamp \in 1 .. (nextStamp - 1) /\ l.owner = Owner[issuer[l.stamp]]
    BY <2>1, <2>2 DEF KnownLock
  <2>4. issuer[l.stamp] \in Session /\ pc[issuer[l.stamp]] # "off"
    BY <2>3 DEF LeaseInvariant, StampsAreIssued
  <2>5. pc[issuer[l.stamp]] = "done"
    BY <1>1, <2>1, <2>3, <2>4
  <2>6. issuer'[l.stamp] = issuer[l.stamp]
    BY <2>3 DEF Aged
  <2>7. pc'[issuer'[l.stamp]] = "done"
    BY <2>4, <2>5, <2>6 DEF Forward
  <2> QED
    BY <1>5, <2>7 DEF Harmless
<1>8. Sound(s)'
  BY <1>1, <1>2, <1>5, <1>6, <1>7, NewWriteSound
<1>9. Paused /\ StampsAreIssued'
  BY <1>1, <1>5, StampedPaused, StampedKept DEF LeaseInvariant
<1>10. OwnersTakeTurns'
  BY <1>1, <1>2, TurnTaken DEF LeaseInvariant, Alone, Untouched
<1> QED
  BY <1>1, <1>2, <1>8, <1>9, <1>10, SoundAlone

-----------------------------------------------------------------------------
(* The lease: an operation ends *)

\* An operation of s returns and s holds the lock, with the file it verified
\* now or with the one it had.
LEMMA SettledSound ==
    ASSUME LeaseInvariant, TypeInv, TypeInv', Aged, Forward, NEW s \in Session,
           UNCHANGED stampVars, pc'[s] = "held", OperationOver(s),
           observed'[s] = observed[s], observedLeft'[s] = observedLeft[s],
           \/ owned'[s] = owned[s] /\ expiry'[s] = expiry[s] /\ pc[s] \in Holding
           \/ /\ owned'[s] = cand[s] /\ expiry'[s] = candLeft[s]
              /\ pc[s] \in {"acqVerify", "updVerify", "adoptVerify"},
           \/ pending'[s] = pending[s] /\ pendingLeft'[s] = pendingLeft[s]
           \/ pending'[s] = NoFile
    PROVE  ClocksAgree(s)' /\ PhaseIsSound(s)'
<1>1. Paused /\ left' = left
  BY StampsPaused
<1>2. seen'[s] = NoFile /\ cand'[s] = NoFile
  BY DEF OperationOver, TypeInv, TypeOK
<1>3. /\ LockOf(owned[s]) \in Lock \cup {NoLock} /\ expiry[s] \in Nat
      /\ LockOf(pending[s]) \in Lock \cup {NoLock} /\ pendingLeft[s] \in Nat
      /\ LockOf(cand[s]) \in Lock \cup {NoLock} /\ candLeft[s] \in Nat
      /\ observed[s] \in Lock \cup {NoLock}
  BY PartTypes DEF TypeInv, TypeOK
<1>4. /\ Believes(s, LockOf(owned[s]), expiry[s])
      /\ Believes(s, LockOf(pending[s]), pendingLeft[s])
      /\ Believes(s, LockOf(cand[s]), candLeft[s])
      /\ KnownLock(observed[s])
      /\ observed[s] # NoLock => left[observed[s].stamp] <= observedLeft[s]
  BY DEF LeaseInvariant, ClocksAgree
<1>5. Believes(s, LockOf(owned[s]), expiry[s])'
  BY <1>1, <1>3, <1>4, BelievesKept
<1>6. Believes(s, LockOf(pending[s]), pendingLeft[s])'
  <2>1. CASE pending'[s] = NoFile
    BY <2>1 DEF Believes, LockOf
  <2>2. CASE pending'[s] # NoFile
    BY <1>1, <1>3, <1>4, <2>2, BelievesKept
  <2> QED
    BY <2>1, <2>2
<1>7. KnownLock(observed[s])'
  BY <1>3, <1>4, KnownKept
<1>8. KnownLock(LockOf(seen[s]))' /\ Believes(s, LockOf(cand[s]), candLeft[s])'
  BY <1>2 DEF KnownLock, Believes, LockOf
<1>9. LockOf(owned'[s]) # NoLock
  BY DEF LeaseInvariant, PhaseIsSound, Acquiring
<1>10. PhaseIsSound(s)'
  BY <1>9 DEF PhaseIsSound, Acquiring
<1> QED
  BY <1>1, <1>4, <1>5, <1>6, <1>7, <1>8, <1>10 DEF ClocksAgree

\* Such a step leaves the invariant true if the session still owns the lock.
LEMMA SettledLease ==
    ASSUME LeaseInvariant, TypeInv, TypeInv', Aged, Forward, NEW s \in Session,
           UNCHANGED <<fileVars, stampVars>>, Alone(s), pc[s] \notin {"off", "done"},
           ClocksAgree(s)', PhaseIsSound(s)', LiveIsOwner(s)'
    PROVE  LeaseInvariant'
<1>1. Paused /\ UNCHANGED nextStamp
  BY StampsPaused
<1>2. StampsAreIssued'
  BY <1>1, StampsKept DEF LeaseInvariant
<1>3. OwnersTakeTurns'
  BY StartedTurns
<1> QED
  BY <1>1, <1>2, <1>3, SoundAlone DEF Sound

\* The candidate is in the remote file and becomes the verified file.
LEMMA VerifiedLease ==
    ASSUME LeaseInvariant, TypeInv, TypeInv', Aged, Forward, NEW s \in Session,
           AcquireOk(s) \/ ReplaceOk(s)
    PROVE  LeaseInvariant'
<1>1. CASE Exit(s)
  BY <1>1, ExitLease DEF AcquireOk, ReplaceOk
<1>2. CASE ~Exit(s)
  <2>1. /\ pc[s] \in {"acqVerify", "updVerify", "adoptVerify"}
        /\ remote = cand[s]
        /\ pc' = [pc EXCEPT ![s] = "held"]
        /\ owned' = [owned EXCEPT ![s] = remote]
        /\ expiry' = [expiry EXCEPT ![s] = candLeft[s]]
        /\ OperationOver(s)
        /\ UNCHANGED <<observed, observedLeft, cancelled, fileVars, stampVars>>
    BY <1>2 DEF AcquireOk, ReplaceOk, waitVars
  <2>2. \/ UNCHANGED <<pending, pendingLeft>>
        \/ /\ pending' = [pending EXCEPT ![s] = NoFile]
           /\ pendingLeft' = [pendingLeft EXCEPT ![s] = 0]
    BY <1>2 DEF AcquireOk, ReplaceOk
  <2>3. Alone(s)
    BY <2>1, <2>2 DEF OperationOver, Alone, Untouched, TypeInv, TypeOK
  <2>4. /\ pc'[s] = "held" /\ owned'[s] = cand[s] /\ expiry'[s] = candLeft[s]
        /\ observed'[s] = observed[s] /\ observedLeft'[s] = observedLeft[s]
        /\ \/ pending'[s] = pending[s] /\ pendingLeft'[s] = pendingLeft[s]
           \/ pending'[s] = NoFile
    BY <2>1, <2>2 DEF TypeInv, TypeOK
  <2>5. ClocksAgree(s)' /\ PhaseIsSound(s)'
    BY <2>1, <2>4, SettledSound
  <2>6. LiveIsOwner(s)'
    <3>1. LockOf(remote') # NoLock
      BY <2>1 DEF fileVars, LeaseInvariant, PhaseIsSound, Acquiring
    <3>2. LockOf(remote') = LockOf(owned'[s])
      BY <2>1, <2>4 DEF fileVars
    <3>3. Believes(s, LockOf(owned[s]), expiry[s])'
      BY <2>5 DEF ClocksAgree
    <3> QED
      BY <3>1, <3>2, <3>3 DEF LiveIsOwner, Believes
  <2> QED
    BY <2>1, <2>3, <2>5, <2>6, SettledLease
<1> QED
  BY <1>1, <1>2

\* errLockOwnershipLost: the session is no longer live.
LEMMA OwnershipLostLease ==
    ASSUME LeaseInvariant, TypeInv, TypeInv', Aged, Forward, NEW s \in Session,
           OwnershipLost(s), UNCHANGED stampVars, pc[s] \in Holding
    PROVE  LeaseInvariant'
<1>1. /\ pc' = [pc EXCEPT ![s] = "held"]
      /\ pending' = [pending EXCEPT ![s] = NoFile]
      /\ pendingLeft' = [pendingLeft EXCEPT ![s] = 0]
      /\ cancelled' = [cancelled EXCEPT ![s] = TRUE]
      /\ OperationOver(s)
      /\ UNCHANGED <<observed, observedLeft, owned, expiry, fileVars>>
  BY DEF OwnershipLost, waitVars
<1>2. Alone(s)
  BY <1>1 DEF OperationOver, Alone, Untouched, TypeInv, TypeOK
<1>3. pc'[s] = "held" /\ pending'[s] = NoFile /\ cancelled'[s]
  BY <1>1 DEF TypeInv, TypeOK
<1>4. ClocksAgree(s)' /\ PhaseIsSound(s)'
  BY <1>1, <1>3, SettledSound
<1>5. LiveIsOwner(s)'
  BY <1>3 DEF LiveIsOwner, Live
<1> QED
  BY <1>1, <1>2, <1>4, <1>5, SettledLease DEF Holding

\* The operation fails and the candidate stays pending.
LEMMA ReplaceFailsLease ==
    ASSUME LeaseInvariant, TypeInv, TypeInv', Aged, Forward, NEW s \in Session,
           ReplaceFails(s)
    PROVE  LeaseInvariant'
<1>1. CASE Exit(s)
  BY <1>1, ExitLease DEF ReplaceFails
<1>2. CASE ~Exit(s)
  <2>1. /\ pc[s] = "updVerify"
        /\ pc' = [pc EXCEPT ![s] = "held"]
        /\ OperationOver(s)
        /\ UNCHANGED <<observed, observedLeft, owned, expiry, pending, pendingLeft,
                       cancelled, fileVars, stampVars>>
    BY <1>2 DEF ReplaceFails, waitVars, ownVars
  <2>2. Alone(s)
    BY <2>1 DEF OperationOver, Alone, Untouched, TypeInv, TypeOK
  <2>3. pc'[s] = "held"
    BY <2>1 DEF TypeInv, TypeOK
  <2>4. ClocksAgree(s)' /\ PhaseIsSound(s)'
    BY <2>1, <2>3, SettledSound DEF Holding
  <2>5. Live(s)' => Live(s)
    BY <2>1 DEF Live, Holding
  <2>6. LiveIsOwner(s)'
    BY <2>1, <2>5 DEF LeaseInvariant, LiveIsOwner, fileVars, stampVars
  <2> QED
    BY <2>1, <2>2, <2>4, <2>6, SettledLease
<1> QED
  BY <1>1, <1>2

LEMMA WatchdogLease ==
    ASSUME LeaseInvariant, TypeInv, TypeInv', Aged, Forward, NEW s \in Session,
           Watchdog(s)
    PROVE  LeaseInvariant'
<1>1. /\ pc[s] \in Holding
      /\ cancelled' = [cancelled EXCEPT ![s] = TRUE]
      /\ UNCHANGED <<fileVars, observed, observedLeft, seen, cand, candLeft,
                     owned, expiry, pending, pendingLeft, pc, stampVars>>
  BY DEF Watchdog, waitVars, candVars, ownVars
<1>2. Alone(s)
  BY <1>1 DEF Alone, Untouched, TypeInv, TypeOK
<1>3. ~Live(s)'
  BY <1>1 DEF Live, TypeInv, TypeOK
<1>4. UNCHANGED <<nextStamp, issuer, left>>
  BY <1>1 DEF stampVars
<1>5. ClocksAgree(s)'
  BY <1>1, <1>4 DEF LeaseInvariant, ClocksAgree, KnownLock, Believes
<1>6. PhaseIsSound(s)'
  BY <1>1, <1>3, <1>4 DEF LeaseInvariant, PhaseIsSound, Harmless
<1> QED
  BY <1>1, <1>2, <1>3, <1>5, <1>6, SettledLease DEF LiveIsOwner, Holding

-----------------------------------------------------------------------------
(* The lease: an update of the remote file begins *)

\* The file that replaceOwnedRemote accepts carries a lock that s issued.
LEMMA OwnedIsIssued ==
    ASSUME LeaseInvariant, TypeInv, NEW s \in Session, StillOwned(s)
    PROVE  /\ remote \in File
           /\ remote.lock \in Lock
           /\ LockOf(remote) = remote.lock
           /\ remote.lock.stamp \in 1 .. (nextStamp - 1)
           /\ issuer[remote.lock.stamp] = s
           /\ IsPending(s) => Believes(s, remote.lock, pendingLeft[s])
           /\ ~IsPending(s) => remote = owned[s] /\ Believes(s, remote.lock, expiry[s])
<1>1. /\ remote \in File /\ remote.lock \in Lock /\ remote.lock # NoLock
      /\ LockOf(remote) = remote.lock
  BY SentinelsAssumption DEF StillOwned, ownedBy, LockOf, TypeInv, TypeOK, File
<1>2. IsPending(s) => Believes(s, remote.lock, pendingLeft[s])
  BY <1>1 DEF IsPending, LeaseInvariant, ClocksAgree
<1>3. ~IsPending(s) => remote = owned[s] /\ Believes(s, remote.lock, expiry[s])
  BY <1>1 DEF StillOwned, LeaseInvariant, ClocksAgree
<1> QED
  BY <1>1, <1>2, <1>3 DEF Believes

\* What BeginReplace assigns, for a candidate file g with its time.
Replaces(s, g, time, next) ==
    /\ cand' = [cand EXCEPT ![s] = g]
    /\ candLeft' = [candLeft EXCEPT ![s] = time]
    /\ pending' = [pending EXCEPT ![s] = g]
    /\ pendingLeft' = [pendingLeft EXCEPT ![s] = time]
    /\ seen' = [seen EXCEPT ![s] = remote]
    /\ pc' = [pc EXCEPT ![s] = next]
    /\ UNCHANGED <<fileVars, observed, observedLeft, owned, expiry, cancelled>>

LEMMA ReplaceBegins ==
    ASSUME NEW s \in Session, NEW d, NEW l, NEW next, BeginReplace(s, d, l, next)
    PROVE  /\ Replaces(s, [data |-> d, lock |-> KeptLock(s, l)],
                       CandidateLeft(s, KeptLock(s, l)), next)
           /\ StillOwned(s)
BY DEF BeginReplace, Replaces, waitVars

LEMMA ReplacesAlone ==
    ASSUME TypeInv, NEW s \in Session, NEW g, NEW time, NEW next, Replaces(s, g, time, next)
    PROVE  /\ Alone(s)
           /\ pc'[s] = next /\ seen'[s] = remote /\ cand'[s] = g /\ candLeft'[s] = time
           /\ pending'[s] = g /\ pendingLeft'[s] = time
BY DEF Replaces, Alone, Untouched, TypeInv, TypeOK

\* The clocks of s agree after the first half of an update if they do for its
\* candidate.
LEMMA ReplacesClocks ==
    ASSUME LeaseInvariant, TypeInv, TypeInv', Aged, Paused, NEW s \in Session, NEW g,
           NEW time, NEW next, Replaces(s, g, time, next), Believes(s, LockOf(g), time)'
    PROVE  ClocksAgree(s)'
<1>1. /\ seen'[s] = remote /\ cand'[s] = g /\ candLeft'[s] = time
      /\ pending'[s] = g /\ pendingLeft'[s] = time
      /\ UNCHANGED <<observed, observedLeft, owned, expiry>>
  BY ReplacesAlone DEF Replaces
<1>2. /\ LockOf(owned[s]) \in Lock \cup {NoLock} /\ expiry[s] \in Nat
      /\ LockOf(remote) \in Lock \cup {NoLock}
      /\ observed[s] \in Lock \cup {NoLock}
  BY PartTypes DEF TypeInv, TypeOK
<1>3. /\ Believes(s, LockOf(owned[s]), expiry[s])
      /\ KnownLock(LockOf(remote)) /\ KnownLock(observed[s])
      /\ observed[s] # NoLock => left[observed[s].stamp] <= observedLeft[s]
  BY DEF LeaseInvariant, ClocksAgree, FilesAreKnown
<1>4. Believes(s, LockOf(owned[s]), expiry[s])'
  BY <1>1, <1>2, <1>3, BelievesKept
<1>5. KnownLock(observed[s])'
  BY <1>1, <1>2, <1>3, KnownKept
<1>6. KnownLock(LockOf(seen[s]))'
  <2>1. PICK m \in Lock \cup {NoLock} : m = LockOf(remote) /\ KnownLock(m)
    BY <1>2, <1>3
  <2>2. KnownLock(m)'
    BY <2>1, KnownKept
  <2> QED
    BY <1>1, <2>1, <2>2 DEF KnownLock
<1>7. observed'[s] # NoLock => left'[observed'[s].stamp] <= observedLeft'[s]
  BY <1>1, <1>2, <1>3, KnownStamp DEF Paused
<1>8. Believes(s, LockOf(cand[s]), candLeft[s])' /\ Believes(s, LockOf(pending[s]), pendingLeft[s])'
  BY <1>1 DEF Believes
<1> QED
  BY <1>4, <1>5, <1>6, <1>7, <1>8 DEF ClocksAgree

\* A refresh writes a new lock around the old data: it prolongs the lease.
LEMMA RefreshLease ==
    ASSUME LeaseInvariant, TypeInv, TypeInv', Aged, Forward, NEW s \in Session,
           Refresh(s)
    PROVE  LeaseInvariant'
<1>1. CASE OwnershipLost(s) /\ UNCHANGED stampVars
  BY <1>1, OwnershipLostLease DEF Refresh, Holding
<1>2. CASE BeginReplace(s, owned[s].data, newLock(s), "updWrite") /\ Stamped(s)
  <2> DEFINE g == [data |-> owned[s].data, lock |-> newLock(s)]
  <2>1. Paused /\ TTL[s] \in Nat /\ newLock(s) \in Lock /\ newLock(s) # NoLock
    BY <1>2, StampedPaused, StampedType, TimesAssumption, SentinelsAssumption DEF TypeInv
  <2>2. /\ StillOwned(s)
        /\ Replaces(s, [data |-> owned[s].data, lock |-> KeptLock(s, newLock(s))],
                    CandidateLeft(s, KeptLock(s, newLock(s))), "updWrite")
    BY <1>2, ReplaceBegins
  <2>3. /\ remote \in File
        /\ remote.lock \in Lock
        /\ LockOf(remote) = remote.lock
        /\ remote.lock.stamp \in 1 .. (nextStamp - 1)
        /\ issuer[remote.lock.stamp] = s
    BY <2>2, OwnedIsIssued
  <2>4. /\ owned[s] \in File /\ LockOf(owned[s]) = owned[s].lock
        /\ owned[s].lock.stamp \in 1 .. (nextStamp - 1)
        /\ issuer[owned[s].lock.stamp] = s
        /\ expiry[s] <= left[owned[s].lock.stamp]
    <3>1. pc[s] \in Holding
      BY DEF Refresh, Holding
    <3>2. owned[s] # NoFile /\ LockOf(owned[s]) # NoLock
      BY <3>1 DEF LeaseInvariant, PhaseIsSound, LockOf, TypeInv, HasFiles
    <3>3. Believes(s, LockOf(owned[s]), expiry[s])
      BY DEF LeaseInvariant, ClocksAgree
    <3> QED
      BY <3>2, <3>3 DEF Believes, LockOf, TypeInv, TypeOK
  <2>5. newLock(s).stamp = nextStamp /\ newLock(s).ttl = TTL[s]
    BY DEF newLock
  <2>6. nextStamp \notin 1 .. (nextStamp - 1)
    BY DEF TypeInv, TypeOK
  <2>7. newLock(s) # owned[s].lock /\ newLock(s) # remote.lock
    BY <2>3, <2>4, <2>5, <2>6
  <2>8. KeptLock(s, newLock(s)) = newLock(s) /\ CandidateLeft(s, newLock(s)) = TTL[s]
    BY <2>1, <2>5, <2>7 DEF KeptLock, CandidateLeft
  <2>9. Replaces(s, g, TTL[s], "updWrite")
    BY <2>2, <2>8
  <2>10. g \in File
    BY <2>1, <2>4 DEF File
  <2> HIDE DEF g
  <2>11. PICK l : l = newLock(s) /\ l = LockOf(g)
    BY <2>10, SentinelsAssumption DEF LockOf, g
  <2>12. Believes(s, l, TTL[s])' /\ left'[l.stamp] = TTL[s] /\ issuer'[l.stamp] = s
    <3>1. Stamped(s) /\ l = newLock(s) /\ TTL[s] \in Nat /\ TTL[s] <= TTL[s]
      BY <1>2, <2>1, <2>11
    <3> QED
      BY <3>1, NewLockBelieved
  <2>13. PICK h : h = g
    OBVIOUS
  <2>14. ClocksAgree(s)'
    <3>1. Believes(s, LockOf(h), TTL[s])'
      BY <2>11, <2>12, <2>13 DEF Believes, LockOf
    <3> QED
      BY <2>1, <2>9, <2>13, <3>1, ReplacesClocks
  <2>15. /\ Alone(s) /\ pc'[s] = "updWrite" /\ seen'[s] = remote /\ LockOf(cand'[s]) = l
         /\ LockOf(owned'[s]) # NoLock /\ expiry'[s] = expiry[s]
    <3>1. LockOf(owned[s]) # NoLock
      BY DEF LeaseInvariant, PhaseIsSound, Refresh, Holding
    <3> QED
      BY <2>9, <2>11, <3>1, ReplacesAlone DEF Replaces
  <2>16. left'[remote.lock.stamp] <= TTL[s] /\ issuer'[remote.lock.stamp] = s
    <3>1. left'[remote.lock.stamp] = left[remote.lock.stamp] /\ issuer'[remote.lock.stamp] = s
      BY <2>1, <2>3 DEF Paused, Aged
    <3> QED
      BY <2>3, <3>1 DEF LeaseInvariant, StampsAreIssued
  <2>17. expiry[s] <= TTL[s]
    <3>1. left[owned[s].lock.stamp] <= TTL[s]
      BY <2>4 DEF LeaseInvariant, StampsAreIssued
    <3>2. owned[s].lock.stamp \in Stamp
      <4>1. 1 .. (nextStamp - 1) \subseteq Stamp
        BY ValuesAssumption DEF TypeInv, TypeOK, Stamp
      <4> QED
        BY <2>4, <4>1
    <3>3. left[owned[s].lock.stamp] \in Nat /\ expiry[s] \in Nat
      BY <3>2 DEF TypeInv, TypeOK
    <3> QED
      BY <2>1, <2>4, <3>1, <3>3
  <2>18. Harmless(seen[s], cand[s])'
    BY <2>1, <2>3, <2>11, <2>12, <2>15, <2>16 DEF Harmless
  <2>19. PhaseIsSound(s)'
    BY <2>1, <2>11, <2>12, <2>15, <2>17, <2>18 DEF PhaseIsSound
  <2>20. LiveIsOwner(s)'
    <3>1. UNCHANGED <<remote, expiry, cancelled>>
      BY <2>9 DEF Replaces, fileVars
    <3>2. Live(s)' => Live(s)
      BY <3>1 DEF Live, Refresh, Holding
    <3>3. left'[remote.lock.stamp] = left[remote.lock.stamp]
      BY <2>1, <2>3 DEF Paused
    <3> QED
      BY <2>3, <2>16, <3>1, <3>2, <3>3 DEF LeaseInvariant, LiveIsOwner
  <2>21. StampsAreIssued' /\ OwnersTakeTurns'
    BY <1>2, <2>1, <2>15, StampedKept, StartedTurns DEF LeaseInvariant, Refresh
  <2>22. UNCHANGED fileVars
    BY <2>9 DEF Replaces
  <2> QED
    BY <2>1, <2>14, <2>15, <2>19, <2>20, <2>21, <2>22, SoundAlone DEF Sound
<1> QED
  BY <1>1, <1>2 DEF Refresh

\* New data under the lock that is in the remote file, whichever of the two
\* known ones that is.
LEMMA UpdateLease ==
    ASSUME LeaseInvariant, TypeInv, TypeInv', Aged, Forward, NEW s \in Session,
           Update(s)
    PROVE  LeaseInvariant'
<1>0. UNCHANGED stampVars /\ pc[s] = "held" /\ pc[s] \in Holding
  BY DEF Update, Holding
<1>1. CASE OwnershipLost(s)
  BY <1>0, <1>1, OwnershipLostLease
<1>2. ASSUME NEW d \in Data, BeginReplace(s, d, owned[s].lock, "updWrite")
      PROVE  LeaseInvariant'
  <2> DEFINE lock == remote.lock
             g == [data |-> d, lock |-> lock]
             time == CandidateLeft(s, lock)
  <2>1. Paused /\ UNCHANGED <<nextStamp, issuer, left>>
    BY <1>0, StampsPaused
  <2>2. /\ StillOwned(s)
        /\ Replaces(s, [data |-> d, lock |-> KeptLock(s, owned[s].lock)],
                    CandidateLeft(s, KeptLock(s, owned[s].lock)), "updWrite")
    BY <1>2, ReplaceBegins
  <2>3. /\ remote \in File
        /\ lock \in Lock /\ lock # NoLock
        /\ LockOf(remote) = lock
        /\ lock.stamp \in 1 .. (nextStamp - 1)
        /\ issuer[lock.stamp] = s
        /\ IsPending(s) => Believes(s, lock, pendingLeft[s])
        /\ ~IsPending(s) => remote = owned[s] /\ Believes(s, lock, expiry[s])
    BY <2>2, OwnedIsIssued, SentinelsAssumption
  <2>4. KeptLock(s, owned[s].lock) = lock
    BY <2>3 DEF KeptLock
  <2>5. Believes(s, lock, time) /\ time \in Nat
    BY <2>3 DEF CandidateLeft, TypeInv, TypeOK
  <2>6. Replaces(s, g, time, "updWrite")
    BY <2>2, <2>4
  <2>7. g \in File /\ LockOf(g) = lock
    BY <2>3, SentinelsAssumption DEF File, LockOf
  <2> HIDE DEF lock, g, time
  <2>8. PICK h, l, n : h = g /\ l = lock /\ n = time
    OBVIOUS
  <2>9. Believes(s, LockOf(h), n)'
    BY <2>1, <2>5, <2>7, <2>8 DEF Believes, LockOf
  <2>10. ClocksAgree(s)'
    BY <2>1, <2>6, <2>8, <2>9, ReplacesClocks
  <2>11. /\ Alone(s) /\ pc'[s] = "updWrite" /\ seen'[s] = remote /\ cand'[s] = g
    BY <2>6, ReplacesAlone
  <2>12. UNCHANGED <<owned, expiry, cancelled, remote, fileVars>>
    BY <2>6 DEF Replaces, fileVars
  <2>13. left[lock.stamp] \in Nat
    <3>1. lock.stamp \in Stamp
      BY <2>3 DEF Lock
    <3> QED
      BY <3>1 DEF TypeInv, TypeOK
  <2>14. Harmless(seen[s], cand[s])'
    BY <2>1, <2>3, <2>7, <2>11, <2>13 DEF Harmless
  <2>15. Live(s)' => Live(s)
    BY <1>0, <2>12 DEF Live
  <2>16. LiveIsOwner(s)'
    BY <2>1, <2>12, <2>15 DEF LeaseInvariant, LiveIsOwner
  <2>17. LockOf(owned'[s]) # NoLock
    BY <1>0, <2>12 DEF LeaseInvariant, PhaseIsSound
  <2>18. Live(s)' => expiry'[s] <= left'[LockOf(cand'[s]).stamp]
    BY <2>3, <2>7, <2>11, <2>12, <2>16 DEF LiveIsOwner
  <2>19. PhaseIsSound(s)'
    BY <2>3, <2>7, <2>11, <2>14, <2>17, <2>18 DEF PhaseIsSound
  <2> QED
    BY <1>0, <2>10, <2>11, <2>12, <2>16, <2>19, SettledLease
<1> QED
  BY <1>1, <1>2 DEF Update

\* Close begins to clear the lock: the session is no longer live.
LEMMA ReleaseLease ==
    ASSUME LeaseInvariant, TypeInv, TypeInv', Aged, Forward, NEW s \in Session,
           Release(s)
    PROVE  LeaseInvariant'
<1>0. UNCHANGED stampVars /\ pc[s] = "held" /\ pc[s] \in Holding
  BY DEF Release, Holding
<1>1. CASE Exit(s) /\ UNCHANGED fileVars
  BY <1>0, <1>1, ExitLease
<1>2. CASE BeginReplace(s, owned[s].data, NoLock, "relWrite")
  <2> DEFINE g == [data |-> owned[s].data, lock |-> NoLock]
  <2>1. Paused /\ UNCHANGED <<nextStamp, issuer, left>>
    BY <1>0, StampsPaused
  <2>2. /\ StillOwned(s)
        /\ Replaces(s, [data |-> owned[s].data, lock |-> KeptLock(s, NoLock)],
                    CandidateLeft(s, KeptLock(s, NoLock)), "relWrite")
    BY <1>2, ReplaceBegins
  <2>3. owned[s] # NoFile /\ owned[s].lock # NoLock
    BY <1>0 DEF LeaseInvariant, PhaseIsSound, LockOf, TypeInv, HasFiles
  <2>4. KeptLock(s, NoLock) = NoLock /\ CandidateLeft(s, NoLock) = 0
    BY <2>3 DEF KeptLock, CandidateLeft
  <2>5. Replaces(s, g, 0, "relWrite")
    BY <2>2, <2>4
  <2>6. LockOf(g) = NoLock
    <3>1. g \in File
      BY <2>3 DEF File, TypeInv, TypeOK
    <3> QED
      BY <3>1, SentinelsAssumption DEF LockOf
  <2> HIDE DEF g
  <2>7. PICK h : h = g
    OBVIOUS
  <2>8. Believes(s, LockOf(h), 0)'
    BY <2>6, <2>7 DEF Believes, LockOf
  <2>9. ClocksAgree(s)'
    BY <2>1, <2>5, <2>7, <2>8, ReplacesClocks
  <2>10. Alone(s) /\ pc'[s] = "relWrite" /\ seen'[s] = remote
    BY <2>5, ReplacesAlone
  <2>11. /\ LockOf(remote) # NoLock
         /\ issuer[LockOf(remote).stamp] = s
    BY <2>2, OwnedIsIssued, SentinelsAssumption
  <2>12. ~Live(s)'
    BY <2>10 DEF Live, Holding
  <2>13. PhaseIsSound(s)'
    BY <2>1, <2>10, <2>11, <2>12 DEF PhaseIsSound, Acquiring, Holding
  <2>14. UNCHANGED fileVars
    BY <2>5 DEF Replaces
  <2> QED
    BY <1>0, <2>9, <2>10, <2>12, <2>13, <2>14, SettledLease DEF LiveIsOwner
<1> QED
  BY <1>1, <1>2 DEF Release

-----------------------------------------------------------------------------
(* The lease: writes take effect or fail *)

\* The answer to a write changes the phase of its session; a session that is
\* live after it was updating the file, and was live before.
LEMMA WriteReturnsSound ==
    ASSUME LeaseInvariant, TypeInv, TypeInv', Aged, Forward, NEW s \in Session,
           NEW err \in BOOLEAN, WriteReturns(s, err), UNCHANGED stampVars
    PROVE  /\ ClocksAgree(s)' /\ PhaseIsSound(s)' /\ Alone(s)
           /\ Live(s)' => Live(s) /\ pc[s] = "updWrite" /\ expiry'[s] = expiry[s]
           /\ pc[s] = "relWrite" /\ err => pc'[s] = "done"
           /\ pc[s] \notin {"off", "done"}
<1>0. pc[s] \in Writing
  BY DEF WriteReturns, Writing
<1>1. CASE Exit(s)
  <2>1. Sound(s)' /\ Alone(s) /\ pc'[s] = "done"
    BY <1>1, ExitSound
  <2> QED
    BY <1>0, <2>1 DEF Sound, Live, Holding, Writing
<1>2. CASE pc[s] = "updWrite" /\ err /\ ~Exit(s)
  <2>1. /\ pc' = [pc EXCEPT ![s] = "held"]
        /\ OperationOver(s)
        /\ UNCHANGED <<observed, observedLeft, owned, expiry, pending, pendingLeft, cancelled>>
    BY <1>2 DEF WriteReturns, waitVars, ownVars
  <2>2. Alone(s)
    BY <2>1 DEF OperationOver, Alone, Untouched, TypeInv, TypeOK
  <2>3. pc'[s] = "held"
    BY <2>1 DEF TypeInv, TypeOK
  <2>4. ClocksAgree(s)' /\ PhaseIsSound(s)'
    BY <1>2, <2>1, <2>3, SettledSound DEF Holding
  <2>5. Live(s)' => Live(s) /\ expiry'[s] = expiry[s]
    BY <1>2, <2>1 DEF Live, Holding
  <2> QED
    BY <1>2, <2>2, <2>4, <2>5
<1>3. CASE ~Exit(s) /\ ~(pc[s] = "updWrite" /\ err)
  <2>1. /\ \/ pc[s] = "acqWrite" /\ pc' = [pc EXCEPT ![s] = "acqVerify"]
           \/ pc[s] = "updWrite" /\ pc' = [pc EXCEPT ![s] = "updVerify"]
           \/ pc[s] = "adoptWrite" /\ pc' = [pc EXCEPT ![s] = "adoptVerify"]
           \/ pc[s] = "relWrite" /\ ~err /\ pc' = [pc EXCEPT ![s] = "relVerify"]
        /\ UNCHANGED <<observed, observedLeft, seen, cand, candLeft, owned, expiry,
                       pending, pendingLeft, cancelled>>
    BY <1>3 DEF WriteReturns, waitVars, candVars, ownVars
  <2>2. Alone(s)
    BY <2>1 DEF Alone, Untouched, TypeInv, TypeOK
  <2>3. /\ pc[s] = "acqWrite" => pc'[s] = "acqVerify"
        /\ pc[s] = "updWrite" => pc'[s] = "updVerify"
        /\ pc[s] = "adoptWrite" => pc'[s] = "adoptVerify"
        /\ pc[s] = "relWrite" => pc'[s] = "relVerify" /\ ~err
    BY <2>1 DEF TypeInv, TypeOK
  <2>4. UNCHANGED <<nextStamp, issuer, left>>
    BY DEF stampVars
  <2>5. ClocksAgree(s)'
    BY <2>1, <2>4 DEF LeaseInvariant, ClocksAgree, KnownLock, Believes
  <2>6. Live(s)' => Live(s) /\ pc[s] = "updWrite" /\ expiry'[s] = expiry[s]
    BY <1>0, <2>1, <2>3 DEF Live, Holding, Writing
  <2>7. PhaseIsSound(s)'
    BY <1>0, <2>1, <2>3, <2>4, <2>6 DEF LeaseInvariant, PhaseIsSound, Acquiring, Holding, Writing
  <2> QED
    BY <1>0, <2>2, <2>3, <2>5, <2>6, <2>7 DEF Writing
<1> QED
  BY <1>1, <1>2, <1>3

\* The sessions other than s keep their clocks and their phases.
LEMMA OthersKept ==
    ASSUME LeaseInvariant, TypeInv, TypeInv', Aged, Paused, Forward,
           NEW s \in Session, Alone(s), NEW t \in Session \ {s}
    PROVE  ClocksAgree(t)' /\ PhaseIsSound(t)'
<1>1. Untouched(t) /\ ClocksAgree(t) /\ PhaseIsSound(t) /\ StampsAreIssued
  BY DEF Alone, LeaseInvariant
<1> QED
  BY <1>1, UntouchedClocks, UntouchedPhase

\* The file a session writes is one it may write, or it releases its own lock.
LEMMA WriteIsHarmless ==
    ASSUME LeaseInvariant, TypeInv, NEW s \in Session, pc[s] \in Writing
    PROVE  \/ Harmless(seen[s], cand[s])
           \/ /\ pc[s] = "relWrite" /\ LockOf(seen[s]) # NoLock
              /\ issuer[LockOf(seen[s]).stamp] = s
BY DEF LeaseInvariant, PhaseIsSound, Writing

\* A conditional write takes effect: it replaces the file it was made from, so
\* no other session loses a lease in which it believes.
LEMMA WriteLandsLease ==
    ASSUME LeaseInvariant, TypeInv, TypeInv', Aged, Forward, Conditional,
           NEW s \in Session, WriteLands(s)
    PROVE  LeaseInvariant'
<1>1. /\ pc[s] \in Writing /\ remote = seen[s] /\ remote' = cand[s]
      /\ stray' = stray /\ UNCHANGED stampVars
  BY DEF WriteLands, Precondition
<1>2. PICK err \in BOOLEAN : WriteReturns(s, err)
  BY DEF WriteLands
<1>3. Paused /\ UNCHANGED <<nextStamp, issuer, left>>
  BY <1>1, StampsPaused
<1>4. /\ ClocksAgree(s)' /\ PhaseIsSound(s)' /\ Alone(s)
      /\ Live(s)' => Live(s) /\ pc[s] = "updWrite" /\ expiry'[s] = expiry[s]
      /\ pc[s] \notin {"off", "done"}
  BY <1>1, <1>2, WriteReturnsSound
<1>5. StampsAreIssued' /\ OwnersTakeTurns'
  BY <1>3, <1>4, StampsKept, StartedTurns DEF LeaseInvariant
<1>6. cand[s] \in File /\ LockOf(cand[s]) \in Lock \cup {NoLock}
  BY <1>1, PartTypes DEF TypeInv, TypeOK, HasFiles
<1>7. Believes(s, LockOf(cand[s]), candLeft[s])
  BY DEF LeaseInvariant, ClocksAgree
<1>8. FilesAreKnown' /\ StraysAreHarmless'
  <2>1. KnownLock(LockOf(cand[s]))
    BY <1>7, BelievedIsKnown
  <2>2. KnownLock(LockOf(remote))'
    BY <1>1, <1>3, <2>1 DEF KnownLock
  <2>3. ASSUME NEW w \in stray
        PROVE  /\ KnownLock(LockOf(w.cond))' /\ KnownLock(LockOf(w.val))'
               /\ Harmless(w.cond, w.val)'
    <3>1. w.cond \in File \cup {NoFile} /\ w.val \in File
      BY DEF TypeInv, TypeOK
    <3>2. /\ KnownLock(LockOf(w.cond)) /\ KnownLock(LockOf(w.val))
          /\ Harmless(w.cond, w.val) /\ StampsAreIssued
      BY DEF LeaseInvariant, FilesAreKnown, StraysAreHarmless
    <3>3. Harmless(w.cond, w.val)'
      BY <3>1, <3>2, HarmlessKept
    <3> QED
      BY <1>3, <3>2, <3>3 DEF KnownLock
  <2> QED
    BY <1>1, <2>2, <2>3 DEF FilesAreKnown, StraysAreHarmless
<1>9. LiveIsOwner(s)'
  <2>1. Live(s)' => /\ LockOf(cand[s]) # NoLock
                    /\ expiry[s] <= left[LockOf(cand[s]).stamp]
    BY <1>4 DEF LeaseInvariant, PhaseIsSound
  <2> QED
    BY <1>1, <1>3, <1>4, <1>7, <2>1 DEF LiveIsOwner, Believes
<1>10. ASSUME NEW t \in Session \ {s}
       PROVE  LiveIsOwner(t)'
  <2>1. Untouched(t) /\ LiveIsOwner(t) /\ StampsAreIssued /\ FilesAreKnown
    BY <1>4 DEF Alone, LeaseInvariant
  <2>2. Live(t)' => Live(t) /\ expiry'[t] = expiry[t]
    BY <2>1 DEF Untouched, Live
  <2>3. CASE Live(t)
    <3>1. LockOf(remote) # NoLock /\ issuer[LockOf(remote).stamp] = t
          /\ expiry[t] <= left[LockOf(remote).stamp]
      BY <2>1, <2>3 DEF LiveIsOwner
    <3>2. Harmless(remote, cand[s])
      BY <1>1, <3>1, WriteIsHarmless
    <3>3. /\ LockOf(cand[s]) # NoLock
          /\ issuer[LockOf(cand[s]).stamp] = t
          /\ left[LockOf(remote).stamp] <= left[LockOf(cand[s]).stamp]
      BY <1>6, <2>1, <2>3, <3>2, HarmlessWrite
    <3>4. FALSE
      BY <1>7, <3>3 DEF Believes
    <3> QED
      BY <3>4
  <2> QED
    BY <2>2, <2>3 DEF LiveIsOwner
<1> QED
  BY <1>3, <1>4, <1>5, <1>8, <1>9, <1>10, OthersKept DEF LeaseInvariant

\* A write fails and may still be on its way: what it would do is harmless, and
\* stays so, because a session whose release failed is over.
LEMMA WriteFailsLease ==
    ASSUME LeaseInvariant, TypeInv, TypeInv', Aged, Forward,
           NEW s \in Session, WriteFails(s)
    PROVE  LeaseInvariant'
<1>1. /\ pc[s] \in Writing /\ UNCHANGED <<remote, stampVars>>
      /\ WriteReturns(s, TRUE)
      /\ stray' = stray \/ stray' = stray \cup {[cond |-> seen[s], val |-> cand[s]]}
  BY DEF WriteFails
<1>2. Paused /\ UNCHANGED <<nextStamp, issuer, left>>
  BY <1>1, StampsPaused
<1>3. /\ ClocksAgree(s)' /\ PhaseIsSound(s)' /\ Alone(s)
      /\ Live(s)' => Live(s) /\ expiry'[s] = expiry[s]
      /\ pc[s] = "relWrite" => pc'[s] = "done"
      /\ pc[s] \notin {"off", "done"}
  BY <1>1, WriteReturnsSound
<1>4. StampsAreIssued' /\ OwnersTakeTurns'
  BY <1>2, <1>3, StampsKept, StartedTurns DEF LeaseInvariant
<1>5. FilesAreKnown' /\ StraysAreHarmless'
  <2>1. ASSUME NEW f \in File \cup {NoFile}, NEW g \in File \cup {NoFile},
               KnownLock(LockOf(f)), KnownLock(LockOf(g)), Harmless(f, g)
        PROVE  KnownLock(LockOf(f))' /\ KnownLock(LockOf(g))' /\ Harmless(f, g)'
    <3>1. Harmless(f, g)'
      BY <2>1, HarmlessKept DEF LeaseInvariant
    <3> QED
      BY <1>2, <2>1, <3>1 DEF KnownLock
  <2>2. ASSUME NEW w \in stray
        PROVE  /\ KnownLock(LockOf(w.cond))' /\ KnownLock(LockOf(w.val))'
               /\ Harmless(w.cond, w.val)'
    <3>1. w.cond \in File \cup {NoFile} /\ w.val \in File
      BY DEF TypeInv, TypeOK
    <3>2. KnownLock(LockOf(w.cond)) /\ KnownLock(LockOf(w.val)) /\ Harmless(w.cond, w.val)
      BY DEF LeaseInvariant, FilesAreKnown, StraysAreHarmless
    <3> QED
      BY <2>1, <3>1, <3>2
  <2>3. PICK f \in File \cup {NoFile}, g \in File \cup {NoFile} :
             f = seen[s] /\ g = cand[s]
    BY DEF TypeInv, TypeOK
  <2>4. KnownLock(LockOf(f)) /\ KnownLock(LockOf(g))
    BY <2>3, BelievedIsKnown DEF LeaseInvariant, ClocksAgree
  <2>5. KnownLock(LockOf(f))' /\ KnownLock(LockOf(g))' /\ Harmless(f, g)'
    <3>1. CASE Harmless(f, g)
      BY <2>1, <2>4, <3>1
    <3>2. CASE pc[s] = "relWrite" /\ LockOf(f) # NoLock /\ issuer[LockOf(f).stamp] = s
      BY <1>2, <1>3, <2>4, <3>2 DEF KnownLock, Harmless
    <3> QED
      BY <1>1, <2>3, <3>1, <3>2, WriteIsHarmless
  <2>6. KnownLock(LockOf(remote))'
    BY <1>1, <1>2 DEF LeaseInvariant, FilesAreKnown, KnownLock
  <2>7. \A w \in stray' : w \in stray \/ w = [cond |-> f, val |-> g]
    BY <1>1, <2>3
  <2> QED
    BY <2>2, <2>5, <2>6, <2>7 DEF FilesAreKnown, StraysAreHarmless
<1>6. LiveIsOwner(s)'
  BY <1>1, <1>2, <1>3 DEF LeaseInvariant, LiveIsOwner
<1>7. ASSUME NEW t \in Session \ {s}
      PROVE  LiveIsOwner(t)'
  <2>1. Untouched(t) /\ LiveIsOwner(t) /\ FilesAreKnown /\ UNCHANGED remote
    BY <1>1, <1>3 DEF Alone, LeaseInvariant
  <2> QED
    BY <1>2, <2>1, UntouchedLive
<1> QED
  BY <1>2, <1>3, <1>4, <1>5, <1>6, <1>7, OthersKept DEF LeaseInvariant

\* A stray write reaches the store.
LEMMA StrayLandsLease ==
    ASSUME LeaseInvariant, TypeInv, TypeInv', Aged, Forward, Conditional, StrayLands
    PROVE  LeaseInvariant'
<1>1. PICK w \in stray :
        /\ stray' = stray \ {w}
        /\ remote' = IF Precondition(w.cond) THEN w.val ELSE remote
  BY DEF StrayLands
<1>2. /\ UNCHANGED stampVars
      /\ UNCHANGED <<pc, seen, observed, observedLeft, cand, candLeft, owned, expiry,
                     pending, pendingLeft, cancelled>>
  BY DEF StrayLands, waitVars, candVars, ownVars, controlVars
<1>3. Paused /\ UNCHANGED <<nextStamp, issuer, left>>
  BY <1>2, StampsPaused
<1>4. StampsAreIssued' /\ OwnersTakeTurns'
  BY <1>2, <1>3 DEF LeaseInvariant, StampsAreIssued, OwnersTakeTurns
<1>5. /\ w.val \in File /\ KnownLock(LockOf(w.val)) /\ Harmless(w.cond, w.val)
      /\ KnownLock(LockOf(remote))
  BY DEF LeaseInvariant, FilesAreKnown, StraysAreHarmless, TypeInv, TypeOK
<1>6. FilesAreKnown' /\ StraysAreHarmless'
  <2>1. KnownLock(LockOf(remote))'
    BY <1>1, <1>3, <1>5 DEF KnownLock
  <2>2. ASSUME NEW v \in stray
        PROVE  /\ KnownLock(LockOf(v.cond))' /\ KnownLock(LockOf(v.val))'
               /\ Harmless(v.cond, v.val)'
    BY <1>2, <1>3 DEF LeaseInvariant, FilesAreKnown, StraysAreHarmless, KnownLock, Harmless
  <2> QED
    BY <1>1, <2>1, <2>2 DEF FilesAreKnown, StraysAreHarmless
<1>7. ASSUME NEW t \in Session
      PROVE  ClocksAgree(t)' /\ PhaseIsSound(t)' /\ LiveIsOwner(t)'
  <2>1. Untouched(t)
    BY <1>2 DEF Untouched
  <2>2. ClocksAgree(t) /\ PhaseIsSound(t) /\ LiveIsOwner(t) /\ StampsAreIssued /\ FilesAreKnown
    BY DEF LeaseInvariant
  <2>3. ClocksAgree(t)' /\ PhaseIsSound(t)'
    BY <1>3, <2>1, <2>2, UntouchedClocks, UntouchedPhase
  <2>4. CASE UNCHANGED remote
    BY <1>3, <2>1, <2>2, <2>3, <2>4, UntouchedLive
  <2>5. CASE remote = w.cond /\ remote' = w.val
    <3>1. Live(t)' => Live(t) /\ expiry'[t] = expiry[t]
      BY <2>1 DEF Untouched, Live
    <3>2. CASE Live(t)
      <4>1. expiry[t] <= left[LockOf(remote).stamp] /\ LockOf(remote) # NoLock
        BY <2>2, <3>2 DEF LiveIsOwner
      <4>2. /\ LockOf(w.val) # NoLock
            /\ issuer[LockOf(w.val).stamp] = t
            /\ left[LockOf(remote).stamp] <= left[LockOf(w.val).stamp]
        BY <1>5, <2>2, <2>5, <3>2, HarmlessWrite
      <4>3. LockOf(w.val) \in Lock /\ LockOf(remote) \in Lock
        BY <1>5, <4>1, <4>2, PartTypes DEF TypeInv, TypeOK
      <4>4. LockOf(w.val).stamp \in Stamp /\ LockOf(remote).stamp \in Stamp
        BY <4>3 DEF Lock
      <4>5. /\ left[LockOf(w.val).stamp] \in Nat /\ left[LockOf(remote).stamp] \in Nat
            /\ expiry[t] \in Nat
        BY <4>4 DEF TypeInv, TypeOK
      <4>6. expiry[t] <= left[LockOf(w.val).stamp]
        BY <4>1, <4>2, <4>5
      <4> QED
        BY <1>3, <2>3, <2>5, <3>1, <4>2, <4>6 DEF LiveIsOwner
    <3> QED
      BY <2>3, <3>1, <3>2 DEF LiveIsOwner
  <2> QED
    BY <1>1, <2>4, <2>5 DEF Precondition
<1> QED
  BY <1>4, <1>6, <1>7 DEF LeaseInvariant

\* Time passes: all clocks run at the same rate, so none overtakes another.
LEMMA TickLease ==
    ASSUME LeaseInvariant, TypeInv, TypeInv', Aged, Forward, Tick
    PROVE  LeaseInvariant'
<1>1. /\ observedLeft' = [s \in Session |-> Dec(observedLeft[s])]
      /\ candLeft' = [s \in Session |-> Dec(candLeft[s])]
      /\ expiry' = [s \in Session |-> Dec(expiry[s])]
      /\ pendingLeft' = [s \in Session |-> Dec(pendingLeft[s])]
      /\ left' = [k \in Stamp |-> Dec(left[k])]
      /\ UNCHANGED <<fileVars, observed, seen, cand, owned, pending, pc, cancelled,
                     nextStamp, issuer>>
  BY DEF Tick, controlVars
<1>2. \A m, n \in Nat : /\ m <= n => Dec(m) <= Dec(n)
                        /\ Dec(n) <= n /\ Dec(n) \in Nat
  BY DEF Dec
<1>3. StampsAreIssued' /\ OwnersTakeTurns'
  <2>1. StampsAreIssued'
    BY <1>1, StampsKept DEF LeaseInvariant
  <2> QED
    BY <1>1, <2>1, TurnsKept DEF LeaseInvariant
<1>4. FilesAreKnown' /\ StraysAreHarmless'
  BY <1>1, FilesKept DEF LeaseInvariant
<1>5. ASSUME NEW s \in Session
      PROVE  ClocksAgree(s)' /\ PhaseIsSound(s)' /\ LiveIsOwner(s)'
  <2>1. /\ observedLeft'[s] = Dec(observedLeft[s]) /\ candLeft'[s] = Dec(candLeft[s])
        /\ expiry'[s] = Dec(expiry[s]) /\ pendingLeft'[s] = Dec(pendingLeft[s])
        /\ observedLeft[s] \in Nat /\ candLeft[s] \in Nat
        /\ expiry[s] \in Nat /\ pendingLeft[s] \in Nat
    BY <1>1 DEF TypeInv, TypeOK
  <2>2. \A k \in Stamp : left'[k] = Dec(left[k]) /\ left[k] \in Nat
    BY <1>1 DEF TypeInv, TypeOK
  <2>3. /\ LockOf(seen[s]) \in Lock \cup {NoLock}
        /\ LockOf(cand[s]) \in Lock \cup {NoLock}
        /\ LockOf(owned[s]) \in Lock \cup {NoLock}
        /\ LockOf(pending[s]) \in Lock \cup {NoLock}
        /\ LockOf(remote) \in Lock \cup {NoLock}
        /\ observed[s] \in Lock \cup {NoLock}
        /\ seen[s] \in File \cup {NoFile} /\ cand[s] \in File \cup {NoFile}
    BY PartTypes DEF TypeInv, TypeOK
  <2>4. \A l \in Lock : l.stamp \in Stamp
    BY DEF Lock
  <2>5. ASSUME NEW l \in Lock \cup {NoLock}, NEW n \in Nat, Believes(s, l, n)
        PROVE  l # NoLock =>
                 /\ l.stamp \in 1 .. (nextStamp' - 1) /\ issuer'[l.stamp] = s
                 /\ l.owner = Owner[s] /\ l.ttl = TTL[s] /\ Dec(n) <= left'[l.stamp]
    BY <1>1, <1>2, <2>2, <2>4, <2>5 DEF Believes
  <2>6. /\ Believes(s, LockOf(cand[s]), candLeft[s])
        /\ Believes(s, LockOf(owned[s]), expiry[s])
        /\ Believes(s, LockOf(pending[s]), pendingLeft[s])
        /\ KnownLock(LockOf(seen[s])) /\ KnownLock(observed[s])
        /\ observed[s] # NoLock => left[observed[s].stamp] <= observedLeft[s]
        /\ KnownLock(LockOf(cand[s]))
    BY BelievedIsKnown DEF LeaseInvariant, ClocksAgree
  <2>7. Believes(s, LockOf(cand[s]), candLeft[s])'
    BY <1>1, <2>1, <2>3, <2>5, <2>6 DEF Believes
  <2>8. Believes(s, LockOf(owned[s]), expiry[s])'
    BY <1>1, <2>1, <2>3, <2>5, <2>6 DEF Believes
  <2>9. Believes(s, LockOf(pending[s]), pendingLeft[s])'
    BY <1>1, <2>1, <2>3, <2>5, <2>6 DEF Believes
  <2>10. KnownLock(LockOf(seen[s]))' /\ KnownLock(observed[s])'
    BY <1>1, <2>6 DEF KnownLock
  <2>11. observed'[s] # NoLock => left'[observed'[s].stamp] <= observedLeft'[s]
    BY <1>1, <1>2, <2>1, <2>2, <2>3, <2>4, <2>6
  <2>12. ClocksAgree(s)'
    BY <2>7, <2>8, <2>9, <2>10, <2>11 DEF ClocksAgree
  <2>13. Live(s)' => Live(s)
    BY <1>1, <2>1 DEF Live, Dec
  <2>14. LiveIsOwner(s)'
    <3>1. Live(s) => /\ LockOf(remote) # NoLock
                     /\ issuer[LockOf(remote).stamp] = s
                     /\ expiry[s] <= left[LockOf(remote).stamp]
      BY DEF LeaseInvariant, LiveIsOwner
    <3>2. Live(s) => expiry'[s] <= left'[LockOf(remote).stamp]
      BY <1>2, <2>1, <2>2, <2>3, <2>4, <3>1
    <3> QED
      BY <1>1, <2>13, <3>1, <3>2 DEF LiveIsOwner, fileVars
  <2>15. PhaseIsSound(s)'
    <3>1. PhaseIsSound(s) /\ StampsAreIssued
      BY DEF LeaseInvariant
    <3>2. pc'[s] \in {"acqWrite", "updWrite", "adoptWrite"} => Harmless(seen[s], cand[s])'
      BY <1>1, <2>3, <2>6, <3>1, HarmlessKept DEF PhaseIsSound
    <3>3. pc[s] \in {"updWrite", "updVerify"} /\ Live(s) =>
            expiry'[s] <= left'[LockOf(cand[s]).stamp]
      BY <1>2, <2>1, <2>2, <2>3, <2>4, <3>1 DEF PhaseIsSound
    <3> QED
      BY <1>1, <2>13, <3>1, <3>2, <3>3 DEF PhaseIsSound
  <2> QED
    BY <2>12, <2>14, <2>15
<1> QED
  BY <1>3, <1>4, <1>5 DEF LeaseInvariant

-----------------------------------------------------------------------------
(* The lease *)

LEMMA InitLease == Init => LeaseInvariant
<1> SUFFICES ASSUME Init PROVE LeaseInvariant
  OBVIOUS
<1>1. 1 .. (nextStamp - 1) = {} /\ 0 \in Stamp
  BY ValuesAssumption DEF Init, Stamp
<1>2. StampsAreIssued
  BY <1>1 DEF Init, StampsAreIssued
<1>3. FilesAreKnown /\ StraysAreHarmless
  BY SentinelsAssumption DEF Init, FilesAreKnown, StraysAreHarmless, KnownLock, LockOf
<1>4. OwnersTakeTurns
  BY DEF Init, OwnersTakeTurns
<1>5. ASSUME NEW s \in Session
      PROVE  ClocksAgree(s) /\ PhaseIsSound(s) /\ LiveIsOwner(s)
  BY DEF Init, ClocksAgree, PhaseIsSound, LiveIsOwner, Live, KnownLock, Believes, LockOf,
         Acquiring, Holding
<1> QED
  BY <1>2, <1>3, <1>4, <1>5 DEF LeaseInvariant

LEMMA LeaseStep ==
    ASSUME Conditional, LeaseInvariant, TypeInv, [Next]_vars
    PROVE  LeaseInvariant'
<1>1. TypeInv' /\ Aged /\ Forward
  BY TypeStep, AgedStep, ForwardStep
<1>2. ASSUME NEW s \in Session,
             \/ AcquireStart(s) \/ AdoptStart(s) \/ Poll(s) \/ AcquireWrite(s)
             \/ AcquireOk(s) \/ AcquireLostRace(s) \/ WriteLands(s) \/ WriteFails(s)
             \/ Refresh(s) \/ Update(s) \/ Release(s) \/ ReplaceOk(s)
             \/ ReplaceFails(s) \/ Watchdog(s)
      PROVE  LeaseInvariant'
  BY <1>1, <1>2, ReadLease, AdoptStartLease, AcquireWriteLease, VerifiedLease,
     WriteLandsLease, WriteFailsLease, RefreshLease, UpdateLease, ReleaseLease,
     ReplaceFailsLease, WatchdogLease
<1>3. ASSUME NEW s \in Session, GiveUp(s) \/ Retain(s) \/ Crash(s)
      PROVE  LeaseInvariant'
  BY <1>1, <1>3, ExitLease DEF GiveUp, Retain, Crash
<1>4. ASSUME NEW s \in Session, ReplaceLost(s)
      PROVE  LeaseInvariant'
  BY <1>1, <1>4, OwnershipLostLease DEF ReplaceLost, Holding
<1>5. CASE StrayLands
  BY <1>1, <1>5, StrayLandsLease
<1>6. CASE Tick
  BY <1>1, <1>6, TickLease
<1>7. CASE UNCHANGED vars
  <2>1. UNCHANGED <<remote, stray, pc, seen, observed, observedLeft, cand, candLeft,
                    owned, expiry, pending, pendingLeft, cancelled, nextStamp, issuer, left>>
    BY <1>7 DEF vars, fileVars, waitVars, candVars, ownVars, controlVars, stampVars
  <2>2. StampsAreIssued' /\ FilesAreKnown' /\ OwnersTakeTurns' /\ StraysAreHarmless'
    BY <2>1 DEF LeaseInvariant, StampsAreIssued, FilesAreKnown, OwnersTakeTurns,
                StraysAreHarmless, KnownLock, Harmless
  <2>3. \A s \in Session : ClocksAgree(s)' /\ PhaseIsSound(s)' /\ LiveIsOwner(s)'
    BY <2>1 DEF LeaseInvariant, ClocksAgree, PhaseIsSound, LiveIsOwner, KnownLock,
                Believes, Harmless, Live
  <2> QED
    BY <2>2, <2>3 DEF LeaseInvariant
<1> QED
  BY <1>2, <1>3, <1>4, <1>5, <1>6, <1>7 DEF Next

\* The lease is sound in every reachable state, for any number of sessions, any
\* TTLs and any number of lost and late writes, if the store honours the ETag
\* conditions (consistentWrites): Acquire, refreshLoop, replaceOwnedRemote, Close.
THEOREM LeaseIsSound ==
    ASSUME Conditional
    PROVE  Spec => []LeaseInvariant
<1>1. Init => LeaseInvariant
  BY InitLease
<1>2. LeaseInvariant /\ TypeInv /\ [Next]_vars => LeaseInvariant'
  BY LeaseStep
<1> QED
  BY <1>1, <1>2, TypeInvariance, PTL DEF Spec

\* No two sessions ever work on the destination at the same time, under the same
\* conditions (the wait of Acquire against lockExpiry of the owner).
THEOREM Exclusion ==
    ASSUME Conditional
    PROVE  Spec => []MutualExclusion
<1>1. LeaseInvariant => MutualExclusion
  BY DEF LeaseInvariant, LiveIsOwner, MutualExclusion
<1> QED
  BY <1>1, LeaseIsSound, PTL

-----------------------------------------------------------------------------
(* The watchdogs.  None of this needs the conditions on the writes. *)

\* The deadlines of s are in order: it cannot hold or verify a lock whose
\* watchdog is over, and the outcome of an update, also of an uncertain one,
\* never shortens the lease.
Timely(s) ==
    /\ expiry[s] <= TTL[s] /\ candLeft[s] <= TTL[s] /\ pendingLeft[s] <= TTL[s]
    /\ pc[s] \in {"off", "waiting"} \cup Acquiring => pending[s] = NoFile
    /\ pc[s] \in {"adoptWrite", "adoptVerify"} => s \in Persistent
    /\ pc[s] \in Holding /\ pending[s] # NoFile => expiry[s] <= pendingLeft[s]
    /\ pc[s] \in {"updWrite", "updVerify"} => expiry[s] <= candLeft[s]
    /\ s \notin Persistent =>
          /\ pc[s] \in Acquiring => candLeft[s] > 0
          /\ pc[s] \in Holding /\ ~cancelled[s] => expiry[s] > 0

AllTimely == \A s \in Session : Timely(s)

\* A session that takes no part in the step stays timely.
LEMMA TimelyAlone ==
    ASSUME AllTimely, NEW s \in Session, Alone(s), Timely(s)'
    PROVE  AllTimely'
<1>1. ASSUME NEW t \in Session \ {s}
      PROVE  Timely(t)'
  BY DEF AllTimely, Alone, Untouched, Timely
<1> QED
  BY <1>1 DEF AllTimely

LEMMA Times ==
    ASSUME TypeInv, NEW s \in Session
    PROVE  /\ TTL[s] \in Nat /\ TTL[s] > 0
           /\ expiry[s] \in Nat /\ candLeft[s] \in Nat /\ pendingLeft[s] \in Nat
BY TimesAssumption DEF TypeInv, TypeOK

LEMMA ExitTimely ==
    ASSUME AllTimely, TypeInv, NEW s \in Session, Exit(s)
    PROVE  AllTimely'
<1>1. /\ pc'[s] = "done" /\ expiry'[s] = 0 /\ candLeft'[s] = 0 /\ pendingLeft'[s] = 0
  BY DEF Exit, TypeInv, TypeOK
<1>2. Timely(s)'
  BY <1>1, Times DEF Timely, Acquiring, Holding
<1> QED
  BY <1>2, ExitSound, TimelyAlone

LEMMA FollowTimely ==
    ASSUME AllTimely, TypeInv, NEW s \in Session, NEW f, Follow(s, f),
           pc[s] \in {"off", "waiting", "acqVerify"}
    PROVE  AllTimely'
<1>1. CASE Exit(s)
  BY <1>1, ExitTimely
<1>2. CASE ~Exit(s)
  <2>1. /\ pc' = [pc EXCEPT ![s] = "waiting"]
        /\ seen' = [seen EXCEPT ![s] = f]
        /\ cand' = [cand EXCEPT ![s] = NoFile]
        /\ candLeft' = [candLeft EXCEPT ![s] = 0]
        /\ UNCHANGED <<owned, expiry, pending, pendingLeft, cancelled>>
    BY <1>2 DEF Follow, ownVars
  <2>2. \/ UNCHANGED <<observed, observedLeft>>
        \/ /\ observed' = [observed EXCEPT ![s] = LockOf(f)]
           /\ observedLeft' = [observedLeft EXCEPT ![s] = lockTTL(LockOf(f), s)]
    BY <1>2 DEF Follow
  <2>3. Alone(s)
    BY <2>1, <2>2 DEF Alone, Untouched, TypeInv, TypeOK
  <2>4. pc'[s] = "waiting" /\ candLeft'[s] = 0
    BY <2>1 DEF TypeInv, TypeOK
  <2>5. Timely(s)'
    BY <2>1, <2>4, Times DEF AllTimely, Timely, Acquiring, Holding
  <2> QED
    BY <2>3, <2>5, TimelyAlone
<1> QED
  BY <1>1, <1>2

LEMMA AcquireTimely ==
    ASSUME AllTimely, TypeInv, NEW s \in Session,
           AdoptStart(s) \/ AcquireWrite(s) \/ AcquireOk(s)
    PROVE  AllTimely'
<1>1. CASE AdoptStart(s)
  <2>1. Alone(s)
    BY <1>1 DEF AdoptStart, waitVars, Alone, Untouched, TypeInv, TypeOK
  <2>2. /\ pc'[s] = "adoptWrite" /\ candLeft'[s] = TTL[s] /\ pendingLeft'[s] = TTL[s]
        /\ expiry'[s] = expiry[s] /\ s \in Persistent
    BY <1>1 DEF AdoptStart, TypeInv, TypeOK
  <2>3. Timely(s)'
    BY <2>2, Times DEF AllTimely, Timely, Acquiring
  <2> QED
    BY <2>1, <2>3, TimelyAlone
<1>2. CASE AcquireWrite(s)
  <2>1. Alone(s)
    BY <1>2 DEF AcquireWrite, waitVars, ownVars, Alone, Untouched, TypeInv, TypeOK
  <2>2. /\ pc[s] = "waiting" /\ pc'[s] = "acqWrite" /\ candLeft'[s] = TTL[s]
        /\ UNCHANGED <<expiry, pending, pendingLeft>>
    BY <1>2 DEF AcquireWrite, ownVars, TypeInv, TypeOK
  <2>3. Timely(s)'
    BY <2>2, Times DEF AllTimely, Timely, Holding
  <2> QED
    BY <2>1, <2>3, TimelyAlone
<1>3. CASE AcquireOk(s)
  <2>1. Alone(s)
    BY <1>3 DEF AcquireOk, OperationOver, waitVars, Alone, Untouched, TypeInv, TypeOK
  <2>2. /\ pc[s] = "acqVerify" /\ pc'[s] = "held" /\ candLeft'[s] = 0
        /\ expiry'[s] = candLeft[s] /\ UNCHANGED <<pending, pendingLeft>>
    BY <1>3 DEF AcquireOk, OperationOver, TypeInv, TypeOK
  <2>3. Timely(s)'
    BY <2>2, Times DEF AllTimely, Timely, Acquiring
  <2> QED
    BY <2>1, <2>3, TimelyAlone
<1> QED
  BY <1>1, <1>2, <1>3

LEMMA WriteReturnsTimely ==
    ASSUME AllTimely, TypeInv, NEW s \in Session, NEW err \in BOOLEAN, WriteReturns(s, err)
    PROVE  AllTimely'
<1>1. CASE Exit(s)
  BY <1>1, ExitTimely
<1>2. CASE pc[s] = "updWrite" /\ err /\ ~Exit(s)
  <2>1. /\ pc' = [pc EXCEPT ![s] = "held"]
        /\ OperationOver(s)
        /\ UNCHANGED <<observed, observedLeft, owned, expiry, pending, pendingLeft, cancelled>>
    BY <1>2 DEF WriteReturns, waitVars, ownVars
  <2>2. Alone(s)
    BY <2>1 DEF OperationOver, Alone, Untouched, TypeInv, TypeOK
  <2>3. pc'[s] = "held" /\ candLeft'[s] = 0
    BY <2>1 DEF OperationOver, TypeInv, TypeOK
  <2>4. Timely(s)'
    BY <1>2, <2>1, <2>3, Times DEF AllTimely, Timely, Acquiring, Holding
  <2> QED
    BY <2>2, <2>4, TimelyAlone
<1>3. CASE ~Exit(s) /\ ~(pc[s] = "updWrite" /\ err)
  <2>1. /\ \/ pc[s] = "acqWrite" /\ pc' = [pc EXCEPT ![s] = "acqVerify"]
           \/ pc[s] = "updWrite" /\ pc' = [pc EXCEPT ![s] = "updVerify"]
           \/ pc[s] = "adoptWrite" /\ pc' = [pc EXCEPT ![s] = "adoptVerify"]
           \/ pc[s] = "relWrite" /\ pc' = [pc EXCEPT ![s] = "relVerify"]
        /\ UNCHANGED <<observed, observedLeft, seen, cand, candLeft, owned, expiry,
                       pending, pendingLeft, cancelled>>
    BY <1>3 DEF WriteReturns, waitVars, candVars, ownVars
  <2>2. Alone(s)
    BY <2>1 DEF Alone, Untouched, TypeInv, TypeOK
  <2>3. \/ pc[s] = "acqWrite" /\ pc'[s] = "acqVerify"
        \/ pc[s] = "updWrite" /\ pc'[s] = "updVerify"
        \/ pc[s] = "adoptWrite" /\ pc'[s] = "adoptVerify"
        \/ pc[s] = "relWrite" /\ pc'[s] = "relVerify"
    BY <2>1 DEF TypeInv, TypeOK
  <2>4. Timely(s)'
    BY <2>1, <2>3, Times DEF AllTimely, Timely, Acquiring, Holding
  <2> QED
    BY <2>2, <2>4, TimelyAlone
<1> QED
  BY <1>1, <1>2, <1>3

\* A candidate lasts at least as long as the lease that it replaces.
LEMMA CandidateLasts ==
    ASSUME AllTimely, TypeInv, NEW s \in Session, pc[s] = "held",
           StillOwned(s), NEW l,
           (l = newLock(s) /\ l # NoLock) \/ l = owned[s].lock
    PROVE  expiry[s] <= CandidateLeft(s, KeptLock(s, l))
<1>1. remote.lock # NoLock
  BY DEF StillOwned, ownedBy, LockOf
<1>2. /\ expiry[s] <= TTL[s] /\ expiry[s] \in Nat
      /\ pending[s] # NoFile => expiry[s] <= pendingLeft[s]
  BY Times DEF AllTimely, Timely, Holding
<1>3. newLock(s).ttl = TTL[s]
  BY DEF newLock
<1>4. CandidateLeft(s, remote.lock) >= expiry[s]
  BY <1>1, <1>2 DEF CandidateLeft, IsPending, TypeInv, TypeOK
<1>5. CASE KeptLock(s, l) = remote.lock
  BY <1>4, <1>5, Times DEF CandidateLeft
<1>6. CASE KeptLock(s, l) # remote.lock
  <2>1. KeptLock(s, l) = newLock(s) /\ newLock(s) # NoLock
    BY <1>6 DEF KeptLock, StillOwned
  <2> QED
    BY <1>2, <1>3, <1>6, <2>1 DEF CandidateLeft
<1> QED
  BY <1>5, <1>6

LEMMA CandidateBounded ==
    ASSUME AllTimely, TypeInv, NEW s \in Session, StillOwned(s), NEW l,
           l = newLock(s) \/ l = owned[s].lock \/ l = NoLock, pc[s] = "held"
    PROVE  CandidateLeft(s, KeptLock(s, l)) <= TTL[s]
<1>1. newLock(s).ttl = TTL[s]
  BY DEF newLock
<1>2. expiry[s] <= TTL[s] /\ pendingLeft[s] <= TTL[s] /\ TTL[s] \in Nat
  BY Times DEF AllTimely, Timely
<1>3. KeptLock(s, l) \in {remote.lock, newLock(s), NoLock}
  BY DEF KeptLock, StillOwned
<1> QED
  BY <1>1, <1>2, <1>3 DEF CandidateLeft

LEMMA ReplacesTimely ==
    ASSUME AllTimely, TypeInv, NEW s \in Session, NEW g, NEW time, NEW next,
           Replaces(s, g, time, next), pc[s] = "held", time <= TTL[s],
           \/ next = "relWrite"
           \/ next = "updWrite" /\ expiry[s] <= time
    PROVE  AllTimely'
<1>1. /\ Alone(s) /\ pc'[s] = next /\ candLeft'[s] = time /\ pendingLeft'[s] = time
      /\ UNCHANGED <<expiry, cancelled>>
  BY ReplacesAlone DEF Replaces
<1>2. Timely(s)'
  BY <1>1 DEF AllTimely, Timely, Acquiring, Holding
<1> QED
  BY <1>1, <1>2, TimelyAlone

LEMMA OwnershipLostTimely ==
    ASSUME AllTimely, TypeInv, NEW s \in Session, OwnershipLost(s)
    PROVE  AllTimely'
<1>1. Alone(s)
  BY DEF OwnershipLost, OperationOver, waitVars, Alone, Untouched, TypeInv, TypeOK
<1>2. /\ pc'[s] = "held" /\ cancelled'[s] /\ pending'[s] = NoFile /\ pendingLeft'[s] = 0
      /\ candLeft'[s] = 0 /\ expiry'[s] = expiry[s]
  BY DEF OwnershipLost, OperationOver, TypeInv, TypeOK
<1>3. Timely(s)'
  BY <1>2, Times DEF AllTimely, Timely, Acquiring
<1> QED
  BY <1>1, <1>3, TimelyAlone

LEMMA UpdateTimely ==
    ASSUME AllTimely, TypeInv, NEW s \in Session, Refresh(s) \/ Update(s) \/ Release(s)
    PROVE  AllTimely'
<1>0. pc[s] = "held"
  BY DEF Refresh, Update, Release
<1>1. ASSUME NEW d, NEW l, BeginReplace(s, d, l, "updWrite"),
             (l = newLock(s) /\ l # NoLock) \/ l = owned[s].lock
      PROVE  AllTimely'
  BY <1>0, <1>1, ReplaceBegins, CandidateLasts, CandidateBounded, ReplacesTimely
<1>2. ASSUME NEW d, BeginReplace(s, d, NoLock, "relWrite")
      PROVE  AllTimely'
  BY <1>0, <1>2, ReplaceBegins, CandidateBounded, ReplacesTimely
<1>3. Stamped(s) => newLock(s) # NoLock
  BY StampedType, SentinelsAssumption DEF TypeInv
<1> QED
  BY <1>1, <1>2, <1>3, OwnershipLostTimely, ExitTimely DEF Refresh, Update, Release

LEMMA ReplaceTimely ==
    ASSUME AllTimely, TypeInv, NEW s \in Session,
           ReplaceOk(s) \/ ReplaceFails(s) \/ ReplaceLost(s)
    PROVE  AllTimely'
<1>1. CASE Exit(s)
  BY <1>1, ExitTimely
<1>2. CASE ReplaceOk(s) /\ ~Exit(s)
  <2>1. /\ pc[s] \in {"updVerify", "adoptVerify"}
        /\ ~cancelled[s]
        /\ pc' = [pc EXCEPT ![s] = "held"]
        /\ owned' = [owned EXCEPT ![s] = remote]
        /\ expiry' = [expiry EXCEPT ![s] = candLeft[s]]
        /\ pending' = [pending EXCEPT ![s] = NoFile]
        /\ pendingLeft' = [pendingLeft EXCEPT ![s] = 0]
        /\ OperationOver(s)
        /\ UNCHANGED <<observed, observedLeft, cancelled>>
    BY <1>2 DEF ReplaceOk, waitVars
  <2>2. Alone(s)
    BY <2>1 DEF OperationOver, Alone, Untouched, TypeInv, TypeOK
  <2>3. /\ pc'[s] = "held" /\ expiry'[s] = candLeft[s] /\ pending'[s] = NoFile
        /\ pendingLeft'[s] = 0 /\ candLeft'[s] = 0
    BY <2>1 DEF OperationOver, TypeInv, TypeOK
  <2>4. s \notin Persistent => expiry[s] > 0 /\ expiry[s] <= candLeft[s]
    BY <2>1 DEF AllTimely, Timely, Holding
  <2>5. candLeft[s] <= TTL[s]
    BY DEF AllTimely, Timely
  <2>6. Timely(s)'
    BY <2>3, <2>4, <2>5, Times DEF Timely, Acquiring
  <2> QED
    BY <2>2, <2>6, TimelyAlone
<1>3. CASE ReplaceFails(s) /\ ~Exit(s)
  <2>1. /\ pc[s] = "updVerify"
        /\ pc' = [pc EXCEPT ![s] = "held"]
        /\ OperationOver(s)
        /\ UNCHANGED <<observed, observedLeft, owned, expiry, pending, pendingLeft, cancelled>>
    BY <1>3 DEF ReplaceFails, waitVars, ownVars
  <2>2. Alone(s)
    BY <2>1 DEF OperationOver, Alone, Untouched, TypeInv, TypeOK
  <2>3. pc'[s] = "held" /\ candLeft'[s] = 0
    BY <2>1 DEF OperationOver, TypeInv, TypeOK
  <2>4. Timely(s)'
    BY <2>1, <2>3, Times DEF AllTimely, Timely, Acquiring, Holding
  <2> QED
    BY <2>2, <2>4, TimelyAlone
<1>4. CASE ReplaceLost(s)
  BY <1>4, OwnershipLostTimely DEF ReplaceLost
<1> QED
  BY <1>1, <1>2, <1>3, <1>4

LEMMA WatchdogTimely ==
    ASSUME AllTimely, TypeInv, NEW s \in Session, Watchdog(s)
    PROVE  AllTimely'
<1>1. /\ cancelled' = [cancelled EXCEPT ![s] = TRUE]
      /\ UNCHANGED <<observed, observedLeft, seen, cand, candLeft, owned, expiry,
                     pending, pendingLeft, pc>>
  BY DEF Watchdog, waitVars, candVars, ownVars
<1>2. Alone(s) /\ cancelled'[s]
  BY <1>1 DEF Alone, Untouched, TypeInv, TypeOK
<1>3. Timely(s)'
  BY <1>1, <1>2 DEF AllTimely, Timely
<1> QED
  BY <1>2, <1>3, TimelyAlone

\* Time passes only while no watchdog is due, so that a lease that is not
\* cancelled has time left afterwards.
LEMMA TickTimely ==
    ASSUME AllTimely, TypeInv, Tick
    PROVE  AllTimely'
<1>1. ASSUME NEW s \in Session
      PROVE  Timely(s)'
  <2>1. /\ candLeft'[s] = Dec(candLeft[s]) /\ expiry'[s] = Dec(expiry[s])
        /\ pendingLeft'[s] = Dec(pendingLeft[s])
        /\ UNCHANGED <<pc, cancelled, pending>>
    BY DEF Tick, controlVars
  <2>2. /\ pc[s] \in Holding /\ ~cancelled[s] => expiry[s] > Window - Latency
        /\ pc[s] \in Acquiring => candLeft[s] > Window - Latency
    BY Times, TimesAssumption DEF Tick, WatchdogDue
  <2>3. /\ TTL[s] \in Nat /\ expiry[s] \in Nat /\ candLeft[s] \in Nat /\ pendingLeft[s] \in Nat
    BY Times
  <2>4. \A m, n \in Nat : /\ m <= n => Dec(m) <= Dec(n) /\ Dec(m) <= n
                          /\ n > Window - Latency => Dec(n) > 0
    BY TimesAssumption DEF Dec
  <2>5. Timely(s)
    BY DEF AllTimely
  <2>6. /\ expiry'[s] <= TTL[s] /\ candLeft'[s] <= TTL[s] /\ pendingLeft'[s] <= TTL[s]
    BY <2>1, <2>3, <2>4, <2>5 DEF Timely
  <2>7. /\ pc[s] \in Holding /\ pending[s] # NoFile => expiry'[s] <= pendingLeft'[s]
        /\ pc[s] \in {"updWrite", "updVerify"} => expiry'[s] <= candLeft'[s]
        /\ s \notin Persistent =>
              /\ pc[s] \in Acquiring => candLeft'[s] > 0
              /\ pc[s] \in Holding /\ ~cancelled[s] => expiry'[s] > 0
    BY <2>1, <2>2, <2>3, <2>4, <2>5 DEF Timely
  <2> QED
    BY <2>1, <2>5, <2>6, <2>7 DEF Timely
<1> QED
  BY <1>1 DEF AllTimely

LEMMA TimelyStep ==
    ASSUME AllTimely, TypeInv, [Next]_vars
    PROVE  AllTimely'
<1>1. ASSUME NEW s \in Session, AcquireStart(s) \/ Poll(s) \/ AcquireLostRace(s)
      PROVE  AllTimely'
  BY <1>1, FollowTimely, ExitTimely DEF AcquireStart, Poll, AcquireLostRace
<1>2. ASSUME NEW s \in Session,
             \/ AdoptStart(s) \/ AcquireWrite(s) \/ AcquireOk(s)
             \/ Refresh(s) \/ Update(s) \/ Release(s)
             \/ ReplaceOk(s) \/ ReplaceFails(s) \/ ReplaceLost(s) \/ Watchdog(s)
      PROVE  AllTimely'
  BY <1>2, AcquireTimely, UpdateTimely, ReplaceTimely, WatchdogTimely
<1>3. ASSUME NEW s \in Session, WriteLands(s) \/ WriteFails(s)
      PROVE  AllTimely'
  BY <1>3, WriteReturnsTimely DEF WriteLands, WriteFails
<1>4. ASSUME NEW s \in Session, GiveUp(s) \/ Retain(s) \/ Crash(s)
      PROVE  AllTimely'
  BY <1>4, ExitTimely DEF GiveUp, Retain, Crash
<1>5. CASE StrayLands \/ UNCHANGED vars
  <2>1. UNCHANGED <<pc, cancelled, pending, expiry, candLeft, pendingLeft>>
    BY <1>5 DEF StrayLands, vars, candVars, ownVars, controlVars
  <2> QED
    BY <2>1 DEF AllTimely, Timely
<1>6. CASE Tick
  BY <1>6, TickTimely
<1> QED
  BY <1>1, <1>2, <1>3, <1>4, <1>5, <1>6 DEF Next

LEMMA TimelyInvariance == Spec => []AllTimely
<1>1. Init => AllTimely
  BY TimesAssumption DEF Init, AllTimely, Timely, Acquiring, Holding
<1>2. AllTimely /\ TypeInv /\ [Next]_vars => AllTimely'
  BY TimelyStep
<1> QED
  BY <1>1, <1>2, TypeInvariance, PTL DEF Spec

\* The commands of a session that acquired its lock by waiting are cancelled
\* before the lease runs out, for any TTL, safety window and timer latency below
\* it, and also without conditional writes (the watchdogs of Acquire and of
\* refreshLoop, and the pending candidate of replaceOwnedRemote).
THEOREM Watched == Spec => []StopsBeforeExpiry
<1>1. AllTimely => StopsBeforeExpiry
  BY DEF AllTimely, Timely, StopsBeforeExpiry
<1> QED
  BY <1>1, TimelyInvariance, PTL

-----------------------------------------------------------------------------
(* Refinement: the file and the clocks implement the lease of module Lease *)

\* Nobody but s starts, stops or renews its work in the step.
OnlyOf(s) ==
    \A t \in Session \ {s} :
        pc'[t] = pc[t] /\ cancelled'[t] = cancelled[t] /\ expiry'[t] = expiry[t]

\* If s may work after the step then it could do so before, for as long, or it
\* has verified a candidate that lasts at least as long.
GoesOn(s) ==
    Live(s)' =>
        \/ Live(s) /\ expiry'[s] = expiry[s]
        \/ expiry'[s] = candLeft[s] /\ (Live(s) => expiry[s] <= candLeft[s])

LEMMA ExitGoesOn ==
    ASSUME TypeInv, NEW s \in Session, Exit(s)
    PROVE  OnlyOf(s) /\ GoesOn(s)
BY DEF Exit, OnlyOf, GoesOn, Live, Holding, TypeInv, TypeOK

LEMMA FollowGoesOn ==
    ASSUME TypeInv, NEW s \in Session, NEW f, Follow(s, f)
    PROVE  OnlyOf(s) /\ GoesOn(s)
<1>1. CASE Exit(s)
  BY <1>1, ExitGoesOn
<1>2. CASE ~Exit(s)
  <2>1. pc' = [pc EXCEPT ![s] = "waiting"] /\ UNCHANGED <<expiry, cancelled>>
    BY <1>2 DEF Follow, ownVars
  <2> QED
    BY <2>1 DEF OnlyOf, GoesOn, Live, Holding, TypeInv, TypeOK
<1> QED
  BY <1>1, <1>2

LEMMA WriteGoesOn ==
    ASSUME TypeInv, NEW s \in Session, NEW err, WriteReturns(s, err)
    PROVE  OnlyOf(s) /\ GoesOn(s)
<1>1. CASE Exit(s)
  BY <1>1, ExitGoesOn
<1>2. CASE ~Exit(s)
  <2>1. \/ pc[s] = "updWrite" /\ pc' = [pc EXCEPT ![s] = "updVerify"]
        \/ pc[s] = "updWrite" /\ pc' = [pc EXCEPT ![s] = "held"]
        \/ \E p \in {"acqVerify", "adoptVerify", "relVerify"} : pc' = [pc EXCEPT ![s] = p]
    BY <1>2 DEF WriteReturns
  <2>2. UNCHANGED <<expiry, cancelled>>
    BY <1>2 DEF WriteReturns, ownVars
  <2> QED
    BY <2>1, <2>2 DEF OnlyOf, GoesOn, Live, Holding, TypeInv, TypeOK
<1> QED
  BY <1>1, <1>2

LEMMA BeginGoesOn ==
    ASSUME TypeInv, NEW s \in Session, NEW d, NEW l, NEW next, BeginReplace(s, d, l, next),
           pc[s] = "held", next \in {"updWrite", "relWrite"}
    PROVE  OnlyOf(s) /\ GoesOn(s)
<1>1. pc' = [pc EXCEPT ![s] = next] /\ UNCHANGED <<expiry, cancelled>>
  BY DEF BeginReplace
<1> QED
  BY <1>1 DEF OnlyOf, GoesOn, Live, Holding, TypeInv, TypeOK

LEMMA LossGoesOn ==
    ASSUME TypeInv, NEW s \in Session, OwnershipLost(s)
    PROVE  OnlyOf(s) /\ GoesOn(s)
<1>1. /\ pc' = [pc EXCEPT ![s] = "held"]
      /\ cancelled' = [cancelled EXCEPT ![s] = TRUE]
      /\ UNCHANGED expiry
  BY DEF OwnershipLost
<1> QED
  BY <1>1 DEF OnlyOf, GoesOn, Live, TypeInv, TypeOK

\* The two verifying reads that end with the lock held.
LEMMA VerifiedGoesOn ==
    ASSUME TypeInv, AllTimely, NEW s \in Session, AcquireOk(s) \/ ReplaceOk(s)
    PROVE  OnlyOf(s) /\ GoesOn(s)
<1>1. CASE Exit(s)
  BY <1>1, ExitGoesOn
<1>2. CASE ~Exit(s)
  <2>1. /\ pc[s] \in {"acqVerify", "adoptVerify", "updVerify"}
        /\ pc' = [pc EXCEPT ![s] = "held"]
        /\ expiry' = [expiry EXCEPT ![s] = candLeft[s]]
        /\ UNCHANGED cancelled
    BY <1>2 DEF AcquireOk, ReplaceOk
  <2>2. Live(s) => expiry[s] <= candLeft[s]
    BY <2>1 DEF AllTimely, Timely, Live, Holding
  <2> QED
    BY <2>1, <2>2 DEF OnlyOf, GoesOn, TypeInv, TypeOK
<1> QED
  BY <1>1, <1>2

\* Every step but the passing of time is one of some session, or of none.
LEMMA StepGoesOn ==
    ASSUME TypeInv, AllTimely, [Next]_vars, ~Tick
    PROVE  \/ \E s \in Session : OnlyOf(s) /\ GoesOn(s)
           \/ UNCHANGED <<pc, cancelled, expiry>>
<1>1. ASSUME NEW s \in Session,
             AcquireStart(s) \/ Poll(s) \/ AcquireLostRace(s) \/ GiveUp(s) \/ Retain(s) \/ Crash(s)
      PROVE  OnlyOf(s) /\ GoesOn(s)
  BY <1>1, FollowGoesOn, ExitGoesOn
     DEF AcquireStart, Poll, AcquireLostRace, GiveUp, Retain, Crash
<1>2. ASSUME NEW s \in Session, AdoptStart(s) \/ AcquireWrite(s)
      PROVE  OnlyOf(s) /\ GoesOn(s)
  <2>1. /\ \E p \in {"adoptWrite", "acqWrite"} : pc' = [pc EXCEPT ![s] = p]
        /\ UNCHANGED <<expiry, cancelled>>
    BY <1>2 DEF AdoptStart, AcquireWrite, ownVars
  <2> QED
    BY <2>1 DEF OnlyOf, GoesOn, Live, Holding, TypeInv, TypeOK
<1>3. ASSUME NEW s \in Session, WriteLands(s) \/ WriteFails(s)
      PROVE  OnlyOf(s) /\ GoesOn(s)
  BY <1>3, WriteGoesOn DEF WriteLands, WriteFails
<1>4. ASSUME NEW s \in Session, Refresh(s) \/ Update(s) \/ Release(s)
      PROVE  OnlyOf(s) /\ GoesOn(s)
  BY <1>4, BeginGoesOn, LossGoesOn, ExitGoesOn DEF Refresh, Update, Release
<1>5. ASSUME NEW s \in Session, AcquireOk(s) \/ ReplaceOk(s)
      PROVE  OnlyOf(s) /\ GoesOn(s)
  BY <1>5, VerifiedGoesOn
<1>6. ASSUME NEW s \in Session, ReplaceFails(s) \/ ReplaceLost(s)
      PROVE  OnlyOf(s) /\ GoesOn(s)
  <2>1. CASE Exit(s) \/ OwnershipLost(s)
    BY <2>1, ExitGoesOn, LossGoesOn
  <2>2. CASE ~Exit(s) /\ ~OwnershipLost(s)
    <3>1. pc[s] = "updVerify" /\ pc' = [pc EXCEPT ![s] = "held"] /\ UNCHANGED <<expiry, cancelled>>
      BY <1>6, <2>2 DEF ReplaceFails, ReplaceLost, ownVars
    <3> QED
      BY <3>1 DEF OnlyOf, GoesOn, Live, Holding, TypeInv, TypeOK
  <2> QED
    BY <2>1, <2>2
<1>7. ASSUME NEW s \in Session, Watchdog(s)
      PROVE  OnlyOf(s) /\ GoesOn(s)
  <2>1. cancelled' = [cancelled EXCEPT ![s] = TRUE] /\ UNCHANGED <<pc, expiry>>
    BY <1>7 DEF Watchdog, ownVars
  <2> QED
    BY <2>1 DEF OnlyOf, GoesOn, Live, TypeInv, TypeOK
<1>8. CASE StrayLands \/ UNCHANGED vars
  BY <1>8 DEF StrayLands, vars, ownVars, controlVars
<1> QED
  BY <1>1, <1>2, <1>3, <1>4, <1>5, <1>6, <1>7, <1>8 DEF Next

LEMMA LeaseType ==
    ASSUME TypeInv, AllTimely, NEW s \in Session
    PROVE  /\ LeaseLeft[s] \in Nat /\ LeaseLeft[s] <= TTL[s]
           /\ Live(s) => LeaseLeft[s] = expiry[s] /\ expiry[s] > 0
           /\ ~Live(s) => LeaseLeft[s] = 0
BY Times DEF LeaseLeft, AllTimely, Timely, Live

\* A step of one session starts, renews or ends its lease, or leaves it alone.
LEMMA SessionRefines ==
    ASSUME TypeInv, AllTimely, TypeInv', AllTimely', MutualExclusion',
           NEW s \in Session, OnlyOf(s), GoesOn(s)
    PROVE  [Abstract!Next]_LeaseLeft
<1>1. ASSUME NEW t \in Session \ {s}
      PROVE  LeaseLeft'[t] = LeaseLeft[t] /\ (Live(t)' <=> Live(t))
  BY <1>1 DEF OnlyOf, LeaseLeft, Live
<1>2. LeaseLeft' = [LeaseLeft EXCEPT ![s] = LeaseLeft'[s]]
  BY <1>1 DEF LeaseLeft
<1>3. /\ LeaseLeft'[s] \in Nat /\ LeaseLeft'[s] <= TTL[s] /\ TTL[s] \in Nat
      /\ LeaseLeft[s] \in Nat
  <2>1. (LeaseLeft[s] \in Nat /\ LeaseLeft[s] <= TTL[s])'
    BY Times DEF LeaseLeft, AllTimely, Timely, Live, TypeInv, TypeOK
  <2> QED
    BY <2>1, LeaseType, TimesAssumption
<1>4. CASE LeaseLeft'[s] = 0
  BY <1>2, <1>4 DEF Abstract!Next, Abstract!End
<1>5. CASE LeaseLeft'[s] # 0
  <2>1. Live(s)' /\ LeaseLeft'[s] = expiry'[s]
    BY <1>5 DEF LeaseLeft, Live
  <2>2. \A t \in Session \ {s} : LeaseLeft[t] = 0
    BY <1>1, <2>1, LeaseType DEF MutualExclusion
  <2>3. Live(s) => LeaseLeft[s] <= LeaseLeft'[s]
    BY <2>1, LeaseType, <1>3 DEF GoesOn
  <2>4. CASE Live(s)
    <3>1. LeaseLeft[s] > 0 /\ LeaseLeft'[s] \in LeaseLeft[s] .. TTL[s]
      BY <1>3, <2>3, <2>4, LeaseType
    <3> QED
      BY <1>2, <3>1 DEF Abstract!Next, Abstract!Renew
  <2>5. CASE ~Live(s)
    <3>1. LeaseLeft[s] = 0 /\ LeaseLeft'[s] \in 1 .. TTL[s]
      BY <1>3, <1>5, <2>5, LeaseType
    <3> QED
      BY <1>2, <2>2, <3>1 DEF Abstract!Next, Abstract!Grant
  <2> QED
    BY <2>4, <2>5
<1> QED
  BY <1>4, <1>5

LEMMA TickRefines ==
    ASSUME TypeInv, AllTimely, Tick
    PROVE  Abstract!Pass
<1>1. ASSUME NEW s \in Session
      PROVE  LeaseLeft'[s] = IF LeaseLeft[s] > 0 THEN LeaseLeft[s] - 1 ELSE 0
  <2>1. expiry'[s] = Dec(expiry[s]) /\ UNCHANGED <<pc, cancelled>>
    BY DEF Tick, controlVars
  <2>2. expiry[s] \in Nat
    BY Times
  <2> QED
    BY <2>1, <2>2, LeaseType DEF LeaseLeft, Live, Dec
<1> QED
  BY <1>1 DEF LeaseLeft, Abstract!Pass

\* For any number of sessions, any TTLs and any lost, late or failed writes, the
\* remote state file with conditional writes and the clocks of the sessions
\* implement the lease (Acquire, replaceOwnedRemote, refreshLoop, Close).
THEOREM Refinement ==
    ASSUME Conditional
    PROVE  Spec => ImplementsLease
<1>1. Init => Abstract!Init
  BY DEF Init, Abstract!Init, LeaseLeft, Live, Holding
<1>2. ASSUME TypeInv, AllTimely, TypeInv', AllTimely', MutualExclusion', [Next]_vars
      PROVE  [Abstract!Next]_LeaseLeft
  <2>1. CASE Tick
    BY <1>2, <2>1, TickRefines DEF Abstract!Next
  <2>2. CASE ~Tick
    <3>1. CASE UNCHANGED <<pc, cancelled, expiry>>
      BY <3>1 DEF LeaseLeft, Live
    <3> QED
      BY <1>2, <2>2, <3>1, StepGoesOn, SessionRefines
  <2> QED
    BY <2>1, <2>2
<1>3. Spec => []AllTimely
  BY TimelyInvariance
<1> QED
  BY <1>1, <1>2, <1>3, TypeInvariance, Exclusion, PTL DEF Spec, ImplementsLease, Abstract!Spec
=============================================================================

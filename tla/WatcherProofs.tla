---------------------------- MODULE WatcherProofs ----------------------------
(***************************************************************************)
(* Theorems about Watcher: its type invariant and, as long as no program   *)
(* renames a directory to where the watcher has still to walk or over      *)
(* another one, that a watcher with nothing left to read has missed        *)
(* nothing and watches exactly the tree.                                   *)
(*                                                                         *)
(* The inductive invariant is WatchInv: unless an overflow is queued or an *)
(* error reported, the instance in use fits the tree (SoundIn, from Core   *)
(* of WatcherCoreProofs, or RootGone when the root has been moved away)    *)
(* and every unreported item is announced (ReportedIn).                    *)
(***************************************************************************)
EXTENDS WatcherCoreProofs

-----------------------------------------------------------------------------
(* Maps and sequences *)

LEMMA WithMap ==
  ASSUME NEW f, NEW k, NEW v
  PROVE  /\ DOMAIN With(f, k, v) = DOMAIN f \cup {k}
         /\ With(f, k, v)[k] = v
         /\ \A x \in DOMAIN f : x # k => With(f, k, v)[x] = f[x]
  BY DEF With

LEMMA WithType ==
  ASSUME NEW f, NEW T, f \in [DOMAIN f -> T], NEW k, NEW v \in T
  PROVE  With(f, k, v) \in [DOMAIN With(f, k, v) -> T]
  BY DEF With

LEMMA WithoutMap ==
  ASSUME NEW f, NEW S
  PROVE  /\ DOMAIN Without(f, S) = DOMAIN f \ S
         /\ \A x \in DOMAIN f \ S : Without(f, S)[x] = f[x]
  BY DEF Without, Restrict

LEMMA WithoutType ==
  ASSUME NEW f, NEW T, f \in [DOMAIN f -> T], NEW S
  PROVE  Without(f, S) \in [DOMAIN Without(f, S) -> T]
  BY DEF Without, Restrict

LEMMA WithoutNone ==
  ASSUME NEW f, NEW T, f \in [DOMAIN f -> T]
  PROVE  Without(f, {}) = f
  BY DEF Without, Restrict

LEMMA Joined ==
  ASSUME NEW S, NEW s \in Seq(S), NEW t \in Seq(S)
  PROVE  /\ s \o t \in Seq(S) /\ Len(s \o t) = Len(s) + Len(t)
         /\ \A k \in DOMAIN s : k \in DOMAIN (s \o t) /\ (s \o t)[k] = s[k]
         /\ \A k \in DOMAIN t : Len(s) + k \in DOMAIN (s \o t) /\ (s \o t)[Len(s) + k] = t[k]
         /\ \A k \in DOMAIN (s \o t) :
                \/ k \in DOMAIN s /\ (s \o t)[k] = s[k]
                \/ \E l \in DOMAIN t : k = Len(s) + l /\ (s \o t)[k] = t[l]
PROOF
  <1>1. /\ s \o t \in Seq(S) /\ Len(s \o t) = Len(s) + Len(t)
        /\ \A k \in DOMAIN s : k \in DOMAIN (s \o t) /\ (s \o t)[k] = s[k]
        /\ \A k \in DOMAIN t : Len(s) + k \in DOMAIN (s \o t) /\ (s \o t)[Len(s) + k] = t[k]
    OBVIOUS
  <1>2. ASSUME NEW k \in DOMAIN (s \o t), k \notin DOMAIN s
        PROVE  \E l \in DOMAIN t : k = Len(s) + l /\ (s \o t)[k] = t[l]
    <2>1. k - Len(s) \in DOMAIN t /\ k = Len(s) + (k - Len(s))
      BY <1>2
    <2>2. QED
      BY <1>1, <2>1
  <1>3. QED
    BY <1>1, <1>2

\* R is the queue Q with the events es after it, read at their new places.
Follows(Q, es, R) ==
    /\ R \in Seq(Events) /\ Grows(Q, R) /\ Len(Q) \in Nat
    /\ \A k \in DOMAIN R \ DOMAIN Q : \E l \in DOMAIN es : k = Len(Q) + l /\ R[k] = es[l]
    /\ \A l \in DOMAIN es : Len(Q) + l \in DOMAIN R \ DOMAIN Q /\ R[Len(Q) + l] = es[l]

LEMMA Appended ==
  ASSUME NEW Q \in Seq(Events), NEW es \in Seq(Events)
  PROVE  Follows(Q, es, Q \o es)
PROOF
  <1> DEFINE R == Q \o es
  <1>1. R \in Seq(Events) /\ DOMAIN Q \subseteq DOMAIN R /\ \A k \in DOMAIN Q : R[k] = Q[k]
    OBVIOUS
  <1>2. \A k \in DOMAIN R \ DOMAIN Q : \E l \in DOMAIN es : k = Len(Q) + l /\ R[k] = es[l]
    BY Joined
  <1>3. \A l \in DOMAIN es : Len(Q) + l \in DOMAIN R \ DOMAIN Q /\ R[Len(Q) + l] = es[l]
    OBVIOUS
  <1>4. \A k \in DOMAIN Q, l \in DOMAIN R \ DOMAIN Q : k < l
    BY <1>1
  <1>5. Grows(Q, R) /\ Len(Q) \in Nat
    BY <1>1, <1>4 DEF Grows
  <1>6. QED
    BY <1>1, <1>2, <1>3, <1>5 DEF Follows

-----------------------------------------------------------------------------
(* The queue of the kernel *)

\* The names of the links, and of the directory itself, that the events have
Signal(mask, name) ==
    \/ mask \in {"create", "to", "delete", "from"} /\ \E n \in Name : name = <<n>>
    \/ mask = "file" /\ name = <<File>>
    \/ mask \in {"attrib", "deleteself", "moveself", "ignored", "overflow"} /\ name = <<>>

WellFormed(e) == Signal(e.mask, e.name)

\* A queue within its limit, where the event past the limit tells of an overflow
Queue(q) ==
    /\ q \in Seq(Events) /\ \A k \in DOMAIN q : WellFormed(q[k])
    /\ Len(q) <= QueueSize + 1
    /\ Len(q) = QueueSize + 1 => \E k \in DOMAIN q : q[k] = Overflow

NoOverflow(q) == \A k \in DOMAIN q : q[k] # Overflow

LEMMA EventsHave ==
  ASSUME NEW wd \in Nat, NEW mask \in Masks, NEW name \in Seq(Nat)
  PROVE  [wd |-> wd, mask |-> mask, name |-> name] \in Events
  BY DEF Events

LEMMA OverflowType == Overflow \in Events /\ WellFormed(Overflow)
PROOF
  <1>1. Overflow = [wd |-> 0, mask |-> "overflow", name |-> <<>>]
    BY DEF Overflow, Event
  <1>2. <<>> \in Seq(Nat) /\ 0 \in Nat
    OBVIOUS
  <1>3. Overflow \in Events
    BY <1>1, <1>2, EventsHave DEF Masks
  <1>4. Overflow.mask = "overflow" /\ Overflow.name = <<>>
    BY <1>1
  <1>5. QED
    BY <1>3, <1>4 DEF WellFormed, Signal

LEMMA EnqueueType ==
  ASSUME NEW q, Queue(q), NEW es \in Seq(Events), \A k \in DOMAIN es : WellFormed(es[k])
  PROVE  Queue(Enqueue(q, es)) /\ (NoOverflow(Enqueue(q, es)) => Enqueue(q, es) = q \o es)
PROOF
  <1> DEFINE N == QueueSize - Len(q)
             cut == SubSeq(es, 1, N)
             kept == q \o cut
  <1>1. QueueSize \in Nat /\ QueueSize > 0 /\ Len(q) \in Nat /\ Len(es) \in Nat /\ q \in Seq(Events)
        /\ Len(q) <= QueueSize + 1
    BY WatcherAssumption DEF Queue
  <1>2. CASE Len(q) + Len(es) <= QueueSize
    <2>1. Enqueue(q, es) = q \o es
      BY <1>2 DEF Enqueue
    <2>2. Len(q \o es) = Len(q) + Len(es) /\ q \o es \in Seq(Events)
      BY <1>1
    <2>3. \A k \in DOMAIN (q \o es) : WellFormed((q \o es)[k])
      BY <1>1, Joined DEF Queue
    <2>4. Len(q \o es) <= QueueSize
      BY <1>2, <2>2
    <2>5. Queue(q \o es)
      BY <1>1, <2>2, <2>3, <2>4 DEF Queue
    <2>6. QED
      BY <2>1, <2>5
  <1>3. CASE Len(q) + Len(es) > QueueSize
    <2>1. cut \in Seq(Events) /\ (N >= 0 => Len(cut) = N) /\ (N < 0 => cut = <<>>)
          /\ \A k \in DOMAIN cut : k \in DOMAIN es /\ cut[k] = es[k]
      <3>1. N \in Int /\ N < Len(es)
        BY <1>1, <1>3
      <3>2. \A k \in 1..N : es[k] \in Events
        BY <1>1, <3>1
      <3>3. cut \in Seq(Events) /\ Len(cut) = IF 1 <= N THEN N - 1 + 1 ELSE 0
        BY <3>1, <3>2, SubSeqProperties
      <3>4. \A k \in 1 .. N - 1 + 1 : cut[k] = es[1 + k - 1]
        BY <3>1, <3>2, SubSeqProperties
      <3>5. QED
        BY <1>1, <3>1, <3>3, <3>4
    <2> HIDE DEF cut
    <2>2. kept \in Seq(Events) /\ Len(kept) = Len(q) + Len(cut)
      BY <1>1, <2>1
    <2>3. \A k \in DOMAIN kept : WellFormed(kept[k])
      <3>1. \A k \in DOMAIN q : WellFormed(q[k])
        BY DEF Queue
      <3>2. \A k \in DOMAIN cut : WellFormed(cut[k])
        BY <2>1
      <3>3. q \in Seq(Events) /\ cut \in Seq(Events)
        BY <1>1, <2>1
      <3>4. QED
        BY <3>1, <3>2, <3>3, Joined
    <2>4. Len(kept) = QueueSize \/ (Len(kept) = QueueSize + 1 /\ kept = q)
      BY <1>1, <2>1, <2>2
    <2>5. Len(kept) = QueueSize + 1 => \E k \in DOMAIN kept : kept[k] = Overflow
      <3>1. Len(kept) = QueueSize + 1 => kept = q
        BY <1>1, <2>4
      <3> HIDE DEF kept
      <3>2. QED
        BY <3>1 DEF Queue
    <2>6. Enqueue(q, es) = IF Contains(kept, Overflow) THEN kept ELSE Append(kept, Overflow)
      BY <1>1, <1>3 DEF Enqueue, cut
    <2> HIDE DEF kept
    <2>7. CASE Contains(kept, Overflow)
      <3>1. \E k \in DOMAIN kept : kept[k] = Overflow
        BY <2>2, <2>7 DEF Contains
      <3>2. Queue(kept) /\ ~NoOverflow(kept)
        BY <1>1, <2>2, <2>3, <2>4, <3>1 DEF Queue, NoOverflow
      <3>3. QED
        BY <2>6, <2>7, <3>2
    <2>8. CASE ~Contains(kept, Overflow)
      <3> DEFINE r == Append(kept, Overflow)
      <3>1. ~\E k \in DOMAIN kept : kept[k] = Overflow
        BY <2>2, <2>8 DEF Contains
      <3>2. Len(kept) = QueueSize
        BY <2>4, <2>5, <3>1
      <3>3. /\ r \in Seq(Events) /\ Len(r) = QueueSize + 1
            /\ QueueSize + 1 \in DOMAIN r /\ r[QueueSize + 1] = Overflow
            /\ \A k \in DOMAIN r : k = QueueSize + 1 \/ (k \in DOMAIN kept /\ r[k] = kept[k])
        BY <1>1, <2>2, <3>2, OverflowType
      <3> HIDE DEF r
      <3>4. \A k \in DOMAIN r : WellFormed(r[k])
        BY <2>3, <3>3, OverflowType
      <3>5. Queue(r) /\ ~NoOverflow(r)
        BY <3>3, <3>4 DEF Queue, NoOverflow
      <3>6. QED
        BY <2>6, <2>8, <3>5 DEF r
    <2>9. QED
      BY <2>7, <2>8
  <1>4. QED
    BY <1>1, <1>2, <1>3

LEMMA TailQueue ==
  ASSUME NEW q, Queue(q), q # <<>>
  PROVE  /\ Queue(Tail(q)) /\ Shifts(q, Tail(q)) /\ 1 \in DOMAIN q /\ Head(q) = q[1]
         /\ Head(q) \in Events /\ WellFormed(Head(q))
         /\ NoOverflow(q) => NoOverflow(Tail(q)) /\ Head(q) # Overflow
         /\ NoOverflow(Tail(q)) /\ Head(q) # Overflow => NoOverflow(q)
PROOF
  <1>1. q \in Seq(Events) /\ Len(q) <= QueueSize + 1 /\ QueueSize \in Nat
    BY WatcherAssumption DEF Queue
  <1>2. /\ Tail(q) \in Seq(Events) /\ Len(Tail(q)) = Len(q) - 1 /\ Len(q) \in Nat
        /\ 1 \in DOMAIN q /\ Head(q) = q[1] /\ q[1] \in Events
        /\ \A k \in DOMAIN Tail(q) : k + 1 \in DOMAIN q /\ Tail(q)[k] = q[k + 1]
        /\ \A k \in DOMAIN q : k # 1 => k - 1 \in DOMAIN Tail(q) /\ Tail(q)[k - 1] = q[k]
    BY <1>1
  <1>3. Len(Tail(q)) <= QueueSize
    BY <1>1, <1>2
  <1>4. \A k \in DOMAIN Tail(q) : WellFormed(Tail(q)[k])
    BY <1>2 DEF Queue
  <1>5. Queue(Tail(q))
    BY <1>1, <1>2, <1>3, <1>4 DEF Queue
  <1>6. Shifts(q, Tail(q))
    BY <1>1 DEF Shifts
  <1>7. NoOverflow(q) => NoOverflow(Tail(q)) /\ Head(q) # Overflow
    BY <1>2 DEF NoOverflow
  <1>8. NoOverflow(Tail(q)) /\ Head(q) # Overflow => NoOverflow(q)
    <2>1. SUFFICES ASSUME NoOverflow(Tail(q)), Head(q) # Overflow, NEW k \in DOMAIN q PROVE q[k] # Overflow
      BY DEF NoOverflow
    <2>2. CASE k = 1
      BY <1>2, <2>1, <2>2
    <2>3. CASE k # 1
      <3>1. k - 1 \in DOMAIN Tail(q) /\ Tail(q)[k - 1] = q[k]
        BY <1>2, <2>3
      <3>2. QED
        BY <2>1, <3>1 DEF NoOverflow
    <2>4. QED
      BY <2>2, <2>3
  <1>9. QED
    BY <1>2, <1>5, <1>6, <1>7, <1>8 DEF Queue

-----------------------------------------------------------------------------
(* Instances *)

Fields(i) == i = [queue |-> i.queue, watch |-> i.watch, byDescriptor |-> i.byDescriptor, byPath |-> i.byPath]

Watches(W) == W \in [DOMAIN W -> Nat] /\ DOMAIN W \subseteq Dir
Descriptors(D) == D \in [DOMAIN D -> Path] /\ DOMAIN D \subseteq Nat /\ IsFiniteSet(DOMAIN D)
Paths(B) == B \in [DOMAIN B -> Nat] /\ DOMAIN B \subseteq Path /\ IsFiniteSet(DOMAIN B)

Instance(i) ==
    Fields(i) /\ Queue(i.queue) /\ Watches(i.watch) /\ Descriptors(i.byDescriptor) /\ Paths(i.byPath)

LEMMA UnwatchedType ==
  /\ Instance(Unwatched) /\ Unwatched.queue = <<>> /\ Unwatched.watch = Empty
  /\ Unwatched.byDescriptor = Empty /\ Unwatched.byPath = Empty
PROOF
  <1>1. /\ Unwatched.queue = <<>> /\ Unwatched.watch = Empty
        /\ Unwatched.byDescriptor = Empty /\ Unwatched.byPath = Empty /\ Fields(Unwatched)
    BY DEF Unwatched, Fields
  <1>2. DOMAIN Empty = {} /\ \A T : Empty \in [{} -> T]
    BY DEF Empty
  <1>3. IsFiniteSet({})
    BY FS_EmptySet
  <1>4. Queue(<<>>)
    BY WatcherAssumption DEF Queue
  <1>5. Watches(Empty) /\ Descriptors(Empty) /\ Paths(Empty)
    BY <1>2, <1>3 DEF Watches, Descriptors, Paths
  <1>6. QED
    BY <1>1, <1>4, <1>5 DEF Instance

\* A sequence with the event e of a directory d, if that is watched
Says(es, W, d, e) ==
    /\ es \in Seq(Events) /\ \A k \in DOMAIN es : WellFormed(es[k])
    /\ \A k \in DOMAIN es : k = 1 /\ d \in DOMAIN W /\ es[k] = e
    /\ d \in DOMAIN W => 1 \in DOMAIN es /\ Len(es) = 1 /\ es[1] = e

LEMMA ToldSeq ==
  ASSUME NEW i, Instance(i), NEW d, NEW mask \in Masks, NEW name \in Seq(Nat), Signal(mask, name)
  PROVE  Says(Told(i, d, mask, name), i.watch, d, Event(i.watch[d], mask, name))
PROOF
  <1>1. CASE d \in DOMAIN i.watch
    <2> DEFINE e == Event(i.watch[d], mask, name)
    <2>1. i.watch[d] \in Nat
      BY <1>1 DEF Instance, Watches
    <2>2. e \in Events /\ e.mask = mask /\ e.name = name
      BY <2>1, EventsHave DEF Event
    <2>3. WellFormed(e)
      BY <2>2 DEF WellFormed
    <2>4. Told(i, d, mask, name) = <<e>>
      BY <1>1 DEF Told
    <2> HIDE DEF e
    <2>5. <<e>> \in Seq(Events) /\ DOMAIN <<e>> = {1} /\ Len(<<e>>) = 1 /\ <<e>>[1] = e
      BY <2>2
    <2>6. QED
      BY <1>1, <2>3, <2>4, <2>5 DEF e, Says
  <1>2. CASE d \notin DOMAIN i.watch
    <2>1. Told(i, d, mask, name) = <<>>
      BY <1>2 DEF Told
    <2>2. QED
      BY <1>2, <2>1 DEF Says
  <1>3. QED
    BY <1>1, <1>2

\* The record of an instance
Four(q, w, b, p) == [queue |-> q, watch |-> w, byDescriptor |-> b, byPath |-> p]

LEMMA NotifyRecord ==
  ASSUME NEW q, NEW w, NEW b, NEW p, NEW es, NEW dead
  PROVE  Notify(Four(q, w, b, p), es, dead) = Four(Enqueue(q, es), Without(w, dead), b, p)
PROOF
  <1> DEFINE x == Enqueue(q, es)
             y == Without(w, dead)
  <1>1. Notify(Four(q, w, b, p), es, dead) = [[Four(q, w, b, p) EXCEPT !.queue = x] EXCEPT !.watch = y]
    BY DEF Notify, Four
  <1> HIDE DEF x, y
  <1>2. [Four(q, w, b, p) EXCEPT !.queue = x] = Four(x, w, b, p)
    BY DEF Four
  <1>3. [Four(x, w, b, p) EXCEPT !.watch = y] = Four(x, y, b, p)
    BY DEF Four
  <1>4. QED
    BY <1>1, <1>2, <1>3 DEF x, y

LEMMA NotifyFields ==
  ASSUME NEW i, Instance(i), NEW es, NEW dead
  PROVE  /\ Notify(i, es, dead).queue = Enqueue(i.queue, es)
         /\ Notify(i, es, dead).watch = Without(i.watch, dead)
         /\ Notify(i, es, dead).byDescriptor = i.byDescriptor
         /\ Notify(i, es, dead).byPath = i.byPath
         /\ Fields(Notify(i, es, dead))
PROOF
  <1>1. i = Four(i.queue, i.watch, i.byDescriptor, i.byPath)
    BY DEF Instance, Fields, Four
  <1>2. Notify(i, es, dead) = Four(Enqueue(i.queue, es), Without(i.watch, dead), i.byDescriptor, i.byPath)
    BY <1>1, NotifyRecord
  <1>3. QED
    BY <1>2 DEF Fields, Four

LEMMA NotifyType ==
  ASSUME NEW i, Instance(i), NEW es \in Seq(Events), \A k \in DOMAIN es : WellFormed(es[k]), NEW dead
  PROVE  /\ Instance(Notify(i, es, dead))
         /\ NoOverflow(Notify(i, es, dead).queue) =>
                Notify(i, es, dead).queue = i.queue \o es /\ NoOverflow(i.queue)
PROOF
  <1> DEFINE j == Notify(i, es, dead)
  <1>1. /\ j.queue = Enqueue(i.queue, es) /\ j.watch = Without(i.watch, dead)
        /\ j.byDescriptor = i.byDescriptor /\ j.byPath = i.byPath /\ Fields(j)
    BY NotifyFields
  <1>2. Queue(j.queue) /\ (NoOverflow(j.queue) => j.queue = i.queue \o es)
    BY <1>1, EnqueueType DEF Instance
  <1>3. Watches(j.watch)
    <2>1. i.watch \in [DOMAIN i.watch -> Nat] /\ DOMAIN i.watch \subseteq Dir
      BY DEF Instance, Watches
    <2>2. /\ Without(i.watch, dead) \in [DOMAIN Without(i.watch, dead) -> Nat]
          /\ DOMAIN Without(i.watch, dead) = DOMAIN i.watch \ dead
      BY <2>1, WithoutMap, WithoutType
    <2>3. QED
      BY <1>1, <2>1, <2>2 DEF Watches
  <1>4. i.queue \in Seq(Events)
    BY DEF Instance, Queue
  <1> HIDE DEF j
  <1>5. Instance(j)
    BY <1>1, <1>2, <1>3 DEF Instance
  <1>6. ASSUME NoOverflow(j.queue) PROVE NoOverflow(i.queue)
    <2>1. j.queue = i.queue \o es
      BY <1>2, <1>6
    <2>2. \A k \in DOMAIN i.queue : k \in DOMAIN j.queue /\ j.queue[k] = i.queue[k]
      BY <1>4, <2>1, Joined
    <2>3. QED
      BY <1>6, <2>2 DEF NoOverflow
  <1>7. QED
    BY <1>2, <1>5, <1>6 DEF j

-----------------------------------------------------------------------------
(* Descriptors *)

LEMMA FiniteImage ==
  ASSUME NEW f, IsFiniteSet(DOMAIN f)
  PROVE  IsFiniteSet({f[x] : x \in DOMAIN f})
PROOF
  <1> DEFINE T == {f[x] : x \in DOMAIN f}
             g == [x \in DOMAIN f |-> f[x]]
  <1>1. g \in Surjection(DOMAIN f, T)
    BY DEF Surjection
  <1>2. QED
    BY <1>1, FS_Surjection

LEMMA FiniteUsed ==
  ASSUME NEW i, Instance(i)
  PROVE  IsFiniteSet(Used(i)) /\ Used(i) \subseteq Nat
PROOF
  <1> DEFINE A == {i.watch[d] : d \in DOMAIN i.watch}
             B == DOMAIN i.byDescriptor
             C == {i.byPath[p] : p \in DOMAIN i.byPath}
             wds == [k \in DOMAIN i.queue |-> i.queue[k].wd]
             E == {wds[k] : k \in DOMAIN wds}
  <1>1. IsFiniteSet(A) /\ A \subseteq Nat
    <2>1. IsFiniteSet(DOMAIN i.watch)
      BY WatcherAssumption, FS_Subset DEF Instance, Watches
    <2>2. QED
      BY <2>1, FiniteImage DEF Instance, Watches
  <1>2. IsFiniteSet(B) /\ B \subseteq Nat
    BY DEF Instance, Descriptors
  <1>3. IsFiniteSet(C) /\ C \subseteq Nat
    <2>1. IsFiniteSet(DOMAIN i.byPath)
      BY DEF Instance, Paths
    <2>2. QED
      BY <2>1, FiniteImage DEF Instance, Paths
  <1>4. IsFiniteSet(E) /\ E \subseteq Nat
    <2>1. i.queue \in Seq(Events)
      BY DEF Instance, Queue
    <2>2. DOMAIN i.queue = 1 .. Len(i.queue) /\ Len(i.queue) \in Nat /\ \A k \in DOMAIN i.queue : i.queue[k] \in Events
      BY <2>1
    <2>3. IsFiniteSet(1 .. Len(i.queue))
      BY <2>2, FS_Interval
    <2>4. IsFiniteSet(DOMAIN wds)
      BY <2>2, <2>3
    <2>5. IsFiniteSet(E)
      <3> HIDE DEF wds
      <3>1. QED
        BY <2>4, FiniteImage
    <2>6. E \subseteq Nat
      BY <2>2 DEF Events
    <2>7. QED
      BY <2>5, <2>6
  <1>5. Used(i) = ((A \cup B) \cup C) \cup E
    BY DEF Used, Range
  <1> HIDE DEF A, B, C, E
  <1>6. IsFiniteSet((A \cup B) \cup C)
    BY <1>1, <1>2, <1>3, FS_Union
  <1>7. IsFiniteSet(((A \cup B) \cup C) \cup E)
    BY <1>4, <1>6, FS_Union
  <1>8. QED
    BY <1>1, <1>2, <1>3, <1>4, <1>5, <1>7

\* A directory without a watch gets a descriptor that nothing uses.
LEMMA FreshDescriptor ==
  ASSUME NEW i, Instance(i), NEW d
  PROVE  /\ Descriptor(i, d) \in Nat
         /\ d \in DOMAIN i.watch => Descriptor(i, d) = i.watch[d]
         /\ d \notin DOMAIN i.watch => Descriptor(i, d) \notin Used(i)
PROOF
  <1>1. CASE d \in DOMAIN i.watch
    BY <1>1 DEF Descriptor, Instance, Watches
  <1>2. CASE d \notin DOMAIN i.watch
    <2> DEFINE N == Cardinality(Used(i))
    <2>1. IsFiniteSet(Used(i)) /\ N \in Nat
      BY FiniteUsed, FS_CardinalityType
    <2>2. \E wd \in 1 .. N + 1 : wd \notin Used(i)
      <3>1. SUFFICES ASSUME \A wd \in 1 .. N + 1 : wd \in Used(i) PROVE FALSE
        OBVIOUS
      <3>2. 1 .. N + 1 \in SUBSET Used(i)
        BY <3>1
      <3>3. Cardinality(1 .. N + 1) <= N
        BY <2>1, <3>2, FS_Subset
      <3>4. Cardinality(1 .. N + 1) = N + 1
        BY <2>1, FS_Interval
      <3>5. QED
        BY <2>1, <3>3, <3>4
    <2>3. Descriptor(i, d) = CHOOSE wd \in 1 .. N + 1 : wd \notin Used(i)
      BY <1>2 DEF Descriptor
    <2>4. Descriptor(i, d) \in 1 .. N + 1 /\ Descriptor(i, d) \notin Used(i)
      BY <2>2, <2>3
    <2>5. QED
      BY <1>2, <2>1, <2>4
  <1>3. QED
    BY <1>1, <1>2

-----------------------------------------------------------------------------
(* add and removeWatches *)

LEMMA InodeOf ==
  ASSUME NEW p, Live(p)
  PROVE  Inode(p) \in DOMAIN at /\ at[Inode(p)] = p
PROOF
  <1>1. \E d \in DOMAIN at : at[d] = p
    BY DEF Live, Range
  <1>2. QED
    BY <1>1 DEF Inode

LEMMA AddFields ==
  ASSUME NEW i, Instance(i), NEW p, p \notin DOMAIN i.byPath, Live(p)
  PROVE  add(i, p) = Four(i.queue, With(i.watch, Inode(p), Descriptor(i, Inode(p))),
                          With(i.byDescriptor, Descriptor(i, Inode(p)), p),
                          With(i.byPath, p, Descriptor(i, Inode(p))))
PROOF
  <1> DEFINE e == Inode(p)
             wd == Descriptor(i, e)
             q == i.queue
             w == i.watch
             b == i.byDescriptor
             c == i.byPath
  <1>1. i = Four(q, w, b, c)
    BY DEF Instance, Fields, Four
  <1>2. add(i, p) = [i EXCEPT !.watch = With(@, e, wd), !.byDescriptor = With(@, wd, p), !.byPath = With(@, p, wd)]
    BY DEF add
  <1>3. add(i, p) = [[[i EXCEPT !.watch = With(w, e, wd)] EXCEPT !.byDescriptor = With(b, wd, p)]
                        EXCEPT !.byPath = With(c, p, wd)]
    <2> HIDE DEF e, wd
    <2> QED
      BY <1>1, <1>2 DEF Four
  <1> HIDE DEF e, wd, q, w, b, c
  <1>4. [Four(q, w, b, c) EXCEPT !.watch = With(w, e, wd)] = Four(q, With(w, e, wd), b, c)
    BY DEF Four
  <1>5. [Four(q, With(w, e, wd), b, c) EXCEPT !.byDescriptor = With(b, wd, p)] = Four(q, With(w, e, wd), With(b, wd, p), c)
    BY DEF Four
  <1>6. [Four(q, With(w, e, wd), With(b, wd, p), c) EXCEPT !.byPath = With(c, p, wd)]
            = Four(q, With(w, e, wd), With(b, wd, p), With(c, p, wd))
    BY DEF Four
  <1>7. add(i, p) = Four(q, With(w, e, wd), With(b, wd, p), With(c, p, wd))
    BY <1>1, <1>3, <1>4, <1>5, <1>6
  <1>8. QED
    BY <1>7 DEF e, wd, q, w, b, c

LEMMA FourFields ==
  ASSUME NEW q, NEW w, NEW b, NEW p
  PROVE  /\ Four(q, w, b, p).queue = q /\ Four(q, w, b, p).watch = w
         /\ Four(q, w, b, p).byDescriptor = b /\ Four(q, w, b, p).byPath = p
         /\ Fields(Four(q, w, b, p))
  BY DEF Four, Fields

LEMMA AddType ==
  ASSUME NEW i, Instance(i), NEW p \in Path, DOMAIN at \subseteq Dir
  PROVE  Instance(add(i, p))
PROOF
  <1>1. CASE p \in DOMAIN i.byPath \/ ~Live(p)
    BY <1>1 DEF add
  <1>2. CASE p \notin DOMAIN i.byPath /\ Live(p)
    <2> DEFINE e == Inode(p)
               wd == Descriptor(i, e)
               w == With(i.watch, e, wd)
               b == With(i.byDescriptor, wd, p)
               c == With(i.byPath, p, wd)
    <2>1. e \in Dir /\ wd \in Nat
      BY <1>2, InodeOf, FreshDescriptor
    <2>2. add(i, p) = Four(i.queue, w, b, c)
      BY <1>2, AddFields
    <2>3. Watches(w)
      <3> HIDE DEF e, wd
      <3>1. Watches(i.watch)
        BY DEF Instance
      <3>2. DOMAIN w = DOMAIN i.watch \cup {e} /\ w \in [DOMAIN w -> Nat]
        BY <2>1, <3>1, WithMap, WithType DEF Watches
      <3>3. QED
        BY <2>1, <3>1, <3>2 DEF Watches
    <2>4. Descriptors(b)
      <3> HIDE DEF e, wd
      <3>1. Descriptors(i.byDescriptor)
        BY DEF Instance
      <3>2. /\ DOMAIN b = DOMAIN i.byDescriptor \cup {wd}
            /\ b \in [DOMAIN b -> Path]
        BY <3>1, WithMap, WithType DEF Descriptors
      <3>3. IsFiniteSet(DOMAIN i.byDescriptor \cup {wd})
        BY <3>1, FS_AddElement DEF Descriptors
      <3>4. QED
        BY <2>1, <3>1, <3>2, <3>3 DEF Descriptors
    <2>5. Paths(c)
      <3> HIDE DEF e, wd
      <3>1. Paths(i.byPath)
        BY DEF Instance
      <3>2. /\ DOMAIN c = DOMAIN i.byPath \cup {p}
            /\ c \in [DOMAIN c -> Nat]
        BY <2>1, <3>1, WithMap, WithType DEF Paths
      <3>3. IsFiniteSet(DOMAIN i.byPath \cup {p})
        BY <3>1, FS_AddElement DEF Paths
      <3>4. QED
        BY <3>1, <3>2, <3>3 DEF Paths
    <2> HIDE DEF w, b, c
    <2>6. Queue(i.queue)
      BY DEF Instance
    <2>7. QED
      BY <2>2, <2>3, <2>4, <2>5, <2>6, FourFields DEF Instance
  <1>3. QED
    BY <1>1, <1>2

LEMMA SetToSeqOf ==
  ASSUME NEW S, IsFiniteSet(S)
  PROVE  /\ SetToSeq(S) \in Seq(S)
         /\ \A j, k \in DOMAIN SetToSeq(S) : SetToSeq(S)[j] = SetToSeq(S)[k] => j = k
PROOF
  <1> DEFINE N == Cardinality(S)
  <1>1. N \in Nat /\ ExistsBijection(1 .. N, S)
    BY FS_CardinalityType
  <1>2. \E f \in [1 .. N -> S] : IsInjective(f)
    BY <1>1 DEF ExistsBijection, Bijection, Injection
  <1>3. SetToSeq(S) \in [1 .. N -> S] /\ IsInjective(SetToSeq(S))
    BY <1>2 DEF SetToSeq
  <1> HIDE DEF N
  <1>4. SetToSeq(S) \in Seq(S)
    BY <1>1, <1>3
  <1>5. QED
    BY <1>3, <1>4 DEF IsInjective

\* The descriptors of some paths, and the directories that they watch
Wds(i, paths) == {i.byPath[q] : q \in paths}
Dirs(i, paths) == {d \in DOMAIN i.watch : i.watch[d] \in Wds(i, paths)}
Ends(i, paths) == SetToSeq({Event(i.watch[d], "ignored", <<>>) : d \in Dirs(i, paths)})

LEMMA EndsSeq ==
  ASSUME NEW i, Instance(i), NEW paths
  PROVE  /\ Ends(i, paths) \in Seq(Events)
         /\ \A k \in DOMAIN Ends(i, paths) : WellFormed(Ends(i, paths)[k])
         /\ \A k \in DOMAIN Ends(i, paths) :
                \E d \in Dirs(i, paths) : Ends(i, paths)[k] = Event(i.watch[d], "ignored", <<>>)
         /\ \A j, k \in DOMAIN Ends(i, paths) : Ends(i, paths)[j] = Ends(i, paths)[k] => j = k
PROOF
  <1> DEFINE f == [d \in Dirs(i, paths) |-> Event(i.watch[d], "ignored", <<>>)]
             S == {f[d] : d \in DOMAIN f}
  <1>1. Dirs(i, paths) \in SUBSET Dir
    BY DEF Dirs, Instance, Watches
  <1>2. IsFiniteSet(DOMAIN f)
    BY <1>1, WatcherAssumption, FS_Subset
  <1>3. IsFiniteSet(S)
    <2> HIDE DEF f
    <2>1. QED
      BY <1>2, FiniteImage
  <1>4. Ends(i, paths) = SetToSeq(S)
    <2>1. S = {Event(i.watch[d], "ignored", <<>>) : d \in Dirs(i, paths)}
      OBVIOUS
    <2>2. QED
      BY <2>1 DEF Ends
  <1>5. \A e \in S : \E d \in Dirs(i, paths) : e = Event(i.watch[d], "ignored", <<>>)
    OBVIOUS
  <1>6. ASSUME NEW d \in Dirs(i, paths)
        PROVE  Event(i.watch[d], "ignored", <<>>) \in Events /\ WellFormed(Event(i.watch[d], "ignored", <<>>))
    <2>1. i.watch[d] \in Nat
      BY DEF Dirs, Instance, Watches
    <2>2. <<>> \in Seq(Nat) /\ "ignored" \in Masks
      BY DEF Masks
    <2>3. Event(i.watch[d], "ignored", <<>>) \in Events
      BY <2>1, <2>2, EventsHave DEF Event
    <2>4. /\ Event(i.watch[d], "ignored", <<>>).mask = "ignored"
          /\ Event(i.watch[d], "ignored", <<>>).name = <<>>
      BY DEF Event
    <2>5. QED
      BY <2>3, <2>4 DEF WellFormed, Signal
  <1> HIDE DEF S
  <1>7. /\ SetToSeq(S) \in Seq(S)
        /\ \A j, k \in DOMAIN SetToSeq(S) : SetToSeq(S)[j] = SetToSeq(S)[k] => j = k
    BY <1>3, SetToSeqOf
  <1>8. \A k \in DOMAIN SetToSeq(S) : SetToSeq(S)[k] \in S
    BY <1>7
  <1>9. S \subseteq Events
    BY <1>5, <1>6
  <1>10. SetToSeq(S) \in Seq(Events)
    BY <1>7, <1>9, SeqMonotonic
  <1>11. QED
    BY <1>4, <1>5, <1>6, <1>7, <1>8, <1>10

LEMMA RemoveFields ==
  ASSUME NEW i, Instance(i), NEW paths
  PROVE  removeWatches(i, paths) =
            Four(Enqueue(i.queue, Ends(i, paths)), Without(i.watch, Dirs(i, paths)),
                 Without(i.byDescriptor, Wds(i, paths)), Without(i.byPath, paths))
PROOF
  <1> DEFINE q == Enqueue(i.queue, Ends(i, paths))
             w == Without(i.watch, Dirs(i, paths))
             b == i.byDescriptor
             c == i.byPath
             j == Notify(i, Ends(i, paths), Dirs(i, paths))
             x == Without(c, paths)
             y == Without(b, Wds(i, paths))
  <1>1. j = Four(q, w, b, c)
    BY NotifyFields DEF Fields, Four
  <1>2. removeWatches(i, paths) = [j EXCEPT !.byPath = Without(@, paths), !.byDescriptor = Without(@, Wds(i, paths))]
    BY DEF removeWatches, Wds, Dirs, Ends
  <1> HIDE DEF j
  <1>3. removeWatches(i, paths) = [[j EXCEPT !.byPath = x] EXCEPT !.byDescriptor = y]
    BY <1>1, <1>2 DEF Four
  <1> HIDE DEF q, w, b, c, x, y
  <1>4. [Four(q, w, b, c) EXCEPT !.byPath = x] = Four(q, w, b, x)
    BY DEF Four
  <1>5. [Four(q, w, b, x) EXCEPT !.byDescriptor = y] = Four(q, w, y, x)
    BY DEF Four
  <1>6. removeWatches(i, paths) = Four(q, w, y, x)
    BY <1>1, <1>3, <1>4, <1>5
  <1>7. QED
    BY <1>6 DEF q, w, b, c, x, y

LEMMA WithoutDescriptors ==
  ASSUME NEW D, Descriptors(D), NEW S
  PROVE  Descriptors(Without(D, S))
PROOF
  <1>1. /\ DOMAIN Without(D, S) = DOMAIN D \ S
        /\ Without(D, S) \in [DOMAIN Without(D, S) -> Path]
    BY WithoutMap, WithoutType DEF Descriptors
  <1>2. IsFiniteSet(DOMAIN D \ S)
    BY FS_Subset DEF Descriptors
  <1>3. QED
    BY <1>1, <1>2 DEF Descriptors

LEMMA WithoutPaths ==
  ASSUME NEW B, Paths(B), NEW S
  PROVE  Paths(Without(B, S))
PROOF
  <1>1. /\ DOMAIN Without(B, S) = DOMAIN B \ S
        /\ Without(B, S) \in [DOMAIN Without(B, S) -> Nat]
    BY WithoutMap, WithoutType DEF Paths
  <1>2. IsFiniteSet(DOMAIN B \ S)
    BY FS_Subset DEF Paths
  <1>3. QED
    BY <1>1, <1>2 DEF Paths

LEMMA RemoveType ==
  ASSUME NEW i, Instance(i), NEW paths
  PROVE  /\ Instance(removeWatches(i, paths))
         /\ NoOverflow(removeWatches(i, paths).queue) =>
                removeWatches(i, paths).queue = i.queue \o Ends(i, paths) /\ NoOverflow(i.queue)
PROOF
  <1> DEFINE j == Notify(i, Ends(i, paths), Dirs(i, paths))
             q == Enqueue(i.queue, Ends(i, paths))
             w == Without(i.watch, Dirs(i, paths))
             y == Without(i.byDescriptor, Wds(i, paths))
             x == Without(i.byPath, paths)
  <1>1. /\ Ends(i, paths) \in Seq(Events)
        /\ \A k \in DOMAIN Ends(i, paths) : WellFormed(Ends(i, paths)[k])
    BY EndsSeq
  <1>2. /\ Instance(j)
        /\ NoOverflow(j.queue) => j.queue = i.queue \o Ends(i, paths) /\ NoOverflow(i.queue)
    BY <1>1, NotifyType
  <1>3. j.queue = q /\ j.watch = w
    BY NotifyFields
  <1>4. Queue(q) /\ Watches(w)
    BY <1>2, <1>3 DEF Instance
  <1>5. Descriptors(y) /\ Paths(x)
    BY WithoutDescriptors, WithoutPaths DEF Instance
  <1>6. removeWatches(i, paths) = Four(q, w, y, x)
    BY RemoveFields
  <1> HIDE DEF q, w, y, x, j
  <1>7. Instance(Four(q, w, y, x)) /\ Four(q, w, y, x).queue = q
    BY <1>4, <1>5, FourFields DEF Instance
  <1>8. QED
    BY <1>2, <1>3, <1>6, <1>7

-----------------------------------------------------------------------------
(* The type invariant *)

Steps == [step : {"visit", "list"}, path : Path]
Items == Path \cup {Append(p, File) : p \in Path}

TypeInv ==
    /\ at \in [DOMAIN at -> Path] /\ DOMAIN at \subseteq Dir
    /\ ops \in 0 .. MaxOps
    /\ Instance(cur) /\ Instance(repl)
    /\ mode \in {"new", "read", "rebuild", "ended"}
    /\ walk \in Seq(Steps)
    /\ closed \in BOOLEAN /\ deadline \in BOOLEAN /\ failed \in BOOLEAN
    /\ stale \subseteq Items

LEMMA TypeInvTypeOK == TypeInv => TypeOK
PROOF
  <1>1. SUFFICES ASSUME TypeInv PROVE TypeOK
    OBVIOUS
  <1>2. DOMAIN at \subseteq Dir /\ Range(at) \subseteq Path
    BY <1>1 DEF TypeInv, Range
  <1>3. ASSUME NEW i, Instance(i)
        PROVE  /\ DOMAIN i = DOMAIN Unwatched
               /\ Len(i.queue) <= QueueSize + 1
               /\ DOMAIN i.watch \subseteq Dir
               /\ Range(i.byDescriptor) \cup DOMAIN i.byPath \subseteq Path
    <2>1. DOMAIN i = DOMAIN Unwatched
      <3>1. DOMAIN Unwatched = {"queue", "watch", "byDescriptor", "byPath"}
        BY DEF Unwatched
      <3>2. DOMAIN i = {"queue", "watch", "byDescriptor", "byPath"}
        BY <1>3 DEF Instance, Fields
      <3>3. QED
        BY <3>1, <3>2
    <2>2. Range(i.byDescriptor) \subseteq Path
      BY <1>3 DEF Instance, Descriptors, Range
    <2>3. QED
      BY <1>3, <2>1, <2>2 DEF Instance, Queue, Watches, Paths
  <1>4. Range(walk) \subseteq [step : {"visit", "list"}, path : Path]
    <2>1. walk \in Seq(Steps)
      BY <1>1 DEF TypeInv
    <2>2. \A k \in DOMAIN walk : walk[k] \in Steps
      BY <2>1
    <2>3. QED
      BY <2>2 DEF Steps, Range
  <1>5. QED
    BY <1>1, <1>2, <1>3, <1>4 DEF TypeInv, TypeOK, Items

\* A sequence of events
SeqOK(es) == es \in Seq(Events) /\ \A k \in DOMAIN es : WellFormed(es[k])

LEMMA JoinOK ==
  ASSUME NEW s, NEW t, SeqOK(s), SeqOK(t)
  PROVE  SeqOK(s \o t)
PROOF
  <1>1. s \in Seq(Events) /\ t \in Seq(Events) /\ s \o t \in Seq(Events)
    BY DEF SeqOK
  <1>2. \A k \in DOMAIN (s \o t) :
            \/ k \in DOMAIN s /\ (s \o t)[k] = s[k]
            \/ \E l \in DOMAIN t : k = Len(s) + l /\ (s \o t)[k] = t[l]
    BY <1>1, Joined
  <1>3. QED
    BY <1>1, <1>2 DEF SeqOK

LEMMA ToldLink ==
  ASSUME NEW i, Instance(i), NEW d, NEW mask \in {"create", "to", "delete", "from"}, NEW n \in Name
  PROVE  SeqOK(Told(i, d, mask, <<n>>))
PROOF
  <1>1. <<n>> \in Seq(Nat) /\ mask \in Masks /\ Signal(mask, <<n>>)
    BY NamesAreNumbers DEF Masks, Signal
  <1>2. QED
    BY <1>1, ToldSeq DEF SeqOK, Says

LEMMA ToldFile ==
  ASSUME NEW i, Instance(i), NEW d
  PROVE  SeqOK(Told(i, d, "file", <<File>>))
PROOF
  <1>1. <<File>> \in Seq(Nat) /\ "file" \in Masks /\ Signal("file", <<File>>)
    BY NamesAreNumbers DEF Masks, Signal
  <1>2. QED
    BY <1>1, ToldSeq DEF SeqOK, Says

LEMMA ToldSelf ==
  ASSUME NEW i, Instance(i), NEW d, NEW mask \in {"attrib", "deleteself", "moveself", "ignored"}
  PROVE  SeqOK(Told(i, d, mask, <<>>))
PROOF
  <1>1. <<>> \in Seq(Nat) /\ mask \in Masks /\ Signal(mask, <<>>)
    BY DEF Masks, Signal
  <1>2. QED
    BY <1>1, ToldSeq DEF SeqOK, Says

LEMMA DestroyedOK ==
  ASSUME NEW i, Instance(i), NEW d
  PROVE  SeqOK(Destroyed(i, d))
  BY ToldSelf, JoinOK DEF Destroyed

\* A step of another program
LEMMA ProgramType ==
  ASSUME TypeInv, ops < MaxOps, NEW c, NEW r, NEW items, Program(c, r, items),
         Instance(c), Instance(r), items \subseteq Items,
         at' \in [DOMAIN at' -> Path], DOMAIN at' \subseteq Dir
  PROVE  TypeInv'
PROOF
  <1>1. /\ ops' = ops + 1 /\ cur' = c /\ repl' = r /\ stale' \subseteq stale \cup items
        /\ mode' = mode /\ walk' = walk /\ closed' = closed /\ deadline' = deadline /\ failed' = failed
    BY DEF Program, endVars
  <1>2. ops' \in 0 .. MaxOps
    BY <1>1, WatcherAssumption DEF TypeInv
  <1>3. Instance(cur') /\ Instance(repl') /\ stale' \subseteq Items
    BY <1>1 DEF TypeInv
  <1>4. QED
    BY <1>1, <1>2, <1>3 DEF TypeInv

LEMMA PathItems ==
  ASSUME NEW p \in Path
  PROVE  {p} \subseteq Items /\ {Append(p, File)} \subseteq Items
  BY DEF Items

LEMMA LivePath ==
  ASSUME TypeInv, NEW p, Live(p)
  PROVE  p \in Path /\ Inode(p) \in DOMAIN at /\ Inode(p) \in Dir /\ at[Inode(p)] = p
  BY InodeOf DEF TypeInv

\* What an instance becomes when others make, remove, write or rename
AfterMkdir(i, p, n) == Notify(i, Told(i, Inode(p), "create", <<n>>), {})
AfterWrite(i, p) == Notify(i, Told(i, Inode(p), "file", <<File>>), {})
AfterMoveRoot(i) == Notify(i, Told(i, Root, "moveself", <<>>), {})
ParentFirst(i, p, n) == Told(i, Inode(p), "delete", <<n>>) \o Destroyed(i, Inode(Append(p, n)))
ParentLast(i, p, n) == Destroyed(i, Inode(Append(p, n))) \o Told(i, Inode(p), "delete", <<n>>)
AfterRmdir(i, p, n, es) == Notify(i, es, {Inode(Append(p, n))})
RenameLinks(i, p, n, q, m) ==
    Told(i, Inode(p), "from", <<n>>) \o Told(i, Inode(q), "to", <<m>>)
RenameSelf(i, p, n) == Told(i, Inode(Append(p, n)), "moveself", <<>>)
AfterRename(i, p, n, q, m) ==
    Notify(i, RenameLinks(i, p, n, q, m) \o RenameSelf(i, p, n), {})
AfterReplace(i, p, n, q, m) ==
    Notify(i, RenameLinks(i, p, n, q, m) \o Told(i, Inode(Append(q, m)), "attrib", <<>>)
                \o RenameSelf(i, p, n) \o Destroyed(i, Inode(Append(q, m))),
           {Inode(Append(q, m))})

LEMMA MkdirStep ==
  ASSUME NEW p, NEW n, Mkdir(p, n)
  PROVE  /\ Live(p) /\ ~Live(Append(p, n)) /\ Len(p) < MaxDepth
         /\ \E d \in Dir \ DOMAIN at : at' = With(at, d, Append(p, n))
         /\ Program(AfterMkdir(cur, p, n), AfterMkdir(repl, p, n), {Append(p, n)})
  BY DEF Mkdir, AfterMkdir

LEMMA WriteStep ==
  ASSUME NEW p, Write(p)
  PROVE  /\ Live(p) /\ at' = at
         /\ Program(AfterWrite(cur, p), AfterWrite(repl, p), {Append(p, File)})
  BY DEF Write, AfterWrite

LEMMA MoveRootStep ==
  ASSUME MoveRoot
  PROVE  /\ Live(<<>>) /\ at' = Empty
         /\ Program(AfterMoveRoot(cur), AfterMoveRoot(repl), {<<>>})
  BY DEF MoveRoot, AfterMoveRoot

LEMMA RmdirStep ==
  ASSUME NEW p, NEW n, Rmdir(p, n)
  PROVE  /\ Live(Append(p, n)) /\ Children(Append(p, n)) = {}
         /\ at' = Without(at, {Inode(Append(p, n))})
         /\ \/ Program(AfterRmdir(cur, p, n, ParentFirst(cur, p, n)),
                       AfterRmdir(repl, p, n, ParentFirst(repl, p, n)), {Append(p, n)})
            \/ Program(AfterRmdir(cur, p, n, ParentLast(cur, p, n)),
                       AfterRmdir(repl, p, n, ParentLast(repl, p, n)), {Append(p, n)})
  BY DEF Rmdir, AfterRmdir, ParentFirst, ParentLast

\* What is moved fits below its new place.
Fits(old, new) ==
    \A f \in DOMAIN at : IsPrefix(old, at[f]) => Moved(old, new, at[f]) \in Path

\* The directories that a rename replaces
Over(new) == {d \in DOMAIN at : at[d] = new}

\* The paths after a rename
RelocatedPaths(old, new) ==
    [f \in DOMAIN at |-> IF IsPrefix(old, at[f]) THEN Moved(old, new, at[f]) ELSE at[f]]

Renamed(old, new) == at' = Without(RelocatedPaths(old, new), Over(new))

LEMMA RenameStep ==
  ASSUME NEW p, NEW n, NEW q, NEW m, Rename(p, n, q, m)
  PROVE  /\ Live(Append(p, n)) /\ Live(q) /\ Append(p, n) # Append(q, m) /\ ~IsPrefix(Append(p, n), q)
         /\ Kind(q, Append(q, m)) \in Renames
         /\ Fits(Append(p, n), Append(q, m))
         /\ Renamed(Append(p, n), Append(q, m))
         /\ IF ~Live(Append(q, m))
            THEN Program(AfterRename(cur, p, n, q, m), AfterRename(repl, p, n, q, m), {Append(p, n), Append(q, m)})
            ELSE Program(AfterReplace(cur, p, n, q, m), AfterReplace(repl, p, n, q, m), {Append(p, n), Append(q, m)})
PROOF
  <1> DEFINE old == Append(p, n)
             new == Append(q, m)
             over == {d \in DOMAIN at : at[d] = new}
             moved == {d \in DOMAIN at : IsPrefix(old, at[d])}
  <1>1. /\ Live(old) /\ Live(q) /\ old # new /\ ~IsPrefix(old, q) /\ Kind(q, new) \in Renames
        /\ \A f \in moved : Moved(old, new, at[f]) \in Path
    BY DEF Rename
  <1>2. at' = Without([f \in DOMAIN at |-> IF f \in moved THEN Moved(old, new, at[f]) ELSE at[f]], over)
    BY DEF Rename
  <1>3. IF over = {}
        THEN Program(AfterRename(cur, p, n, q, m), AfterRename(repl, p, n, q, m), {old, new})
        ELSE Program(AfterReplace(cur, p, n, q, m), AfterReplace(repl, p, n, q, m), {old, new})
    BY DEF Rename, AfterRename, AfterReplace, RenameLinks, RenameSelf
  <1>4. over = {} <=> ~Live(new)
    BY DEF Live, Range
  <1>5. [f \in DOMAIN at |-> IF f \in moved THEN Moved(old, new, at[f]) ELSE at[f]] = RelocatedPaths(old, new)
    BY DEF RelocatedPaths
  <1>6. Fits(old, new)
    BY <1>1 DEF Fits
  <1>7. QED
    BY <1>1, <1>2, <1>3, <1>4, <1>5, <1>6 DEF Over, Renamed

LEMMA AfterType ==
  ASSUME NEW i, Instance(i), NEW p, NEW n \in Name, NEW q, NEW m \in Name
  PROVE  /\ Instance(AfterMkdir(i, p, n)) /\ Instance(AfterWrite(i, p)) /\ Instance(AfterMoveRoot(i))
         /\ SeqOK(ParentFirst(i, p, n)) /\ SeqOK(ParentLast(i, p, n))
         /\ Instance(AfterRmdir(i, p, n, ParentFirst(i, p, n)))
         /\ Instance(AfterRmdir(i, p, n, ParentLast(i, p, n)))
         /\ Instance(AfterRename(i, p, n, q, m)) /\ Instance(AfterReplace(i, p, n, q, m))
PROOF
  <1>1. ASSUME NEW es, SeqOK(es), NEW dead PROVE Instance(Notify(i, es, dead))
    BY <1>1, NotifyType DEF SeqOK
  <1>2. Instance(AfterMkdir(i, p, n))
    BY <1>1, ToldLink DEF AfterMkdir
  <1>3. Instance(AfterWrite(i, p)) /\ Instance(AfterMoveRoot(i))
    BY <1>1, ToldFile, ToldSelf DEF AfterWrite, AfterMoveRoot
  <1>4. SeqOK(ParentFirst(i, p, n)) /\ SeqOK(ParentLast(i, p, n))
    <2>1. SeqOK(Told(i, Inode(p), "delete", <<n>>)) /\ SeqOK(Destroyed(i, Inode(Append(p, n))))
      BY ToldLink, DestroyedOK
    <2>2. QED
      BY <2>1, JoinOK DEF ParentFirst, ParentLast
  <1>5. /\ Instance(AfterRmdir(i, p, n, ParentFirst(i, p, n)))
        /\ Instance(AfterRmdir(i, p, n, ParentLast(i, p, n)))
    BY <1>1, <1>4 DEF AfterRmdir
  <1>6. SeqOK(RenameLinks(i, p, n, q, m)) /\ SeqOK(RenameSelf(i, p, n))
    <2>1. SeqOK(Told(i, Inode(p), "from", <<n>>)) /\ SeqOK(Told(i, Inode(q), "to", <<m>>))
      BY ToldLink
    <2>2. QED
      BY <2>1, JoinOK, ToldSelf DEF RenameLinks, RenameSelf
  <1>7. Instance(AfterRename(i, p, n, q, m))
    <2>1. SeqOK(RenameLinks(i, p, n, q, m) \o RenameSelf(i, p, n))
      BY <1>6, JoinOK
    <2>2. QED
      BY <1>1, <2>1 DEF AfterRename
  <1>8. Instance(AfterReplace(i, p, n, q, m))
    <2> DEFINE e == Inode(Append(q, m))
    <2>1. SeqOK(Told(i, e, "attrib", <<>>)) /\ SeqOK(Destroyed(i, e))
      BY ToldSelf, DestroyedOK
    <2>2. SeqOK(RenameLinks(i, p, n, q, m) \o Told(i, e, "attrib", <<>>))
      BY <1>6, <2>1, JoinOK
    <2>3. SeqOK(RenameLinks(i, p, n, q, m) \o Told(i, e, "attrib", <<>>) \o RenameSelf(i, p, n))
      BY <1>6, <2>2, JoinOK
    <2>4. SeqOK(RenameLinks(i, p, n, q, m) \o Told(i, e, "attrib", <<>>) \o RenameSelf(i, p, n) \o Destroyed(i, e))
      BY <2>1, <2>3, JoinOK
    <2>5. QED
      BY <1>1, <2>4 DEF AfterReplace
  <1>9. QED
    BY <1>2, <1>3, <1>4, <1>5, <1>7, <1>8

LEMMA TypeMkdir ==
  ASSUME TypeInv, ops < MaxOps, NEW p, NEW n \in Name, Mkdir(p, n)
  PROVE  TypeInv'
PROOF
  <1>1. /\ Live(p) /\ Len(p) < MaxDepth
        /\ Program(AfterMkdir(cur, p, n), AfterMkdir(repl, p, n), {Append(p, n)})
    BY MkdirStep
  <1>2. Append(p, n) \in Path
    BY <1>1, LivePath, PathExtend
  <1>3. PICK d \in Dir \ DOMAIN at : at' = With(at, d, Append(p, n))
    BY MkdirStep
  <1>4. at' \in [DOMAIN at' -> Path] /\ DOMAIN at' \subseteq Dir
    <2>1. at \in [DOMAIN at -> Path] /\ DOMAIN at \subseteq Dir
      BY DEF TypeInv
    <2>2. /\ With(at, d, Append(p, n)) \in [DOMAIN With(at, d, Append(p, n)) -> Path]
          /\ DOMAIN With(at, d, Append(p, n)) = DOMAIN at \cup {d}
      BY <1>2, <2>1, WithMap, WithType
    <2>3. QED
      BY <1>3, <2>1, <2>2
  <1>5. Instance(AfterMkdir(cur, p, n)) /\ Instance(AfterMkdir(repl, p, n))
    BY AfterType DEF TypeInv
  <1>6. QED
    BY <1>1, <1>2, <1>4, <1>5, PathItems, ProgramType

LEMMA TypeRmdir ==
  ASSUME TypeInv, ops < MaxOps, NEW p, NEW n \in Name, Rmdir(p, n)
  PROVE  TypeInv'
PROOF
  <1>1. Append(p, n) \in Path /\ {Append(p, n)} \subseteq Items
    BY RmdirStep, LivePath, PathItems
  <1>2. at' \in [DOMAIN at' -> Path] /\ DOMAIN at' \subseteq Dir
    <2>1. at \in [DOMAIN at -> Path] /\ DOMAIN at \subseteq Dir
      BY DEF TypeInv
    <2>2. at' = Without(at, {Inode(Append(p, n))})
      BY RmdirStep
    <2>3. QED
      BY <2>1, <2>2, WithoutMap, WithoutType
  <1>3. ASSUME NEW i, Instance(i)
        PROVE  /\ Instance(AfterRmdir(i, p, n, ParentFirst(i, p, n)))
               /\ Instance(AfterRmdir(i, p, n, ParentLast(i, p, n)))
    BY <1>3, AfterType
  <1>4. Instance(cur) /\ Instance(repl)
    BY DEF TypeInv
  <1>5. CASE Program(AfterRmdir(cur, p, n, ParentFirst(cur, p, n)),
                     AfterRmdir(repl, p, n, ParentFirst(repl, p, n)), {Append(p, n)})
    <2>1. /\ Instance(AfterRmdir(cur, p, n, ParentFirst(cur, p, n)))
          /\ Instance(AfterRmdir(repl, p, n, ParentFirst(repl, p, n)))
      BY <1>3, <1>4
    <2>2. QED
      BY <1>1, <1>2, <1>5, <2>1, ProgramType
  <1>6. CASE Program(AfterRmdir(cur, p, n, ParentLast(cur, p, n)),
                     AfterRmdir(repl, p, n, ParentLast(repl, p, n)), {Append(p, n)})
    <2>1. /\ Instance(AfterRmdir(cur, p, n, ParentLast(cur, p, n)))
          /\ Instance(AfterRmdir(repl, p, n, ParentLast(repl, p, n)))
      BY <1>3, <1>4
    <2>2. QED
      BY <1>1, <1>2, <1>6, <2>1, ProgramType
  <1>7. QED
    BY <1>5, <1>6, RmdirStep

LEMMA TypeWrite ==
  ASSUME TypeInv, ops < MaxOps, NEW p, Write(p)
  PROVE  TypeInv'
PROOF
  <1>1. at' = at /\ Program(AfterWrite(cur, p), AfterWrite(repl, p), {Append(p, File)})
    BY WriteStep
  <1>2. {Append(p, File)} \subseteq Items
    BY WriteStep, LivePath, PathItems
  <1>3. Instance(AfterWrite(cur, p)) /\ Instance(AfterWrite(repl, p))
    BY ToldFile, NotifyType DEF AfterWrite, SeqOK, TypeInv
  <1>4. at' \in [DOMAIN at' -> Path] /\ DOMAIN at' \subseteq Dir
    BY <1>1 DEF TypeInv
  <1>5. QED
    BY <1>1, <1>2, <1>3, <1>4, ProgramType

LEMMA TypeMoveRoot ==
  ASSUME TypeInv, ops < MaxOps, MoveRoot
  PROVE  TypeInv'
PROOF
  <1>1. at' = Empty /\ Program(AfterMoveRoot(cur), AfterMoveRoot(repl), {<<>>})
    BY MoveRootStep
  <1>2. {<<>>} \subseteq Items
    BY MoveRootStep, LivePath, PathItems
  <1>3. ASSUME NEW i, Instance(i) PROVE Instance(AfterMoveRoot(i))
    BY <1>3, ToldSelf, NotifyType DEF AfterMoveRoot, SeqOK
  <1>4. Instance(AfterMoveRoot(cur)) /\ Instance(AfterMoveRoot(repl))
    BY <1>3 DEF TypeInv
  <1>5. at' \in [DOMAIN at' -> Path] /\ DOMAIN at' \subseteq Dir
    BY <1>1 DEF Empty
  <1>6. QED
    BY <1>1, <1>2, <1>4, <1>5, ProgramType

LEMMA TypeRename ==
  ASSUME TypeInv, ops < MaxOps, NEW p, NEW n \in Name, NEW q, NEW m \in Name, Rename(p, n, q, m)
  PROVE  TypeInv'
PROOF
  <1> DEFINE old == Append(p, n)
             new == Append(q, m)
             over == Over(new)
  <1>1. /\ Live(old) /\ \A f \in DOMAIN at : IsPrefix(old, at[f]) => Moved(old, new, at[f]) \in Path
        /\ at' = Without(RelocatedPaths(old, new), over)
    <2>1. Live(Append(p, n))
      BY RenameStep
    <2>2. Fits(Append(p, n), Append(q, m))
      BY RenameStep
    <2>3. Renamed(Append(p, n), Append(q, m))
      BY RenameStep
    <2>4. QED
      BY <2>1, <2>2, <2>3 DEF Fits, Renamed
  <1>2. old \in Path /\ new \in Path
    <2>1. old \in Path /\ at[Inode(old)] = old /\ Inode(old) \in DOMAIN at
      BY <1>1, LivePath
    <2>2. old \in Seq(Nat)
      BY <2>1, PathType
    <2>3. q \in Path /\ m \in Nat /\ q \in Seq(Nat)
      BY RenameStep, LivePath, PathType, NamesAreNumbers
    <2>4. new \in Seq(Nat)
      BY <2>3, AppendType
    <2> HIDE DEF old, new
    <2>5. IsPrefix(old, old) /\ Moved(old, new, old) = new
      BY <2>2, <2>4, PrefixRefl, MovedSelf
    <2>6. Moved(old, new, old) \in Path
      BY <1>1, <2>1, <2>5
    <2>7. QED
      BY <2>1, <2>5, <2>6
  <1> HIDE DEF old, new
  <1>3. at' \in [DOMAIN at' -> Path] /\ DOMAIN at' \subseteq Dir
    <2>1. at \in [DOMAIN at -> Path] /\ DOMAIN at \subseteq Dir
      BY DEF TypeInv
    <2>2. RelocatedPaths(old, new) \in [DOMAIN RelocatedPaths(old, new) -> Path] /\ DOMAIN RelocatedPaths(old, new) = DOMAIN at
      BY <1>1, <2>1 DEF RelocatedPaths
    <2> HIDE DEF over
    <2>3. /\ Without(RelocatedPaths(old, new), over) \in [DOMAIN Without(RelocatedPaths(old, new), over) -> Path]
          /\ DOMAIN Without(RelocatedPaths(old, new), over) = DOMAIN RelocatedPaths(old, new) \ over
      BY <2>2, WithoutMap, WithoutType
    <2>4. QED
      BY <1>1, <2>1, <2>2, <2>3
  <1>4. {old, new} \subseteq Items
    BY <1>2, PathItems
  <1>5. Instance(cur) /\ Instance(repl)
    BY DEF TypeInv
  <1>6. CASE Program(AfterRename(cur, p, n, q, m), AfterRename(repl, p, n, q, m), {old, new})
    <2>1. Instance(AfterRename(cur, p, n, q, m)) /\ Instance(AfterRename(repl, p, n, q, m))
      BY <1>5, AfterType
    <2>2. QED
      BY <1>3, <1>4, <1>6, <2>1, ProgramType
  <1>7. CASE Program(AfterReplace(cur, p, n, q, m), AfterReplace(repl, p, n, q, m), {old, new})
    <2>1. Instance(AfterReplace(cur, p, n, q, m)) /\ Instance(AfterReplace(repl, p, n, q, m))
      BY <1>5, AfterType
    <2>2. QED
      BY <1>3, <1>4, <1>7, <2>1, ProgramType
  <1>8. QED
    BY <1>6, <1>7, RenameStep DEF old, new

-----------------------------------------------------------------------------
(* The types of the reader's steps *)

LEMMA StepType ==
  ASSUME NEW p \in Path
  PROVE  /\ Visiting(p) \in Steps /\ Visiting(p).path = p /\ Visiting(p).step = "visit"
         /\ Listing(p) \in Steps /\ Listing(p).path = p /\ Listing(p).step = "list"
  BY DEF Visiting, Listing, Steps

LEMMA WalkHead ==
  ASSUME walk \in Seq(Steps), walk # <<>>
  PROVE  /\ Head(walk) \in Steps /\ Head(walk).path \in Path /\ Head(walk).step \in {"visit", "list"}
         /\ Tail(walk) \in Seq(Steps)
PROOF
  <1>1. Head(walk) \in Steps /\ Tail(walk) \in Seq(Steps)
    OBVIOUS
  <1>2. QED
    BY <1>1 DEF Steps

LEMMA RestType ==
  ASSUME Instance(cur), cur.queue # <<>>
  PROVE  /\ Instance(rest) /\ rest.queue = Tail(cur.queue) /\ rest.watch = cur.watch
         /\ rest.byDescriptor = cur.byDescriptor /\ rest.byPath = cur.byPath
PROOF
  <1> DEFINE q == cur.queue
             w == cur.watch
             b == cur.byDescriptor
             c == cur.byPath
             t == Tail(q)
  <1>1. cur = Four(q, w, b, c)
    BY DEF Instance, Fields, Four
  <1>2. rest = [cur EXCEPT !.queue = t]
    BY DEF rest
  <1>3. Queue(t) /\ Watches(w) /\ Descriptors(b) /\ Paths(c)
    BY TailQueue DEF Instance
  <1> HIDE DEF q, w, b, c, t
  <1>4. [Four(q, w, b, c) EXCEPT !.queue = t] = Four(t, w, b, c)
    BY DEF Four
  <1>5. rest = Four(t, w, b, c)
    BY <1>1, <1>2, <1>4
  <1>6. QED
    BY <1>3, <1>5, FourFields DEF Instance, q, w, b, c, t

\* What the ignored event of a descriptor leaves
Forgotten(i, wd, p) == [i EXCEPT !.byDescriptor = Without(@, {wd}), !.byPath = Without(@, {p})]

Forgets(i, j, wd, p) ==
    /\ j.queue = i.queue /\ j.watch = i.watch
    /\ j.byDescriptor = Without(i.byDescriptor, {wd}) /\ j.byPath = Without(i.byPath, {p})

LEMMA ForgottenType ==
  ASSUME NEW i, Instance(i), NEW wd, NEW p
  PROVE  Instance(Forgotten(i, wd, p)) /\ Forgets(i, Forgotten(i, wd, p), wd, p)
PROOF
  <1> DEFINE q == i.queue
             w == i.watch
             b == i.byDescriptor
             c == i.byPath
             x == Without(b, {wd})
             y == Without(c, {p})
  <1>1. i = Four(q, w, b, c)
    BY DEF Instance, Fields, Four
  <1>2. Forgotten(i, wd, p) = [[i EXCEPT !.byDescriptor = x] EXCEPT !.byPath = y]
    BY <1>1 DEF Forgotten, Four
  <1>3. Queue(q) /\ Watches(w) /\ Descriptors(x) /\ Paths(y)
    BY WithoutDescriptors, WithoutPaths DEF Instance
  <1> HIDE DEF q, w, b, c, x, y
  <1>4. [Four(q, w, b, c) EXCEPT !.byDescriptor = x] = Four(q, w, x, c)
    BY DEF Four
  <1>5. [Four(q, w, x, c) EXCEPT !.byPath = y] = Four(q, w, x, y)
    BY DEF Four
  <1>6. Forgotten(i, wd, p) = Four(q, w, x, y)
    BY <1>1, <1>2, <1>4, <1>5
  <1>7. QED
    BY <1>3, <1>6, FourFields DEF Instance, Forgets, q, w, b, c, x, y

LEMMA TypeVisit == TypeInv /\ Visit => TypeInv'
PROOF
  <1>1. SUFFICES ASSUME TypeInv, Visit PROVE TypeInv'
    OBVIOUS
  <1> DEFINE p == Head(walk).path
  <1>2. p \in Path /\ Tail(walk) \in Seq(Steps)
    BY <1>1, WalkHead DEF TypeInv, Visit
  <1>3. walk' \in Seq(Steps)
    <2>1. walk' = <<Listing(p)>> \o Tail(walk)
      BY <1>1 DEF Visit
    <2>2. <<Listing(p)>> \in Seq(Steps)
      BY <1>2, StepType
    <2>3. QED
      BY <1>2, <2>1, <2>2
  <1>4. Instance(cur') /\ Instance(repl') /\ stale' \subseteq stale
    <2>1. Instance(cur) /\ Instance(repl) /\ DOMAIN at \subseteq Dir
      BY <1>1 DEF TypeInv
    <2>2. Instance(add(cur, p)) /\ Instance(add(repl, p))
      BY <1>2, <2>1, AddType
    <2>3. \/ cur' = add(cur, p) /\ stale' \subseteq stale /\ repl' = repl
          \/ repl' = add(repl, p) /\ cur' = cur /\ stale' = stale
      BY <1>1 DEF Visit, send
    <2> HIDE DEF p
    <2>4. QED
      BY <2>1, <2>2, <2>3
  <1>5. /\ at' = at /\ ops' = ops /\ mode' = mode /\ closed' = closed
        /\ deadline' = deadline /\ failed' = failed
    BY <1>1 DEF Visit, endVars
  <1>6. QED
    BY <1>1, <1>3, <1>4, <1>5 DEF TypeInv

LEMMA SortedNames ==
  ASSUME NEW S, IsFiniteSet(S), NEW s \in Sorted(S)
  PROVE  s \in Seq(S) /\ \A n \in S : \E k \in DOMAIN s : s[k] = n
PROOF
  <1> DEFINE N == Cardinality(S)
  <1>1. N \in Nat
    BY FS_CardinalityType
  <1>2. s \in SetToSeqs(S)
    BY DEF Sorted
  <1>3. s \in [1 .. N -> S] /\ \A j, k \in 1 .. N : j # k => s[j] # s[k]
    BY <1>2 DEF SetToSeqs
  <1>4. s \in Injection(1 .. N, S)
    BY <1>3 DEF Injection, IsInjective
  <1>5. Cardinality(1 .. N) = N
    BY <1>1, FS_Interval
  <1> HIDE DEF N
  <1>6. N = Cardinality(S)
    BY DEF N
  <1>7. s \in Surjection(1 .. N, S)
    BY <1>4, <1>5, <1>6, FS_Injection
  <1>8. s \in Seq(S) /\ DOMAIN s = 1 .. N
    BY <1>1, <1>3
  <1>9. QED
    BY <1>7, <1>8 DEF Surjection

LEMMA FiniteChildren ==
  ASSUME TypeInv, NEW p \in Path
  PROVE  IsFiniteSet(Children(p))
PROOF
  <1> DEFINE f == [n \in Children(p) |-> Inode(Append(p, n))]
  <1>1. ASSUME NEW n \in Children(p)
        PROVE  Inode(Append(p, n)) \in Dir /\ at[Inode(Append(p, n))] = Append(p, n) /\ n \in Nat
    BY LivePath, NamesAreNumbers DEF Children
  <1>2. f \in [Children(p) -> Dir]
    BY <1>1
  <1>3. ASSUME NEW m \in Children(p), NEW n \in Children(p), f[m] = f[n]
        PROVE  m = n
    <2>1. Append(p, m) = Append(p, n)
      BY <1>1, <1>3
    <2>2. p \in Seq(Nat)
      BY PathType
    <2>3. QED
      BY <1>1, <2>1, <2>2, AppendSame
  <1>4. f \in Injection(Children(p), Dir)
    <2>1. DOMAIN f = Children(p)
      OBVIOUS
    <2> HIDE DEF f
    <2>2. QED
      BY <1>2, <1>3, <2>1 DEF Injection, IsInjective
  <1> HIDE DEF f
  <1>5. QED
    BY <1>4, WatcherAssumption, FS_Injection

\* The visits of the entries of a directory
Entries(p, names) == [k \in DOMAIN names |-> Visiting(Append(p, names[k]))]

LEMMA EntriesType ==
  ASSUME TypeInv, NEW p \in Path, NEW names \in Sorted(Children(p))
  PROVE  /\ Entries(p, names) \in Seq(Steps)
         /\ \A k \in DOMAIN Entries(p, names) :
                \E n \in Children(p) : Entries(p, names)[k] = Visiting(Append(p, n))
         /\ \A n \in Children(p) :
                \E k \in DOMAIN Entries(p, names) : Entries(p, names)[k] = Visiting(Append(p, n))
PROOF
  <1>1. names \in Seq(Children(p)) /\ \A n \in Children(p) : \E k \in DOMAIN names : names[k] = n
    BY FiniteChildren, SortedNames
  <1>2. ASSUME NEW n \in Children(p) PROVE Visiting(Append(p, n)) \in Steps
    BY LivePath, StepType DEF Children
  <1>3. Len(names) \in Nat /\ DOMAIN names = 1 .. Len(names) /\ \A k \in DOMAIN names : names[k] \in Children(p)
    BY <1>1
  <1>4. DOMAIN Entries(p, names) = DOMAIN names
        /\ \A k \in DOMAIN names : Entries(p, names)[k] = Visiting(Append(p, names[k]))
    BY DEF Entries
  <1>5. Entries(p, names) \in [1 .. Len(names) -> Steps]
    <2>1. \A k \in DOMAIN names : Visiting(Append(p, names[k])) \in Steps
      BY <1>2, <1>3
    <2>2. QED
      BY <1>3, <2>1 DEF Entries
  <1>6. Entries(p, names) \in Seq(Steps)
    BY <1>3, <1>5
  <1>7. QED
    BY <1>1, <1>3, <1>4, <1>6

LEMMA TypeList == TypeInv /\ List => TypeInv'
PROOF
  <1>1. SUFFICES ASSUME TypeInv, List PROVE TypeInv'
    OBVIOUS
  <1> DEFINE p == Head(walk).path
  <1>2. p \in Path /\ Tail(walk) \in Seq(Steps)
    BY <1>1, WalkHead DEF TypeInv, List
  <1>3. PICK names \in Sorted(Children(p)) : walk' = Entries(p, names) \o Tail(walk)
    BY <1>1 DEF List, Entries
  <1>4. walk' \in Seq(Steps)
    <2>1. Entries(p, names) \in Seq(Steps)
      BY <1>1, <1>2, EntriesType
    <2>2. QED
      BY <1>2, <1>3, <2>1
  <1>5. stale' \subseteq stale
    BY <1>1 DEF List, send
  <1>6. /\ at' = at /\ ops' = ops /\ cur' = cur /\ repl' = repl /\ mode' = mode /\ closed' = closed
        /\ deadline' = deadline /\ failed' = failed
    BY <1>1 DEF List, endVars
  <1>7. QED
    BY <1>1, <1>4, <1>5, <1>6 DEF TypeInv

LEMMA TypeFail ==
  ASSUME TypeInv, Fail
  PROVE  closed' \in BOOLEAN /\ deadline' \in BOOLEAN /\ failed' \in BOOLEAN
  BY DEF Fail, CloseOnce, TypeInv

LEMMA TypeRebuildFails ==
  ASSUME TypeInv, RebuildFails
  PROVE  /\ Instance(repl') /\ mode' \in {"new", "read", "rebuild", "ended"}
         /\ closed' \in BOOLEAN /\ deadline' \in BOOLEAN /\ failed' \in BOOLEAN
PROOF
  <1>1. Instance(repl')
    BY UnwatchedType DEF RebuildFails
  <1>2. mode' \in {"new", "read", "rebuild", "ended"}
    BY DEF RebuildFails
  <1>3. closed' \in BOOLEAN /\ deadline' \in BOOLEAN /\ failed' \in BOOLEAN
    BY TypeFail DEF RebuildFails, TypeInv
  <1>4. QED
    BY <1>1, <1>2, <1>3

LEMMA TypeWalkFails == TypeInv /\ WalkFails => TypeInv'
PROOF
  <1>1. SUFFICES ASSUME TypeInv, WalkFails PROVE TypeInv'
    OBVIOUS
  <1>2. at' = at /\ ops' = ops /\ cur' = cur /\ stale' = stale /\ walk' = <<>>
    BY <1>1 DEF WalkFails
  <1>3. /\ Instance(repl') /\ mode' \in {"new", "read", "rebuild", "ended"}
        /\ closed' \in BOOLEAN /\ deadline' \in BOOLEAN /\ failed' \in BOOLEAN
    <2>1. CASE RebuildFails
      BY <1>1, <2>1, TypeRebuildFails
    <2>2. CASE Fail /\ repl' = repl /\ mode' = mode
      <3>1. closed' \in BOOLEAN /\ deadline' \in BOOLEAN /\ failed' \in BOOLEAN
        BY <1>1, <2>2, TypeFail
      <3>2. Instance(repl') /\ mode' \in {"new", "read", "rebuild", "ended"}
        BY <1>1, <2>2 DEF TypeInv
      <3>3. QED
        BY <3>1, <3>2
    <2>3. QED
      BY <1>1, <2>1, <2>2 DEF WalkFails
  <1>4. walk' \in Seq(Steps)
    BY <1>2
  <1>5. QED
    BY <1>1, <1>2, <1>3, <1>4 DEF TypeInv

LEMMA TypeRebuildEnds == TypeInv /\ RebuildEnds => TypeInv'
PROOF
  <1>1. SUFFICES ASSUME TypeInv, RebuildEnds PROVE TypeInv'
    OBVIOUS
  <1>2. at' = at /\ ops' = ops /\ walk' = walk
    BY <1>1 DEF RebuildEnds
  <1>3. CASE Rebuilt /\ repl' = Unwatched /\ closed' = closed /\ failed' = failed
    <2>1. cur' = repl /\ deadline' = closed /\ mode' = "read" /\ stale' \subseteq stale
      BY <1>3 DEF Rebuilt, Swap, send
    <2>2. Instance(cur') /\ Instance(repl') /\ mode' \in {"new", "read", "rebuild", "ended"}
      BY <1>1, <1>3, <2>1, UnwatchedType DEF TypeInv
    <2>3. QED
      BY <1>1, <1>2, <1>3, <2>1, <2>2 DEF TypeInv
  <1>4. CASE RebuildFails /\ cur' = cur /\ stale' = stale
    <2>1. /\ Instance(repl') /\ mode' \in {"new", "read", "rebuild", "ended"}
          /\ closed' \in BOOLEAN /\ deadline' \in BOOLEAN /\ failed' \in BOOLEAN
      BY <1>1, <1>4, TypeRebuildFails
    <2>2. QED
      BY <1>1, <1>2, <1>4, <2>1 DEF TypeInv
  <1>5. QED
    BY <1>1, <1>3, <1>4 DEF RebuildEnds

LEMMA TypeWalkFrom ==
  ASSUME TypeInv, NEW p, WalkFrom(p)
  PROVE  walk' \in Seq(Steps)
PROOF
  <1>1. CASE Live(p)
    <2>1. Visiting(p) \in Steps
      BY <1>1, LivePath, StepType
    <2>2. walk' = <<Visiting(p)>>
      BY <1>1 DEF WalkFrom
    <2>3. QED
      BY <2>1, <2>2
  <1>2. CASE ~Live(p)
    BY <1>2 DEF WalkFrom
  <1>3. QED
    BY <1>1, <1>2

LEMMA TypeHandle == TypeInv /\ handle => TypeInv'
PROOF
  <1>1. SUFFICES ASSUME TypeInv, handle PROVE TypeInv'
    OBVIOUS
  <1>2. at' = at /\ ops' = ops /\ repl' = repl /\ cur.queue # <<>> /\ Instance(cur)
    BY <1>1 DEF handle, TypeInv
  <1>3. Instance(rest)
    BY <1>2, RestType
  <1>4. SUFFICES /\ Instance(cur') /\ mode' \in {"new", "read", "rebuild", "ended"}
                 /\ walk' \in Seq(Steps) /\ stale' \subseteq stale
                 /\ closed' \in BOOLEAN /\ deadline' \in BOOLEAN /\ failed' \in BOOLEAN
    BY <1>1, <1>2 DEF TypeInv
  <1>5. closed \in BOOLEAN /\ deadline \in BOOLEAN /\ failed \in BOOLEAN
        /\ walk \in Seq(Steps) /\ mode \in {"new", "read", "rebuild", "ended"}
    BY <1>1 DEF TypeInv
  <1>6. CASE /\ mode' = "rebuild" /\ cur' = rest /\ WalkFrom(<<>>) /\ UNCHANGED <<endVars, stale>>
    BY <1>1, <1>3, <1>5, <1>6, TypeWalkFrom DEF endVars
  <1>7. CASE cur' = rest /\ Fail /\ UNCHANGED <<mode, walk, stale>>
    BY <1>1, <1>3, <1>5, <1>7, TypeFail
  <1>8. CASE cur' = removeTree(rest, path) /\ send(path) /\ UNCHANGED <<mode, walk, endVars>>
    <2>1. Instance(cur')
      BY <1>3, <1>8, RemoveType DEF removeTree
    <2>2. QED
      BY <1>5, <1>8, <2>1 DEF endVars, send
  <1>9. CASE cur' = rest /\ WalkFrom(path) /\ UNCHANGED <<mode, endVars, stale>>
    BY <1>1, <1>3, <1>5, <1>9, TypeWalkFrom DEF endVars
  <1>10. CASE /\ cur' = [rest EXCEPT !.byDescriptor = Without(@, {event.wd}), !.byPath = Without(@, {path})]
              /\ UNCHANGED <<mode, walk, endVars, stale>>
    <2>1. cur' = Forgotten(rest, event.wd, path)
      BY <1>10 DEF Forgotten
    <2>2. Instance(cur')
      BY <1>3, <2>1, ForgottenType
    <2>3. UNCHANGED <<mode, walk, endVars, stale>>
      BY <1>10
    <2>4. QED
      BY <1>5, <2>2, <2>3 DEF endVars
  <1>11. CASE cur' = rest /\ send(path) /\ UNCHANGED <<mode, walk, endVars>>
    BY <1>3, <1>5, <1>11 DEF endVars, send
  <1>12. CASE cur' = rest /\ UNCHANGED <<mode, walk, endVars, stale>>
    BY <1>3, <1>5, <1>12 DEF endVars
  <1>13. QED
    BY <1>1, <1>6, <1>7, <1>8, <1>9, <1>10, <1>11, <1>12 DEF handle

LEMMA TypeClose == TypeInv /\ Close => TypeInv'
PROOF
  <1>1. SUFFICES ASSUME TypeInv, Close PROVE TypeInv'
    OBVIOUS
  <1>2. closed' \in BOOLEAN /\ deadline' \in BOOLEAN
    BY <1>1 DEF Close, CloseOnce, TypeInv
  <1>3. QED
    BY <1>1, <1>2 DEF Close, TypeInv

LEMMA TypeEnds == TypeInv /\ readLoopEnds => TypeInv'
  BY DEF TypeInv, readLoopEnds, endVars

LEMMA TypePrograms == TypeInv /\ Programs => TypeInv'
PROOF
  <1>1. SUFFICES ASSUME TypeInv, Programs PROVE TypeInv'
    OBVIOUS
  <1>2. ops < MaxOps
    BY <1>1 DEF Programs
  <1>3. CASE MoveRoot
    BY <1>1, <1>2, <1>3, TypeMoveRoot
  <1>4. ASSUME NEW p \in Range(at), Write(p) PROVE TypeInv'
    BY <1>1, <1>2, <1>4, TypeWrite
  <1>5. ASSUME NEW p \in Range(at), NEW n \in Name, Mkdir(p, n) PROVE TypeInv'
    BY <1>1, <1>2, <1>5, TypeMkdir
  <1>6. ASSUME NEW p \in Range(at), NEW n \in Name, Rmdir(p, n) PROVE TypeInv'
    BY <1>1, <1>2, <1>6, TypeRmdir
  <1>7. ASSUME NEW p \in Range(at), NEW n \in Name, NEW q \in Range(at), NEW m \in Name, Rename(p, n, q, m)
        PROVE TypeInv'
    BY <1>1, <1>2, <1>7, TypeRename
  <1>8. QED
    BY <1>1, <1>3, <1>4, <1>5, <1>6, <1>7 DEF Programs

LEMMA TypeInit == Init => TypeInv
PROOF
  <1>1. SUFFICES ASSUME Init PROVE TypeInv
    OBVIOUS
  <1>2. at \in [DOMAIN at -> Path] /\ DOMAIN at \subseteq Dir
    BY <1>1 DEF Init
  <1>3. ops \in 0 .. MaxOps
    BY <1>1, WatcherAssumption DEF Init
  <1>4. Instance(cur) /\ Instance(repl)
    BY <1>1, UnwatchedType DEF Init
  <1>5. walk \in Seq(Steps)
    <2>1. Visiting(<<>>) \in Steps
      BY PathType, StepType
    <2>2. QED
      BY <1>1, <2>1 DEF Init
  <1>6. /\ mode \in {"new", "read", "rebuild", "ended"} /\ stale \subseteq Items
        /\ closed \in BOOLEAN /\ deadline \in BOOLEAN /\ failed \in BOOLEAN
    BY <1>1 DEF Init
  <1>7. QED
    BY <1>2, <1>3, <1>4, <1>5, <1>6 DEF TypeInv

LEMMA TypeNext == TypeInv /\ [Next]_vars => TypeInv'
PROOF
  <1>1. TypeInv /\ Next => TypeInv'
    BY TypeVisit, TypeList, TypeRebuildEnds, TypeHandle, TypeEnds, TypeWalkFails, TypeClose, TypePrograms
       DEF Next, Reader
  <1>2. TypeInv /\ UNCHANGED vars => TypeInv'
    BY DEF TypeInv, vars, endVars
  <1>3. QED
    BY <1>1, <1>2

LEMMA SpecTypeInv == Spec => []TypeInv
  BY TypeInit, TypeNext, PTL DEF Spec

\* Whatever the other programs do, and whatever fails, the watcher keeps its
\* types, and no queue of the kernel grows past its limit and the one event
\* that tells of the overflow (Enqueue, add, removeTree, handle, rebuild).
THEOREM SpecTypeOK == Spec => []TypeOK
PROOF
  <1>1. TypeInv => TypeOK
    BY TypeInvTypeOK
  <1>2. QED
    BY <1>1, SpecTypeInv, PTL

-----------------------------------------------------------------------------
(* Soundness of an instance *)

\* The two maps of an instance are inverse to each other.
MapsAgree(i) ==
    /\ \A u \in DOMAIN i.byDescriptor :
        i.byDescriptor[u] \in DOMAIN i.byPath /\ i.byPath[i.byDescriptor[u]] = u
    /\ \A p \in DOMAIN i.byPath :
        i.byPath[p] \in DOMAIN i.byDescriptor /\ i.byDescriptor[i.byPath[p]] = p

\* The root has been moved away, and the instance is going to learn of it.
RootGone(i) ==
    <<>> \in DOMAIN i.byPath =>
        /\ \E k \in DOMAIN i.queue : i.queue[k] = Event(i.byPath[<<>>], "moveself", <<>>)
        /\ \A k \in DOMAIN i.queue : i.queue[k].wd = i.byPath[<<>>] => i.queue[k].mask # "ignored"

SoundIn(a, i, vs, ls) ==
    /\ MapsAgree(i)
    /\ IsTree(a) => Core(a, i.queue, i.watch, i.byDescriptor, vs, ls)
    /\ DOMAIN a = {} => RootGone(i)

ReportedIn(a, i, vs, ls, s) == Reported(a, i.queue, i.byDescriptor, vs, ls, s)

LEMMA LiveTree == \A p : Live(p) <=> InTree(at, p)
  BY DEF Live, InTree, Range

LEMMA ItemsType == Items \subseteq Seq(Nat)
PROOF
  <1>1. \A p \in Path : Append(p, File) \in Seq(Nat)
    BY PathType, AppendType, NamesAreNumbers
  <1>2. QED
    BY <1>1, PathType DEF Items

LEMMA InstanceCore ==
  ASSUME TypeInv, NEW i, Instance(i), NEW vs, vs \subseteq Path, NEW ls, ls \subseteq Path
  PROVE  CoreTypes(at, i.queue, i.byDescriptor, vs, ls)
  BY DEF TypeInv, Instance, Queue, Descriptors, CoreTypes

\* An instance that has been notified, and has not overflowed
Notified(i, j, es, dead) ==
    /\ Follows(i.queue, es, j.queue)
    /\ j.watch = Without(i.watch, dead)
    /\ j.byDescriptor = i.byDescriptor /\ j.byPath = i.byPath

LEMMA NotifiedParts ==
  ASSUME NEW i, Instance(i), NEW es, SeqOK(es), NEW dead, NoOverflow(Notify(i, es, dead).queue)
  PROVE  Notified(i, Notify(i, es, dead), es, dead) /\ NoOverflow(i.queue)
PROOF
  <1> DEFINE j == Notify(i, es, dead)
  <1>1. j.queue = i.queue \o es /\ NoOverflow(i.queue)
    BY NotifyType DEF SeqOK
  <1>2. j.watch = Without(i.watch, dead) /\ j.byDescriptor = i.byDescriptor /\ j.byPath = i.byPath
    BY NotifyFields
  <1>3. i.queue \in Seq(Events) /\ es \in Seq(Events)
    BY DEF Instance, Queue, SeqOK
  <1> HIDE DEF j
  <1>4. Follows(i.queue, es, j.queue)
    BY <1>1, <1>3, Appended
  <1>5. QED
    BY <1>1, <1>2, <1>4 DEF Notified, j

LEMMA ToldSays ==
  ASSUME NEW i, Instance(i), NEW d, NEW mask, NEW name,
         \/ mask \in {"create", "to", "delete", "from"} /\ \E n \in Name : name = <<n>>
         \/ mask = "file" /\ name = <<File>>
         \/ mask \in {"attrib", "deleteself", "moveself", "ignored"} /\ name = <<>>
  PROVE  Says(Told(i, d, mask, name), i.watch, d, Event(i.watch[d], mask, name))
PROOF
  <1>1. mask \in Masks /\ Signal(mask, name)
    BY DEF Masks, Signal
  <1>2. name \in Seq(Nat)
    <2>1. <<>> \in Seq(Nat) /\ <<File>> \in Seq(Nat) /\ \A n \in Name : <<n>> \in Seq(Nat)
      BY NamesAreNumbers
    <2>2. QED
      BY <2>1
  <1>3. QED
    BY <1>1, <1>2, ToldSeq

LEMMA InverseKept ==
  ASSUME NEW i, NEW j, j.byDescriptor = i.byDescriptor, j.byPath = i.byPath, MapsAgree(i)
  PROVE  MapsAgree(j)
  BY DEF MapsAgree

\* An event tells of what it names.
LEMMA EventTells ==
  ASSUME NEW R, NEW D, NEW k \in DOMAIN R, NEW u \in DOMAIN D, NEW n \in Names,
         NEW mask \in {"create", "to", "delete", "from", "file"}, R[k] = Event(u, mask, <<n>>),
         NEW x, IsPrefix(Append(D[u], n), x)
  PROVE  Announced(R, D, x)
PROOF
  <1>1. R[k].wd = u /\ R[k].mask = mask /\ R[k].name = <<n>>
    BY DEF Event
  <1>2. Rem(R, k, u, n) \/ Cre(R, k, u, n) \/ Fil(R, k, u, n)
    BY <1>1 DEF Rem, Cre, Fil
  <1>3. QED
    BY <1>2 DEF Announced

LEMMA ReportedBoth ==
  ASSUME NEW b, NEW R, NEW D, NEW vs, NEW ls, NEW s, NEW t,
         Reported(b, R, D, vs, ls, s), Reported(b, R, D, vs, ls, t)
  PROVE  Reported(b, R, D, vs, ls, s \cup t)
  BY DEF Reported

\* What a step of another program promises
Kept(a, b, i, j, vs, ls, items) ==
    /\ SoundIn(b, j, vs, ls)
    /\ \A s \in SUBSET Items :
        IsTree(b) /\ ReportedIn(a, i, vs, ls, s) => ReportedIn(b, j, vs, ls, s \cup items)

LEMMA WithoutNobody ==
  ASSUME NEW i, Instance(i)
  PROVE  Without(i.watch, {}) = i.watch
  BY WithoutNone DEF Instance, Watches

LEMMA SoundWrite ==
  ASSUME TypeInv, IsTree(at), NEW i, Instance(i), NEW vs, vs \subseteq Path, NEW ls, ls \subseteq Path,
         NEW p, Live(p), SoundIn(at, i, vs, ls), NoOverflow(AfterWrite(i, p).queue)
  PROVE  Kept(at, at, i, AfterWrite(i, p), vs, ls, {Append(p, File)})
PROOF
  <1> DEFINE j == AfterWrite(i, p)
             P == Inode(p)
             es == Told(i, P, "file", <<File>>)
             Q == i.queue
             W == i.watch
             D == i.byDescriptor
             R == j.queue
  <1>1. CoreTypes(at, Q, D, vs, ls) /\ Core(at, Q, W, D, vs, ls) /\ MapsAgree(i)
    BY InstanceCore DEF SoundIn
  <1>2. P \in DOMAIN at /\ at[P] = p /\ p \in Path /\ p \in Seq(Nat)
    BY LivePath, PathType
  <1>3. SeqOK(es)
    BY ToldFile
  <1>4. Notified(i, j, es, {})
    BY <1>3, NotifiedParts DEF AfterWrite
  <1>5. Without(W, {}) = W
    BY WithoutNobody
  <1>6. Says(es, W, P, Event(W[P], "file", <<File>>))
    BY ToldSays
  <1> HIDE DEF j, es, P
  <1>7. Grows(Q, R) /\ j.watch = W /\ j.byDescriptor = D /\ j.byPath = i.byPath
    BY <1>4, <1>5 DEF Notified, Follows
  <1>8. \A k \in DOMAIN R \ DOMAIN Q : P \in DOMAIN W /\ R[k] = Event(W[P], "file", <<File>>)
    BY <1>4, <1>6 DEF Notified, Follows, Says
  <1>9. P \in DOMAIN W => \E k \in DOMAIN R : R[k] = Event(W[P], "file", <<File>>)
    BY <1>4, <1>6 DEF Notified, Follows, Says
  <1> HIDE DEF Q, W, D, R
  <1>10. Core(at, R, W, D, vs, ls)
    <2>1. \A k \in DOMAIN R \ DOMAIN Q :
            /\ \E d \in DOMAIN W : R[k].wd = W[d]
            /\ R[k].mask \in {"file", "attrib", "deleteself", "moveself"}
      BY <1>8 DEF Event
    <2>2. QED
      BY <1>1, <1>7, <2>1, GrowsQuietly
  <1>11. ASSUME NEW s \in SUBSET Items, Reported(at, Q, D, vs, ls, s)
         PROVE  Reported(at, R, D, vs, ls, s \cup {Append(p, File)})
    <2>1. Reported(at, R, D, vs, ls, s)
      BY <1>7, <1>11, ReportedOld
    <2>2. P \in DOMAIN W /\ D[W[P]] = at[P] => Announced(R, D, Append(p, File))
      <3>1. SUFFICES ASSUME P \in DOMAIN W, D[W[P]] = p PROVE Announced(R, D, Append(p, File))
        BY <1>2
      <3>2. W[P] \in DOMAIN D /\ IsPrefix(Append(D[W[P]], File), Append(p, File))
        BY <1>1, <1>2, <3>1, AppendType, PrefixRefl, NamesAreNumbers DEF Core, Maps
      <3>3. PICK k \in DOMAIN R : R[k] = Event(W[P], "file", <<File>>)
        BY <1>9, <3>1
      <3>4. QED
        BY <3>2, <3>3, EventTells, NamesAreNumbers
    <2>3. Append(p, File) \in Seq(Nat) /\ IsPrefix(at[P], Append(p, File))
      BY <1>2, AppendType, AppendPrefix, NamesAreNumbers
    <2>4. Reported(at, R, D, vs, ls, {Append(p, File)})
      BY <1>1, <1>2, <1>7, <2>2, <2>3, ReportedNew
    <2>5. QED
      BY <2>1, <2>4, ReportedBoth
  <1>12. SoundIn(at, j, vs, ls)
    <2>1. DOMAIN at # {}
      BY <1>2
    <2>2. MapsAgree(j)
      BY <1>1, <1>7, InverseKept DEF D
    <2>3. QED
      BY <1>7, <1>10, <2>1, <2>2 DEF SoundIn, R
  <1>13. QED
    BY <1>7, <1>11, <1>12 DEF Kept, ReportedIn, j, Q, D, R

LEMMA WithAdded ==
  ASSUME NEW f, NEW k, k \notin DOMAIN f, NEW v
  PROVE  Added(f, With(f, k, v), k, v)
  BY DEF With, Added

LEMMA SoundMkdir ==
  ASSUME TypeInv, IsTree(at), NEW i, Instance(i), NEW vs, vs \subseteq Path, NEW ls, ls \subseteq Path,
         NEW p, NEW n \in Name, Mkdir(p, n), SoundIn(at, i, vs, ls), NoOverflow(AfterMkdir(i, p, n).queue)
  PROVE  IsTree(at') /\ Kept(at, at', i, AfterMkdir(i, p, n), vs, ls, {Append(p, n)})
PROOF
  <1> DEFINE j == AfterMkdir(i, p, n)
             P == Inode(p)
             e == Event(i.watch[P], "create", <<n>>)
             es == Told(i, P, "create", <<n>>)
             x == Append(p, n)
             Q == i.queue
             W == i.watch
             D == i.byDescriptor
             R == j.queue
  <1>1. CoreTypes(at, Q, D, vs, ls) /\ Core(at, Q, W, D, vs, ls) /\ MapsAgree(i)
    BY InstanceCore DEF SoundIn
  <1>2. Live(p) /\ ~Live(x) /\ Len(p) < MaxDepth
    BY MkdirStep
  <1>3. P \in DOMAIN at /\ at[P] = p /\ p \in Path /\ p \in Seq(Nat) /\ n \in Nat /\ n \in Names
    BY <1>2, LivePath, PathType, NamesAreNumbers
  <1>4. x \in Path /\ x \in Seq(Nat) /\ ~InTree(at, x) /\ at[P] \in Seq(Nat)
    BY <1>2, <1>3, PathExtend, PathType, LiveTree
  <1>5. PICK d \in Dir \ DOMAIN at : at' = With(at, d, x)
    BY MkdirStep
  <1>6. Added(at, at', d, x)
    BY <1>5, WithAdded
  <1>7. Says(es, W, P, e)
    BY ToldSays
  <1>8. Notified(i, j, es, {})
    BY <1>7, NotifiedParts DEF AfterMkdir, Says, SeqOK
  <1>9. Without(W, {}) = W
    BY WithoutNobody
  <1> HIDE DEF j, es, P, x
  <1>10. Grows(Q, R) /\ j.watch = W /\ j.byDescriptor = D /\ j.byPath = i.byPath
    BY <1>8, <1>9 DEF Notified, Follows
  <1>11. \A k \in DOMAIN R \ DOMAIN Q : P \in DOMAIN W /\ R[k] = e
    BY <1>7, <1>8 DEF Notified, Follows, Says
  <1>12. P \in DOMAIN W => \E k \in DOMAIN R \ DOMAIN Q : R[k] = e
    BY <1>7, <1>8 DEF Notified, Follows, Says
  <1> HIDE DEF Q, W, D, R
  <1>13. x = Append(at[P], n)
    BY <1>3 DEF x
  <1>14. e = Event(W[P], "create", <<n>>)
    BY DEF W
  <1> HIDE DEF e
  <1>15. /\ Append(at[P], n) \in Path /\ ~InTree(at, Append(at[P], n)) /\ Added(at, at', d, Append(at[P], n))
         /\ \A k \in DOMAIN R \ DOMAIN Q : P \in DOMAIN W /\ R[k] = Event(W[P], "create", <<n>>)
         /\ P \in DOMAIN W => \E k \in DOMAIN R \ DOMAIN Q : R[k] = Event(W[P], "create", <<n>>)
    BY <1>4, <1>6, <1>11, <1>12, <1>13, <1>14
  <1>16. Core(at', R, W, D, vs, ls)
    BY <1>1, <1>3, <1>10, <1>15, CoreMkdir
  <1>17. IsTree(at') /\ \A y : InTree(at', y) <=> InTree(at, y) \/ y = Append(at[P], n)
    <2>1. at \in [DOMAIN at -> Path]
      BY DEF TypeInv
    <2>2. QED
      BY <1>3, <1>15, <2>1, AddedTree
  <1>18. ASSUME NEW s \in SUBSET Items, Reported(at, Q, D, vs, ls, s)
         PROVE  Reported(at', R, D, vs, ls, s \cup {x})
    <2>1. Reported(at', R, D, vs, ls, s)
      <3>1. \A q \in ls : InTree(at, q) => InTree(at', q) \/ Announced(R, D, Append(q, File))
        BY <1>17
      <3>2. \A q \in ls, m \in Name, y \in s :
                InTree(at, Append(q, m)) /\ IsPrefix(Append(q, m), y) =>
                    InTree(at', Append(q, m)) \/ Announced(R, D, y)
        BY <1>17
      <3>3. QED
        BY <1>10, <1>18, <3>1, <3>2, ReportedOld
    <2>2. P \in DOMAIN W /\ D[W[P]] = at[P] => Announced(R, D, x)
      <3>1. SUFFICES ASSUME P \in DOMAIN W, D[W[P]] = at[P] PROVE Announced(R, D, x)
        OBVIOUS
      <3>2. W[P] \in DOMAIN D /\ IsPrefix(Append(D[W[P]], n), x)
        BY <1>1, <1>4, <1>13, <3>1, PrefixRefl DEF Core, Maps
      <3>3. PICK k \in DOMAIN R : R[k] = Event(W[P], "create", <<n>>)
        BY <1>15, <3>1
      <3>4. QED
        BY <1>3, <3>2, <3>3, EventTells
    <2>3. IsPrefix(at[P], x)
      BY <1>3, <1>4, <1>13, AppendPrefix
    <2>4. \A y : InTree(at, y) /\ IsPrefix(y, at[P]) => InTree(at', y)
      BY <1>17
    <2>5. Reported(at', R, D, vs, ls, {x})
      BY <1>1, <1>3, <1>4, <1>10, <2>2, <2>3, <2>4, ReportedNew
    <2>6. QED
      BY <2>1, <2>5, ReportedBoth
  <1>19. SoundIn(at', j, vs, ls)
    <2>1. DOMAIN at' # {}
      BY <1>6 DEF Added
    <2>2. MapsAgree(j)
      BY <1>1, <1>10, InverseKept DEF D
    <2>3. QED
      BY <1>10, <1>16, <2>1, <2>2 DEF SoundIn, R
  <1>20. QED
    BY <1>10, <1>17, <1>18, <1>19 DEF Kept, ReportedIn, j, Q, D, R, x

LEMMA SoundMoveRoot ==
  ASSUME TypeInv, IsTree(at), NEW i, Instance(i), NEW vs, vs \subseteq Path, NEW ls, ls \subseteq Path,
         MoveRoot, SoundIn(at, i, vs, ls), NoOverflow(AfterMoveRoot(i).queue)
  PROVE  DOMAIN at' = {} /\ Kept(at, at', i, AfterMoveRoot(i), vs, ls, {<<>>})
PROOF
  <1> DEFINE j == AfterMoveRoot(i)
             es == Told(i, Root, "moveself", <<>>)
             r == i.byPath[<<>>]
  <1>1. CoreTypes(at, i.queue, i.byDescriptor, vs, ls) /\ Core(at, i.queue, i.watch, i.byDescriptor, vs, ls) /\ MapsAgree(i)
    BY InstanceCore DEF SoundIn
  <1>2. DOMAIN at' = {} /\ ~IsTree(at')
    BY MoveRootStep DEF Empty, IsTree
  <1>3. Says(es, i.watch, Root, Event(i.watch[Root], "moveself", <<>>))
    BY ToldSays
  <1>4. Notified(i, j, es, {})
    BY <1>3, NotifiedParts DEF AfterMoveRoot, Says, SeqOK
  <1> HIDE DEF j, es
  <1>5. MapsAgree(j) /\ j.byPath = i.byPath
    BY <1>1, <1>4, InverseKept DEF Notified
  <1>6. RootGone(j)
    <2>1. SUFFICES ASSUME <<>> \in DOMAIN i.byPath
                   PROVE  /\ \E k \in DOMAIN j.queue : j.queue[k] = Event(r, "moveself", <<>>)
                          /\ \A k \in DOMAIN j.queue : j.queue[k].wd = r => j.queue[k].mask # "ignored"
      BY <1>5 DEF RootGone
    <2>2. r \in DOMAIN i.byDescriptor /\ i.byDescriptor[r] = <<>>
      BY <1>1, <2>1 DEF MapsAgree
    <2> HIDE DEF r
    <2>3. /\ Root \in DOMAIN i.watch /\ i.watch[Root] = r
          /\ \A k \in DOMAIN i.queue : i.queue[k].wd = r => i.queue[k].mask # "ignored"
      BY <1>1, <2>2, CoreRoot
    <2>4. 1 \in DOMAIN es /\ \A k \in DOMAIN es : es[k] = Event(r, "moveself", <<>>)
      BY <1>3, <2>3 DEF Says
    <2>5. \E k \in DOMAIN j.queue : j.queue[k] = Event(r, "moveself", <<>>)
      BY <1>4, <2>4 DEF Notified, Follows
    <2>6. \A k \in DOMAIN j.queue : j.queue[k].wd = r => j.queue[k].mask # "ignored"
      <3>1. \A k \in DOMAIN i.queue : j.queue[k] = i.queue[k]
        BY <1>4 DEF Notified, Follows, Grows
      <3>2. \A k \in DOMAIN j.queue \ DOMAIN i.queue : j.queue[k] = Event(r, "moveself", <<>>)
        BY <1>4, <2>4 DEF Notified, Follows
      <3>3. Event(r, "moveself", <<>>).mask = "moveself"
        BY DEF Event
      <3>4. QED
        BY <2>3, <3>1, <3>2, <3>3
    <2>7. QED
      BY <2>5, <2>6
  <1>7. QED
    BY <1>2, <1>5, <1>6 DEF Kept, SoundIn, j

-----------------------------------------------------------------------------
(* A directory is removed *)

\* The events of the removal of d, n in P, that an instance with watches W gets
Removal(es, W, P, n, d) ==
    /\ \A l \in DOMAIN es :
        \/ P \in DOMAIN W /\ es[l] = Event(W[P], "delete", <<n>>)
        \/ d \in DOMAIN W /\ es[l] = Event(W[d], "deleteself", <<>>)
        \/ /\ d \in DOMAIN W /\ es[l] = Event(W[d], "ignored", <<>>)
           /\ \A m \in DOMAIN es : m > l => es[m].wd # W[d]
    /\ P \in DOMAIN W => \E l \in DOMAIN es : es[l] = Event(W[P], "delete", <<n>>)

\* The events of what is destroyed end with the last one.
Ending(es, W, d) ==
    /\ es \in Seq(Events)
    /\ \A l \in DOMAIN es :
        /\ d \in DOMAIN W
        /\ \/ es[l] = Event(W[d], "deleteself", <<>>)
           \/ es[l] = Event(W[d], "ignored", <<>>) /\ \A m \in DOMAIN es : m <= l

LEMMA DestroyedEnding ==
  ASSUME NEW i, Instance(i), NEW d
  PROVE  Ending(Destroyed(i, d), i.watch, d)
PROOF
  <1> DEFINE s == Told(i, d, "deleteself", <<>>)
             t == Told(i, d, "ignored", <<>>)
             W == i.watch
  <1>1. Says(s, W, d, Event(W[d], "deleteself", <<>>)) /\ Says(t, W, d, Event(W[d], "ignored", <<>>))
    BY ToldSays
  <1>2. Destroyed(i, d) = s \o t
    BY DEF Destroyed
  <1> HIDE DEF s, t, W
  <1>3. s \in Seq(Events) /\ t \in Seq(Events) /\ s \o t \in Seq(Events)
    BY <1>1 DEF Says
  <1>4. ASSUME NEW l \in DOMAIN (s \o t)
        PROVE  /\ d \in DOMAIN W
               /\ \/ (s \o t)[l] = Event(W[d], "deleteself", <<>>)
                  \/ (s \o t)[l] = Event(W[d], "ignored", <<>>) /\ \A m \in DOMAIN (s \o t) : m <= l
    <2>1. CASE l \in DOMAIN s /\ (s \o t)[l] = s[l]
      BY <1>1, <2>1 DEF Says
    <2>2. ASSUME NEW k \in DOMAIN t, l = Len(s) + k, (s \o t)[l] = t[k]
          PROVE  /\ d \in DOMAIN W /\ (s \o t)[l] = Event(W[d], "ignored", <<>>)
                 /\ \A m \in DOMAIN (s \o t) : m <= l
      <3>1. k = 1 /\ d \in DOMAIN W /\ t[k] = Event(W[d], "ignored", <<>>)
        BY <1>1 DEF Says
      <3>2. Len(t) = 1
        BY <1>1, <3>1 DEF Says
      <3>3. Len(s \o t) = Len(s) + Len(t) /\ Len(s) \in Nat
        BY <1>3
      <3>4. \A m \in DOMAIN (s \o t) : m <= l
        BY <1>3, <2>2, <3>1, <3>2, <3>3
      <3>5. QED
        BY <2>2, <3>1, <3>4
    <2>3. \/ l \in DOMAIN s /\ (s \o t)[l] = s[l]
          \/ \E k \in DOMAIN t : l = Len(s) + k /\ (s \o t)[l] = t[k]
      BY <1>3, Joined
    <2>4. QED
      BY <2>1, <2>2, <2>3
  <1>5. Ending(s \o t, W, d)
    BY <1>3, <1>4 DEF Ending
  <1>6. QED
    BY <1>2, <1>5 DEF W

LEMMA RemovalFirst ==
  ASSUME NEW W, NEW P, NEW n, NEW d, NEW s, NEW t,
         Says(s, W, P, Event(W[P], "delete", <<n>>)), Ending(t, W, d)
  PROVE  Removal(s \o t, W, P, n, d)
PROOF
  <1>1. s \in Seq(Events) /\ t \in Seq(Events) /\ s \o t \in Seq(Events)
    BY DEF Says, Ending
  <1>2. ASSUME NEW l \in DOMAIN (s \o t)
        PROVE  \/ P \in DOMAIN W /\ (s \o t)[l] = Event(W[P], "delete", <<n>>)
               \/ d \in DOMAIN W /\ (s \o t)[l] = Event(W[d], "deleteself", <<>>)
               \/ /\ d \in DOMAIN W /\ (s \o t)[l] = Event(W[d], "ignored", <<>>)
                  /\ \A m \in DOMAIN (s \o t) : m > l => (s \o t)[m].wd # W[d]
    <2>1. CASE l \in DOMAIN s /\ (s \o t)[l] = s[l]
      BY <2>1 DEF Says
    <2>2. ASSUME NEW k \in DOMAIN t, l = Len(s) + k, (s \o t)[l] = t[k]
          PROVE  /\ d \in DOMAIN W
                 /\ \/ (s \o t)[l] = Event(W[d], "deleteself", <<>>)
                    \/ /\ (s \o t)[l] = Event(W[d], "ignored", <<>>)
                       /\ \A m \in DOMAIN (s \o t) : ~(m > l)
      <3>1. CASE d \in DOMAIN W /\ t[k] = Event(W[d], "deleteself", <<>>)
        BY <2>2, <3>1
      <3>2. CASE d \in DOMAIN W /\ t[k] = Event(W[d], "ignored", <<>>) /\ \A m \in DOMAIN t : m <= k
        <4>1. Len(t) \in Nat /\ Len(s) \in Nat /\ Len(s \o t) = Len(s) + Len(t) /\ k \in 1 .. Len(t) /\ DOMAIN t = 1 .. Len(t)
          BY <1>1
        <4>2. Len(t) <= k
          BY <3>2, <4>1
        <4>3. \A m \in DOMAIN (s \o t) : ~(m > l)
          BY <1>1, <2>2, <4>1, <4>2
        <4>4. QED
          BY <2>2, <3>2, <4>3
      <3>3. QED
        BY <3>1, <3>2 DEF Ending
    <2>3. \/ l \in DOMAIN s /\ (s \o t)[l] = s[l]
          \/ \E k \in DOMAIN t : l = Len(s) + k /\ (s \o t)[l] = t[k]
      BY <1>1, Joined
    <2>4. QED
      BY <2>1, <2>2, <2>3
  <1>3. P \in DOMAIN W => \E l \in DOMAIN (s \o t) : (s \o t)[l] = Event(W[P], "delete", <<n>>)
    <2>1. SUFFICES ASSUME P \in DOMAIN W PROVE \E l \in DOMAIN (s \o t) : (s \o t)[l] = Event(W[P], "delete", <<n>>)
      OBVIOUS
    <2>2. 1 \in DOMAIN s /\ s[1] = Event(W[P], "delete", <<n>>)
      BY <2>1 DEF Says
    <2>3. 1 \in DOMAIN (s \o t) /\ (s \o t)[1] = s[1]
      BY <1>1, <2>2, Joined
    <2>4. QED
      BY <2>2, <2>3
  <1>4. QED
    BY <1>2, <1>3 DEF Removal

LEMMA RemovalLast ==
  ASSUME NEW W, NEW P, NEW n, NEW d, NEW s, NEW t,
         Says(s, W, P, Event(W[P], "delete", <<n>>)), Ending(t, W, d),
         P \in DOMAIN W /\ d \in DOMAIN W => W[P] # W[d]
  PROVE  Removal(t \o s, W, P, n, d)
PROOF
  <1>1. s \in Seq(Events) /\ t \in Seq(Events) /\ t \o s \in Seq(Events)
    BY DEF Says, Ending
  <1>2. \A m \in DOMAIN (t \o s) :
            \/ m \in DOMAIN t /\ (t \o s)[m] = t[m]
            \/ \E k \in DOMAIN s : m = Len(t) + k /\ (t \o s)[m] = s[k]
    BY <1>1, Joined
  <1>3. \A m \in DOMAIN (t \o s) :
            \/ m \in DOMAIN t /\ (t \o s)[m] = t[m]
            \/ P \in DOMAIN W /\ (t \o s)[m] = Event(W[P], "delete", <<n>>)
    BY <1>2 DEF Says
  <1>4. ASSUME NEW l \in DOMAIN (t \o s)
        PROVE  \/ P \in DOMAIN W /\ (t \o s)[l] = Event(W[P], "delete", <<n>>)
               \/ d \in DOMAIN W /\ (t \o s)[l] = Event(W[d], "deleteself", <<>>)
               \/ /\ d \in DOMAIN W /\ (t \o s)[l] = Event(W[d], "ignored", <<>>)
                  /\ \A m \in DOMAIN (t \o s) : m > l => (t \o s)[m].wd # W[d]
    <2>1. CASE l \in DOMAIN t /\ (t \o s)[l] = t[l]
      <3>1. CASE d \in DOMAIN W /\ t[l] = Event(W[d], "deleteself", <<>>)
        BY <2>1, <3>1
      <3>2. CASE d \in DOMAIN W /\ t[l] = Event(W[d], "ignored", <<>>) /\ \A m \in DOMAIN t : m <= l
        <4>1. ASSUME NEW m \in DOMAIN (t \o s), m > l PROVE (t \o s)[m].wd # W[d]
          <5>1. m \notin DOMAIN t
            <6>1. l \in Nat /\ m \in Nat
              BY <1>1
            <6>2. QED
              BY <3>2, <4>1, <6>1
          <5>2. P \in DOMAIN W /\ (t \o s)[m] = Event(W[P], "delete", <<n>>)
            BY <1>3, <5>1
          <5>3. (t \o s)[m].wd = W[P]
            BY <5>2 DEF Event
          <5>4. QED
            BY <3>2, <5>2, <5>3
        <4>2. QED
          BY <2>1, <3>2, <4>1
      <3>3. QED
        BY <2>1, <3>1, <3>2 DEF Ending
    <2>2. QED
      BY <1>3, <2>1
  <1>5. P \in DOMAIN W => \E l \in DOMAIN (t \o s) : (t \o s)[l] = Event(W[P], "delete", <<n>>)
    <2>1. SUFFICES ASSUME P \in DOMAIN W PROVE \E l \in DOMAIN (t \o s) : (t \o s)[l] = Event(W[P], "delete", <<n>>)
      OBVIOUS
    <2>2. 1 \in DOMAIN s /\ s[1] = Event(W[P], "delete", <<n>>)
      BY <2>1 DEF Says
    <2>3. Len(t) + 1 \in DOMAIN (t \o s) /\ (t \o s)[Len(t) + 1] = s[1]
      BY <1>1, <2>2, Joined
    <2>4. QED
      BY <2>2, <2>3
  <1>6. QED
    BY <1>4, <1>5 DEF Removal

\* What follows the queue, when a directory is removed
LEMMA RemovalFollows ==
  ASSUME NEW Q, NEW es \in Seq(Events), NEW R, Follows(Q, es, R), NEW W, NEW P, NEW n, NEW d, Removal(es, W, P, n, d)
  PROVE  RemovalTail(Q, R, W, P, n, d)
PROOF
  <1>1. P \in DOMAIN W => \E k \in DOMAIN R \ DOMAIN Q : R[k] = Event(W[P], "delete", <<n>>)
    BY DEF Follows, Removal
  <1>2. ASSUME NEW k \in DOMAIN R \ DOMAIN Q
        PROVE  \/ P \in DOMAIN W /\ R[k] = Event(W[P], "delete", <<n>>)
               \/ d \in DOMAIN W /\ R[k] = Event(W[d], "deleteself", <<>>)
               \/ /\ d \in DOMAIN W /\ R[k] = Event(W[d], "ignored", <<>>)
                  /\ \A l \in DOMAIN R : l > k => R[l].wd # W[d]
    <2>1. PICK l \in DOMAIN es : k = Len(Q) + l /\ R[k] = es[l]
      BY DEF Follows
    <2>2. CASE \/ P \in DOMAIN W /\ es[l] = Event(W[P], "delete", <<n>>)
               \/ d \in DOMAIN W /\ es[l] = Event(W[d], "deleteself", <<>>)
      BY <2>1, <2>2
    <2>3. CASE /\ d \in DOMAIN W /\ es[l] = Event(W[d], "ignored", <<>>)
               /\ \A m \in DOMAIN es : m > l => es[m].wd # W[d]
      <3>1. ASSUME NEW o \in DOMAIN R, o > k PROVE R[o].wd # W[d]
        <4>1. k \in Nat /\ o \in Nat
          BY DEF Follows
        <4>2. o \notin DOMAIN Q
          <5>1. o \in DOMAIN Q => o < k
            BY DEF Follows, Grows
          <5>2. QED
            BY <3>1, <4>1, <5>1
        <4>3. PICK m \in DOMAIN es : o = Len(Q) + m /\ R[o] = es[m]
          BY <4>2 DEF Follows
        <4>4. Len(Q) \in Nat /\ l \in Nat /\ m \in Nat
          <5>1. DOMAIN es \subseteq Nat
            OBVIOUS
          <5>2. QED
            BY <5>1 DEF Follows
        <4>5. m > l
          BY <2>1, <3>1, <4>3, <4>4
        <4>6. QED
          BY <2>3, <4>3, <4>5
      <3>2. QED
        BY <2>1, <2>3, <3>1
    <2>4. QED
      BY <2>2, <2>3 DEF Removal
  <1>3. QED
    BY <1>1, <1>2 DEF RemovalTail

LEMMA WithoutRemoved ==
  ASSUME NEW f, NEW k, k \in DOMAIN f
  PROVE  Removed(f, Without(f, {k}), k)
  BY DEF Removed, Without, Restrict

LEMMA SoundRmdir ==
  ASSUME TypeInv, IsTree(at), NEW i, Instance(i), NEW vs, vs \subseteq Path, NEW ls, ls \subseteq Path,
         NEW p, Live(p), NEW n \in Name, Rmdir(p, n), SoundIn(at, i, vs, ls),
         NEW es, es = ParentFirst(i, p, n) \/ es = ParentLast(i, p, n),
         NoOverflow(AfterRmdir(i, p, n, es).queue)
  PROVE  IsTree(at') /\ Kept(at, at', i, AfterRmdir(i, p, n, es), vs, ls, {Append(p, n)})
PROOF
  <1> DEFINE j == AfterRmdir(i, p, n, es)
             P == Inode(p)
             x == Append(p, n)
             d == Inode(x)
             Q == i.queue
             W == i.watch
             D == i.byDescriptor
             R == j.queue
             V == j.watch
  <1>1. CoreTypes(at, Q, D, vs, ls) /\ Core(at, Q, W, D, vs, ls) /\ MapsAgree(i)
    BY InstanceCore DEF SoundIn
  <1>2. Live(x) /\ Children(x) = {} /\ at' = Without(at, {d})
    BY RmdirStep
  <1>3. P \in DOMAIN at /\ at[P] = p /\ p \in Seq(Nat) /\ n \in Nat /\ n \in Names
    BY LivePath, PathType, NamesAreNumbers
  <1>4. d \in DOMAIN at /\ at[d] = x /\ x \in Path /\ x \in Seq(Nat)
    BY <1>2, LivePath, PathType
  <1>5. Removed(at, at', d)
    BY <1>2, <1>4, WithoutRemoved
  <1>6. Child(at, P, n, d)
    BY <1>3, <1>4 DEF Child
  <1>7. \A m \in Name : ~InTree(at, Append(at[d], m))
    BY <1>2, <1>4, LiveTree DEF Children
  <1>8. SeqOK(es) /\ es \in Seq(Events)
    BY AfterType DEF SeqOK
  <1>9. Notified(i, j, es, {d})
    BY <1>8, NotifiedParts DEF AfterRmdir
  <1> DEFINE s0 == Told(i, P, "delete", <<n>>)
             t0 == Destroyed(i, d)
  <1>10. Says(s0, W, P, Event(W[P], "delete", <<n>>)) /\ Ending(t0, W, d)
    BY ToldSays, DestroyedEnding
  <1>11. es = s0 \o t0 \/ es = t0 \o s0
    BY DEF ParentFirst, ParentLast
  <1> HIDE DEF j, x, s0, t0
  <1>12. /\ IsTree(at') /\ \A e \in DOMAIN at' : at'[e] \in Path
         /\ \A y : InTree(at', y) <=> InTree(at, y) /\ y # at[d]
         /\ P # d
    <2>1. at \in [DOMAIN at -> Path]
      BY DEF TypeInv
    <2> HIDE DEF P, d
    <2>2. QED
      BY <1>3, <1>5, <1>6, <1>7, <2>1, RemovedTree
  <1> HIDE DEF P, d
  <1>13. P \in DOMAIN W /\ d \in DOMAIN W => W[P] # W[d]
    BY <1>1, <1>12 DEF Core, Maps
  <1>14. Removal(es, W, P, n, d)
    <2>1. Removal(s0 \o t0, W, P, n, d)
      BY <1>10, RemovalFirst
    <2>2. Removal(t0 \o s0, W, P, n, d)
      BY <1>10, <1>13, RemovalLast
    <2>3. QED
      BY <1>11, <2>1, <2>2
  <1>15. Follows(Q, es, R) /\ V = Without(W, {d}) /\ j.byDescriptor = D /\ j.byPath = i.byPath
    BY <1>9 DEF Notified
  <1>16. DOMAIN V = DOMAIN W \ {d} /\ \A e \in DOMAIN V : V[e] = W[e]
    <2>1. DOMAIN Without(W, {d}) = DOMAIN W \ {d} /\ \A e \in DOMAIN W \ {d} : Without(W, {d})[e] = W[e]
      BY WithoutMap
    <2>2. QED
      BY <1>15, <2>1
  <1> HIDE DEF Q, W, D, R, V
  <1>17. Grows(Q, R)
    BY <1>15 DEF Follows
  <1>18. RemovalTail(Q, R, W, P, n, d)
    BY <1>8, <1>14, <1>15, RemovalFollows
  <1>19. Core(at', R, V, D, vs, ls)
    <2>1. P \in DOMAIN at
      BY <1>3
    <2>2. QED
      BY <1>1, <1>5, <1>6, <1>7, <1>16, <1>17, <1>18, <2>1, CoreRmdir
  <1>20. ASSUME NEW q \in ls, q = at[P] \/ q = at[d], NEW y \in Seq(Nat), IsPrefix(at[d], y)
         PROVE  Announced(R, D, y)
    <2>1. P \in DOMAIN W => \E k \in DOMAIN R : R[k] = Event(W[P], "delete", <<n>>)
      BY <1>18 DEF RemovalTail
    <2>2. QED
      BY <1>1, <1>3, <1>6, <1>17, <1>20, <2>1, RemovalTold
  <1>21. ASSUME NEW s \in SUBSET Items, Reported(at, Q, D, vs, ls, s)
         PROVE  Reported(at', R, D, vs, ls, s \cup {x})
    <2>1. Reported(at', R, D, vs, ls, s)
      <3>1. ASSUME NEW q \in ls, InTree(at, q), ~InTree(at', q) PROVE Announced(R, D, Append(q, File))
        <4>1. q = at[d]
          BY <1>12, <3>1
        <4>2. Append(at[d], File) \in Seq(Nat) /\ IsPrefix(at[d], Append(at[d], File))
          BY <1>4, AppendType, AppendPrefix, NamesAreNumbers
        <4>3. QED
          BY <1>20, <4>1, <4>2
      <3>2. ASSUME NEW q \in ls, NEW m \in Name, NEW y \in s,
                   InTree(at, Append(q, m)), IsPrefix(Append(q, m), y), ~InTree(at', Append(q, m))
            PROVE  Announced(R, D, y)
        <4>1. Append(q, m) = Append(p, n)
          BY <1>4, <1>12, <3>2 DEF x
        <4>2. q \in Seq(Nat) /\ m \in Nat /\ y \in Seq(Nat)
          BY PathType, NamesAreNumbers, ItemsType
        <4>3. q = p
          BY <1>3, <4>1, <4>2, AppendSame
        <4>4. IsPrefix(at[d], y)
          BY <1>4, <3>2, <4>1 DEF x
        <4>5. QED
          BY <1>3, <1>20, <4>2, <4>3, <4>4
      <3>3. QED
        BY <1>17, <1>21, <3>1, <3>2, ReportedOld
    <2>2. P \in DOMAIN W /\ D[W[P]] = at[P] => Announced(R, D, x)
      <3>1. SUFFICES ASSUME P \in DOMAIN W, D[W[P]] = p PROVE Announced(R, D, x)
        BY <1>3
      <3>2. W[P] \in DOMAIN D /\ IsPrefix(Append(D[W[P]], n), x)
        BY <1>1, <1>4, <3>1, PrefixRefl DEF Core, Maps, x
      <3>3. PICK k \in DOMAIN R : R[k] = Event(W[P], "delete", <<n>>)
        BY <1>18, <3>1 DEF RemovalTail
      <3>4. QED
        BY <1>3, <3>2, <3>3, EventTells
    <2>3. IsPrefix(at[P], x)
      BY <1>3, AppendPrefix DEF x
    <2>4. ~IsPrefix(x, at[P])
      BY <1>3, AppendPrefix DEF x
    <2>5. \A y : InTree(at, y) /\ IsPrefix(y, at[P]) => InTree(at', y)
      BY <1>4, <1>12, <2>4
    <2>6. Reported(at', R, D, vs, ls, {x})
      BY <1>1, <1>3, <1>4, <1>17, <2>2, <2>3, <2>5, ReportedNew
    <2>7. QED
      BY <2>1, <2>6, ReportedBoth
  <1>22. SoundIn(at', j, vs, ls)
    <2>1. DOMAIN at' # {}
      BY <1>12 DEF IsTree
    <2>2. MapsAgree(j)
      BY <1>1, <1>15, InverseKept DEF D
    <2>3. QED
      BY <1>15, <1>19, <2>1, <2>2 DEF SoundIn, R, V
  <1>23. QED
    BY <1>12, <1>15, <1>21, <1>22 DEF Kept, ReportedIn, j, Q, D, R, x

-----------------------------------------------------------------------------
(* A settled rename *)

LEMMA KindSettled ==
  ASSUME TypeInv, NEW q, NEW new, Kind(q, new) = "settled"
  PROVE  /\ ~Live(new) /\ mode = "read" /\ walk = <<>> /\ Inode(q) \in DOMAIN cur.watch
         /\ Apart(cur.queue, cur.byDescriptor, new)
PROOF
  <1>1. ~Live(new) /\ ~Unwalked(q, new)
    BY DEF Kind
  <1>2. mode = "read" /\ walk = <<>> /\ Inode(q) \in DOMAIN cur.watch
    BY <1>1 DEF Unwalked
  <1>3. ASSUME NEW k \in DOMAIN cur.queue, NEW u \in DOMAIN cur.byDescriptor, NEW l \in Names, Cre(cur.queue, k, u, l)
        PROVE  ~IsPrefix(Append(cur.byDescriptor[u], l), new) /\ ~IsPrefix(new, Append(cur.byDescriptor[u], l))
    <2> DEFINE e == cur.queue[k]
               p == cur.byDescriptor[e.wd] \o e.name
    <2>1. e.wd = u /\ e.name = <<l>> /\ e.mask \in {"create", "to"}
      BY <1>3 DEF Cre
    <2>2. ~(IsPrefix(p, new) \/ IsPrefix(new, p))
      BY <1>1, <2>1 DEF Unwalked
    <2>3. cur.byDescriptor[u] \in Seq(Nat) /\ l \in Nat
      BY PathType, NamesAreNumbers DEF TypeInv, Instance, Descriptors
    <2>4. p = Append(cur.byDescriptor[u], l)
      BY <2>1, <2>3, AppendType
    <2> HIDE DEF p
    <2>5. QED
      BY <2>2, <2>4
  <1>4. QED
    BY <1>1, <1>2, <1>3 DEF Apart

\* The events of the rename of d, n in P, to m in S
Transit(es, W, P, n, S, m, d, t) ==
    /\ t \in DOMAIN es /\ es[t] = Event(W[S], "to", <<m>>)
    /\ \A k \in DOMAIN es :
        \/ P \in DOMAIN W /\ es[k] = Event(W[P], "from", <<n>>)
        \/ k = t
        \/ d \in DOMAIN W /\ es[k] = Event(W[d], "moveself", <<>>)
    /\ P \in DOMAIN W => \E k \in DOMAIN es : k < t /\ es[k] = Event(W[P], "from", <<n>>)

LEMMA TransitEvents ==
  ASSUME NEW W, NEW P, NEW n, NEW S \in DOMAIN W, NEW m, NEW d, NEW s, NEW t, NEW v,
         Says(s, W, P, Event(W[P], "from", <<n>>)), Says(t, W, S, Event(W[S], "to", <<m>>)),
         Says(v, W, d, Event(W[d], "moveself", <<>>))
  PROVE  Transit((s \o t) \o v, W, P, n, S, m, d, Len(s) + 1)
PROOF
  <1> DEFINE h == s \o t
             es == h \o v
  <1>1. s \in Seq(Events) /\ t \in Seq(Events) /\ v \in Seq(Events) /\ h \in Seq(Events) /\ es \in Seq(Events)
    BY DEF Says
  <1>2. 1 \in DOMAIN t /\ t[1] = Event(W[S], "to", <<m>>)
    BY DEF Says
  <1>3. Len(s) + 1 \in DOMAIN h /\ h[Len(s) + 1] = t[1]
    BY <1>1, <1>2, Joined
  <1>4. \A k \in DOMAIN h :
            \/ P \in DOMAIN W /\ h[k] = Event(W[P], "from", <<n>>)
            \/ k = Len(s) + 1
    <2>1. \A k \in DOMAIN h :
            \/ k \in DOMAIN s /\ h[k] = s[k]
            \/ \E l \in DOMAIN t : k = Len(s) + l /\ h[k] = t[l]
      BY <1>1, Joined
    <2> HIDE DEF h
    <2>2. QED
      BY <2>1 DEF Says
  <1>5. P \in DOMAIN W => 1 \in DOMAIN h /\ 1 < Len(s) + 1 /\ h[1] = Event(W[P], "from", <<n>>)
    <2>1. SUFFICES ASSUME P \in DOMAIN W PROVE 1 \in DOMAIN h /\ 1 < Len(s) + 1 /\ h[1] = Event(W[P], "from", <<n>>)
      OBVIOUS
    <2>2. 1 \in DOMAIN s /\ s[1] = Event(W[P], "from", <<n>>) /\ Len(s) = 1
      BY <2>1 DEF Says
    <2>3. 1 \in DOMAIN h /\ h[1] = s[1]
      BY <1>1, <2>2, Joined
    <2>4. 1 < Len(s) + 1
      BY <2>2
    <2>5. QED
      BY <2>2, <2>3, <2>4
  <1> HIDE DEF h
  <1>6. \A k \in DOMAIN h : k \in DOMAIN es /\ es[k] = h[k]
    BY <1>1, Joined
  <1>7. \A k \in DOMAIN es :
            \/ k \in DOMAIN h /\ es[k] = h[k]
            \/ \E l \in DOMAIN v : k = Len(h) + l /\ es[k] = v[l]
    BY <1>1, Joined
  <1> HIDE DEF es
  <1>8. \A k \in DOMAIN es :
            \/ k \in DOMAIN h /\ es[k] = h[k]
            \/ d \in DOMAIN W /\ es[k] = Event(W[d], "moveself", <<>>)
    BY <1>7 DEF Says
  <1>9. Transit(es, W, P, n, S, m, d, Len(s) + 1)
    <2>1. Len(s) + 1 \in DOMAIN es /\ es[Len(s) + 1] = Event(W[S], "to", <<m>>)
      BY <1>2, <1>3, <1>6
    <2>2. P \in DOMAIN W => \E k \in DOMAIN es : k < Len(s) + 1 /\ es[k] = Event(W[P], "from", <<n>>)
      BY <1>5, <1>6
    <2>3. \A k \in DOMAIN es :
            \/ P \in DOMAIN W /\ es[k] = Event(W[P], "from", <<n>>)
            \/ k = Len(s) + 1
            \/ d \in DOMAIN W /\ es[k] = Event(W[d], "moveself", <<>>)
      BY <1>4, <1>8
    <2>4. QED
      BY <2>1, <2>2, <2>3 DEF Transit
  <1>10. QED
    BY <1>9 DEF es, h

LEMMA TransitFollows ==
  ASSUME NEW Q, NEW es \in Seq(Events), NEW R, Follows(Q, es, R),
         NEW W, NEW P, NEW n, NEW S, NEW m, NEW d, NEW t, Transit(es, W, P, n, S, m, d, t)
  PROVE  RenameTail(Q, R, W, P, n, S, m, d, Len(Q) + t)
PROOF
  <1>1. Len(Q) \in Nat /\ DOMAIN es \subseteq Nat /\ t \in DOMAIN es
    BY DEF Follows, Transit
  <1>2. Len(Q) + t \in DOMAIN R \ DOMAIN Q /\ R[Len(Q) + t] = Event(W[S], "to", <<m>>)
    BY DEF Follows, Transit
  <1>3. ASSUME NEW k \in DOMAIN R \ DOMAIN Q
        PROVE  \/ P \in DOMAIN W /\ R[k] = Event(W[P], "from", <<n>>)
               \/ k = Len(Q) + t
               \/ d \in DOMAIN W /\ R[k] = Event(W[d], "moveself", <<>>)
    <2>1. PICK l \in DOMAIN es : k = Len(Q) + l /\ R[k] = es[l]
      BY DEF Follows
    <2>2. QED
      BY <2>1 DEF Transit
  <1>4. P \in DOMAIN W =>
            \E k \in DOMAIN R \ DOMAIN Q : k < Len(Q) + t /\ R[k] = Event(W[P], "from", <<n>>)
    <2>1. SUFFICES ASSUME P \in DOMAIN W
                   PROVE  \E k \in DOMAIN R \ DOMAIN Q : k < Len(Q) + t /\ R[k] = Event(W[P], "from", <<n>>)
      OBVIOUS
    <2>2. PICK l \in DOMAIN es : l < t /\ es[l] = Event(W[P], "from", <<n>>)
      BY <2>1 DEF Transit
    <2>3. Len(Q) + l \in DOMAIN R \ DOMAIN Q /\ R[Len(Q) + l] = es[l]
      BY DEF Follows
    <2>4. Len(Q) + l < Len(Q) + t
      BY <1>1, <2>2
    <2>5. QED
      BY <2>2, <2>3, <2>4
  <1>5. QED
    BY <1>2, <1>3, <1>4 DEF RenameTail

LEMMA RenamedRelocated ==
  ASSUME TypeInv, NEW old, NEW new, Renamed(old, new), Fits(old, new), ~Live(new)
  PROVE  Relocated(at, at', old, new)
PROOF
  <1>1. Over(new) = {}
    BY LiveTree DEF Over, InTree
  <1>2. RelocatedPaths(old, new) \in [DOMAIN RelocatedPaths(old, new) -> Path] /\ DOMAIN RelocatedPaths(old, new) = DOMAIN at
    BY DEF RelocatedPaths, Fits, TypeInv
  <1>3. Without(RelocatedPaths(old, new), {}) = RelocatedPaths(old, new)
    BY <1>2, WithoutNone
  <1>4. at' = RelocatedPaths(old, new)
    BY <1>1, <1>3 DEF Renamed
  <1>5. Relocated(at, RelocatedPaths(old, new), old, new)
    BY DEF RelocatedPaths, Fits, Relocated
  <1>6. QED
    BY <1>4, <1>5

LEMMA SoundRename ==
  ASSUME TypeInv, IsTree(at), NEW p, Live(p), NEW n \in Name, NEW q, NEW m \in Name, Rename(p, n, q, m),
         Kind(q, Append(q, m)) = "settled", SoundIn(at, cur, {}, {}),
         NoOverflow(AfterRename(cur, p, n, q, m).queue)
  PROVE  IsTree(at') /\ Kept(at, at', cur, AfterRename(cur, p, n, q, m), {}, {}, {Append(p, n), Append(q, m)})
PROOF
  <1> DEFINE i == cur
             j == AfterRename(cur, p, n, q, m)
             P == Inode(p)
             S == Inode(q)
             old == Append(p, n)
             new == Append(q, m)
             d == Inode(old)
             Q == i.queue
             W == i.watch
             D == i.byDescriptor
             R == j.queue
             s0 == Told(i, P, "from", <<n>>)
             t0 == Told(i, S, "to", <<m>>)
             v0 == Told(i, d, "moveself", <<>>)
             es == (s0 \o t0) \o v0
  <1>1. CoreTypes(at, Q, D, {}, {}) /\ Core(at, Q, W, D, {}, {}) /\ MapsAgree(cur) /\ Instance(cur)
    <2>1. Instance(cur)
      BY DEF TypeInv
    <2>2. QED
      BY <2>1, InstanceCore DEF SoundIn
  <1>2. Live(old) /\ Live(q) /\ ~IsPrefix(old, q)
    BY RenameStep
  <1>3. Renamed(old, new) /\ Fits(old, new)
    BY RenameStep
  <1>4. ~Live(new) /\ S \in DOMAIN W /\ Apart(Q, D, new)
    BY KindSettled
  <1>5. P \in DOMAIN at /\ at[P] = p /\ p \in Seq(Nat) /\ n \in Nat /\ n \in Names
    BY LivePath, PathType, NamesAreNumbers
  <1>6. S \in DOMAIN at /\ at[S] = q /\ q \in Seq(Nat) /\ m \in Nat /\ m \in Names
    BY <1>2, LivePath, PathType, NamesAreNumbers
  <1>7. d \in DOMAIN at /\ at[d] = old /\ old \in Path /\ old \in Seq(Nat)
    BY <1>2, LivePath, PathType
  <1>8. Relocated(at, at', old, new)
    BY <1>3, <1>4, RenamedRelocated
  <1>9. ~InTree(at, new)
    BY <1>4, LiveTree
  <1>10. new \in Path /\ new \in Seq(Nat)
    <2>1. new \in Seq(Nat)
      BY <1>6, AppendType
    <2> HIDE DEF old, new, d
    <2>2. IsPrefix(old, old) /\ Moved(old, new, old) = new
      BY <1>7, <2>1, PrefixRefl, MovedSelf
    <2>3. Moved(old, new, old) \in Path
      BY <1>3, <1>7, <2>2 DEF Fits
    <2>4. QED
      BY <2>1, <2>2, <2>3
  <1>11. /\ Says(s0, W, P, Event(W[P], "from", <<n>>)) /\ Says(t0, W, S, Event(W[S], "to", <<m>>))
         /\ Says(v0, W, d, Event(W[d], "moveself", <<>>))
    BY <1>1, ToldSays
  <1>12. SeqOK(es) /\ es \in Seq(Events)
    <2>1. SeqOK(s0) /\ SeqOK(t0) /\ SeqOK(v0)
      BY <1>11 DEF Says, SeqOK
    <2> HIDE DEF s0, t0, v0
    <2>2. SeqOK(es)
      BY <2>1, JoinOK
    <2>3. QED
      BY <2>2 DEF SeqOK
  <1>13. Notified(i, j, es, {})
    <2>1. j = Notify(cur, es, {})
      BY DEF AfterRename, RenameLinks, RenameSelf
    <2> HIDE DEF es, j
    <2>2. QED
      BY <1>1, <1>12, <2>1, NotifiedParts DEF j
  <1>14. Without(W, {}) = W
    BY <1>1, WithoutNobody
  <1> HIDE DEF j, P, S, d, old, new
  <1>15. Transit(es, W, P, n, S, m, d, Len(s0) + 1)
    <2> HIDE DEF s0, t0, v0, W
    <2>1. QED
      BY <1>4, <1>11, TransitEvents
  <1> HIDE DEF es
  <1>16. Follows(Q, es, R) /\ j.watch = W /\ j.byDescriptor = D /\ j.byPath = cur.byPath
    BY <1>13, <1>14 DEF Notified
  <1> HIDE DEF Q, W, D, R, i
  <1> DEFINE t == Len(Q) + (Len(s0) + 1)
  <1>17. RenameTail(Q, R, W, P, n, S, m, d, t)
    <2> HIDE DEF s0
    <2>1. QED
      BY <1>12, <1>15, <1>16, TransitFollows
  <1>18. Grows(Q, R)
    BY <1>16 DEF Follows
  <1> HIDE DEF t
  <1>19. Child(at, P, n, d) /\ Onto(at, S, m, new)
    BY <1>5, <1>6, <1>7 DEF Child, Onto, old, new
  <1>20. Relocated(at, at', at[d], new) /\ ~IsPrefix(at[d], at[S])
    BY <1>2, <1>6, <1>7, <1>8
  <1>21. P \in DOMAIN at /\ S \in DOMAIN at /\ S \in DOMAIN W /\ new \in Path
    BY <1>4, <1>5, <1>6, <1>10
  <1>22. Core(at', R, W, D, {}, {}) /\ Created(R, D, new)
    BY <1>1, <1>4, <1>9, <1>17, <1>18, <1>19, <1>20, <1>21, CoreRename
  <1>23. IsTree(at')
    <2>1. at \in [DOMAIN at -> Path]
      BY DEF TypeInv
    <2>2. Transfer(at, at', at[d], new)
      BY <1>9, <1>19, <1>20, <1>21, <2>1, RelocatedTree
    <2>3. QED
      BY <2>2 DEF Transfer
  <1>24. ASSUME NEW s \in SUBSET Items, Reported(at, Q, D, {}, {}, s)
         PROVE  Reported(at', R, D, {}, {}, s \cup {old, new})
    <2>1. \A y \in s : Announced(Q, D, y)
      BY <1>24 DEF Reported
    <2>2. \A y \in s : Announced(R, D, y)
      BY <1>18, <2>1, GrowsKeeps
    <2>3. Announced(R, D, new)
      <3>1. D \in [DOMAIN D -> Path] /\ IsPrefix(new, new)
        BY <1>1, <1>10, PrefixRefl DEF CoreTypes
      <3>2. QED
        BY <1>10, <1>22, <3>1, ToldBy
    <2>4. Announced(R, D, old)
      <3>1. P \in DOMAIN W /\ D[W[P]] = at[P] => Announced(R, D, old)
        <4>1. SUFFICES ASSUME P \in DOMAIN W, D[W[P]] = p PROVE Announced(R, D, old)
          BY <1>5
        <4>2. W[P] \in DOMAIN D /\ IsPrefix(Append(D[W[P]], n), old)
          BY <1>1, <1>7, <4>1, PrefixRefl DEF Core, Maps, old
        <4>3. PICK k \in DOMAIN R : R[k] = Event(W[P], "from", <<n>>)
          BY <1>17, <4>1 DEF RenameTail
        <4>4. QED
          BY <1>5, <4>2, <4>3, EventTells
      <3>2. IsPrefix(at[P], old)
        BY <1>5, AppendPrefix DEF old
      <3>3. Reported(at, R, D, {}, {}, {old})
        BY <1>1, <1>7, <1>18, <1>21, <3>1, <3>2, ReportedNew
      <3>4. QED
        BY <3>3 DEF Reported
    <2>5. QED
      BY <2>2, <2>3, <2>4 DEF Reported
  <1>25. SoundIn(at', j, {}, {})
    <2>1. DOMAIN at' # {}
      BY <1>23 DEF IsTree
    <2>2. MapsAgree(j)
      BY <1>1, <1>16, InverseKept DEF D, i
    <2>3. QED
      BY <1>16, <1>22, <2>1, <2>2 DEF SoundIn, R
  <1>26. QED
    BY <1>16, <1>23, <1>24, <1>25 DEF Kept, ReportedIn, j, Q, D, R, old, new, i

-----------------------------------------------------------------------------
(* The inductive invariant *)

Visits == {walk[k].path : k \in {l \in DOMAIN walk : walk[l].step = "visit"}}
Lists == {walk[k].path : k \in {l \in DOMAIN walk : walk[l].step = "list"}}

\* The instance that the reader works on
Active == IF mode = "read" THEN cur ELSE repl

\* An instance that watches nothing
Idle(i) ==
    i.queue = <<>> /\ DOMAIN i.watch = {} /\ DOMAIN i.byDescriptor = {} /\ DOMAIN i.byPath = {}

World == IsTree(at) \/ DOMAIN at = {}

Watching ==
    ~failed /\ mode # "ended" /\ NoOverflow(Active.queue) =>
        /\ SoundIn(at, Active, Visits, Lists)
        /\ mode = "read" =>
            /\ <<>> \in DOMAIN cur.byPath
            /\ IsTree(at) => ReportedIn(at, cur, Visits, Lists, stale)

Outcome == mode = "ended" => failed \/ (closed /\ stale = {})

WatchInv ==
    /\ World
    /\ Watching
    /\ Outcome
    /\ deadline => closed
    /\ mode = "read" => Idle(repl)

LEMMA WalkPaths ==
  ASSUME TypeInv
  PROVE  Visits \subseteq Path /\ Lists \subseteq Path
PROOF
  <1>1. \A k \in DOMAIN walk : walk[k] \in Steps
    BY DEF TypeInv
  <1>2. QED
    BY <1>1 DEF Visits, Lists, Steps

LEMMA LiveWorld ==
  ASSUME WatchInv, NEW p, Live(p)
  PROVE  IsTree(at)
  BY LiveTree DEF WatchInv, World, InTree

\* What a step of another program makes of the instance i
Carries(i, j, items) ==
    /\ j.byPath = i.byPath
    /\ NoOverflow(j.queue) =>
        /\ NoOverflow(i.queue)
        /\ SoundIn(at, i, Visits, Lists) => Kept(at, at', i, j, Visits, Lists, items)

LEMMA ReportedPart ==
  ASSUME NEW a, NEW i, NEW vs, NEW ls, NEW s, NEW t, t \subseteq s, ReportedIn(a, i, vs, ls, s)
  PROVE  ReportedIn(a, i, vs, ls, t)
  BY DEF ReportedIn, Reported

LEMMA ProgramKeeps ==
  ASSUME TypeInv, WatchInv, IsTree(at), NEW c, NEW r, NEW items, Program(c, r, items), World',
         Idle(repl) => Idle(r),
         mode = "read" => Carries(cur, c, items),
         mode \in {"new", "rebuild"} => Carries(repl, r, items)
  PROVE  WatchInv'
PROOF
  <1>1. /\ cur' = c /\ repl' = r /\ mode' = mode /\ walk' = walk /\ closed' = closed
        /\ deadline' = deadline /\ failed' = failed
        /\ stale' \subseteq stale \cup items /\ (closed => stale' = stale)
    BY DEF Program, endVars
  <1>2. Visits' = Visits /\ Lists' = Lists
    BY <1>1 DEF Visits, Lists
  <1>3. Outcome' /\ (deadline' => closed') /\ (mode' = "read" => Idle(repl'))
    BY <1>1 DEF WatchInv, Outcome
  <1>4. Watching'
    <2>1. SUFFICES ASSUME ~failed', mode' # "ended", NoOverflow(Active'.queue)
                   PROVE  /\ SoundIn(at', Active', Visits', Lists')
                          /\ mode' = "read" =>
                                /\ <<>> \in DOMAIN cur'.byPath
                                /\ IsTree(at') => ReportedIn(at', cur', Visits', Lists', stale')
      BY DEF Watching
    <2>2. CASE mode = "read"
      <3>1. Active = cur /\ Active' = c
        BY <1>1, <2>2 DEF Active
      <3>2. NoOverflow(cur.queue) /\ c.byPath = cur.byPath
        BY <2>1, <2>2, <3>1 DEF Carries
      <3>3. /\ SoundIn(at, cur, Visits, Lists) /\ <<>> \in DOMAIN cur.byPath
            /\ ReportedIn(at, cur, Visits, Lists, stale)
        BY <1>1, <2>1, <2>2, <3>1, <3>2 DEF WatchInv, Watching
      <3>4. Kept(at, at', cur, c, Visits, Lists, items)
        BY <2>1, <2>2, <3>1, <3>3 DEF Carries
      <3>5. SoundIn(at', c, Visits, Lists)
        BY <3>4 DEF Kept
      <3>6. IsTree(at') => ReportedIn(at', c, Visits, Lists, stale \cup items)
        <4>1. stale \in SUBSET Items
          BY DEF TypeInv
        <4>2. QED
          BY <3>3, <3>4, <4>1 DEF Kept
      <3>7. IsTree(at') => ReportedIn(at', c, Visits, Lists, stale')
        BY <1>1, <3>6, ReportedPart
      <3>8. QED
        BY <1>1, <1>2, <3>1, <3>2, <3>3, <3>5, <3>7
    <2>3. CASE mode \in {"new", "rebuild"}
      <3>1. Active = repl /\ Active' = r /\ mode' # "read"
        BY <1>1, <2>3 DEF Active
      <3>2. NoOverflow(repl.queue)
        BY <2>1, <2>3, <3>1 DEF Carries
      <3>3. SoundIn(at, repl, Visits, Lists)
        BY <1>1, <2>1, <3>1, <3>2 DEF WatchInv, Watching
      <3>4. Kept(at, at', repl, r, Visits, Lists, items)
        BY <2>1, <2>3, <3>1, <3>3 DEF Carries
      <3>5. SoundIn(at', r, Visits, Lists)
        BY <3>4 DEF Kept
      <3>6. QED
        BY <1>2, <3>1, <3>5
    <2>4. QED
      BY <1>1, <2>1, <2>2, <2>3 DEF TypeInv
  <1>5. QED
    BY <1>3, <1>4 DEF WatchInv

LEMMA IdleTold ==
  ASSUME NEW i, Idle(i), NEW d, NEW mask, NEW name
  PROVE  Told(i, d, mask, name) = <<>> /\ Destroyed(i, d) = <<>>
PROOF
  <1>1. \A e, msk, nm : Told(i, e, msk, nm) = <<>>
    BY DEF Told, Idle
  <1>2. Destroyed(i, d) = <<>> \o <<>>
    BY <1>1 DEF Destroyed
  <1>3. <<>> \o <<>> = <<>>
    OBVIOUS
  <1>4. QED
    BY <1>1, <1>2, <1>3

LEMMA IdleNotified ==
  ASSUME NEW i, Instance(i), Idle(i), NEW es, es = <<>>, NEW dead
  PROVE  Idle(Notify(i, es, dead))
PROOF
  <1>1. Enqueue(<<>>, <<>>) = <<>>
    BY WatcherAssumption DEF Enqueue
  <1>2. Notify(i, es, dead).queue = <<>>
    BY <1>1, NotifyFields DEF Idle
  <1>3. DOMAIN Notify(i, es, dead).watch = {}
    <2>1. Notify(i, es, dead).watch = Without(i.watch, dead)
      BY NotifyFields
    <2>2. DOMAIN Without(i.watch, dead) = DOMAIN i.watch \ dead
      BY WithoutMap
    <2>3. QED
      BY <2>1, <2>2 DEF Idle
  <1>4. Notify(i, es, dead).byDescriptor = i.byDescriptor /\ Notify(i, es, dead).byPath = i.byPath
    BY NotifyFields
  <1>5. QED
    BY <1>2, <1>3, <1>4 DEF Idle

LEMMA IdleAfter ==
  ASSUME NEW i, Instance(i), Idle(i), NEW p, NEW n, NEW q, NEW m
  PROVE  /\ Idle(AfterMkdir(i, p, n)) /\ Idle(AfterWrite(i, p)) /\ Idle(AfterMoveRoot(i))
         /\ Idle(AfterRmdir(i, p, n, ParentFirst(i, p, n))) /\ Idle(AfterRmdir(i, p, n, ParentLast(i, p, n)))
         /\ Idle(AfterRename(i, p, n, q, m))
PROOF
  <1>1. <<>> \o <<>> = <<>>
    OBVIOUS
  <1>2. \A d, mask, name : Told(i, d, mask, name) = <<>> /\ Destroyed(i, d) = <<>>
    BY IdleTold
  <1>3. \A es, dead : es = <<>> => Idle(Notify(i, es, dead))
    BY IdleNotified
  <1>4. ParentFirst(i, p, n) = <<>> /\ ParentLast(i, p, n) = <<>> /\ RenameLinks(i, p, n, q, m) = <<>> /\ RenameSelf(i, p, n) = <<>>
    BY <1>1, <1>2 DEF ParentFirst, ParentLast, RenameLinks, RenameSelf
  <1>5. RenameLinks(i, p, n, q, m) \o RenameSelf(i, p, n) = <<>>
    BY <1>1, <1>4
  <1>6. Idle(AfterMkdir(i, p, n)) /\ Idle(AfterWrite(i, p)) /\ Idle(AfterMoveRoot(i))
    BY <1>2, <1>3 DEF AfterMkdir, AfterWrite, AfterMoveRoot
  <1>7. /\ Idle(AfterRmdir(i, p, n, ParentFirst(i, p, n))) /\ Idle(AfterRmdir(i, p, n, ParentLast(i, p, n)))
        /\ Idle(AfterRename(i, p, n, q, m))
    BY <1>3, <1>4, <1>5 DEF AfterRmdir, AfterRename
  <1>8. QED
    BY <1>6, <1>7

-----------------------------------------------------------------------------
(* The steps of the other programs keep the invariant *)

LEMMA NotifyCarries ==
  ASSUME NEW i, Instance(i), NEW es, SeqOK(es), NEW dead, NEW items,
         NoOverflow(Notify(i, es, dead).queue) /\ SoundIn(at, i, Visits, Lists) =>
            Kept(at, at', i, Notify(i, es, dead), Visits, Lists, items)
  PROVE  Carries(i, Notify(i, es, dead), items)
PROOF
  <1>1. Notify(i, es, dead).byPath = i.byPath
    BY NotifyFields
  <1>2. NoOverflow(Notify(i, es, dead).queue) => NoOverflow(i.queue)
    BY NotifiedParts
  <1>3. QED
    BY <1>1, <1>2 DEF Carries

LEMMA InvWrite ==
  ASSUME TypeInv, WatchInv, NEW p, Write(p)
  PROVE  WatchInv'
PROOF
  <1>1. Live(p) /\ at' = at /\ Program(AfterWrite(cur, p), AfterWrite(repl, p), {Append(p, File)})
    BY WriteStep
  <1>2. IsTree(at) /\ World'
    BY <1>1, LiveWorld DEF World
  <1>3. Visits \subseteq Path /\ Lists \subseteq Path
    BY WalkPaths
  <1>4. Instance(cur) /\ Instance(repl)
    BY DEF TypeInv
  <1>5. ASSUME NEW i, Instance(i) PROVE Carries(i, AfterWrite(i, p), {Append(p, File)})
    <2>1. SeqOK(Told(i, Inode(p), "file", <<File>>))
      BY <1>5, ToldFile
    <2>2. NoOverflow(AfterWrite(i, p).queue) /\ SoundIn(at, i, Visits, Lists) =>
              Kept(at, at, i, AfterWrite(i, p), Visits, Lists, {Append(p, File)})
      BY <1>1, <1>2, <1>3, <1>5, SoundWrite
    <2>3. QED
      BY <1>1, <1>5, <2>1, <2>2, NotifyCarries DEF AfterWrite
  <1>6. /\ Carries(cur, AfterWrite(cur, p), {Append(p, File)})
        /\ Carries(repl, AfterWrite(repl, p), {Append(p, File)})
        /\ Idle(repl) => Idle(AfterWrite(repl, p))
    BY <1>4, <1>5, IdleAfter
  <1>7. QED
    BY <1>1, <1>2, <1>6, ProgramKeeps

LEMMA InvMkdir ==
  ASSUME TypeInv, WatchInv, NEW p, NEW n \in Name, Mkdir(p, n)
  PROVE  WatchInv'
PROOF
  <1>1. Live(p) /\ Program(AfterMkdir(cur, p, n), AfterMkdir(repl, p, n), {Append(p, n)})
    BY MkdirStep
  <1>2. IsTree(at)
    BY <1>1, LiveWorld
  <1>3. Visits \subseteq Path /\ Lists \subseteq Path
    BY WalkPaths
  <1>4. Instance(cur) /\ Instance(repl)
    BY DEF TypeInv
  <1>5. ASSUME NEW i, Instance(i) PROVE Carries(i, AfterMkdir(i, p, n), {Append(p, n)})
    <2>1. SeqOK(Told(i, Inode(p), "create", <<n>>))
      BY <1>5, ToldLink
    <2>2. NoOverflow(AfterMkdir(i, p, n).queue) /\ SoundIn(at, i, Visits, Lists) =>
              Kept(at, at', i, AfterMkdir(i, p, n), Visits, Lists, {Append(p, n)})
      BY <1>2, <1>3, <1>5, SoundMkdir
    <2>3. QED
      BY <1>5, <2>1, <2>2, NotifyCarries DEF AfterMkdir
  <1>6. /\ Carries(cur, AfterMkdir(cur, p, n), {Append(p, n)})
        /\ Carries(repl, AfterMkdir(repl, p, n), {Append(p, n)})
        /\ Idle(repl) => Idle(AfterMkdir(repl, p, n))
    BY <1>4, <1>5, IdleAfter
  <1>7. World'
    <2>1. PICK d \in Dir \ DOMAIN at : at' = With(at, d, Append(p, n))
      BY MkdirStep
    <2>2. Added(at, at', d, Append(p, n))
      BY <2>1, WithAdded
    <2>3. Inode(p) \in DOMAIN at /\ at[Inode(p)] = p /\ p \in Path
      BY <1>1, LivePath
    <2>4. Append(p, n) \in Path /\ ~InTree(at, Append(p, n))
      BY <2>3, MkdirStep, PathExtend, LiveTree
    <2>5. at \in [DOMAIN at -> Path]
      BY DEF TypeInv
    <2>6. /\ Append(at[Inode(p)], n) \in Path /\ ~InTree(at, Append(at[Inode(p)], n))
          /\ Added(at, at', d, Append(at[Inode(p)], n)) /\ Inode(p) \in DOMAIN at
      BY <2>2, <2>3, <2>4
    <2>7. IsTree(at')
      BY <1>2, <2>5, <2>6, AddedTree
    <2>8. QED
      BY <2>7 DEF World
  <1>8. QED
    BY <1>1, <1>2, <1>6, <1>7, ProgramKeeps

LEMMA InvMoveRoot ==
  ASSUME TypeInv, WatchInv, MoveRoot
  PROVE  WatchInv'
PROOF
  <1>1. Live(<<>>) /\ at' = Empty /\ Program(AfterMoveRoot(cur), AfterMoveRoot(repl), {<<>>})
    BY MoveRootStep
  <1>2. IsTree(at)
    BY <1>1, LiveWorld
  <1>3. World'
    BY <1>1 DEF World, Empty
  <1>4. Visits \subseteq Path /\ Lists \subseteq Path
    BY WalkPaths
  <1>5. Instance(cur) /\ Instance(repl)
    BY DEF TypeInv
  <1>6. ASSUME NEW i, Instance(i) PROVE Carries(i, AfterMoveRoot(i), {<<>>})
    <2>1. SeqOK(Told(i, Root, "moveself", <<>>))
      BY <1>6, ToldSelf
    <2>2. NoOverflow(AfterMoveRoot(i).queue) /\ SoundIn(at, i, Visits, Lists) =>
              Kept(at, at', i, AfterMoveRoot(i), Visits, Lists, {<<>>})
      BY <1>2, <1>4, <1>6, SoundMoveRoot
    <2>3. QED
      BY <1>6, <2>1, <2>2, NotifyCarries DEF AfterMoveRoot
  <1>7. /\ Carries(cur, AfterMoveRoot(cur), {<<>>}) /\ Carries(repl, AfterMoveRoot(repl), {<<>>})
        /\ Idle(repl) => Idle(AfterMoveRoot(repl))
    BY <1>5, <1>6, IdleAfter
  <1>8. QED
    BY <1>1, <1>2, <1>3, <1>7, ProgramKeeps

LEMMA InvRmdir ==
  ASSUME TypeInv, WatchInv, NEW p, Live(p), NEW n \in Name, Rmdir(p, n)
  PROVE  WatchInv'
PROOF
  <1>1. IsTree(at)
    BY LiveWorld
  <1>2. Visits \subseteq Path /\ Lists \subseteq Path
    BY WalkPaths
  <1>3. Instance(cur) /\ Instance(repl)
    BY DEF TypeInv
  <1>4. ASSUME NEW i, Instance(i), NEW es, es = ParentFirst(i, p, n) \/ es = ParentLast(i, p, n)
        PROVE  Carries(i, AfterRmdir(i, p, n, es), {Append(p, n)})
    <2>1. SeqOK(es)
      BY <1>4, AfterType
    <2>2. NoOverflow(AfterRmdir(i, p, n, es).queue) /\ SoundIn(at, i, Visits, Lists) =>
              Kept(at, at', i, AfterRmdir(i, p, n, es), Visits, Lists, {Append(p, n)})
      BY <1>1, <1>2, <1>4, SoundRmdir
    <2>3. QED
      BY <1>4, <2>1, <2>2, NotifyCarries DEF AfterRmdir
  <1>5. World'
    <2> DEFINE x == Append(p, n)
               d == Inode(x)
               P == Inode(p)
    <2>1. Live(x) /\ Children(x) = {} /\ at' = Without(at, {d})
      BY RmdirStep
    <2>2. P \in DOMAIN at /\ at[P] = p /\ d \in DOMAIN at /\ at[d] = x
      BY <2>1, LivePath
    <2>3. Removed(at, at', d)
      BY <2>1, <2>2, WithoutRemoved
    <2>4. Child(at, P, n, d)
      BY <2>2 DEF Child
    <2>5. \A m \in Name : ~InTree(at, Append(at[d], m))
      BY <2>1, <2>2, LiveTree DEF Children
    <2>6. at \in [DOMAIN at -> Path] /\ P \in DOMAIN at
      BY <2>2 DEF TypeInv
    <2> HIDE DEF d, P
    <2>7. IsTree(at')
      BY <1>1, <2>3, <2>4, <2>5, <2>6, RemovedTree
    <2>8. QED
      BY <2>7 DEF World
  <1>6. CASE Program(AfterRmdir(cur, p, n, ParentFirst(cur, p, n)),
                     AfterRmdir(repl, p, n, ParentFirst(repl, p, n)), {Append(p, n)})
    <2>1. /\ Carries(cur, AfterRmdir(cur, p, n, ParentFirst(cur, p, n)), {Append(p, n)})
          /\ Carries(repl, AfterRmdir(repl, p, n, ParentFirst(repl, p, n)), {Append(p, n)})
          /\ Idle(repl) => Idle(AfterRmdir(repl, p, n, ParentFirst(repl, p, n)))
      BY <1>3, <1>4, IdleAfter
    <2>2. QED
      BY <1>1, <1>5, <1>6, <2>1, ProgramKeeps
  <1>7. CASE Program(AfterRmdir(cur, p, n, ParentLast(cur, p, n)),
                     AfterRmdir(repl, p, n, ParentLast(repl, p, n)), {Append(p, n)})
    <2>1. /\ Carries(cur, AfterRmdir(cur, p, n, ParentLast(cur, p, n)), {Append(p, n)})
          /\ Carries(repl, AfterRmdir(repl, p, n, ParentLast(repl, p, n)), {Append(p, n)})
          /\ Idle(repl) => Idle(AfterRmdir(repl, p, n, ParentLast(repl, p, n)))
      BY <1>3, <1>4, IdleAfter
    <2>2. QED
      BY <1>1, <1>5, <1>7, <2>1, ProgramKeeps
  <1>8. QED
    BY <1>6, <1>7, RmdirStep

LEMMA InvRename ==
  ASSUME TypeInv, WatchInv, Renames \subseteq {"settled"},
         NEW p, Live(p), NEW n \in Name, NEW q, NEW m \in Name, Rename(p, n, q, m)
  PROVE  WatchInv'
PROOF
  <1> DEFINE items == {Append(p, n), Append(q, m)}
             c == AfterRename(cur, p, n, q, m)
             r == AfterRename(repl, p, n, q, m)
  <1>1. IsTree(at)
    BY LiveWorld
  <1>2. Kind(q, Append(q, m)) \in Renames
    BY RenameStep
  <1>3. Kind(q, Append(q, m)) = "settled"
    BY <1>2
  <1>4. ~Live(Append(q, m)) /\ mode = "read" /\ walk = <<>>
    BY <1>3, KindSettled
  <1>5. Program(c, r, items)
    BY <1>4, RenameStep
  <1>6. Instance(cur) /\ Instance(repl)
    BY DEF TypeInv
  <1>7. Visits = {} /\ Lists = {}
    BY <1>4 DEF Visits, Lists
  <1>8. Carries(cur, c, items)
    <2> DEFINE es == RenameLinks(cur, p, n, q, m) \o RenameSelf(cur, p, n)
    <2>1. SeqOK(es)
      <3>1. SeqOK(Told(cur, Inode(p), "from", <<n>>)) /\ SeqOK(Told(cur, Inode(q), "to", <<m>>))
        BY <1>6, ToldLink
      <3>2. SeqOK(RenameLinks(cur, p, n, q, m)) /\ SeqOK(RenameSelf(cur, p, n))
        BY <1>6, <3>1, JoinOK, ToldSelf DEF RenameLinks, RenameSelf
      <3>3. QED
        BY <3>2, JoinOK
    <2>2. NoOverflow(c.queue) /\ SoundIn(at, cur, Visits, Lists) => Kept(at, at', cur, c, Visits, Lists, items)
      BY <1>1, <1>3, <1>7, SoundRename
    <2>3. c = Notify(cur, es, {})
      BY DEF AfterRename
    <2> HIDE DEF c, es, items
    <2>4. QED
      BY <1>6, <2>1, <2>2, <2>3, NotifyCarries
  <1>9. Idle(repl) => Idle(r)
    BY <1>6, IdleAfter
  <1>10. World'
    <2> DEFINE old == Append(p, n)
               new == Append(q, m)
               d == Inode(old)
               P == Inode(p)
               S == Inode(q)
    <2>1. Renamed(old, new) /\ Fits(old, new)
      BY RenameStep
    <2>2. Live(old) /\ Live(q) /\ ~IsPrefix(old, q)
      BY RenameStep
    <2>3. Relocated(at, at', old, new)
      BY <1>4, <2>1, RenamedRelocated
    <2>4. P \in DOMAIN at /\ at[P] = p /\ S \in DOMAIN at /\ at[S] = q /\ d \in DOMAIN at /\ at[d] = old
          /\ old \in Path /\ old \in Seq(Nat) /\ q \in Seq(Nat) /\ m \in Nat
      BY <2>2, LivePath, PathType, NamesAreNumbers
    <2>5. new \in Path
      <3>1. new \in Seq(Nat)
        BY <2>4, AppendType
      <3> HIDE DEF old, new, d
      <3>2. IsPrefix(old, old) /\ Moved(old, new, old) = new
        BY <2>4, <3>1, PrefixRefl, MovedSelf
      <3>3. Moved(old, new, old) \in Path
        BY <2>1, <2>4, <3>2 DEF Fits
      <3>4. QED
        BY <3>2, <3>3
    <2>6. ~InTree(at, new)
      BY <1>4, LiveTree
    <2>7. Child(at, P, n, d) /\ Onto(at, S, m, new)
      BY <2>4 DEF Child, Onto
    <2> HIDE DEF old, new, d, P, S
    <2>8. Relocated(at, at', at[d], new) /\ ~IsPrefix(at[d], at[S]) /\ P \in DOMAIN at /\ S \in DOMAIN at
      BY <2>2, <2>3, <2>4
    <2>9. at \in [DOMAIN at -> Path]
      BY DEF TypeInv
    <2>10. Transfer(at, at', at[d], new)
      BY <1>1, <2>5, <2>6, <2>7, <2>8, <2>9, RelocatedTree
    <2>11. QED
      BY <2>10 DEF Transfer, World
  <1> HIDE DEF c, r, items
  <1>11. QED
    BY <1>1, <1>4, <1>5, <1>8, <1>9, <1>10, ProgramKeeps

-----------------------------------------------------------------------------
(* The steps of a walk keep the invariant *)

VisitsOf(M) == {e.path : e \in {f \in M : f.step = "visit"}}
ListsOf(M) == {e.path : e \in {f \in M : f.step = "list"}}

LEMMA WalkSets ==
  Visits = VisitsOf(Range(walk)) /\ Lists = ListsOf(Range(walk))
  BY DEF Visits, Lists, VisitsOf, ListsOf, Range

LEMMA HeadRange ==
  ASSUME NEW S, NEW w \in Seq(S), w # <<>>
  PROVE  Range(w) = {Head(w)} \cup Range(Tail(w))
PROOF
  <1>1. /\ 1 \in DOMAIN w /\ w[1] = Head(w)
        /\ \A k \in DOMAIN Tail(w) : k + 1 \in DOMAIN w /\ Tail(w)[k] = w[k + 1]
        /\ \A k \in DOMAIN w : k # 1 => k - 1 \in DOMAIN Tail(w) /\ Tail(w)[k - 1] = w[k]
    OBVIOUS
  <1>2. QED
    BY <1>1 DEF Range

LEMMA JoinRange ==
  ASSUME NEW S, NEW s \in Seq(S), NEW t \in Seq(S)
  PROVE  Range(s \o t) = Range(s) \cup Range(t)
PROOF
  <1> DEFINE v == s \o t
  <1>1. \A k \in DOMAIN s : k \in DOMAIN v /\ v[k] = s[k]
    BY Joined
  <1>2. \A k \in DOMAIN t : Len(s) + k \in DOMAIN v /\ v[Len(s) + k] = t[k]
    BY Joined
  <1>3. \A k \in DOMAIN v :
            \/ k \in DOMAIN s /\ v[k] = s[k]
            \/ \E l \in DOMAIN t : k = Len(s) + l /\ v[k] = t[l]
    BY Joined
  <1> HIDE DEF v
  <1>4. Range(v) = Range(s) \cup Range(t)
    BY <1>1, <1>2, <1>3 DEF Range
  <1>5. QED
    BY <1>4 DEF v

LEMMA VisitSets ==
  ASSUME TypeInv, Visit
  PROVE  Visited(Head(walk).path, Visits, Lists, Visits', Lists')
PROOF
  <1> DEFINE p == Head(walk).path
             M == Range(Tail(walk))
  <1>1. walk \in Seq(Steps) /\ walk # <<>> /\ Head(walk).step = "visit" /\ walk' = <<Listing(p)>> \o Tail(walk)
    BY DEF TypeInv, Visit
  <1>2. p \in Path /\ Tail(walk) \in Seq(Steps)
    BY <1>1, WalkHead
  <1>3. Range(walk) = {Head(walk)} \cup M
    BY <1>1, HeadRange
  <1>4. Range(walk') = {Listing(p)} \cup M
    <2>1. Listing(p) \in Steps
      BY <1>2, StepType
    <2>2. <<Listing(p)>> \in Seq(Steps)
      BY <2>1
    <2>3. Range(<<Listing(p)>>) = {Listing(p)}
      BY DEF Range
    <2>4. Range(<<Listing(p)>> \o Tail(walk)) = Range(<<Listing(p)>>) \cup M
      BY <1>2, <2>2, JoinRange
    <2>5. QED
      BY <1>1, <2>3, <2>4
  <1>5. Listing(p).step = "list" /\ Listing(p).path = p
    BY DEF Listing
  <1>6. /\ Visits = VisitsOf({Head(walk)} \cup M) /\ Lists = ListsOf({Head(walk)} \cup M)
        /\ Visits' = VisitsOf({Listing(p)} \cup M) /\ Lists' = ListsOf({Listing(p)} \cup M)
    <2>1. Visits = VisitsOf(Range(walk)) /\ Lists = ListsOf(Range(walk))
      BY WalkSets
    <2>2. Visits' = VisitsOf(Range(walk')) /\ Lists' = ListsOf(Range(walk'))
      BY DEF Visits, Lists, VisitsOf, ListsOf, Range
    <2>3. QED
      BY <1>3, <1>4, <2>1, <2>2
  <1> DEFINE A == VisitsOf(M)
             B == ListsOf(M)
  <1>7. VisitsOf({Head(walk)} \cup M) = {p} \cup A /\ ListsOf({Head(walk)} \cup M) = B
    BY <1>1 DEF VisitsOf, ListsOf
  <1>8. VisitsOf({Listing(p)} \cup M) = A /\ ListsOf({Listing(p)} \cup M) = B \cup {p}
    BY <1>5 DEF VisitsOf, ListsOf
  <1>9. QED
    BY <1>6, <1>7, <1>8 DEF Visited

LEMMA ListSets ==
  ASSUME TypeInv, List
  PROVE  Listed(at, Head(walk).path, Visits, Lists, Visits', Lists')
PROOF
  <1> DEFINE p == Head(walk).path
             M == Range(Tail(walk))
             A == VisitsOf(M)
             B == ListsOf(M)
             C == {Append(p, n) : n \in {m \in Name : InTree(at, Append(p, m))}}
  <1>1. walk \in Seq(Steps) /\ walk # <<>> /\ Head(walk).step = "list"
    BY DEF TypeInv, List
  <1>2. p \in Path /\ Tail(walk) \in Seq(Steps)
    BY <1>1, WalkHead
  <1>3. PICK names \in Sorted(Children(p)) : walk' = Entries(p, names) \o Tail(walk)
    BY DEF List, Entries
  <1> DEFINE es == Entries(p, names)
  <1>4. /\ es \in Seq(Steps)
        /\ \A k \in DOMAIN es : \E n \in Children(p) : es[k] = Visiting(Append(p, n))
        /\ \A n \in Children(p) : \E k \in DOMAIN es : es[k] = Visiting(Append(p, n))
    BY <1>2, EntriesType
  <1>5. Range(walk) = {Head(walk)} \cup M
    BY <1>1, HeadRange
  <1> HIDE DEF es
  <1>6. Range(walk') = Range(es) \cup M
    <2>1. Range(es \o Tail(walk)) = Range(es) \cup M
      BY <1>2, <1>4, JoinRange
    <2>2. QED
      BY <1>3, <2>1 DEF es
  <1>7. \A q : Visiting(q).step = "visit" /\ Visiting(q).path = q
    BY DEF Visiting
  <1>8. Children(p) = {m \in Name : InTree(at, Append(p, m))}
    BY LiveTree DEF Children
  <1>9. VisitsOf(Range(es)) = C /\ ListsOf(Range(es)) = {}
    <2>1. \A e \in Range(es) : \E n \in Children(p) : e = Visiting(Append(p, n))
      BY <1>4 DEF Range
    <2>2. \A n \in Children(p) : Visiting(Append(p, n)) \in Range(es)
      BY <1>4 DEF Range
    <2>3. \A e \in Range(es) : e.step = "visit" /\ e.path \in C
      BY <1>7, <1>8, <2>1
    <2>4. \A x \in C : \E e \in Range(es) : e.step = "visit" /\ e.path = x
      BY <1>7, <1>8, <2>2
    <2> HIDE DEF C
    <2>5. VisitsOf(Range(es)) = C
      BY <2>3, <2>4 DEF VisitsOf
    <2>6. ListsOf(Range(es)) = {}
      BY <2>3 DEF ListsOf
    <2>7. QED
      BY <2>5, <2>6
  <1>10. Visits = A /\ Lists = B \cup {p}
    <2>1. Visits = VisitsOf(Range(walk)) /\ Lists = ListsOf(Range(walk))
      BY WalkSets
    <2>2. VisitsOf({Head(walk)} \cup M) = A /\ ListsOf({Head(walk)} \cup M) = B \cup {p}
      BY <1>1 DEF VisitsOf, ListsOf
    <2>3. QED
      BY <1>5, <2>1, <2>2
  <1>11. Visits' = A \cup C /\ Lists' = B
    <2>1. Visits' = VisitsOf(Range(walk')) /\ Lists' = ListsOf(Range(walk'))
      BY DEF Visits, Lists, VisitsOf, ListsOf, Range
    <2> HIDE DEF C
    <2>2. VisitsOf(Range(es) \cup M) = VisitsOf(Range(es)) \cup A /\ ListsOf(Range(es) \cup M) = ListsOf(Range(es)) \cup B
      BY DEF VisitsOf, ListsOf
    <2>3. QED
      BY <1>6, <1>9, <2>1, <2>2
  <1>12. QED
    BY <1>10, <1>11 DEF Listed

\* The reader has visited p.
VisitKeeps(i, j, p, vs, ls, us, ms) ==
    /\ SoundIn(at, j, us, ms)
    /\ DOMAIN i.byPath \subseteq DOMAIN j.byPath
    /\ \A s, r : ReportedIn(at, i, vs, ls, s) /\ r \subseteq s /\ (\A x \in r : ~IsPrefix(p, x))
            => ReportedIn(at, j, us, ms, r)

LEMMA AddQueue ==
  ASSUME NEW i, Instance(i), NEW p
  PROVE  add(i, p).queue = i.queue
PROOF
  <1>1. CASE p \in DOMAIN i.byPath \/ ~Live(p)
    BY <1>1 DEF add
  <1>2. CASE p \notin DOMAIN i.byPath /\ Live(p)
    BY <1>2, AddFields, FourFields
  <1>3. QED
    BY <1>1, <1>2

LEMMA WithExtends ==
  ASSUME NEW f, NEW k, k \notin DOMAIN f, NEW v
  PROVE  Extends(f, With(f, k, v), k, v) /\ Part(f, With(f, k, v))
  BY DEF With, Extends, Part

LEMMA SoundVisitIdle ==
  ASSUME TypeInv, World, NEW i, Instance(i), NEW vs, vs \subseteq Path, NEW ls, ls \subseteq Path,
         SoundIn(at, i, vs, ls), NEW p, NEW us, NEW ms, Visited(p, vs, ls, us, ms),
         p \in DOMAIN i.byPath \/ ~Live(p)
  PROVE  VisitKeeps(i, add(i, p), p, vs, ls, us, ms)
PROOF
  <1>1. add(i, p) = i
    BY DEF add
  <1>2. CoreTypes(at, i.queue, i.byDescriptor, vs, ls) /\ MapsAgree(i)
    BY InstanceCore DEF SoundIn
  <1>3. (\E u \in DOMAIN i.byDescriptor : i.byDescriptor[u] = p) \/ ~InTree(at, p)
    BY <1>2, LiveTree DEF MapsAgree
  <1>4. SoundIn(at, i, us, ms)
    <2>1. ASSUME IsTree(at) PROVE Core(at, i.queue, i.watch, i.byDescriptor, us, ms)
      <3>1. Core(at, i.queue, i.watch, i.byDescriptor, vs, ls)
        BY <2>1 DEF SoundIn
      <3>2. QED
        BY <1>2, <1>3, <2>1, <3>1, CoreVisitIdle
    <2>2. QED
      BY <2>1 DEF SoundIn
  <1>5. \A s, r : ReportedIn(at, i, vs, ls, s) /\ r \subseteq s /\ (\A x \in r : ~IsPrefix(p, x))
            => ReportedIn(at, i, us, ms, r)
    <2>1. Part(i.byDescriptor, i.byDescriptor)
      BY DEF Part
    <2>2. QED
      BY <2>1, ReportedVisit DEF ReportedIn
  <1>6. QED
    BY <1>1, <1>4, <1>5 DEF VisitKeeps

LEMMA SoundVisitNew ==
  ASSUME TypeInv, World, NEW i, Instance(i), NEW vs, vs \subseteq Path, NEW ls, ls \subseteq Path,
         SoundIn(at, i, vs, ls), NEW p, NEW us, NEW ms, Visited(p, vs, ls, us, ms),
         p \notin DOMAIN i.byPath, Live(p)
  PROVE  VisitKeeps(i, add(i, p), p, vs, ls, us, ms)
PROOF
  <1> DEFINE e == Inode(p)
             wd == Descriptor(i, e)
             Q == i.queue
             W == i.watch
             D == i.byDescriptor
             B == i.byPath
             V == With(W, e, wd)
             E == With(D, wd, p)
             C == With(B, p, wd)
             j == add(i, p)
  <1>1. IsTree(at)
    BY LiveTree DEF World, InTree
  <1>2. CoreTypes(at, Q, D, vs, ls) /\ MapsAgree(i) /\ Core(at, Q, W, D, vs, ls)
    BY <1>1, InstanceCore DEF SoundIn
  <1>3. e \in DOMAIN at /\ at[e] = p
    BY LivePath
  <1>4. /\ j.queue = Q /\ j.watch = V /\ j.byDescriptor = E /\ j.byPath = C
    BY AddFields, FourFields
  <1>5. e \in DOMAIN W => wd = W[e]
    BY FreshDescriptor
  <1>6. e \notin DOMAIN W => wd \notin Used(i)
    BY FreshDescriptor
  <1> HIDE DEF e, wd, j, V, E, C
  <1>7. \A u \in DOMAIN D : D[u] # p
    BY <1>2 DEF MapsAgree
  <1>8. e \notin DOMAIN W
    <2>1. SUFFICES ASSUME e \in DOMAIN W PROVE FALSE
      OBVIOUS
    <2>2. p \in vs
      BY DEF Visited
    <2> HIDE DEF Q, W, D
    <2>3. W[e] \in DOMAIN D /\ D[W[e]] = p
      BY <1>2, <1>3, <2>1, <2>2, VisitWatched
    <2>4. QED
      BY <1>7, <2>3
  <1>9. wd \notin Used(i)
    BY <1>6, <1>8
  <1>10. /\ \A d \in DOMAIN W : W[d] # wd
         /\ \A k \in DOMAIN Q : Q[k].wd # wd
         /\ wd \notin DOMAIN D
         /\ \A q \in DOMAIN B : B[q] # wd
    BY <1>9 DEF Used, Range
  <1>11. Extends(W, V, e, wd)
    BY <1>8, WithExtends DEF V
  <1>12. Extends(D, E, wd, p) /\ Part(D, E)
    BY <1>10, WithExtends DEF E
  <1>13. Extends(B, C, p, wd)
    BY WithExtends DEF C
  <1>14. MapsAgree(j)
    <2>1. ASSUME NEW u \in DOMAIN E PROVE E[u] \in DOMAIN C /\ C[E[u]] = u
      <3>1. CASE u = wd
        BY <1>12, <1>13, <3>1 DEF Extends
      <3>2. CASE u # wd
        <4>1. u \in DOMAIN D /\ E[u] = D[u]
          BY <1>12, <3>2 DEF Extends
        <4>2. D[u] \in DOMAIN B /\ B[D[u]] = u
          BY <1>2, <4>1 DEF MapsAgree
        <4>3. QED
          BY <1>13, <4>1, <4>2 DEF Extends
      <3>3. QED
        BY <3>1, <3>2
    <2>2. ASSUME NEW q \in DOMAIN C PROVE C[q] \in DOMAIN E /\ E[C[q]] = q
      <3>1. CASE q = p
        BY <1>12, <1>13, <3>1 DEF Extends
      <3>2. CASE q # p
        <4>1. q \in DOMAIN B /\ C[q] = B[q]
          BY <1>13, <3>2 DEF Extends
        <4>2. B[q] \in DOMAIN D /\ D[B[q]] = q
          BY <1>2, <4>1 DEF MapsAgree
        <4>3. QED
          BY <1>12, <4>1, <4>2 DEF Extends
      <3>3. QED
        BY <3>1, <3>2
    <2>3. QED
      BY <1>4, <2>1, <2>2 DEF MapsAgree
  <1> HIDE DEF Q, W, D, B
  <1>15. Core(at, Q, V, E, us, ms)
    BY <1>1, <1>2, <1>3, <1>7, <1>10, <1>11, <1>12, CoreVisit
  <1>16. SoundIn(at, j, us, ms)
    <2>1. DOMAIN at # {}
      BY <1>3
    <2>2. QED
      BY <1>4, <1>14, <1>15, <2>1 DEF SoundIn
  <1>17. \A s, r : Reported(at, Q, D, vs, ls, s) /\ r \subseteq s /\ (\A x \in r : ~IsPrefix(p, x))
            => Reported(at, Q, E, us, ms, r)
    BY <1>12, ReportedVisit
  <1>18. DOMAIN B \subseteq DOMAIN C
    BY <1>13 DEF Extends
  <1>19. QED
    BY <1>4, <1>16, <1>17, <1>18 DEF VisitKeeps, ReportedIn, j, Q, D, B

LEMMA SoundVisit ==
  ASSUME TypeInv, World, NEW i, Instance(i), NEW vs, vs \subseteq Path, NEW ls, ls \subseteq Path,
         SoundIn(at, i, vs, ls), NEW p, NEW us, NEW ms, Visited(p, vs, ls, us, ms)
  PROVE  VisitKeeps(i, add(i, p), p, vs, ls, us, ms)
  BY SoundVisitIdle, SoundVisitNew

LEMMA InvVisit ==
  ASSUME TypeInv, WatchInv, Visit
  PROVE  WatchInv'
PROOF
  <1> DEFINE p == Head(walk).path
  <1>1. /\ at' = at /\ mode' = mode /\ closed' = closed /\ deadline' = deadline /\ failed' = failed
        /\ IF mode = "read" THEN cur' = add(cur, p) /\ send(p) /\ repl' = repl
                            ELSE repl' = add(repl, p) /\ cur' = cur /\ stale' = stale
    BY DEF Visit, emit, endVars
  <1>2. Visited(p, Visits, Lists, Visits', Lists')
    BY VisitSets
  <1>3. Visits \subseteq Path /\ Lists \subseteq Path
    BY WalkPaths
  <1>4. Instance(cur) /\ Instance(repl) /\ World
    BY DEF TypeInv, WatchInv
  <1> HIDE DEF p
  <1>5. ASSUME NEW i, Instance(i), SoundIn(at, i, Visits, Lists)
        PROVE  VisitKeeps(i, add(i, p), p, Visits, Lists, Visits', Lists')
    BY <1>2, <1>3, <1>4, <1>5, SoundVisit
  <1>6. World' /\ (deadline' => closed') /\ (mode' = "read" => Idle(repl'))
    BY <1>1 DEF WatchInv, World
  <1>7. Outcome'
    BY <1>1 DEF WatchInv, Outcome
  <1>8. Watching'
    <2>1. SUFFICES ASSUME ~failed, mode # "ended", NoOverflow(Active'.queue)
                   PROVE  /\ SoundIn(at, Active', Visits', Lists')
                          /\ mode = "read" =>
                                /\ <<>> \in DOMAIN cur'.byPath
                                /\ IsTree(at) => ReportedIn(at, cur', Visits', Lists', stale')
      BY <1>1 DEF Watching
    <2>2. CASE mode = "read"
      <3>1. Active = cur /\ Active' = add(cur, p) /\ cur' = add(cur, p) /\ send(p)
        BY <1>1, <2>2 DEF Active
      <3>2. NoOverflow(cur.queue)
        BY <1>4, <2>1, <3>1, AddQueue
      <3>3. /\ SoundIn(at, cur, Visits, Lists) /\ <<>> \in DOMAIN cur.byPath
            /\ IsTree(at) => ReportedIn(at, cur, Visits, Lists, stale)
        BY <2>1, <2>2, <3>1, <3>2 DEF WatchInv, Watching
      <3>4. VisitKeeps(cur, add(cur, p), p, Visits, Lists, Visits', Lists')
        BY <1>4, <1>5, <3>3
      <3>5. stale' \subseteq stale /\ \A x \in stale' : ~IsPrefix(p, x)
        BY <3>1 DEF send
      <3>6. SoundIn(at, add(cur, p), Visits', Lists') /\ <<>> \in DOMAIN add(cur, p).byPath
        BY <3>3, <3>4 DEF VisitKeeps
      <3>7. IsTree(at) => ReportedIn(at, add(cur, p), Visits', Lists', stale')
        BY <3>3, <3>4, <3>5 DEF VisitKeeps
      <3>8. QED
        BY <3>1, <3>6, <3>7
    <2>3. CASE mode # "read"
      <3>1. Active = repl /\ Active' = add(repl, p)
        BY <1>1, <2>3 DEF Active
      <3>2. NoOverflow(repl.queue)
        BY <1>4, <2>1, <3>1, AddQueue
      <3>3. SoundIn(at, repl, Visits, Lists)
        BY <2>1, <3>1, <3>2 DEF WatchInv, Watching
      <3>4. VisitKeeps(repl, add(repl, p), p, Visits, Lists, Visits', Lists')
        BY <1>4, <1>5, <3>3
      <3>5. QED
        BY <2>3, <3>1, <3>4 DEF VisitKeeps
    <2>4. QED
      BY <2>2, <2>3
  <1>9. QED
    BY <1>6, <1>7, <1>8 DEF WatchInv

LEMMA InvList ==
  ASSUME TypeInv, WatchInv, List
  PROVE  WatchInv'
PROOF
  <1> DEFINE p == Head(walk).path
             f == Append(p, File)
  <1>1. /\ at' = at /\ cur' = cur /\ repl' = repl /\ mode' = mode
        /\ closed' = closed /\ deadline' = deadline /\ failed' = failed
        /\ IF mode = "read" /\ Live(p) THEN send(f) ELSE stale' = stale
    BY DEF List, emit, endVars
  <1>2. Listed(at, p, Visits, Lists, Visits', Lists')
    BY ListSets
  <1>3. Visits \subseteq Path /\ Lists \subseteq Path
    BY WalkPaths
  <1>4. Instance(cur) /\ Instance(repl) /\ World
    BY DEF TypeInv, WatchInv
  <1>5. f \in Seq(Nat) /\ IsPrefix(f, f)
    <2>1. p \in Path
      BY WalkHead DEF List, TypeInv
    <2>2. f \in Seq(Nat)
      BY <2>1, PathType, AppendType, NamesAreNumbers
    <2>3. QED
      BY <2>2, PrefixRefl
  <1> HIDE DEF p
  <1>6. ASSUME NEW i, Instance(i), SoundIn(at, i, Visits, Lists)
        PROVE  SoundIn(at, i, Visits', Lists')
    <2>1. CoreTypes(at, i.queue, i.byDescriptor, Visits, Lists)
      BY <1>3, <1>6, InstanceCore
    <2>2. ASSUME IsTree(at) PROVE Core(at, i.queue, i.watch, i.byDescriptor, Visits', Lists')
      <3>1. Core(at, i.queue, i.watch, i.byDescriptor, Visits, Lists)
        BY <1>6, <2>2 DEF SoundIn
      <3>2. QED
        BY <1>2, <2>1, <2>2, <3>1, CoreList
    <2>3. QED
      BY <1>6, <2>2 DEF SoundIn
  <1>7. World' /\ (deadline' => closed') /\ (mode' = "read" => Idle(repl'))
    BY <1>1 DEF WatchInv, World
  <1>8. Outcome'
    <2>1. stale' \subseteq stale
      BY <1>1 DEF send
    <2>2. QED
      BY <1>1, <2>1 DEF WatchInv, Outcome
  <1>9. Watching'
    <2>1. SUFFICES ASSUME ~failed, mode # "ended", NoOverflow(Active'.queue)
                   PROVE  /\ SoundIn(at, Active', Visits', Lists')
                          /\ mode = "read" =>
                                /\ <<>> \in DOMAIN cur.byPath
                                /\ IsTree(at) => ReportedIn(at, cur, Visits', Lists', stale')
      BY <1>1 DEF Watching
    <2>2. Active' = Active /\ Instance(Active)
      BY <1>1, <1>4 DEF Active
    <2>3. /\ SoundIn(at, Active, Visits, Lists)
          /\ mode = "read" =>
                /\ <<>> \in DOMAIN cur.byPath
                /\ IsTree(at) => ReportedIn(at, cur, Visits, Lists, stale)
      BY <2>1, <2>2 DEF WatchInv, Watching
    <2>4. SoundIn(at, Active', Visits', Lists')
      BY <1>6, <2>2, <2>3
    <2>5. ASSUME mode = "read", IsTree(at) PROVE ReportedIn(at, cur, Visits', Lists', stale')
      <3>1. Reported(at, cur.queue, cur.byDescriptor, Visits, Lists, stale)
        BY <2>3, <2>5 DEF ReportedIn
      <3>2. stale' \subseteq stale /\ (InTree(at, p) => f \notin stale')
        BY <1>1, <1>5, <2>5, LiveTree DEF send
      <3>3. Reported(at, cur.queue, cur.byDescriptor, Visits', Lists', stale')
        BY <1>2, <3>1, <3>2, ReportedList
      <3>4. QED
        BY <3>3 DEF ReportedIn
    <2>6. QED
      BY <2>3, <2>4, <2>5
  <1>10. QED
    BY <1>7, <1>8, <1>9 DEF WatchInv

LEMMA UnwatchedIdle == Idle(Unwatched)
  BY UnwatchedType DEF Idle, Empty

LEMMA InvFails ==
  ASSUME TypeInv, WatchInv, RebuildFails, at' = at
  PROVE  WatchInv'
PROOF
  <1>1. failed' = TRUE /\ repl' = Unwatched
    BY DEF RebuildFails, Fail
  <1>2. deadline' => closed'
    <2>1. CASE closed' = closed /\ deadline' = deadline
      BY <2>1, Zenon DEF WatchInv
    <2>2. CASE Fail
      BY <2>2, Zenon DEF Fail, CloseOnce
    <2>3. <<closed, deadline>>' = <<closed, deadline>> \/ Fail
      BY Zenon DEF RebuildFails
    <2>4. <<closed, deadline>>' = <<closed, deadline>> => closed' = closed /\ deadline' = deadline
      OBVIOUS
    <2>5. QED
      BY <2>1, <2>2, <2>3, <2>4, Zenon
  <1>3. Watching' /\ Outcome'
    BY <1>1 DEF Watching, Outcome
  <1>4. World' /\ Idle(repl')
    BY <1>1, UnwatchedIdle DEF WatchInv, World
  <1>5. QED
    BY <1>2, <1>3, <1>4 DEF WatchInv

LEMMA InvFail ==
  ASSUME TypeInv, WatchInv, Fail, at' = at, repl' = repl, mode' = mode
  PROVE  WatchInv'
PROOF
  <1>1. failed' = TRUE /\ closed' = TRUE
    BY DEF Fail, CloseOnce
  <1>2. Watching' /\ Outcome'
    BY <1>1 DEF Watching, Outcome
  <1>3. World' /\ (mode' = "read" => Idle(repl'))
    BY DEF WatchInv, World
  <1>4. QED
    BY <1>1, <1>2, <1>3 DEF WatchInv

LEMMA InvWalkFails ==
  ASSUME TypeInv, WatchInv, WalkFails
  PROVE  WatchInv'
  BY InvFails, InvFail DEF WalkFails

LEMMA InvRebuildEnds ==
  ASSUME TypeInv, WatchInv, RebuildEnds
  PROVE  WatchInv'
PROOF
  <1>1. at' = at /\ walk' = walk /\ mode \in {"new", "rebuild"}
    BY DEF RebuildEnds
  <1>2. CASE RebuildFails
    BY <1>1, <1>2, InvFails
  <1>3. CASE /\ <<>> \in DOMAIN repl.byPath /\ Rebuilt /\ repl' = Unwatched
             /\ closed' = closed /\ failed' = failed
    <2>1. cur' = repl /\ deadline' = closed /\ mode' = "read" /\ send(<<>>)
      BY <1>3 DEF Rebuilt, Swap
    <2>2. stale' = {}
      <3>1. \A x \in stale : IsPrefix(<<>>, x)
        BY ItemsType, PrefixRefl DEF TypeInv
      <3>2. QED
        BY <2>1, <3>1 DEF send
    <2>3. Visits' = Visits /\ Lists' = Lists
      BY <1>1 DEF Visits, Lists
    <2>4. Active = repl /\ Active' = repl
      BY <1>1, <2>1 DEF Active
    <2>5. Watching'
      <3>1. SUFFICES ASSUME ~failed, NoOverflow(repl.queue)
                     PROVE  /\ SoundIn(at, repl, Visits, Lists)
                            /\ <<>> \in DOMAIN repl.byPath
                            /\ ReportedIn(at, repl, Visits, Lists, {})
        BY <1>1, <1>3, <2>1, <2>2, <2>3, <2>4 DEF Watching
      <3>2. SoundIn(at, repl, Visits, Lists)
        BY <1>1, <2>4, <3>1 DEF WatchInv, Watching
      <3>3. ReportedIn(at, repl, Visits, Lists, {})
        BY DEF ReportedIn, Reported
      <3>4. QED
        BY <1>3, <3>2, <3>3
    <2>6. World' /\ Outcome' /\ (deadline' => closed') /\ Idle(repl')
      BY <1>1, <1>3, <2>1, UnwatchedIdle DEF WatchInv, World, Outcome
    <2>7. QED
      BY <2>5, <2>6 DEF WatchInv
  <1>4. QED
    BY <1>2, <1>3 DEF RebuildEnds

LEMMA InvClose ==
  ASSUME TypeInv, WatchInv, Close
  PROVE  WatchInv'
PROOF
  <1>1. /\ at' = at /\ cur' = cur /\ repl' = repl /\ mode' = mode /\ walk' = walk
        /\ failed' = failed /\ stale' = stale /\ closed' = TRUE
    BY DEF Close, CloseOnce
  <1>2. Visits' = Visits /\ Lists' = Lists /\ Active' = Active
    BY <1>1 DEF Visits, Lists, Active
  <1>3. Watching'
    BY <1>1, <1>2 DEF WatchInv, Watching
  <1>4. QED
    BY <1>1, <1>3 DEF WatchInv, World, Outcome

\* With nothing left to read, the watches are exact and nothing is missed.
LEMMA QuietSound ==
  ASSUME TypeInv, WatchInv, Quiet, ~failed
  PROVE  /\ IsTree(at) /\ stale = {} /\ MapsAgree(cur)
         /\ DOMAIN cur.watch = DOMAIN at
         /\ \A d \in DOMAIN at :
                cur.watch[d] \in DOMAIN cur.byDescriptor /\ cur.byDescriptor[cur.watch[d]] = at[d]
         /\ \A u \in DOMAIN cur.byDescriptor : InTree(at, cur.byDescriptor[u])
PROOF
  <1>1. mode = "read" /\ walk = <<>> /\ cur.queue = <<>> /\ Active = cur
    BY DEF Quiet, Active
  <1>2. NoOverflow(cur.queue)
    BY <1>1 DEF NoOverflow
  <1>3. Visits = {} /\ Lists = {}
    BY <1>1 DEF Visits, Lists
  <1>4. /\ SoundIn(at, cur, {}, {}) /\ <<>> \in DOMAIN cur.byPath
        /\ IsTree(at) => ReportedIn(at, cur, {}, {}, stale)
    BY <1>1, <1>2, <1>3 DEF WatchInv, Watching
  <1>5. ~RootGone(cur)
    BY <1>1, <1>4 DEF RootGone
  <1>6. IsTree(at)
    BY <1>4, <1>5 DEF SoundIn, WatchInv, World
  <1>7. Core(at, <<>>, cur.watch, cur.byDescriptor, {}, {}) /\ Reported(at, <<>>, cur.byDescriptor, {}, {}, stale)
    BY <1>1, <1>4, <1>6 DEF SoundIn, ReportedIn
  <1>8. cur.byDescriptor \in [DOMAIN cur.byDescriptor -> Path]
    BY DEF TypeInv, Instance, Descriptors
  <1>9. QED
    BY <1>4, <1>6, <1>7, <1>8, CoreQuiet DEF SoundIn

LEMMA InvEnds ==
  ASSUME TypeInv, WatchInv, readLoopEnds
  PROVE  WatchInv'
PROOF
  <1>1. /\ at' = at /\ mode' = "ended" /\ failed' = failed /\ closed' = closed
        /\ deadline' = deadline /\ stale' = stale /\ Quiet /\ deadline
    BY DEF readLoopEnds, endVars, Quiet
  <1>2. ~failed => stale = {}
    BY <1>1, QuietSound
  <1>3. Outcome'
    BY <1>1, <1>2 DEF Outcome, WatchInv
  <1>4. Watching' /\ World' /\ (deadline' => closed') /\ (mode' = "read" => Idle(repl'))
    BY <1>1 DEF Watching, World, WatchInv
  <1>5. QED
    BY <1>3, <1>4 DEF WatchInv

-----------------------------------------------------------------------------
(* The events that concern no link, and creations *)

\* What an instance j and the unreported items s are while the reader has the
\* paths vs to visit
Handled(j, vs, s) ==
    /\ SoundIn(at, j, vs, {})
    /\ <<>> \in DOMAIN j.byPath
    /\ IsTree(at) => ReportedIn(at, j, vs, {}, s)

LEMMA FrontEvent ==
  ASSUME TypeInv, cur.queue # <<>>
  PROVE  /\ Shifts(cur.queue, Tail(cur.queue)) /\ 1 \in DOMAIN cur.queue /\ event = cur.queue[1]
         /\ event \in Events /\ WellFormed(event)
         /\ Instance(cur) /\ Instance(rest) /\ rest.queue = Tail(cur.queue) /\ rest.watch = cur.watch
         /\ rest.byDescriptor = cur.byDescriptor /\ rest.byPath = cur.byPath
         /\ NoOverflow(rest.queue) /\ event # Overflow => NoOverflow(cur.queue)
PROOF
  <1>1. Instance(cur) /\ Queue(cur.queue)
    BY DEF TypeInv, Instance
  <1>2. QED
    BY <1>1, RestType, TailQueue DEF event

LEMMA FrontPath ==
  ASSUME TypeInv, cur.queue # <<>>, known
  PROVE  /\ cur.byDescriptor[event.wd] \in Path
         /\ event.name = <<>> => path = cur.byDescriptor[event.wd]
         /\ \A n \in Names : event.name = <<n>> => path = Append(cur.byDescriptor[event.wd], n)
PROOF
  <1>1. cur.byDescriptor[event.wd] \in Path
    BY DEF known, TypeInv, Instance, Descriptors
  <1>2. cur.byDescriptor[event.wd] \in Seq(Nat)
    BY <1>1, PathType
  <1>3. event.name = <<>> => path = cur.byDescriptor[event.wd]
    BY <1>2 DEF path
  <1>4. ASSUME NEW n \in Names, event.name = <<n>>
        PROVE  path = Append(cur.byDescriptor[event.wd], n)
    <2>1. n \in Nat
      BY NamesAreNumbers
    <2>2. QED
      BY <1>2, <1>4, <2>1, AppendType DEF path
  <1>5. QED
    BY <1>1, <1>3, <1>4

LEMMA RootGoneShifts ==
  ASSUME NEW i, NEW j, RootGone(i), Shifts(i.queue, j.queue),
         <<>> \in DOMAIN i.byPath, j.byPath[<<>>] = i.byPath[<<>>],
         i.queue[1] # Event(i.byPath[<<>>], "moveself", <<>>)
  PROVE  RootGone(j)
PROOF
  <1>1. PICK k \in DOMAIN i.queue : i.queue[k] = Event(i.byPath[<<>>], "moveself", <<>>)
    BY DEF RootGone
  <1>2. k - 1 \in DOMAIN j.queue /\ j.queue[k - 1] = i.queue[k]
    BY <1>1, ShiftDown
  <1>3. \A l \in DOMAIN j.queue : l + 1 \in DOMAIN i.queue /\ j.queue[l] = i.queue[l + 1]
    BY ShiftUp
  <1>4. \A l \in DOMAIN j.queue : j.queue[l].wd = j.byPath[<<>>] => j.queue[l].mask # "ignored"
    BY <1>3 DEF RootGone
  <1>5. QED
    BY <1>1, <1>2, <1>4 DEF RootGone

\* An event is read that concerns no link of a directory.
LEMMA SoundDrop ==
  ASSUME TypeInv, cur.queue # <<>>, Handled(cur, {}, stale),
         known => event.mask \notin {"create", "to", "delete", "from"},
         event # Event(cur.byPath[<<>>], "moveself", <<>>),
         NEW j, j.queue = Tail(cur.queue), j.watch = cur.watch, Part(j.byDescriptor, cur.byDescriptor),
         MapsAgree(j), <<>> \in DOMAIN j.byPath, j.byPath[<<>>] = cur.byPath[<<>>],
         \A u \in DOMAIN cur.byDescriptor \ DOMAIN j.byDescriptor :
            /\ \A d \in DOMAIN cur.watch : cur.watch[d] # u
            /\ \A k \in DOMAIN cur.queue : k # 1 => cur.queue[k].wd # u,
         NEW s, s \subseteq stale,
         \A u \in DOMAIN cur.byDescriptor, n \in Names, x \in s :
            Fil(cur.queue, 1, u, n) => ~IsPrefix(Append(cur.byDescriptor[u], n), x)
  PROVE  Handled(j, {}, s)
PROOF
  <1>1. Shifts(cur.queue, Tail(cur.queue)) /\ event = cur.queue[1]
    BY FrontEvent
  <1>2. \A u \in DOMAIN cur.byDescriptor, n \in Names : ~Rem(cur.queue, 1, u, n) /\ ~Cre(cur.queue, 1, u, n)
    BY <1>1 DEF Rem, Cre, known
  <1>3. CoreTypes(at, cur.queue, cur.byDescriptor, {}, {})
    BY InstanceCore DEF TypeInv
  <1>4. s \in SUBSET Seq(Nat)
    BY ItemsType DEF TypeInv
  <1>5. ASSUME IsTree(at)
        PROVE  /\ Core(at, j.queue, j.watch, j.byDescriptor, {}, {})
               /\ Reported(at, j.queue, j.byDescriptor, {}, {}, s)
    <2>1. Core(at, cur.queue, cur.watch, cur.byDescriptor, {}, {})
      BY <1>5 DEF Handled, SoundIn
    <2>2. Reported(at, cur.queue, cur.byDescriptor, {}, {}, s)
      BY <1>5, ReportedPart DEF Handled, ReportedIn
    <2>3. /\ Core(at, Tail(cur.queue), cur.watch, j.byDescriptor, {}, {})
          /\ \A r \in SUBSET Seq(Nat) :
                /\ Reported(at, cur.queue, cur.byDescriptor, {}, {}, r)
                /\ \A u \in DOMAIN cur.byDescriptor, n \in Names, x \in r :
                        Fil(cur.queue, 1, u, n) => ~IsPrefix(Append(cur.byDescriptor[u], n), x)
                => Reported(at, Tail(cur.queue), j.byDescriptor, {}, {}, r)
      BY <1>1, <1>2, <1>3, <1>5, <2>1, CoreDrop
    <2>4. QED
      BY <1>4, <2>2, <2>3
  <1>6. ASSUME DOMAIN at = {} PROVE RootGone(j)
    <2>1. RootGone(cur) /\ <<>> \in DOMAIN cur.byPath
      BY <1>6 DEF Handled, SoundIn
    <2>2. QED
      BY <1>1, <2>1, RootGoneShifts
  <1>7. QED
    BY <1>5, <1>6 DEF Handled, SoundIn, ReportedIn

\* An event is read and nothing but its path is reported.
LEMMA SoundRead ==
  ASSUME TypeInv, cur.queue # <<>>, Handled(cur, {}, stale),
         known => event.mask \notin {"create", "to", "delete", "from"},
         event # Event(cur.byPath[<<>>], "moveself", <<>>),
         NEW s, s \subseteq stale,
         known /\ event.mask = "file" => \A x \in s : ~IsPrefix(path, x)
  PROVE  Handled(rest, {}, s)
PROOF
  <1>1. /\ rest.queue = Tail(cur.queue) /\ rest.watch = cur.watch
        /\ rest.byDescriptor = cur.byDescriptor /\ rest.byPath = cur.byPath /\ event = cur.queue[1]
    BY FrontEvent
  <1>2. MapsAgree(rest) /\ <<>> \in DOMAIN rest.byPath
    BY <1>1, InverseKept DEF Handled, SoundIn
  <1>3. Part(rest.byDescriptor, cur.byDescriptor)
    BY <1>1 DEF Part
  <1>4. ASSUME NEW u \in DOMAIN cur.byDescriptor, NEW n \in Names, NEW x \in s, Fil(cur.queue, 1, u, n)
        PROVE  ~IsPrefix(Append(cur.byDescriptor[u], n), x)
    <2>1. event.wd = u /\ event.name = <<n>> /\ event.mask = "file" /\ known
      BY <1>1, <1>4 DEF Fil, known
    <2>2. path = Append(cur.byDescriptor[u], n)
      BY <2>1, FrontPath
    <2>3. QED
      BY <2>1, <2>2
  <1>5. QED
    BY <1>1, <1>2, <1>3, <1>4, SoundDrop

Drops(j, s) ==
    /\ j.queue = Tail(cur.queue) /\ j.watch = cur.watch /\ Part(j.byDescriptor, cur.byDescriptor)
    /\ MapsAgree(j) /\ <<>> \in DOMAIN j.byPath /\ j.byPath[<<>>] = cur.byPath[<<>>]
    /\ \A u \in DOMAIN cur.byDescriptor \ DOMAIN j.byDescriptor :
            /\ \A d \in DOMAIN cur.watch : cur.watch[d] # u
            /\ \A k \in DOMAIN cur.queue : k # 1 => cur.queue[k].wd # u
    /\ s \subseteq stale
    /\ \A u \in DOMAIN cur.byDescriptor, n \in Names, x \in s :
            Fil(cur.queue, 1, u, n) => ~IsPrefix(Append(cur.byDescriptor[u], n), x)

LEMMA SoundDrops ==
  ASSUME TypeInv, cur.queue # <<>>, Handled(cur, {}, stale),
         known => event.mask \notin {"create", "to", "delete", "from"},
         event # Event(cur.byPath[<<>>], "moveself", <<>>), NEW j, NEW s, Drops(j, s)
  PROVE  Handled(j, {}, s)
  BY SoundDrop DEF Drops

CreationKept(a, Q, W, D, R, vs) ==
    /\ Core(a, R, W, D, vs, {})
    /\ \A s \in SUBSET Seq(Nat) : Reported(a, Q, D, {}, {}, s) => Reported(a, R, D, vs, {}, s)

LEMMA CreationKeeps ==
  ASSUME NEW a, NEW Q, NEW W, NEW D, CoreTypes(a, Q, D, {}, {}), IsTree(a),
         Core(a, Q, W, D, {}, {}), NEW R, Shifts(Q, R),
         NEW c \in DOMAIN D, NEW i \in Names, Cre(Q, 1, c, i),
         NEW vs, Starts(a, Append(D[c], i), vs)
  PROVE  CreationKept(a, Q, W, D, R, vs)
  BY CoreCreation DEF CreationKept

LEMMA SoundForgotten ==
  ASSUME TypeInv, World, cur.queue # <<>>, Handled(cur, {}, stale), known, event.mask = "ignored"
  PROVE  Handled(Forgotten(rest, event.wd, path), {}, stale)
PROOF
  <1> DEFINE wd == event.wd
             D == cur.byDescriptor
             B == cur.byPath
             j == Forgotten(rest, wd, path)
  <1>1. /\ Instance(rest) /\ rest.queue = Tail(cur.queue) /\ rest.watch = cur.watch
        /\ rest.byDescriptor = D /\ rest.byPath = B /\ event = cur.queue[1] /\ WellFormed(event)
        /\ 1 \in DOMAIN cur.queue
    BY FrontEvent
  <1>2. path = D[wd] /\ wd \in DOMAIN D
    <2>1. event.name = <<>>
      BY <1>1 DEF WellFormed, Signal
    <2>2. QED
      BY <2>1, FrontPath DEF known
  <1>3. /\ j.queue = Tail(cur.queue) /\ j.watch = cur.watch
        /\ j.byDescriptor = Without(D, {wd}) /\ j.byPath = Without(B, {path})
    <2>1. Instance(rest)
      BY FrontEvent
    <2>2. Forgets(rest, j, wd, path)
      BY <2>1, ForgottenType
    <2> HIDE DEF j
    <2>3. QED
      BY <1>1, <2>2 DEF Forgets
  <1>4. MapsAgree(cur) /\ <<>> \in DOMAIN B
    BY DEF Handled, SoundIn
  <1>5. path # <<>>
    <2>1. SUFFICES ASSUME D[wd] = <<>> PROVE FALSE
      BY <1>2
    <2>2. CASE IsTree(at)
      <3>1. Core(at, cur.queue, cur.watch, D, {}, {})
        BY <2>2 DEF Handled, SoundIn
      <3>2. CoreTypes(at, cur.queue, D, {}, {})
        BY InstanceCore DEF TypeInv
      <3>3. \A k \in DOMAIN cur.queue : cur.queue[k].wd = wd => cur.queue[k].mask # "ignored"
        BY <1>2, <2>1, <2>2, <3>1, <3>2, CoreRoot
      <3>4. QED
        BY <1>1, <3>3
    <2>3. CASE DOMAIN at = {}
      <3>1. B[<<>>] = wd
        BY <1>2, <1>4, <2>1 DEF MapsAgree
      <3>2. RootGone(cur)
        BY <2>3 DEF Handled, SoundIn
      <3>3. QED
        BY <1>1, <1>4, <3>1, <3>2 DEF RootGone
    <2>4. QED
      BY <2>2, <2>3 DEF World
  <1>6. /\ DOMAIN j.byDescriptor = DOMAIN D \ {wd} /\ \A u \in DOMAIN D \ {wd} : j.byDescriptor[u] = D[u]
        /\ DOMAIN j.byPath = DOMAIN B \ {path} /\ \A p \in DOMAIN B \ {path} : j.byPath[p] = B[p]
    <2>1. /\ DOMAIN Without(D, {wd}) = DOMAIN D \ {wd} /\ \A u \in DOMAIN D \ {wd} : Without(D, {wd})[u] = D[u]
          /\ DOMAIN Without(B, {path}) = DOMAIN B \ {path}
          /\ \A p \in DOMAIN B \ {path} : Without(B, {path})[p] = B[p]
      BY WithoutMap
    <2> HIDE DEF j
    <2>2. QED
      BY <1>3, <2>1
  <1>7. Part(j.byDescriptor, D)
    BY <1>6 DEF Part
  <1>8. MapsAgree(j)
    BY <1>2, <1>4, <1>6 DEF MapsAgree
  <1>9. <<>> \in DOMAIN j.byPath /\ j.byPath[<<>>] = B[<<>>]
    BY <1>4, <1>5, <1>6
  <1>10. event # Event(B[<<>>], "moveself", <<>>)
    BY DEF Event
  <1>11. ASSUME IsTree(at)
         PROVE  /\ \A d \in DOMAIN cur.watch : cur.watch[d] # wd
                /\ \A k \in DOMAIN cur.queue : k # 1 => cur.queue[k].wd # wd
    <2>1. Ignored(cur.queue, cur.watch)
      BY <1>11 DEF Handled, SoundIn, Core
    <2>2. DOMAIN cur.queue \subseteq Nat /\ \A k \in DOMAIN cur.queue : k >= 1
      <3>1. cur.queue \in Seq(Events)
        BY DEF TypeInv, Instance, Queue
      <3>2. QED
        BY <3>1
    <2>3. \A k \in DOMAIN cur.queue : k # 1 => k > 1
      BY <2>2
    <2>4. QED
      BY <1>1, <2>1, <2>3 DEF Ignored
  <1>12. \A u \in DOMAIN D, n \in Names : ~Fil(cur.queue, 1, u, n)
    BY <1>1 DEF Fil
  <1> HIDE DEF j
  <1>13. CASE IsTree(at)
    <2>1. \A u \in DOMAIN D \ DOMAIN j.byDescriptor :
            /\ \A d \in DOMAIN cur.watch : cur.watch[d] # u
            /\ \A k \in DOMAIN cur.queue : k # 1 => cur.queue[k].wd # u
      BY <1>2, <1>6, <1>11, <1>13
    <2>2. \A u \in DOMAIN D, n \in Names, x \in stale :
            Fil(cur.queue, 1, u, n) => ~IsPrefix(Append(D[u], n), x)
      BY <1>12
    <2>3. event.mask \notin {"create", "to", "delete", "from"} /\ stale \subseteq stale
      OBVIOUS
    <2>4. Drops(j, stale)
      BY <1>3, <1>7, <1>8, <1>9, <2>1, <2>2 DEF Drops
    <2>5. Handled(j, {}, stale)
      BY <1>10, <2>3, <2>4, SoundDrops
    <2>6. QED
      BY <2>5 DEF j
  <1>14. CASE ~IsTree(at)
    <2>1. DOMAIN at = {} => RootGone(j)
      <3>1. Shifts(cur.queue, j.queue) /\ event = cur.queue[1]
        BY <1>3, FrontEvent
      <3>2. QED
        BY <1>4, <1>9, <1>10, <3>1, RootGoneShifts DEF Handled, SoundIn
    <2>2. SoundIn(at, j, {}, {})
      BY <1>8, <1>14, <2>1 DEF SoundIn
    <2>3. Handled(j, {}, stale)
      BY <1>9, <1>14, <2>2 DEF Handled
    <2>4. QED
      BY <2>3 DEF j
  <1>15. QED
    BY <1>13, <1>14 DEF j

LEMMA SoundCreated ==
  ASSUME TypeInv, cur.queue # <<>>, Handled(cur, {}, stale), known, event.mask \in {"create", "to"}
  PROVE  Handled(rest, IF Live(path) THEN {path} ELSE {}, stale)
PROOF
  <1> DEFINE wd == event.wd
             D == cur.byDescriptor
             vs == IF Live(path) THEN {path} ELSE {}
  <1>1. /\ rest.queue = Tail(cur.queue) /\ rest.watch = cur.watch
        /\ rest.byDescriptor = D /\ rest.byPath = cur.byPath /\ event = cur.queue[1] /\ WellFormed(event)
        /\ 1 \in DOMAIN cur.queue /\ Shifts(cur.queue, Tail(cur.queue))
    BY FrontEvent
  <1>2. PICK n \in Names : event.name = <<n>>
    BY <1>1, NamesAreNumbers DEF WellFormed, Signal
  <1>3. wd \in DOMAIN D /\ path = Append(D[wd], n)
    BY <1>2, FrontPath DEF known
  <1>4. Cre(cur.queue, 1, wd, n)
    BY <1>1, <1>2 DEF Cre
  <1>5. CoreTypes(at, cur.queue, D, {}, {}) /\ stale \in SUBSET Seq(Nat)
    BY InstanceCore, ItemsType DEF TypeInv
  <1>6. vs = IF InTree(at, Append(D[wd], n)) THEN {Append(D[wd], n)} ELSE {}
    BY <1>3, LiveTree
  <1> HIDE DEF vs
  <1>7. ASSUME IsTree(at)
        PROVE  /\ Core(at, Tail(cur.queue), cur.watch, D, vs, {})
               /\ Reported(at, Tail(cur.queue), D, vs, {}, stale)
    <2>1. Core(at, cur.queue, cur.watch, D, {}, {}) /\ Reported(at, cur.queue, D, {}, {}, stale)
      BY <1>7 DEF Handled, SoundIn, ReportedIn
    <2>2. /\ Core(at, Tail(cur.queue), cur.watch, D, vs, {})
          /\ \A s \in SUBSET Seq(Nat) :
                Reported(at, cur.queue, D, {}, {}, s) => Reported(at, Tail(cur.queue), D, vs, {}, s)
      <3> HIDE DEF D, wd
      <3>1. Shifts(cur.queue, Tail(cur.queue)) /\ wd \in DOMAIN D
        BY <1>1, <1>3
      <3>2. Starts(at, Append(D[wd], n), vs)
        BY <1>6 DEF Starts
      <3>3. CreationKept(at, cur.queue, cur.watch, D, Tail(cur.queue), vs)
        BY <1>4, <1>5, <1>7, <2>1, <3>1, <3>2, CreationKeeps
      <3>4. QED
        BY <3>3 DEF CreationKept
    <2>3. QED
      BY <1>5, <2>1, <2>2
  <1>8. ASSUME DOMAIN at = {} PROVE RootGone(rest)
    <2>1. RootGone(cur) /\ <<>> \in DOMAIN cur.byPath
      BY <1>8 DEF Handled, SoundIn
    <2>2. event # Event(cur.byPath[<<>>], "moveself", <<>>)
      BY DEF Event
    <2>3. QED
      BY <1>1, <2>1, <2>2, RootGoneShifts
  <1>9. MapsAgree(rest) /\ <<>> \in DOMAIN rest.byPath
    BY <1>1, InverseKept DEF Handled, SoundIn
  <1>10. Handled(rest, vs, stale)
    BY <1>1, <1>7, <1>8, <1>9 DEF Handled, SoundIn, ReportedIn
  <1>11. QED
    BY <1>10 DEF vs

-----------------------------------------------------------------------------
(* The removal of a tree of watches *)

\* The events that end watches come after all others of their descriptors.
LEMMA EndsIgnored ==
  ASSUME NEW i, Instance(i), NEW paths, Ignored(i.queue, i.watch), Maps(i.watch, i.byDescriptor),
         NEW R, Follows(i.queue, Ends(i, paths), R),
         NEW V, DOMAIN V \subseteq DOMAIN i.watch \ Dirs(i, paths), \A d \in DOMAIN V : V[d] = i.watch[d]
  PROVE  Ignored(R, V)
PROOF
  <1> DEFINE Q == i.queue
             W == i.watch
             es == Ends(i, paths)
  <1>1. \A k \in DOMAIN es : \E d \in Dirs(i, paths) : es[k] = Event(W[d], "ignored", <<>>)
    BY EndsSeq
  <1>2. \A j, k \in DOMAIN es : es[j] = es[k] => j = k
    BY EndsSeq
  <1>3. Dirs(i, paths) \subseteq DOMAIN W /\ \A d \in DOMAIN V : d \notin Dirs(i, paths) /\ d \in DOMAIN W
    BY DEF Dirs
  <1> HIDE DEF Q, W, es
  <1>4. /\ Grows(Q, R)
        /\ \A k \in DOMAIN R \ DOMAIN Q : \E l \in DOMAIN es : k = Len(Q) + l /\ R[k] = es[l]
    BY DEF Follows, Q, es
  <1>5. Ignored(Q, W) /\ \A d, e \in DOMAIN W : W[d] = W[e] => d = e
    BY DEF Q, W, Maps
  <1>6. ASSUME NEW k \in DOMAIN R \ DOMAIN Q
        PROVE  \E d \in Dirs(i, paths) : R[k] = Event(W[d], "ignored", <<>>)
    BY <1>1, <1>4
  <1>7. ASSUME NEW k \in DOMAIN R, R[k].mask = "ignored"
        PROVE  /\ \A d \in DOMAIN V : V[d] # R[k].wd
               /\ \A l \in DOMAIN R : l > k => R[l].wd # R[k].wd
    <2>1. CASE k \in DOMAIN Q
      <3>1. R[k] = Q[k]
        BY <1>4, <2>1 DEF Grows
      <3>2. \A d \in DOMAIN W : W[d] # Q[k].wd
        BY <1>5, <1>7, <2>1, <3>1 DEF Ignored
      <3>3. \A d \in DOMAIN V : V[d] # R[k].wd
        BY <1>3, <3>1, <3>2 DEF W
      <3>4. ASSUME NEW l \in DOMAIN R, l > k PROVE R[l].wd # R[k].wd
        <4>1. CASE l \in DOMAIN Q
          BY <1>4, <1>5, <1>7, <2>1, <3>1, <3>4, <4>1 DEF Ignored, Grows
        <4>2. CASE l \notin DOMAIN Q
          <5>1. PICK d \in Dirs(i, paths) : R[l] = Event(W[d], "ignored", <<>>)
            BY <1>6, <4>2
          <5>2. R[l].wd = W[d]
            BY <5>1 DEF Event
          <5>3. QED
            BY <1>3, <3>1, <3>2, <5>2
        <4>3. QED
          BY <4>1, <4>2
      <3>5. QED
        BY <3>3, <3>4
    <2>2. CASE k \notin DOMAIN Q
      <3>1. PICK d \in Dirs(i, paths) : R[k] = Event(W[d], "ignored", <<>>)
        BY <1>6, <2>2
      <3>2. R[k].wd = W[d]
        BY <3>1 DEF Event
      <3>3. \A e \in DOMAIN V : V[e] # R[k].wd
        BY <1>3, <1>5, <3>2 DEF W
      <3>4. ASSUME NEW l \in DOMAIN R, l > k PROVE R[l].wd # R[k].wd
        <4>1. l \notin DOMAIN Q
          <5>1. l \in DOMAIN Q => l < k
            BY <1>4, <2>2 DEF Grows
          <5>2. DOMAIN R \subseteq Int
            BY DEF Follows
          <5>3. QED
            BY <3>4, <5>1, <5>2
        <4>2. PICK e \in Dirs(i, paths) : R[l] = Event(W[e], "ignored", <<>>)
          BY <1>6, <4>1
        <4>3. R[l].wd = W[e]
          BY <4>2 DEF Event
        <4>4. R[l].wd = R[k].wd => R[l] = R[k]
          BY <3>1, <3>2, <4>2, <4>3
        <4>5. PICK x \in DOMAIN es : k = Len(Q) + x /\ R[k] = es[x]
          BY <1>4, <2>2
        <4>6. PICK y \in DOMAIN es : l = Len(Q) + y /\ R[l] = es[y]
          BY <1>4, <4>1
        <4>7. R[l] = R[k] => x = y
          BY <1>2, <4>5, <4>6
        <4>8. l # k
          <5>1. DOMAIN R \subseteq Int
            BY DEF Follows
          <5>2. QED
            BY <3>4, <5>1
        <4>9. QED
          BY <4>4, <4>5, <4>6, <4>7, <4>8
      <3>5. QED
        BY <3>3, <3>4
    <2>3. QED
      BY <2>1, <2>2
  <1>8. QED
    BY <1>7 DEF Ignored

Below(i, p) == {q \in DOMAIN i.byPath : IsPrefix(p, q)}

\* Instance j is i without the watches of some paths.
Removes(i, j, paths) ==
    /\ Follows(i.queue, Ends(i, paths), j.queue)
    /\ j.watch = Without(i.watch, Dirs(i, paths))
    /\ j.byDescriptor = Without(i.byDescriptor, Wds(i, paths))
    /\ j.byPath = Without(i.byPath, paths)

LEMMA RemovesParts ==
  ASSUME NEW i, Instance(i), NEW paths, NoOverflow(removeWatches(i, paths).queue)
  PROVE  Removes(i, removeWatches(i, paths), paths) /\ NoOverflow(i.queue)
PROOF
  <1>1. removeWatches(i, paths).queue = i.queue \o Ends(i, paths) /\ NoOverflow(i.queue)
    BY RemoveType
  <1>2. Follows(i.queue, Ends(i, paths), i.queue \o Ends(i, paths))
    <2>1. i.queue \in Seq(Events) /\ Ends(i, paths) \in Seq(Events)
      BY EndsSeq DEF Instance, Queue
    <2>2. QED
      BY <2>1, Appended
  <1>3. /\ removeWatches(i, paths).watch = Without(i.watch, Dirs(i, paths))
        /\ removeWatches(i, paths).byDescriptor = Without(i.byDescriptor, Wds(i, paths))
        /\ removeWatches(i, paths).byPath = Without(i.byPath, paths)
    <2> DEFINE q == Enqueue(i.queue, Ends(i, paths))
               w == Without(i.watch, Dirs(i, paths))
               b == Without(i.byDescriptor, Wds(i, paths))
               c == Without(i.byPath, paths)
    <2>1. removeWatches(i, paths) = Four(q, w, b, c)
      BY RemoveFields
    <2> HIDE DEF q, w, b, c
    <2>2. removeWatches(i, paths).watch = w /\ removeWatches(i, paths).byDescriptor = b /\ removeWatches(i, paths).byPath = c
      BY <2>1, FourFields
    <2>3. QED
      BY <2>2 DEF w, b, c
  <1>4. QED
    BY <1>1, <1>2, <1>3 DEF Removes

\* The descriptors of the paths at and below p
LEMMA BelowDescriptors ==
  ASSUME NEW i, MapsAgree(i), NEW p
  PROVE  /\ \A u \in DOMAIN i.byDescriptor : u \in Wds(i, Below(i, p)) <=> IsPrefix(p, i.byDescriptor[u])
         /\ Wds(i, Below(i, p)) \subseteq DOMAIN i.byDescriptor
  BY DEF MapsAgree, Wds, Below

\* What is left after the removal: the maps, and the events that follow
LEMMA RemovesMaps ==
  ASSUME NEW i, Instance(i), MapsAgree(i), NEW p, NEW j, Removes(i, j, Below(i, p))
  PROVE  /\ Part(j.byDescriptor, i.byDescriptor)
         /\ \A u \in DOMAIN i.byDescriptor : u \in DOMAIN j.byDescriptor <=> ~IsPrefix(p, i.byDescriptor[u])
         /\ DOMAIN j.watch = DOMAIN i.watch \ Dirs(i, Below(i, p))
         /\ \A d \in DOMAIN j.watch : j.watch[d] = i.watch[d]
         /\ DOMAIN j.byPath = DOMAIN i.byPath \ Below(i, p)
         /\ \A q \in DOMAIN j.byPath : j.byPath[q] = i.byPath[q]
         /\ MapsAgree(j)
PROOF
  <1>1. /\ DOMAIN j.byDescriptor = DOMAIN i.byDescriptor \ Wds(i, Below(i, p))
        /\ \A u \in DOMAIN j.byDescriptor : j.byDescriptor[u] = i.byDescriptor[u]
    <2>1. j.byDescriptor = Without(i.byDescriptor, Wds(i, Below(i, p)))
      BY DEF Removes
    <2>2. QED
      BY <2>1 DEF Without, Restrict
  <1>2. /\ DOMAIN j.watch = DOMAIN i.watch \ Dirs(i, Below(i, p))
        /\ \A d \in DOMAIN j.watch : j.watch[d] = i.watch[d]
    <2>1. j.watch = Without(i.watch, Dirs(i, Below(i, p)))
      BY DEF Removes
    <2>2. QED
      BY <2>1 DEF Without, Restrict
  <1>3. /\ DOMAIN j.byPath = DOMAIN i.byPath \ Below(i, p)
        /\ \A q \in DOMAIN j.byPath : j.byPath[q] = i.byPath[q]
    <2>1. j.byPath = Without(i.byPath, Below(i, p))
      BY DEF Removes
    <2>2. QED
      BY <2>1 DEF Without, Restrict
  <1>4. /\ \A u \in DOMAIN i.byDescriptor : u \in Wds(i, Below(i, p)) <=> IsPrefix(p, i.byDescriptor[u])
    BY BelowDescriptors
  <1>5. \A q \in DOMAIN i.byPath : q \in Below(i, p) <=> IsPrefix(p, q)
    BY DEF Below
  <1>6. Part(j.byDescriptor, i.byDescriptor)
    BY <1>1 DEF Part
  <1>7. \A u \in DOMAIN i.byDescriptor : u \in DOMAIN j.byDescriptor <=> ~IsPrefix(p, i.byDescriptor[u])
    BY <1>1, <1>4
  <1>8. MapsAgree(j)
    <2>1. ASSUME NEW u \in DOMAIN j.byDescriptor
          PROVE  j.byDescriptor[u] \in DOMAIN j.byPath /\ j.byPath[j.byDescriptor[u]] = u
      <3>1. u \in DOMAIN i.byDescriptor /\ j.byDescriptor[u] = i.byDescriptor[u] /\ ~IsPrefix(p, i.byDescriptor[u])
        BY <1>1, <1>7
      <3>2. i.byDescriptor[u] \in DOMAIN i.byPath /\ i.byPath[i.byDescriptor[u]] = u
        BY <3>1 DEF MapsAgree
      <3>3. QED
        BY <1>3, <1>5, <3>1, <3>2
    <2>2. ASSUME NEW q \in DOMAIN j.byPath
          PROVE  j.byPath[q] \in DOMAIN j.byDescriptor /\ j.byDescriptor[j.byPath[q]] = q
      <3>1. q \in DOMAIN i.byPath /\ j.byPath[q] = i.byPath[q] /\ ~IsPrefix(p, q)
        BY <1>3, <1>5
      <3>2. i.byPath[q] \in DOMAIN i.byDescriptor /\ i.byDescriptor[i.byPath[q]] = q
        BY <3>1 DEF MapsAgree
      <3>3. QED
        BY <1>1, <1>7, <3>1, <3>2
    <2>3. QED
      BY <2>1, <2>2 DEF MapsAgree
  <1>9. QED
    BY <1>2, <1>3, <1>6, <1>7, <1>8

RemovalMaps(W, D, V, E, z) ==
    /\ Part(E, D) /\ \A u \in DOMAIN D : u \in DOMAIN E <=> ~IsPrefix(z, D[u])
    /\ DOMAIN V = {d \in DOMAIN W : W[d] \in DOMAIN E} /\ \A d \in DOMAIN V : V[d] = W[d]

RemovalKept(a, Q, D, R, V, E, z) ==
    /\ Core(a, R, V, E, {}, {})
    /\ \A s \in SUBSET Seq(Nat) :
        Reported(a, Q, D, {}, {}, s) => Reported(a, R, E, {}, {}, {x \in s : ~IsPrefix(z, x)})

LEMMA RemovalKeeps ==
  ASSUME NEW a, NEW Q, NEW W, NEW D, CoreTypes(a, Q, D, {}, {}), IsTree(a),
         Core(a, Q, W, D, {}, {}), NEW R, Shifts(Q, R),
         NEW c \in DOMAIN D, NEW n \in Names, Rem(Q, 1, c, n),
         NEW E, NEW V, RemovalMaps(W, D, V, E, Append(D[c], n))
  PROVE  RemovalKept(a, Q, D, R, V, E, Append(D[c], n))
PROOF
  <1>1. /\ Part(E, D) /\ \A u \in DOMAIN D : u \in DOMAIN E <=> ~IsPrefix(Append(D[c], n), D[u])
        /\ DOMAIN V = {d \in DOMAIN W : W[d] \in DOMAIN E} /\ \A d \in DOMAIN V : V[d] = W[d]
    BY DEF RemovalMaps
  <1>2. QED
    BY <1>1, CoreRemoval DEF RemovalKept

LEMMA RemovesRemoval ==
  ASSUME NEW i, Instance(i), MapsAgree(i), Maps(i.watch, i.byDescriptor), NEW p, NEW j, Removes(i, j, Below(i, p))
  PROVE  RemovalMaps(i.watch, i.byDescriptor, j.watch, j.byDescriptor, p)
PROOF
  <1>1. /\ Part(j.byDescriptor, i.byDescriptor)
        /\ \A u \in DOMAIN i.byDescriptor : u \in DOMAIN j.byDescriptor <=> ~IsPrefix(p, i.byDescriptor[u])
        /\ DOMAIN j.watch = DOMAIN i.watch \ Dirs(i, Below(i, p))
        /\ \A d \in DOMAIN j.watch : j.watch[d] = i.watch[d]
    BY RemovesMaps
  <1>2. \A u \in DOMAIN i.byDescriptor : u \in Wds(i, Below(i, p)) <=> IsPrefix(p, i.byDescriptor[u])
    BY BelowDescriptors
  <1>3. ASSUME NEW d \in DOMAIN i.watch
        PROVE  d \in Dirs(i, Below(i, p)) <=> i.watch[d] \notin DOMAIN j.byDescriptor
    <2>1. i.watch[d] \in DOMAIN i.byDescriptor
      BY DEF Maps
    <2>2. d \in Dirs(i, Below(i, p)) <=> i.watch[d] \in Wds(i, Below(i, p))
      BY DEF Dirs
    <2>3. QED
      BY <1>1, <1>2, <2>1, <2>2
  <1>4. DOMAIN j.watch = {d \in DOMAIN i.watch : i.watch[d] \in DOMAIN j.byDescriptor}
    BY <1>1, <1>3
  <1>5. QED
    BY <1>1, <1>4 DEF RemovalMaps

\* The events that end the watches below a removed path, none of them the root
LEMMA RemovesEnds ==
  ASSUME NEW i, Instance(i), MapsAgree(i), NEW p, NEW j, Removes(i, j, Below(i, p)),
         NEW k \in DOMAIN j.queue \ DOMAIN i.queue
  PROVE  /\ j.queue[k].mask = "ignored"
         /\ j.queue[k].wd \in DOMAIN i.byDescriptor /\ IsPrefix(p, i.byDescriptor[j.queue[k].wd])
PROOF
  <1>1. PICK l \in DOMAIN Ends(i, Below(i, p)) : j.queue[k] = Ends(i, Below(i, p))[l]
    BY DEF Removes, Follows
  <1>2. PICK d \in Dirs(i, Below(i, p)) : Ends(i, Below(i, p))[l] = Event(i.watch[d], "ignored", <<>>)
    BY <1>1, EndsSeq
  <1>3. j.queue[k].mask = "ignored" /\ j.queue[k].wd = i.watch[d]
    BY <1>1, <1>2 DEF Event
  <1>4. i.watch[d] \in Wds(i, Below(i, p))
    BY DEF Dirs
  <1>5. QED
    BY <1>3, <1>4, BelowDescriptors

LEMMA RemovesRoot ==
  ASSUME NEW i, Instance(i), MapsAgree(i), <<>> \in DOMAIN i.byPath,
         NEW p \in Seq(Nat), p # <<>>, NEW j, Removes(i, j, Below(i, p))
  PROVE  ~IsPrefix(p, <<>>) /\ <<>> \in DOMAIN j.byPath /\ j.byPath[<<>>] = i.byPath[<<>>]
PROOF
  <1>1. ~IsPrefix(p, <<>>)
    <2>1. <<>> \in Seq(Nat) /\ IsPrefix(<<>>, p)
      BY PrefixRefl
    <2>2. QED
      BY <2>1, PrefixAntisym
  <1>2. <<>> \in DOMAIN j.byPath /\ j.byPath[<<>>] = i.byPath[<<>>]
    <2>1. /\ DOMAIN j.byPath = DOMAIN i.byPath \ Below(i, p)
          /\ \A q \in DOMAIN j.byPath : j.byPath[q] = i.byPath[q]
      BY RemovesMaps
    <2>2. <<>> \notin Below(i, p)
      BY <1>1 DEF Below
    <2>3. QED
      BY <2>1, <2>2
  <1>3. QED
    BY <1>1, <1>2

LEMMA RemovesRootGone ==
  ASSUME NEW i, Instance(i), MapsAgree(i), RootGone(i), <<>> \in DOMAIN i.byPath,
         NEW p \in Seq(Nat), p # <<>>, NEW j, Removes(i, j, Below(i, p))
  PROVE  RootGone(j)
PROOF
  <1>1. ~IsPrefix(p, <<>>)
    BY RemovesRoot
  <1>2. <<>> \in DOMAIN j.byPath /\ j.byPath[<<>>] = i.byPath[<<>>]
    BY RemovesRoot
  <1>3. Grows(i.queue, j.queue)
    BY DEF Removes, Follows
  <1>4. i.byPath[<<>>] \in DOMAIN i.byDescriptor /\ i.byDescriptor[i.byPath[<<>>]] = <<>>
    BY DEF MapsAgree
  <1>5. ASSUME NEW k \in DOMAIN j.queue, j.queue[k].wd = i.byPath[<<>>]
        PROVE  j.queue[k].mask # "ignored"
    <2>1. k \in DOMAIN i.queue
      BY <1>1, <1>4, <1>5, RemovesEnds
    <2>2. j.queue[k] = i.queue[k]
      BY <1>3, <2>1 DEF Grows
    <2>3. QED
      BY <1>5, <2>1, <2>2 DEF RootGone
  <1>6. \E k \in DOMAIN j.queue : j.queue[k] = Event(i.byPath[<<>>], "moveself", <<>>)
    BY <1>3 DEF RootGone, Grows
  <1>7. QED
    BY <1>2, <1>5, <1>6 DEF RootGone

\* Instance h is i without its first event.
Shorter(i, h) ==
    h.queue = Tail(i.queue) /\ h.watch = i.watch /\ h.byDescriptor = i.byDescriptor

LinkPath(D, c, n, z) == z = Append(D[c], n)

RemovedKept(i, j, z) ==
    /\ Core(at, j.queue, j.watch, j.byDescriptor, {}, {})
    /\ \A s \in SUBSET Seq(Nat) :
        Reported(at, i.queue, i.byDescriptor, {}, {}, s) =>
            Reported(at, j.queue, j.byDescriptor, {}, {}, {x \in s : ~IsPrefix(z, x)})

\* The core of an instance whose first event removes the path z
LEMMA RemovedCore ==
  ASSUME TypeInv, IsTree(at), NEW i, Instance(i), MapsAgree(i), i.queue # <<>>,
         Core(at, i.queue, i.watch, i.byDescriptor, {}, {}),
         NEW h, Instance(h), Shorter(i, h),
         MapsAgree(h), NEW c \in DOMAIN i.byDescriptor, NEW n \in Names, Rem(i.queue, 1, c, n),
         NEW z, LinkPath(i.byDescriptor, c, n, z), NEW j, Removes(h, j, Below(h, z))
  PROVE  RemovedKept(i, j, z)
PROOF
  <1> DEFINE Q == i.queue
             W == i.watch
             D == i.byDescriptor
             R == Tail(i.queue)
             V == j.watch
             E == j.byDescriptor
  <1>h. h.queue = R /\ h.watch = W /\ h.byDescriptor = D /\ z = Append(D[c], n)
    BY DEF Shorter, LinkPath
  <1>1. CoreTypes(at, Q, D, {}, {})
    BY InstanceCore
  <1>2. Queue(Q) /\ Shifts(Q, R)
    BY TailQueue DEF Instance
  <1>3. Maps(W, D) /\ Ignored(Q, W)
    BY DEF Core
  <1>4. Maps(h.watch, h.byDescriptor)
    BY <1>h, <1>3
  <1>5. RemovalMaps(h.watch, h.byDescriptor, V, E, z)
    BY <1>4, RemovesRemoval
  <1>6. RemovalMaps(W, D, V, E, Append(D[c], n))
    BY <1>h, <1>5
  <1>7. Ignored(R, W)
    BY <1>2, <1>3, ShiftIgnored
  <1>8. Follows(h.queue, Ends(h, Below(h, z)), j.queue)
    BY DEF Removes
  <1>9. Ignored(j.queue, V)
    <2>1. Ignored(h.queue, h.watch)
      BY <1>h, <1>7
    <2>2. /\ DOMAIN V = DOMAIN h.watch \ Dirs(h, Below(h, z))
          /\ \A d \in DOMAIN V : V[d] = h.watch[d]
      BY RemovesMaps
    <2>3. QED
      BY <1>4, <1>8, <2>1, <2>2, EndsIgnored
  <1>10. CoreTypes(at, R, E, {}, {})
    <2>1. Descriptors(E)
      <3>1. E = Without(h.byDescriptor, Wds(h, Below(h, z)))
        BY DEF Removes
      <3>2. QED
        BY <3>1, WithoutDescriptors DEF Instance
    <2>2. QED
      BY <1>1, <1>2, <2>1, ShiftTypes DEF CoreTypes, Descriptors
  <1>11. Grows(R, j.queue) /\ \A k \in DOMAIN j.queue \ DOMAIN R : j.queue[k].mask = "ignored"
    <2>1. Grows(h.queue, j.queue)
      BY <1>8 DEF Follows
    <2>2. \A k \in DOMAIN j.queue \ DOMAIN h.queue : j.queue[k].mask = "ignored"
      BY RemovesEnds
    <2>3. QED
      BY <1>h, <2>1, <2>2
  <1> HIDE DEF Q, W, D, R, V, E
  <1>12. IsTree(at) /\ Core(at, Q, W, D, {}, {}) /\ c \in DOMAIN D /\ Rem(Q, 1, c, n)
    BY DEF Q, W, D
  <1>13. RemovalKept(at, Q, D, R, V, E, Append(D[c], n))
    BY <1>1, <1>2, <1>6, <1>12, RemovalKeeps
  <1>14. Core(at, R, V, E, {}, {})
    BY <1>13 DEF RemovalKept
  <1>15. Core(at, j.queue, V, E, {}, {})
    <2>1. \A k \in DOMAIN j.queue \ DOMAIN R :
            j.queue[k].mask \in {"file", "attrib", "deleteself", "moveself", "ignored"}
      BY <1>11
    <2>2. QED
      BY <1>9, <1>10, <1>11, <1>12, <1>14, <2>1, GrowsPlainly
  <1>16. ASSUME NEW s \in SUBSET Seq(Nat), Reported(at, Q, D, {}, {}, s)
         PROVE  Reported(at, j.queue, E, {}, {}, {x \in s : ~IsPrefix(z, x)})
    <2>1. Reported(at, R, E, {}, {}, {x \in s : ~IsPrefix(Append(D[c], n), x)})
      BY <1>13, <1>16 DEF RemovalKept
    <2>2. \A x : Announced(R, E, x) => Announced(j.queue, E, x)
      BY <1>11, GrowsKeeps
    <2>3. QED
      BY <1>h, <2>1, <2>2 DEF Reported
  <1>17. QED
    BY <1>15, <1>16 DEF RemovedKept, Q, D, V, E

-----------------------------------------------------------------------------
(* handle keeps the invariant *)

LEMMA SoundRemoved ==
  ASSUME TypeInv, cur.queue # <<>>, Handled(cur, {}, stale), known, event.mask \in {"delete", "from"},
         NEW j, Removes(rest, j, Below(rest, path))
  PROVE  Handled(j, {}, {x \in stale : ~IsPrefix(path, x)})
PROOF
  <1>1. /\ Instance(rest) /\ rest.queue = Tail(cur.queue) /\ rest.watch = cur.watch
        /\ rest.byDescriptor = cur.byDescriptor /\ rest.byPath = cur.byPath /\ event = cur.queue[1] /\ WellFormed(event)
        /\ 1 \in DOMAIN cur.queue /\ Shifts(cur.queue, rest.queue)
    BY FrontEvent
  <1>2. PICK n \in Names : event.name = <<n>>
    BY <1>1, NamesAreNumbers DEF WellFormed, Signal
  <1>3. event.wd \in DOMAIN cur.byDescriptor /\ path = Append(cur.byDescriptor[event.wd], n)
    BY <1>2, FrontPath DEF known
  <1>4. Rem(cur.queue, 1, event.wd, n)
    BY <1>1, <1>2 DEF Rem
  <1>5. path \in Seq(Nat) /\ path # <<>>
    <2>1. cur.byDescriptor[event.wd] \in Seq(Nat) /\ n \in Nat
      BY FrontPath, PathType, NamesAreNumbers
    <2>2. QED
      BY <1>3, <2>1, AppendType
  <1>6. Instance(cur) /\ MapsAgree(cur) /\ MapsAgree(rest) /\ <<>> \in DOMAIN rest.byPath
    BY <1>1, InverseKept DEF Handled, SoundIn, TypeInv
  <1>7. stale \in SUBSET Seq(Nat)
    BY ItemsType DEF TypeInv
  <1>8. MapsAgree(j) /\ <<>> \in DOMAIN j.byPath
    BY <1>1, <1>5, <1>6, RemovesMaps, RemovesRoot
  <1>9. ASSUME IsTree(at)
        PROVE  /\ Core(at, j.queue, j.watch, j.byDescriptor, {}, {})
               /\ Reported(at, j.queue, j.byDescriptor, {}, {}, {x \in stale : ~IsPrefix(path, x)})
    <2>1. /\ Core(at, cur.queue, cur.watch, cur.byDescriptor, {}, {})
          /\ Reported(at, cur.queue, cur.byDescriptor, {}, {}, stale)
      BY <1>9 DEF Handled, SoundIn, ReportedIn
    <2>2. Shorter(cur, rest) /\ LinkPath(cur.byDescriptor, event.wd, n, path)
      BY <1>1, <1>3 DEF Shorter, LinkPath
    <2>3. RemovedKept(cur, j, path)
      <3>1. Instance(rest) /\ event.wd \in DOMAIN cur.byDescriptor
        BY <1>1, <1>3
      <3>2. QED
        BY <1>4, <1>6, <1>9, <2>1, <2>2, <3>1, RemovedCore
    <2>4. QED
      BY <1>7, <2>1, <2>3 DEF RemovedKept
  <1>10. ASSUME DOMAIN at = {} PROVE RootGone(j)
    <2>1. RootGone(cur) /\ <<>> \in DOMAIN cur.byPath
      BY <1>10 DEF Handled, SoundIn
    <2>2. event # Event(cur.byPath[<<>>], "moveself", <<>>)
      BY DEF Event
    <2>3. RootGone(rest)
      BY <1>1, <2>1, <2>2, RootGoneShifts
    <2>4. QED
      BY <1>1, <1>5, <1>6, <2>3, RemovesRootGone
  <1>11. QED
    BY <1>8, <1>9, <1>10 DEF Handled, SoundIn, ReportedIn

\* A step of the reader that takes an event and goes on reading
LEMMA HandleKeeps ==
  ASSUME TypeInv, WatchInv, mode = "read", walk = <<>>, mode' = "read", at' = at, repl' = repl,
         closed' = closed, deadline' = deadline, failed' = failed, Lists' = {},
         NoOverflow(cur'.queue) => NoOverflow(cur.queue),
         NoOverflow(cur'.queue) /\ Handled(cur, {}, stale) => Handled(cur', Visits', stale')
  PROVE  WatchInv'
PROOF
  <1>1. Visits = {} /\ Lists = {} /\ Active = cur /\ Active' = cur'
    BY DEF Visits, Lists, Active
  <1>2. Watching'
    <2>1. SUFFICES ASSUME ~failed, NoOverflow(cur'.queue)
                   PROVE  /\ SoundIn(at, cur', Visits', {}) /\ <<>> \in DOMAIN cur'.byPath
                          /\ IsTree(at) => ReportedIn(at, cur', Visits', {}, stale')
      BY <1>1 DEF Watching
    <2>2. /\ SoundIn(at, cur, {}, {}) /\ <<>> \in DOMAIN cur.byPath
          /\ IsTree(at) => ReportedIn(at, cur, {}, {}, stale)
      BY <1>1, <2>1 DEF WatchInv, Watching
    <2>3. Handled(cur, {}, stale)
      BY <2>2 DEF Handled
    <2>4. Handled(cur', Visits', stale')
      BY <2>1, <2>3
    <2>5. QED
      BY <2>4 DEF Handled
  <1>3. World' /\ Outcome' /\ (mode' = "read" => Idle(repl'))
    BY DEF WatchInv, World, Outcome
  <1>4. deadline' => closed'
    BY Zenon DEF WatchInv
  <1>5. QED
    BY <1>2, <1>3, <1>4 DEF WatchInv

LEMMA WalkStarts ==
  ASSUME NEW p, WalkFrom(p)
  PROVE  Visits' = (IF Live(p) THEN {p} ELSE {}) /\ Lists' = {}
PROOF
  <1>1. CASE Live(p)
    <2>1. walk' = <<Visiting(p)>>
      BY <1>1 DEF WalkFrom
    <2>2. DOMAIN walk' = {1} /\ walk'[1].step = "visit" /\ walk'[1].path = p
      BY <2>1 DEF Visiting
    <2>3. QED
      BY <1>1, <2>2 DEF Visits, Lists
  <1>2. CASE ~Live(p)
    <2>1. walk' = <<>>
      BY <1>2 DEF WalkFrom
    <2>2. QED
      BY <1>2, <2>1 DEF Visits, Lists
  <1>3. QED
    BY <1>1, <1>2

\* An empty instance and a walk of the whole tree are a sound start.
LEMMA IdleSound ==
  ASSUME TypeInv, NEW i, Instance(i), Idle(i), NEW vs, NEW ls, IsTree(at) => vs = {<<>>} /\ ls = {}
  PROVE  SoundIn(at, i, vs, ls)
PROOF
  <1>1. MapsAgree(i)
    BY DEF Idle, MapsAgree
  <1>2. RootGone(i)
    BY DEF Idle, RootGone
  <1>3. ASSUME IsTree(at)
        PROVE  Core(at, i.queue, i.watch, i.byDescriptor, vs, ls)
    <2>1. i.watch = Empty /\ i.byDescriptor = Empty /\ i.queue = <<>>
      <3>1. i.watch \in [{} -> Nat]
        BY DEF Instance, Watches, Idle
      <3>2. i.byDescriptor \in [{} -> Path]
        BY DEF Instance, Descriptors, Idle
      <3>3. QED
        BY <3>1, <3>2 DEF Empty, Idle
    <2>2. Core(at, <<>>, Empty, Empty, {<<>>}, {})
      BY <1>3, CoreStart DEF TypeInv
    <2>3. QED
      BY <1>3, <2>1, <2>2
  <1>4. QED
    BY <1>1, <1>2, <1>3 DEF SoundIn

LEMMA SoundStart ==
  ASSUME TypeInv, NEW i, Instance(i), Idle(i), WalkFrom(<<>>)
  PROVE  SoundIn(at, i, Visits', Lists')
PROOF
  <1>1. IsTree(at) => Live(<<>>)
    BY DEF Live, IsTree, Range
  <1>2. IsTree(at) => Visits' = {<<>>} /\ Lists' = {}
    BY <1>1, WalkStarts
  <1>3. QED
    BY <1>2, IdleSound

LEMMA InvOverflow ==
  ASSUME TypeInv, WatchInv, mode = "read", mode' = "rebuild", WalkFrom(<<>>), at' = at, repl' = repl,
         closed' = closed, deadline' = deadline, failed' = failed, stale' = stale
  PROVE  WatchInv'
PROOF
  <1>1. Idle(repl) /\ Instance(repl) /\ World
    BY DEF WatchInv, TypeInv
  <1>2. SoundIn(at, repl, Visits', Lists')
    BY <1>1, SoundStart
  <1>3. Active' = repl
    BY DEF Active
  <1>4. Watching'
    BY <1>2, <1>3 DEF Watching
  <1>5. World' /\ Outcome' /\ (mode' = "read" => Idle(repl'))
    BY <1>1 DEF World, Outcome
  <1>6. deadline' => closed'
    BY Zenon DEF WatchInv
  <1>7. QED
    BY <1>4, <1>5, <1>6 DEF WatchInv

LEMMA InvHandle ==
  ASSUME TypeInv, WatchInv, handle
  PROVE  WatchInv'
PROOF
  <1>1. /\ mode = "read" /\ walk = <<>> /\ cur.queue # <<>> /\ at' = at /\ repl' = repl
    BY DEF handle
  <1>2. /\ Instance(rest) /\ rest.queue = Tail(cur.queue)
        /\ rest.byDescriptor = cur.byDescriptor /\ rest.byPath = cur.byPath
        /\ WellFormed(event)
        /\ NoOverflow(rest.queue) /\ event # Overflow => NoOverflow(cur.queue)
    BY <1>1, FrontEvent
  <1>3. World
    BY DEF WatchInv
  <1>4. event.mask # "overflow" => event # Overflow
    BY DEF Overflow, Event
  <1>5. walk' = walk => Visits' = {} /\ Lists' = {}
    BY <1>1 DEF Visits, Lists
  <1>6. UNCHANGED endVars => closed' = closed /\ deadline' = deadline /\ failed' = failed
    BY DEF endVars
  <1>7. CASE mode' = "rebuild" /\ WalkFrom(<<>>) /\ UNCHANGED <<endVars, stale>>
    <2>1. stale' = stale /\ UNCHANGED endVars
      BY <1>7
    <2>2. QED
      BY <1>1, <1>6, <1>7, <2>1, InvOverflow
  <1>8. CASE Fail /\ UNCHANGED <<mode, walk, stale>>
    <2>1. mode' = mode /\ Fail
      BY <1>8
    <2>2. QED
      BY <1>1, <2>1, InvFail
  <1>9. CASE /\ known /\ event.mask \in {"delete", "from"}
             /\ cur' = removeTree(rest, path) /\ send(path) /\ UNCHANGED <<mode, walk, endVars>>
    <2>1. mode' = "read" /\ walk' = walk /\ UNCHANGED endVars
      BY <1>1, <1>9
    <2>2. cur' = removeWatches(rest, Below(rest, path))
      BY <1>9 DEF removeTree, Below
    <2>3. ASSUME NoOverflow(cur'.queue)
          PROVE  Removes(rest, cur', Below(rest, path)) /\ NoOverflow(cur.queue)
      BY <1>2, <1>4, <1>9, <2>2, <2>3, RemovesParts
    <2>4. stale' = {x \in stale : ~IsPrefix(path, x)}
      BY <1>9 DEF send
    <2>5. ASSUME NoOverflow(cur'.queue), Handled(cur, {}, stale)
          PROVE  Handled(cur', Visits', stale')
      BY <1>1, <1>5, <1>9, <2>1, <2>3, <2>4, <2>5, SoundRemoved
    <2>6. QED
      BY <1>1, <1>5, <1>6, <2>1, <2>3, <2>5, HandleKeeps
  <1>10. CASE /\ known /\ event.mask \in {"create", "to"}
              /\ cur' = rest /\ WalkFrom(path) /\ UNCHANGED <<mode, endVars, stale>>
    <2>1. mode' = "read" /\ UNCHANGED endVars /\ stale' = stale /\ cur' = rest
      BY <1>1, <1>10
    <2>2. Visits' = (IF Live(path) THEN {path} ELSE {}) /\ Lists' = {}
      BY <1>10, WalkStarts
    <2>3. NoOverflow(cur'.queue) => NoOverflow(cur.queue)
      BY <1>2, <1>4, <1>10
    <2>4. ASSUME Handled(cur, {}, stale) PROVE Handled(cur', Visits', stale')
      BY <1>1, <1>10, <2>1, <2>2, <2>4, SoundCreated
    <2>5. QED
      BY <1>1, <1>6, <2>1, <2>2, <2>3, <2>4, HandleKeeps
  <1>11. CASE /\ known /\ event.mask = "ignored"
              /\ cur' = [rest EXCEPT !.byDescriptor = Without(@, {event.wd}), !.byPath = Without(@, {path})]
              /\ UNCHANGED <<mode, walk, endVars, stale>>
    <2>1. mode' = "read" /\ walk' = walk /\ UNCHANGED endVars /\ stale' = stale
      BY <1>1, <1>11
    <2>2. cur' = Forgotten(rest, event.wd, path)
      BY <1>11 DEF Forgotten
    <2>3. NoOverflow(cur'.queue) => NoOverflow(cur.queue)
      <3>1. Forgets(rest, Forgotten(rest, event.wd, path), event.wd, path)
        BY <1>2, ForgottenType
      <3>2. cur'.queue = rest.queue
        BY <2>2, <3>1 DEF Forgets
      <3>3. QED
        BY <1>2, <1>4, <1>11, <3>2
    <2>4. ASSUME Handled(cur, {}, stale) PROVE Handled(cur', Visits', stale')
      BY <1>1, <1>3, <1>5, <1>11, <2>1, <2>2, <2>4, SoundForgotten
    <2>5. QED
      BY <1>1, <1>5, <1>6, <2>1, <2>3, <2>4, HandleKeeps
  <1>12. CASE /\ known /\ event.mask \in {"file", "attrib"}
              /\ cur' = rest /\ send(path) /\ UNCHANGED <<mode, walk, endVars>>
    <2>1. mode' = "read" /\ walk' = walk /\ UNCHANGED endVars /\ cur' = rest
      BY <1>1, <1>12
    <2>2. stale' \subseteq stale /\ \A x \in stale' : ~IsPrefix(path, x)
      BY <1>12 DEF send
    <2>3. NoOverflow(cur'.queue) => NoOverflow(cur.queue)
      BY <1>2, <1>4, <1>12
    <2>4. event.mask \notin {"create", "to", "delete", "from"} /\ event # Event(cur.byPath[<<>>], "moveself", <<>>)
      BY <1>12 DEF Event
    <2>5. ASSUME Handled(cur, {}, stale) PROVE Handled(cur', Visits', stale')
      BY <1>1, <1>5, <2>1, <2>2, <2>4, <2>5, SoundRead
    <2>6. QED
      BY <1>1, <1>5, <1>6, <2>1, <2>3, <2>5, HandleKeeps
  <1>13. CASE /\ event # Overflow
              /\ known => event.mask \in {"deleteself", "moveself"} /\ ~RootLost
              /\ cur' = rest /\ UNCHANGED <<mode, walk, endVars, stale>>
    <2>1. mode' = "read" /\ walk' = walk /\ UNCHANGED endVars /\ stale' = stale /\ cur' = rest
      BY <1>1, <1>13
    <2>2. NoOverflow(cur'.queue) => NoOverflow(cur.queue)
      BY <1>2, <1>13
    <2>3. ASSUME Handled(cur, {}, stale) PROVE Handled(cur', Visits', stale')
      <3>1. event # Event(cur.byPath[<<>>], "moveself", <<>>)
        <4>1. SUFFICES ASSUME event = Event(cur.byPath[<<>>], "moveself", <<>>) PROVE FALSE
          OBVIOUS
        <4>2. event.wd = cur.byPath[<<>>] /\ event.mask = "moveself" /\ event.name = <<>>
          BY <4>1 DEF Event
        <4>3. event.wd \in DOMAIN cur.byDescriptor /\ cur.byDescriptor[event.wd] = <<>>
          BY <2>3, <4>2 DEF Handled, SoundIn, MapsAgree
        <4>4. known /\ path = <<>>
          BY <1>1, <4>2, <4>3, FrontPath DEF known
        <4>5. QED
          BY <1>13, <4>2, <4>4 DEF RootLost
      <3>2. /\ known => event.mask \notin {"create", "to", "delete", "from"}
            /\ ~(known /\ event.mask = "file")
        BY <1>13
      <3>3. Handled(rest, {}, stale)
        BY <1>1, <2>3, <3>1, <3>2, SoundRead
      <3>4. QED
        BY <1>5, <2>1, <3>3
    <2>4. QED
      BY <1>1, <1>5, <1>6, <2>1, <2>2, <2>3, HandleKeeps
  <1>14. QED
    BY <1>7, <1>8, <1>9, <1>10, <1>11, <1>12, <1>13 DEF handle

-----------------------------------------------------------------------------
(* The theorems *)

LEMMA InvInit == Init => WatchInv
PROOF
  <1>1. SUFFICES ASSUME Init PROVE WatchInv
    OBVIOUS
  <1>2. TypeInv
    BY <1>1, TypeInit
  <1>3. Visits = {<<>>} /\ Lists = {}
    <2>1. walk = <<Visiting(<<>>)>>
      BY <1>1 DEF Init
    <2>2. DOMAIN walk = {1} /\ walk[1].step = "visit" /\ walk[1].path = <<>>
      BY <2>1 DEF Visiting
    <2>3. QED
      BY <2>2 DEF Visits, Lists
  <1>4. repl = Unwatched /\ mode = "new" /\ IsTree(at)
    BY <1>1 DEF Init
  <1>5. Idle(repl) /\ Instance(repl)
    BY <1>2, <1>4, UnwatchedIdle DEF TypeInv
  <1>6. SoundIn(at, repl, Visits, Lists)
    BY <1>2, <1>3, <1>5, IdleSound
  <1>7. Watching
    BY <1>4, <1>6 DEF Watching, Active
  <1>8. deadline => closed
    BY <1>1 DEF Init
  <1>9. QED
    BY <1>4, <1>7, <1>8 DEF WatchInv, World, Outcome

LEMMA InvPrograms ==
  ASSUME TypeInv, WatchInv, Renames \subseteq {"settled"}, Programs
  PROVE  WatchInv'
PROOF
  <1>1. \A p \in Range(at) : Live(p)
    BY DEF Live
  <1>2. CASE MoveRoot
    BY <1>2, InvMoveRoot
  <1>3. ASSUME NEW p \in Range(at), Write(p) PROVE WatchInv'
    BY <1>3, InvWrite
  <1>4. ASSUME NEW p \in Range(at), NEW n \in Name, Mkdir(p, n) PROVE WatchInv'
    BY <1>4, InvMkdir
  <1>5. ASSUME NEW p \in Range(at), NEW n \in Name, Rmdir(p, n) PROVE WatchInv'
    BY <1>1, <1>5, InvRmdir
  <1>6. ASSUME NEW p \in Range(at), NEW n \in Name, NEW q \in Range(at), NEW m \in Name, Rename(p, n, q, m)
        PROVE WatchInv'
    BY <1>1, <1>6, InvRename
  <1>7. QED
    BY <1>2, <1>3, <1>4, <1>5, <1>6 DEF Programs

LEMMA InvStutter ==
  ASSUME WatchInv, UNCHANGED vars
  PROVE  WatchInv'
PROOF
  <1>1. /\ at' = at /\ cur' = cur /\ repl' = repl /\ mode' = mode /\ walk' = walk
        /\ closed' = closed /\ deadline' = deadline /\ failed' = failed /\ stale' = stale
    BY DEF vars, endVars
  <1>2. Visits' = Visits /\ Lists' = Lists /\ Active' = Active
    BY <1>1 DEF Visits, Lists, Active
  <1>3. Watching'
    BY <1>1, <1>2 DEF WatchInv, Watching
  <1>4. World' /\ Outcome' /\ (mode' = "read" => Idle(repl'))
    BY <1>1 DEF WatchInv, World, Outcome
  <1>5. deadline' => closed'
    BY <1>1, Zenon DEF WatchInv
  <1>6. QED
    BY <1>3, <1>4, <1>5 DEF WatchInv

LEMMA InvNext ==
  ASSUME Renames \subseteq {"settled"}
  PROVE  TypeInv /\ WatchInv /\ [Next]_vars => WatchInv'
PROOF
  <1>1. SUFFICES ASSUME TypeInv, WatchInv, Next \/ UNCHANGED vars PROVE WatchInv'
    OBVIOUS
  <1>2. CASE Reader
    BY <1>1, <1>2, InvVisit, InvList, InvRebuildEnds, InvHandle, InvEnds DEF Reader
  <1>3. CASE WalkFails
    BY <1>1, <1>3, InvWalkFails
  <1>4. CASE Close
    BY <1>1, <1>4, InvClose
  <1>5. CASE Programs
    BY <1>1, <1>5, InvPrograms
  <1>6. CASE UNCHANGED vars
    BY <1>1, <1>6, InvStutter
  <1>7. QED
    BY <1>1, <1>2, <1>3, <1>4, <1>5, <1>6 DEF Next

LEMMA SpecWatchInv ==
  ASSUME Renames \subseteq {"settled"}
  PROVE  Spec => [](TypeInv /\ WatchInv)
PROOF
  <1>1. Init => WatchInv
    BY InvInit
  <1>2. TypeInv /\ WatchInv /\ [Next]_vars => WatchInv'
    BY InvNext
  <1>3. QED
    BY <1>1, <1>2, TypeInit, TypeNext, PTL DEF Spec

\* Unless another program moves a directory to where the watcher has still to
\* walk, or over another directory, a watcher with nothing left to read has
\* reported every change since it happened or has failed: whatever the tree, the
\* other steps of the programs, the sizes of the queue, and the interleaving of
\* events, walks, overflows, rebuilds and Close (handle, addTree, rebuild,
\* readLoop).
THEOREM SpecNothingMissed ==
  ASSUME Renames \subseteq {"settled"}
  PROVE  Spec => []NothingMissed
PROOF
  <1>1. TypeInv /\ WatchInv => NothingMissed
    <2>1. SUFFICES ASSUME TypeInv, WatchInv, Quiet \/ mode = "ended", ~failed PROVE stale = {}
      BY DEF NothingMissed
    <2>2. CASE Quiet
      BY <2>1, <2>2, QuietSound
    <2>3. CASE mode = "ended"
      BY <2>1, <2>3 DEF WatchInv, Outcome
    <2>4. QED
      BY <2>1, <2>2, <2>3
  <1>2. Spec => [](TypeInv /\ WatchInv)
    BY SpecWatchInv
  <1>3. QED
    BY <1>1, <1>2, PTL

\* Under the same condition on renames, when nothing is left to read the kernel
\* watches exactly the directories of the tree and both maps of the watcher give
\* each its present path (add, removeTree, IN_IGNORED and rebuild).
THEOREM SpecWatchesAreExact ==
  ASSUME Renames \subseteq {"settled"}
  PROVE  Spec => []WatchesAreExact
PROOF
  <1>1. TypeInv /\ WatchInv => WatchesAreExact
    <2>1. SUFFICES ASSUME TypeInv, WatchInv, Quiet, ~failed
                   PROVE  /\ DOMAIN cur.watch = DOMAIN at
                          /\ DOMAIN cur.byPath = Range(at)
                          /\ \A d \in DOMAIN at : /\ cur.byPath[at[d]] = cur.watch[d]
                                                  /\ cur.byDescriptor[cur.watch[d]] = at[d]
      BY DEF WatchesAreExact
    <2>2. /\ MapsAgree(cur) /\ DOMAIN cur.watch = DOMAIN at
          /\ \A d \in DOMAIN at :
                cur.watch[d] \in DOMAIN cur.byDescriptor /\ cur.byDescriptor[cur.watch[d]] = at[d]
          /\ \A u \in DOMAIN cur.byDescriptor : InTree(at, cur.byDescriptor[u])
      BY <2>1, QuietSound
    <2>3. ASSUME NEW d \in DOMAIN at
          PROVE  at[d] \in DOMAIN cur.byPath /\ cur.byPath[at[d]] = cur.watch[d]
      BY <2>2 DEF MapsAgree
    <2>4. ASSUME NEW p \in DOMAIN cur.byPath PROVE \E d \in DOMAIN at : at[d] = p
      BY <2>2 DEF MapsAgree, InTree
    <2>5. DOMAIN cur.byPath = Range(at)
      BY <2>3, <2>4 DEF Range
    <2>6. QED
      BY <2>2, <2>3, <2>5
  <1>2. Spec => [](TypeInv /\ WatchInv)
    BY SpecWatchInv
  <1>3. QED
    BY <1>1, <1>2, PTL
=============================================================================

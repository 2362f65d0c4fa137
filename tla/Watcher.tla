------------------------------- MODULE Watcher -------------------------------
(***************************************************************************)
(* The recursive inotify watcher (src/src/watcher_linux.go): its maps of   *)
(* descriptors and paths, the walk that adds watches to a tree, the event  *)
(* loop, the rebuild after an overflow, and Close, while other programs    *)
(* create, remove, move and write below the watched directory.             *)
(*                                                                         *)
(* Simplifications:                                                        *)
(*  - the files of a directory are one item, never named like a directory; *)
(*  - the buffer of a read and the queue of the kernel are one sequence;   *)
(*  - send only records the report: SessionLoop receives the channel;      *)
(*  - a descriptor that occurs nowhere any more may be used again.         *)
(***************************************************************************)
EXTENDS Integers, Sequences, FiniteSets, Functions, SequencesExt

CONSTANTS
    Dir,        \* identities of directories
    Root,       \* the watched directory
    Name,       \* names of directories; they sort like numbers
    MaxDepth,   \* bound: levels of directories below the root
    QueueSize,  \* events that the kernel queues (max_queued_events)
    MaxOps,     \* bound: steps of the other programs
    Renames,    \* the renames they make, see Kind
    Faults      \* whether watches may be refused and the root may be moved

ASSUME WatcherAssumption ==
    /\ Root \in Dir /\ IsFiniteSet(Dir)
    /\ Name \subseteq Nat \ {0} /\ MaxDepth \in Nat \ {0}
    /\ QueueSize \in Nat \ {0} /\ MaxOps \in Nat /\ Faults \in BOOLEAN
    /\ Renames \subseteq {"settled", "fresh", "over"}

File == 0  \* the name of the files of a directory
Path == BoundedSeq(Name, MaxDepth)

VARIABLES
    at,       \* path of each existing directory
    ops,      \* steps of the other programs so far
    cur,      \* the inotify instance w.fd, with its maps
    repl,     \* the replacement that rebuild prepares
    mode,     \* new (newWatcher), read, rebuild, ended (readLoop has returned)
    walk,     \* what is left of WalkDir: directories to visit and to list
    closed,   \* Close has been called
    deadline, \* the read deadline of w.file has expired
    failed,   \* an error has been reported
    stale     \* history: items changed, before Close, since their last report

endVars == <<closed, deadline, failed>>
vars == <<at, ops, cur, repl, mode, walk, endVars, stale>>

\* Maps: the empty one, one with a further entry, and one without some entries
Empty == [x \in {} |-> x]
With(f, k, v) == [x \in DOMAIN f \cup {k} |-> IF x = k THEN v ELSE f[x]]
Without(f, S) == Restrict(f, DOMAIN f \ S)

\* An inotify instance: its events, the watched directories, and the two maps.
Unwatched == [queue |-> <<>>, watch |-> Empty, byDescriptor |-> Empty, byPath |-> Empty]

Event(wd, mask, name) == [wd |-> wd, mask |-> mask, name |-> name]
Overflow == Event(0, "overflow", <<>>)
Visiting(p) == [step |-> "visit", path |-> p]
Listing(p) == [step |-> "list", path |-> p]

\* The types, and the kernel never queues more than its limit and the one event
\* that tells of the overflow.
TypeOK ==
    /\ DOMAIN at \subseteq Dir /\ Range(at) \subseteq Path
    /\ ops \in 0 .. MaxOps
    /\ \A i \in {cur, repl} :
        /\ DOMAIN i = DOMAIN Unwatched
        /\ Len(i.queue) <= QueueSize + 1
        /\ DOMAIN i.watch \subseteq Dir
        /\ Range(i.byDescriptor) \cup DOMAIN i.byPath \subseteq Path
    /\ mode \in {"new", "read", "rebuild", "ended"}
    /\ Range(walk) \subseteq [step : {"visit", "list"}, path : Path]
    /\ {closed, deadline, failed} \subseteq BOOLEAN
    /\ stale \subseteq Path \cup {Append(p, File) : p \in Path}

\* The paths of the directories of a tree: each has one of its own, and so
\* have the directories above it.
IsTree(a) ==
    /\ Root \in DOMAIN a /\ a[Root] = <<>>
    /\ IsInjective(a)
    /\ \A d \in DOMAIN a, p \in Path : IsPrefix(p, a[d]) => p \in Range(a)

Live(p) == p \in Range(at)
Inode(p) == CHOOSE d \in DOMAIN at : at[d] = p
Children(p) == {n \in Name : Live(Append(p, n))}

\* newWatcher starts to walk any tree.
Init ==
    /\ \E D \in SUBSET Dir : at \in [D -> Path]
    /\ IsTree(at)
    /\ ops = 0
    /\ cur = Unwatched /\ repl = Unwatched
    /\ mode = "new"
    /\ walk = <<Visiting(<<>>)>>
    /\ closed = FALSE /\ deadline = FALSE /\ failed = FALSE
    /\ stale = {}

-----------------------------------------------------------------------------
(* The kernel *)

\* Queue events; when the queue is full, one overflow event stands for the rest.
Enqueue(q, es) ==
    LET kept == q \o SubSeq(es, 1, QueueSize - Len(q))
    IN IF Len(q) + Len(es) <= QueueSize THEN q \o es
       ELSE IF Contains(kept, Overflow) THEN kept ELSE Append(kept, Overflow)

\* What instance i, if it watches directory d, is told of it
Told(i, d, mask, name) ==
    IF d \in DOMAIN i.watch THEN <<Event(i.watch[d], mask, name)>> ELSE <<>>

\* The events es reach instance i; the directories of the set dead lose their watch.
Notify(i, es, dead) == [i EXCEPT !.queue = Enqueue(@, es), !.watch = Without(@, dead)]

\* The descriptors that occur somewhere
Used(i) == Range(i.watch) \cup DOMAIN i.byDescriptor \cup Range(i.byPath)
               \cup {i.queue[k].wd : k \in DOMAIN i.queue}

\* inotify_add_watch: a directory that is watched keeps its descriptor.
Descriptor(i, d) ==
    IF d \in DOMAIN i.watch THEN i.watch[d]
    ELSE CHOOSE wd \in 1 .. Cardinality(Used(i)) + 1 : wd \notin Used(i)

-----------------------------------------------------------------------------
(* Other programs *)

\* A step, with what the instances become and the items that it changes
Program(c, r, items) ==
    /\ ops' = ops + 1
    /\ cur' = c
    /\ repl' = r
    /\ stale' = IF closed THEN stale ELSE stale \cup items
    /\ UNCHANGED <<mode, walk, endVars>>

Mkdir(p, n) ==
    LET After(i) == Notify(i, Told(i, Inode(p), "create", <<n>>), {}) IN
    /\ Live(p) /\ ~Live(Append(p, n)) /\ Len(p) < MaxDepth
    /\ \E d \in Dir \ DOMAIN at : at' = With(at, d, Append(p, n))
    /\ Program(After(cur), After(repl), {Append(p, n)})

\* The events of a directory that is gone
Destroyed(i, d) == Told(i, d, "deleteself", <<>>) \o Told(i, d, "ignored", <<>>)

\* An empty directory is removed.  Kernels differ in the order of the events.
Rmdir(p, n) ==
    LET d == Inode(Append(p, n))
        Parent(i) == Told(i, Inode(p), "delete", <<n>>)
        ParentFirst(i) == Notify(i, Parent(i) \o Destroyed(i, d), {d})
        ParentLast(i) == Notify(i, Destroyed(i, d) \o Parent(i), {d})
    IN
    /\ Live(Append(p, n)) /\ Children(Append(p, n)) = {}
    /\ at' = Without(at, {d})
    /\ \/ Program(ParentFirst(cur), ParentFirst(repl), {Append(p, n)})
       \/ Program(ParentLast(cur), ParentLast(repl), {Append(p, n)})

\* A file is created, written or removed.
Write(p) ==
    LET After(i) == Notify(i, Told(i, Inode(p), "file", <<File>>), {}) IN
    /\ Live(p)
    /\ Program(After(cur), After(repl), {Append(p, File)})
    /\ UNCHANGED at

\* The reader has still to walk the directory at q, or something at, above or
\* below the path new in it.
Unwalked(q, new) ==
    \/ mode # "read" \/ walk # <<>> \/ Inode(q) \notin DOMAIN cur.watch
    \/ \E k \in DOMAIN cur.queue :
        LET e == cur.queue[k]
            p == cur.byDescriptor[e.wd] \o e.name
        IN /\ e.mask \in {"create", "to"} /\ e.wd \in DOMAIN cur.byDescriptor
           /\ IsPrefix(p, new) \/ IsPrefix(new, p)

\* A rename is one over an empty directory, one to where the reader has still
\* to walk, or neither.
Kind(q, new) ==
    IF Live(new) THEN "over" ELSE IF Unwalked(q, new) THEN "fresh" ELSE "settled"

\* The path p below old when old has become new
Moved(old, new, p) == new \o SubSeq(p, Len(old) + 1, Len(p))

Rename(p, n, q, m) ==
    LET old == Append(p, n)
        new == Append(q, m)
        over == {d \in DOMAIN at : at[d] = new}
        moved == {d \in DOMAIN at : IsPrefix(old, at[d])}
        d == Inode(old)
        e == Inode(new)
        Links(i) == Told(i, Inode(p), "from", <<n>>) \o Told(i, Inode(q), "to", <<m>>)
        Self(i) == Told(i, d, "moveself", <<>>)
        After(i) ==
            IF over = {} THEN Notify(i, Links(i) \o Self(i), {})
            ELSE Notify(i, Links(i) \o Told(i, e, "attrib", <<>>) \o Self(i) \o Destroyed(i, e), {e})
    IN
    /\ Live(old) /\ Live(q) /\ old # new /\ ~IsPrefix(old, q)
    /\ Kind(q, new) \in Renames
    /\ over # {} => Children(new) = {}
    /\ \A f \in moved : Moved(old, new, at[f]) \in Path
    /\ at' = Without([f \in DOMAIN at |->
                         IF f \in moved THEN Moved(old, new, at[f]) ELSE at[f]], over)
    /\ Program(After(cur), After(repl), {old, new})

\* The watched directory itself is moved away.
MoveRoot ==
    LET After(i) == Notify(i, Told(i, Root, "moveself", <<>>), {}) IN
    /\ Faults /\ Live(<<>>)
    /\ at' = Empty
    /\ Program(After(cur), After(repl), {<<>>})

-----------------------------------------------------------------------------
(* The watch set *)

add(i, p) ==
    IF p \in DOMAIN i.byPath \/ ~Live(p) THEN i
    ELSE LET wd == Descriptor(i, Inode(p))
         IN [i EXCEPT !.watch = With(@, Inode(p), wd),
                      !.byDescriptor = With(@, wd, p),
                      !.byPath = With(@, p, wd)]

\* The watches of some paths are removed, each answered by an event.
removeWatches(i, paths) ==
    LET wds == {i.byPath[q] : q \in paths}
        dirs == {d \in DOMAIN i.watch : i.watch[d] \in wds}
        events == SetToSeq({Event(i.watch[d], "ignored", <<>>) : d \in dirs})
    IN [Notify(i, events, dirs) EXCEPT !.byPath = Without(@, paths),
                                       !.byDescriptor = Without(@, wds)]

removeTree(i, p) == removeWatches(i, {q \in DOMAIN i.byPath : IsPrefix(p, q)})

send(p) == stale' = {x \in stale : ~IsPrefix(p, x)}

\* Close, called by the session or by the read loop itself, closes once.
CloseOnce == closed' = TRUE /\ deadline' = (deadline \/ ~closed)

Fail == failed' = TRUE /\ CloseOnce

-----------------------------------------------------------------------------
(* The walk of addTree and rebuild *)

emit == mode = "read"

\* The walk starts if its root exists.
WalkFrom(p) == walk' = IF Live(p) THEN <<Visiting(p)>> ELSE <<>>

\* The callback of WalkDir: watch a directory, unless it is gone, and report it.
Visit ==
    LET p == Head(walk).path IN
    /\ walk # <<>> /\ Head(walk).step = "visit"
    /\ walk' = <<Listing(p)>> \o Tail(walk)
    /\ IF emit THEN cur' = add(cur, p) /\ send(p) /\ UNCHANGED repl
               ELSE repl' = add(repl, p) /\ UNCHANGED <<cur, stale>>
    /\ UNCHANGED <<at, ops, mode, endVars>>

\* The numbers of a set in their order
Sorted(S) == {s \in SetToSeqs(S) : \A j, k \in DOMAIN s : j < k => s[j] < s[k]}

\* Mutant: the callback does not pass over entries that are no directories.
ListEverything ==
    LET p == Head(walk).path
    IN
    /\ walk # <<>> /\ Head(walk).step = "list"
    /\ \E names \in Sorted(Children(p) \cup {File}) :
        walk' = [k \in DOMAIN names |-> Visiting(Append(p, names[k]))] \o Tail(walk)
    /\ IF emit /\ Live(p) THEN send(Append(p, File)) ELSE UNCHANGED stale
    /\ UNCHANGED <<at, ops, cur, repl, mode, endVars>>

\* WalkDir reads the directory after the callback, its entries in their order.
List ==
    LET p == Head(walk).path
    IN
    /\ walk # <<>> /\ Head(walk).step = "list"
    /\ \E names \in Sorted(Children(p)) :
        walk' = [k \in DOMAIN names |-> Visiting(Append(p, names[k]))] \o Tail(walk)
    /\ IF emit /\ Live(p) THEN send(Append(p, File)) ELSE UNCHANGED stale
    /\ UNCHANGED <<at, ops, cur, repl, mode, endVars>>

\* A rebuild that fails leaves the old instance in place; newWatcher fails.
RebuildFails ==
    /\ repl' = Unwatched
    /\ \/ mode = "new" /\ mode' = "ended" /\ failed' = TRUE /\ UNCHANGED <<closed, deadline>>
       \/ mode = "rebuild" /\ mode' = "read" /\ Fail

\* A watch is refused: a limit of the kernel is reached.
WalkFails ==
    /\ Faults
    /\ walk # <<>> /\ Head(walk).step = "visit"
    /\ walk' = <<>>
    /\ RebuildFails \/ (emit /\ Fail /\ UNCHANGED <<repl, mode>>)
    /\ UNCHANGED <<at, ops, cur, stale>>

\* Mutant: Close during a rebuild is forgotten.
SwapForgetsClose == cur' = repl /\ deadline' = FALSE

\* Mutant: the paths of the old watches are kept.
SwapKeepsPaths == cur' = [repl EXCEPT !.byPath = [q \in DOMAIN @ \cup DOMAIN cur.byPath |-> IF q \in DOMAIN @ THEN @[q] ELSE cur.byPath[q]]] /\ deadline' = closed

\* The replacement takes over, with its queue, and is closed like the old one.
Swap == cur' = repl /\ deadline' = closed

\* Mutant: what happened before the new watches is not reported.
RebuiltSilently == Swap /\ mode' = "read" /\ UNCHANGED stale

\* The change "." or the reconciliation that follows newWatcher covers what
\* happened before the new watches.
Rebuilt == Swap /\ mode' = "read" /\ send(<<>>)

\* The walk of rebuild is over; without the root it was in vain.
RebuildEnds ==
    /\ mode \in {"new", "rebuild"} /\ walk = <<>>
    /\ \/ /\ <<>> \in DOMAIN repl.byPath
          /\ Rebuilt
          /\ repl' = Unwatched
          /\ UNCHANGED <<closed, failed>>
       \/ /\ <<>> \notin DOMAIN repl.byPath
          /\ RebuildFails
          /\ UNCHANGED <<cur, stale>>
    /\ UNCHANGED <<at, ops, walk>>

-----------------------------------------------------------------------------
(* readLoop, process and handle *)

event == Head(cur.queue)
rest == [cur EXCEPT !.queue = Tail(@)]
known == event.wd \in DOMAIN cur.byDescriptor
path == cur.byDescriptor[event.wd] \o event.name

\* An event of the root itself
RootLost == event.mask \in {"deleteself", "moveself"} /\ path = <<>>

handle ==
    /\ mode = "read" /\ walk = <<>> /\ cur.queue # <<>>
    /\ \/ /\ event = Overflow
          /\ mode' = "rebuild"
          /\ cur' = rest
          /\ WalkFrom(<<>>)
          /\ UNCHANGED <<endVars, stale>>
       \/ /\ known /\ RootLost
          /\ cur' = rest
          /\ Fail
          /\ UNCHANGED <<mode, walk, stale>>
       \/ /\ known /\ event.mask \in {"delete", "from"}
          /\ cur' = removeTree(rest, path)
          /\ send(path)
          /\ UNCHANGED <<mode, walk, endVars>>
       \/ /\ known /\ event.mask \in {"create", "to"}
          /\ cur' = rest
          /\ WalkFrom(path)
          /\ UNCHANGED <<mode, endVars, stale>>
       \/ /\ known /\ event.mask = "ignored"
          /\ cur' = [rest EXCEPT !.byDescriptor = Without(@, {event.wd}),
                                 !.byPath = Without(@, {path})]
          /\ UNCHANGED <<mode, walk, endVars, stale>>
       \/ /\ known /\ event.mask \in {"file", "attrib"}
          /\ cur' = rest
          /\ send(path)
          /\ UNCHANGED <<mode, walk, endVars>>
       \/ /\ event # Overflow
          /\ known => event.mask \in {"deleteself", "moveself"} /\ ~RootLost
          /\ cur' = rest
          /\ UNCHANGED <<mode, walk, endVars, stale>>
    /\ UNCHANGED <<at, ops, repl>>

\* After Close the loop ends when no event is left.
readLoopEnds ==
    /\ mode = "read" /\ walk = <<>> /\ cur.queue = <<>>
    /\ deadline
    /\ mode' = "ended"
    /\ UNCHANGED <<at, ops, cur, repl, walk, endVars, stale>>

\* The session closes the watcher that newWatcher has returned.
Close ==
    /\ mode \in {"read", "rebuild"} /\ ~closed
    /\ CloseOnce
    /\ UNCHANGED <<at, ops, cur, repl, mode, walk, failed, stale>>

Reader == Visit \/ List \/ RebuildEnds \/ handle \/ readLoopEnds

Programs ==
    /\ ops < MaxOps
    /\ \/ MoveRoot
       \/ \E p \in Range(at) :
            \/ Write(p)
            \/ \E n \in Name :
                \/ Mkdir(p, n) \/ Rmdir(p, n)
                \/ \E q \in Range(at), m \in Name : Rename(p, n, q, m)

Next == Reader \/ WalkFails \/ Close \/ Programs

Spec == Init /\ [][Next]_vars

\* The read loop goes on as long as it has something to do.
FairSpec == Spec /\ WF_vars(Reader)

-----------------------------------------------------------------------------
(* Properties *)

Quiet == mode = "read" /\ walk = <<>> /\ cur.queue = <<>>

\* A watcher with nothing left to read has reported every change since it
\* happened or has failed, also if the queue overflowed, the tree changed
\* during a walk or a rebuild, the root was moved, or Close was called with
\* events in the queue (handle, addTree, rebuild and readLoop).
NothingMissed == (Quiet \/ mode = "ended") /\ ~failed => stale = {}

\* With nothing left to read, the kernel watches exactly the directories of the
\* tree, and both maps give each its present path, so that the next change is
\* reported under its name (add, removeTree, IN_IGNORED and rebuild).
WatchesAreExact ==
    Quiet /\ ~failed =>
        /\ DOMAIN cur.watch = DOMAIN at
        /\ DOMAIN cur.byPath = Range(at)
        /\ \A d \in DOMAIN at : /\ cur.byPath[at[d]] = cur.watch[d]
                                /\ cur.byDescriptor[cur.watch[d]] = at[d]

\* A watcher that is closed or has failed ends, also if Close is called during
\* a rebuild, on the file that the rebuild replaces (Close, rebuild, readLoop).
CloseEnds == closed \/ failed ~> mode = "ended"
=============================================================================

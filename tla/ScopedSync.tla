------------------------------ MODULE ScopedSync ------------------------------
(***************************************************************************)
(* The reconciliation of a batch of changed paths (src/src/payload.go and  *)
(* Sync of src/src/main.go): which scopes are chosen, which of them are    *)
(* deleted and which exist, what the filters of each rclone sync include,  *)
(* while other programs go on changing the source.                         *)
(*                                                                         *)
(* Simplifications:                                                        *)
(*  - the contents of a file are a model value;                            *)
(*  - an rclone sync with --delete-before is two steps, one that deletes   *)
(*    and one that copies, each of which sees one state of the source; a   *)
(*    step that fails has had its effect on some of the paths;             *)
(*  - so is each of the two rounds of Lstat calls, the one of              *)
(*    reconciliationScopes and the one of syncScopes;                      *)
(*  - a filter is the set of paths that it matches; an exclude matches     *)
(*    files: patterns that hide a whole directory are left out;            *)
(*  - the destination can hold empty directories;                          *)
(*  - the state files around the payload are in Repository, the timer and  *)
(*    the retries that start the next attempt in SessionLoop.              *)
(***************************************************************************)
EXTENDS Integers, Sequences, FiniteSets, SequencesExt

CONSTANTS
    Path,       \* the paths of the trees, with their ancestors and the root
    Version,    \* contents of a file
    State,      \* paths of the state files
    Excluded,   \* paths that the patterns of --exclude match
    Invalid,    \* paths whose last name is not valid UTF-8
    AnyDest,    \* whether the destination starts out different
    MaxBatch,   \* bound: paths in a batch
    MaxEdits    \* bound: changes of the source

Root == <<>>
Hidden == State \cup Excluded

Below(p) == {q \in Path : IsStrictPrefix(p, q)}
Above(p) == {q \in Path : IsStrictPrefix(q, p)}

ASSUME ScopesAssumption ==
    /\ Root \in Path /\ Path \subseteq Seq(Nat)
    /\ \A p \in Path : Prefixes(p) \subseteq Path
    /\ "none" \notin Version /\ "dir" \notin Version
    /\ \A p \in Hidden : p \in Path \ {Root} /\ Below(p) = {}
    /\ Invalid \subseteq Path \ {Root}
    /\ AnyDest \in BOOLEAN /\ MaxBatch \in Nat /\ MaxEdits \in Nat

VARIABLES
    source, dest,  \* the two trees: a path has nothing, a directory or a file
    changed,       \* changed paths of which no batch has been made
    batch,         \* the changed paths being reconciled
    scopes,        \* the result of reconciliationScopes
    step,          \* idle, scoped, delete or copy (within an rclone sync)
    group,         \* the scopes of the current rclone sync
    queued,        \* the scopes of the next one
    making,        \* createDirectories of the current one
    edits,         \* changes of the source so far
    touched        \* history: paths at and below a change since the batch began

syncVars == <<batch, scopes, step, group, queued, making>>
vars == <<source, dest, changed, syncVars, edits, touched>>

IsTree(t) ==
    /\ t[Root] = "dir"
    /\ \A p \in Path : t[p] # "none" => \A q \in Above(p) : t[q] = "dir"
    /\ \A p \in Hidden : t[p] # "dir"

Tree == {t \in [Path -> {"none", "dir"} \cup Version] : IsTree(t)}

-----------------------------------------------------------------------------
(* reconciliationScopes *)

\* For an invalid name the nearest ancestor that a filter can spell.
Representable(p) ==
    LET valid == {q \in Prefixes(p) : Prefixes(q) \cap Invalid = {}}
    IN  CHOOSE q \in valid : \A o \in valid : Len(o) <= Len(q)

\* A path below something that is not a directory stands for that ancestor.
Promote(p) ==
    LET blocked == {q \in Above(p) : source[q] # "dir"} \cup {p}
    IN  CHOOSE q \in blocked : \A o \in blocked : Len(q) <= Len(o)

\* In their sorted order a path comes after the paths above it, so that the loop
\* selects those with no other one above.
Collapse(paths) == {p \in paths : Prefixes(p) \cap paths = {p}}

\* Mutant: as if a child event could not outlive its parent directory.
scopesUnpromoted(paths) ==
    LET spelled == {Representable(p) : p \in paths}
    IN  IF Root \in spelled THEN {Root} ELSE Collapse(spelled \ State)

reconciliationScopes(paths) ==
    LET spelled == {Representable(p) : p \in paths}
    IN  IF Root \in spelled THEN {Root}
        ELSE Collapse({Promote(p) : p \in spelled} \ State)

-----------------------------------------------------------------------------
(* What the filters of syncScopeGroup and of fullSync include *)

InScope(p) == \E s \in group : IsPrefix(s, p)
OverScope(p) == \E s \in group : IsStrictPrefix(p, s)

\* Mutants: the ancestors of deleted paths too; no ancestors at all; everything
\* in the same top directory.
IncludedAlways(p) == p \notin Hidden /\ (InScope(p) \/ OverScope(p))
IncludedScopes(p) == p \notin Hidden /\ InScope(p)
IncludedSubtrees(p) ==
    p \notin Hidden /\ (InScope(p) \/ \E s \in group : IsPrefix(SubSeq(s, 1, 1), p))

Included(p) == p \notin Hidden /\ (InScope(p) \/ (making /\ OverScope(p)))

\* Whether a directory is listed: the scopes decide, as no directory is excluded.
Listed(p) == InScope(p) \/ OverScope(p)

\* The pass of rclone that deletes: files that are not files of the source,
\* then the directories that the source lacks and that are now empty.
Deleted == {p \in Path : dest[p] \in Version /\ Included(p) /\ source[p] \notin Version}

Pruned ==
    {p \in Path :
        /\ dest[p] = "dir" /\ Listed(p) /\ source[p] # "dir"
        /\ \A q \in Below(p) :
               \/ dest[q] = "none"
               \/ q \in Deleted
               \/ dest[q] = "dir" /\ Listed(q)}

AfterDelete == [p \in Path |-> IF p \in Deleted \cup Pruned THEN "none" ELSE dest[p]]

\* The pass that copies: every included file with the directories above it and,
\* with --create-empty-src-dirs, every directory.
Copied == {p \in Path : source[p] \in Version /\ Included(p)}

Made ==
    {p \in Path : making /\ source[p] = "dir" /\ Listed(p)}
        \cup UNION {Above(p) : p \in Copied}

AfterCopy ==
    [p \in Path |-> IF p \in Copied THEN source[p]
                    ELSE IF p \in Made THEN "dir" ELSE dest[p]]

\* A file in the place of a directory or the other way round.
Conflict ==
    \/ \E p \in Made : dest[p] \in Version
    \/ \E p \in Copied : dest[p] = "dir"

-----------------------------------------------------------------------------
(* The actions *)

\* Other programs change what is at and below p; the watcher reports the path
\* and, for a new directory, its contents, or everything when it lost events.
\* The paths of the state files never become pending (queueChange).
Edit(p) ==
    /\ edits < MaxEdits
    /\ edits' = edits + 1
    /\ \E t \in Tree :
        /\ \A q \in Path : t[q] # source[q] => IsPrefix(p, q)
        /\ p # Root => t[p] # source[p] \/ t[p] = "dir"
        /\ source' = t
        /\ \E report \in {{p} \cup {q \in Below(p) : t[q] # "none"}, {Root}} :
               changed' = changed \cup (report \ State)
    /\ touched' = IF step = "idle" THEN {} ELSE touched \cup {p} \cup Below(p)
    /\ UNCHANGED <<dest, syncVars>>

\* startSync: a batch of the changes that have been reported by now, any of
\* them since the reports arrive late. Sync ends at once without a scope.
Begin ==
    /\ step = "idle"
    /\ \E arrived \in SUBSET changed :
        /\ arrived # {} /\ Cardinality(arrived) <= MaxBatch
        /\ scopes' = reconciliationScopes(arrived)
        /\ changed' = changed \ arrived
        /\ IF scopes' = {} THEN UNCHANGED <<step, batch>>
                           ELSE step' = "scoped" /\ batch' = arrived
    /\ UNCHANGED <<source, dest, group, queued, making, edits, touched>>

\* Mutant: the deleted scopes stay among those that exist.
syncScopesBoth ==
    LET deleted == {s \in scopes : source[s] = "none"}
        first(now, later) ==
            /\ group' = now /\ queued' = later
            /\ making' = (now \cap deleted = {})
    IN  /\ step = "scoped"
        /\ step' = "delete"
        /\ IF deleted = {} THEN first(scopes, {})
                           ELSE first(deleted, scopes)
        /\ UNCHANGED <<source, dest, changed, batch, scopes, edits, touched>>

\* Once the generation has advanced: fullSync, or syncScopes, which looks at
\* the source again.
syncScopes ==
    LET deleted == {s \in scopes : source[s] = "none"}
        first(now, later) ==
            /\ group' = now /\ queued' = later
            /\ making' = (now \cap deleted = {})
    IN  /\ step = "scoped"
        /\ step' = "delete"
        /\ IF deleted = {} THEN first(scopes, {})
                           ELSE first(deleted, scopes \ deleted)
        /\ UNCHANGED <<source, dest, changed, batch, scopes, edits, touched>>

Delete ==
    /\ step = "delete"
    /\ step' = "copy"
    /\ dest' = AfterDelete
    /\ UNCHANGED <<source, changed, batch, scopes, group, queued, making, edits, touched>>

\* The first group ends, and the second one starts.
CopyFirst ==
    /\ step = "copy" /\ ~Conflict /\ queued # {}
    /\ dest' = AfterCopy
    /\ step' = "delete"
    /\ group' = queued /\ queued' = {} /\ making' = TRUE
    /\ UNCHANGED <<source, changed, batch, scopes, edits, touched>>

Reset ==
    /\ step' = "idle"
    /\ batch' = {} /\ scopes' = {} /\ group' = {} /\ queued' = {}
    /\ making' = FALSE
    /\ touched' = {}

\* Mutant: as if the second group were forgotten.
CopyOnce ==
    /\ step = "copy" /\ ~Conflict
    /\ dest' = AfterCopy
    /\ Reset
    /\ UNCHANGED <<source, changed, edits>>

CopyLast ==
    /\ step = "copy" /\ ~Conflict /\ queued = {}
    /\ dest' = AfterCopy
    /\ Reset
    /\ UNCHANGED <<source, changed, edits>>

\* Mutant: only the scopes not yet begun are queued again.
RequeuedScopes == changed \cup queued

\* mergeFailedBatch
Requeued == changed \cup batch

\* Any step fails, an rclone pass with some of its effect; the batch is queued
\* again.
Fail ==
    /\ step # "idle"
    /\ LET full == CASE step = "delete" -> AfterDelete
                     [] step = "copy" -> AfterCopy
                     [] OTHER -> dest
       IN  \E part \in SUBSET {p \in Path : full[p] # dest[p]} :
              /\ dest' = [p \in Path |-> IF p \in part THEN full[p] ELSE dest[p]]
              /\ IsTree(dest')
    /\ changed' = Requeued
    /\ Reset
    /\ UNCHANGED <<source, edits>>

Init ==
    /\ source \in Tree
    /\ IF AnyDest THEN dest \in Tree /\ changed \in SUBSET (Path \ State)
                  ELSE dest = source /\ changed = {}
    /\ batch = {} /\ scopes = {} /\ group = {} /\ queued = {}
    /\ step = "idle" /\ making = FALSE
    /\ edits = 0 /\ touched = {}

Done == step = "idle" /\ changed = {} /\ edits = MaxEdits /\ UNCHANGED vars

Next ==
    \/ \E p \in Path : Edit(p)
    \/ Begin \/ syncScopes \/ Delete \/ CopyFirst \/ CopyLast \/ Fail
    \/ Done

Spec == Init /\ [][Next]_vars

-----------------------------------------------------------------------------
(* The properties *)

\* A directory that is gone from the source stays in the destination while it
\* holds a file that no filter includes.
Pinned(p) ==
    dest[p] = "dir" /\ \E q \in Below(p) \cap Hidden : dest[q] \in Version

Settled(p) ==
    \/ p \in Hidden
    \/ dest[p] = source[p]
    \/ source[p] = "none" /\ Pinned(p)

\* The types, and both sides are trees: no pass of rclone leaves a file below
\* a file or a path whose directory is gone.
TypeOK ==
    /\ source \in Tree /\ dest \in Tree
    /\ changed \subseteq Path \ State /\ batch \subseteq Path \ State
    /\ scopes \subseteq Path \ State
    /\ step \in {"idle", "scoped", "delete", "copy"}
    /\ group \subseteq scopes /\ queued \subseteq scopes \ group
    /\ making \in BOOLEAN /\ edits \in 0..MaxEdits /\ touched \subseteq Path

\* reconciliationScopes: no scope lies within another one or below something
\* that is not a directory of the source, every path of the batch has a scope
\* at or above it, and a scope is wider than the path only as far as needed:
\* it is not a directory, or the next name on the way to the path is not valid
\* UTF-8.  This holds as long as the source stands still.
ScopesAreExact ==
    step # "idle" /\ touched = {} =>
        /\ \A s, t \in scopes : ~IsStrictPrefix(s, t)
        /\ \A s \in scopes : \A q \in Above(s) : source[q] = "dir"
        /\ \A p \in batch : \E s \in scopes : IsPrefix(s, p)
        /\ \A s \in scopes : \E p \in batch :
               /\ IsPrefix(s, p)
               /\ \/ s = p
                  \/ source[s] # "dir"
                  \/ SubSeq(p, 1, Len(s) + 1) \in Invalid

\* After a batch that succeeded the destination has, at and below every path of
\* the batch, what the source has: whatever the destination had before, whatever
\* the events were about and whatever else was changed meanwhile.  Only a path
\* whose own directories were changed meanwhile is left to the next batch.
SyncedPathsAgree ==
    [][CopyLast =>
        \A b \in batch : \A p \in {b} \cup Below(b) :
            p \in touched \/ Settled(p)']_vars

\* A file in the place of a directory or the other way round never makes a
\* sync fail ("so file/directory replacements can converge"), unless a file
\* that no filter includes keeps the directory, or the source changed meanwhile.
ReplacementsConverge ==
    step = "copy" /\ Conflict =>
        \/ touched # {}
        \/ \E p \in Path : source[p] \in Version /\ Pinned(p)

\* A sync of deleted paths deletes and nothing else, while they stay deleted: it
\* makes no directory and replaces no file above a scope ("Deletions must not
\* create source ancestor directories or replace remote ancestor files").
DeletionsOnlyDelete ==
    [][~making /\ step \in {"delete", "copy"} /\ touched = {} =>
        \A p \in Path :
            dest'[p] = dest[p] \/ (dest'[p] = "none" /\ InScope(p))]_vars

\* State files and excluded files are never touched, and neither is a path that
\* has no path of the batch above or below it.  The exception is a scope wider
\* than its path, where the directory of the path is gone or its name is not
\* valid UTF-8: there everything in the scope becomes what the source has.
NoCollateral ==
    [][\A p \in {q \in Path : dest'[q] # dest[q]} :
        /\ p \notin Hidden
        /\ \/ \E b \in batch : IsPrefix(b, p) \/ IsPrefix(p, b)
           \/ \E s \in scopes : IsPrefix(s, p) /\ dest'[p] \in {"none", source[p]}]_vars

\* Whatever the order of edits, late reports, passes and failures, a difference
\* between the two trees is always known: a path at or above it is pending or
\* in the batch at work. When neither is left the trees agree.
NothingForgotten ==
    \A p \in Path :
        Settled(p) \/ \E c \in changed \cup batch : IsPrefix(c, p)
=============================================================================

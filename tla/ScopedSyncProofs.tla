-------------------------- MODULE ScopedSyncProofs --------------------------
(***************************************************************************)
(* Proofs about ScopedSync, for every set of paths, every pair of trees,   *)
(* any batches and any edits of the source between the steps of a batch.   *)
(* A path that is not touched by an edit during the batch is followed      *)
(* through the passes of rclone: it is in a scope still to be handled, or  *)
(* cleared by the deleting pass for the copying one, or settled.           *)
(***************************************************************************)
EXTENDS ScopedSync, WellFoundedInduction, TLAPS

-----------------------------------------------------------------------------
(* The invariant *)

\* A later batch will look at p.
Known(p) == \E c \in changed : IsPrefix(c, p)

\* Between two batches nothing is left of the last one.
Idle ==
    step = "idle" =>
        batch = {} /\ scopes = {} /\ group = {} /\ queued = {} /\ touched = {}

\* What was changed since the batch began has been reported again, and with a
\* path everything below it is taken for changed.
TouchedIsKnown ==
    \A p \in touched :
        /\ p \in Hidden \/ Known(p)
        /\ Below(p) \subseteq touched

\* Every path of the batch has a scope, and every scope is there for a path.
ScopesCover ==
    /\ \A b \in batch : \E s \in scopes : IsPrefix(s, b)
    /\ \A s \in scopes : \E b \in batch : IsPrefix(s, b)

\* The scopes of a sync that makes no directories were deleted from the source.
GroupIsDeleted ==
    step \in {"delete", "copy"} /\ ~making =>
        \A s \in group : s \in touched \/ source[s] = "none"

\* The deleting pass has left nothing at p that the copying one could not
\* replace.
Cleared(p) ==
    \/ source[p] \in Version
    \/ source[p] = "dir" /\ dest[p] \notin Version
    \/ Settled(p)

\* How far the batch is with a path in scope s that no edit has touched.
Handled(s, p) ==
    CASE step = "delete" -> s \in group \cup queued \/ Settled(p)
      [] step = "copy" -> s \in queued \/ (s \in group /\ Cleared(p)) \/ Settled(p)
      [] OTHER -> TRUE

Progress ==
    \A s \in scopes : \A p \in Path :
        IsPrefix(s, p) /\ p \notin touched => Handled(s, p)

\* What the deleting pass leaves of the paths that the filters include.
DeletePassed ==
    step = "copy" /\ touched = {} =>
        \A p \in Path :
            /\ dest[p] \in Version /\ Included(p) => source[p] \in Version
            /\ dest[p] = "dir" /\ InScope(p) /\ source[p] \in Version => Pinned(p)

BatchInv ==
    /\ Idle
    /\ TouchedIsKnown
    /\ ScopesCover
    /\ ScopesAreExact
    /\ GroupIsDeleted
    /\ Progress
    /\ DeletePassed

IInv == TypeOK /\ BatchInv

-----------------------------------------------------------------------------
(* Prefixes *)

LEMMA PrefixChar ==
  ASSUME NEW a \in Seq(Nat), NEW b \in Seq(Nat)
  PROVE  IsPrefix(a, b) <=> Len(a) <= Len(b) /\ \A i \in 1..Len(a) : a[i] = b[i]
  BY DEF IsPrefix

LEMMA SameElements ==
  ASSUME NEW a \in Seq(Nat), NEW b \in Seq(Nat),
         Len(a) = Len(b), \A i \in 1..Len(a) : a[i] = b[i]
  PROVE  a = b
  OBVIOUS

\* Paths are partially ordered, and the ones above a path are in line.
LEMMA PrefixOrder ==
  /\ \A a \in Path : IsPrefix(a, a) /\ IsPrefix(Root, a) /\ Len(a) \in Nat
  /\ \A a, b \in Path : IsPrefix(a, b) /\ IsPrefix(b, a) => a = b
  /\ \A a, b, c \in Path : IsPrefix(a, b) /\ IsPrefix(b, c) => IsPrefix(a, c)
  /\ \A a, b, c \in Path :
        IsPrefix(a, c) /\ IsPrefix(b, c) => IsPrefix(a, b) \/ IsPrefix(b, a)
  /\ \A a, b \in Path : IsPrefix(a, b) => Len(a) <= Len(b)
  /\ \A a, b \in Path : IsPrefix(a, b) /\ Len(a) = Len(b) => a = b
PROOF
  <1>1. Path \subseteq Seq(Nat) /\ Root \in Path
    BY ScopesAssumption
  <1>2. \A a \in Path : IsPrefix(a, a) /\ IsPrefix(Root, a) /\ Len(a) \in Nat
    BY <1>1, PrefixChar DEF Root
  <1>3. \A a, b, c \in Path : IsPrefix(a, b) /\ IsPrefix(b, c) => IsPrefix(a, c)
    <2>1. SUFFICES ASSUME NEW a \in Seq(Nat), NEW b \in Seq(Nat), NEW c \in Seq(Nat),
                          Len(a) <= Len(b) /\ \A i \in 1..Len(a) : a[i] = b[i],
                          Len(b) <= Len(c) /\ \A i \in 1..Len(b) : b[i] = c[i]
                   PROVE  Len(a) <= Len(c) /\ \A i \in 1..Len(a) : a[i] = c[i]
      BY <1>1, PrefixChar
    <2>2. QED
      BY <2>1
  <1>4. \A a, b \in Path : IsPrefix(a, b) => Len(a) <= Len(b)
    BY DEF IsPrefix
  <1>5. \A a, b \in Path : IsPrefix(a, b) /\ Len(a) = Len(b) => a = b
    BY <1>1, PrefixChar, SameElements
  <1>6. \A a, b \in Path : IsPrefix(a, b) /\ IsPrefix(b, a) => a = b
    <2>1. SUFFICES ASSUME NEW a \in Path, NEW b \in Path, IsPrefix(a, b), IsPrefix(b, a)
                   PROVE  a = b
      OBVIOUS
    <2>2. Len(a) = Len(b)
      BY <1>2, <1>4, <2>1
    <2>3. QED
      BY <1>5, <2>1, <2>2
  <1>7. \A a, b, c \in Path :
            IsPrefix(a, c) /\ IsPrefix(b, c) => IsPrefix(a, b) \/ IsPrefix(b, a)
    <2>1. SUFFICES ASSUME NEW a \in Seq(Nat), NEW b \in Seq(Nat), NEW c \in Seq(Nat),
                          \A i \in 1..Len(a) : a[i] = c[i],
                          \A i \in 1..Len(b) : b[i] = c[i]
                   PROVE  \/ Len(a) <= Len(b) /\ \A i \in 1..Len(a) : a[i] = b[i]
                          \/ Len(b) <= Len(a) /\ \A i \in 1..Len(b) : b[i] = a[i]
      BY <1>1, PrefixChar
    <2>2. QED
      BY <2>1
  <1>8. QED
    BY <1>2, <1>3, <1>4, <1>5, <1>6, <1>7

LEMMA InPrefixes ==
  ASSUME NEW p \in Path, NEW q
  PROVE  q \in Prefixes(p) <=> q \in Path /\ IsPrefix(q, p)
PROOF
  <1>1. p \in Seq(Nat) /\ Prefixes(p) \subseteq Path /\ Path \subseteq Seq(Nat)
    BY ScopesAssumption
  <1>2. ASSUME q \in Prefixes(p) PROVE q \in Path /\ IsPrefix(q, p)
    <2>1. PICK l \in 0..Len(p) : q = SubSeq(p, 1, l)
      BY <1>2 DEF Prefixes
    <2>2. q \in Seq(Nat) /\ Len(q) = l /\ \A i \in 1..l : q[i] = p[i]
      BY <1>1, <2>1
    <2>3. Len(q) <= Len(p) /\ \A i \in 1..Len(q) : q[i] = p[i]
      BY <1>1, <2>1, <2>2
    <2>4. IsPrefix(q, p)
      BY <1>1, <2>2, <2>3, PrefixChar
    <2>5. QED
      BY <1>1, <1>2, <2>4
  <1>3. ASSUME q \in Path, IsPrefix(q, p) PROVE q \in Prefixes(p)
    <2>1. q \in Seq(Nat) /\ Len(q) \in 0..Len(p) /\ \A i \in 1..Len(q) : q[i] = p[i]
      BY <1>1, <1>3, PrefixChar
    <2>2. /\ SubSeq(p, 1, Len(q)) \in Seq(Nat)
          /\ Len(SubSeq(p, 1, Len(q))) = Len(q)
          /\ \A i \in 1..Len(q) : SubSeq(p, 1, Len(q))[i] = q[i]
      BY <1>1, <2>1
    <2>3. q = SubSeq(p, 1, Len(q))
      BY <2>1, <2>2, SameElements
    <2>4. QED
      BY <2>1, <2>3 DEF Prefixes
  <1>4. QED
    BY <1>2, <1>3

\* Above and Below
LEMMA TreeOrder ==
  /\ \A p, q \in Path : q \in Below(p) <=> IsPrefix(p, q) /\ p # q
  /\ \A p, q \in Path : p \in Above(q) <=> IsPrefix(p, q) /\ p # q
  /\ \A p, q, r \in Path : q \in Below(p) /\ r \in Below(q) => r \in Below(p)
  /\ \A p, q, r \in Path : q \in Above(p) /\ r \in Above(q) => r \in Above(p)
PROOF
  <1>1. /\ \A p, q \in Path : q \in Below(p) <=> IsPrefix(p, q) /\ p # q
        /\ \A p, q \in Path : p \in Above(q) <=> IsPrefix(p, q) /\ p # q
    BY DEF Below, Above, IsStrictPrefix
  <1>2. QED
    BY <1>1, PrefixOrder

\* A nonempty set of natural numbers has a least one.
LEMMA Least ==
  ASSUME NEW S \in SUBSET Nat, S # {}
  PROVE  \E n \in S : \A m \in S : n <= m
PROOF
  <1>1. PICK n \in S : \A m \in S : ~(<<m, n>> \in OpToRel(<, Nat))
    BY WFMin, NatLessThanWellFounded
  <1>2. \A m \in S : ~(m < n)
    BY <1>1 DEF OpToRel
  <1>3. QED
    BY <1>2

LEMMA Shortest ==
  ASSUME NEW S \in SUBSET Path, S # {}
  PROVE  \E q \in S : \A o \in S : Len(q) <= Len(o)
PROOF
  <1>1. \A q \in S : Len(q) \in Nat
    BY PrefixOrder
  <1>2. {Len(q) : q \in S} \in SUBSET Nat /\ {Len(q) : q \in S} # {}
    BY <1>1
  <1>3. PICK n \in {Len(q) : q \in S} : \A m \in {Len(q) : q \in S} : n <= m
    BY <1>2, Least
  <1>4. QED
    BY <1>3

\* The longest of some paths above a given one
LEMMA Longest ==
  ASSUME NEW p \in Path, NEW S \in SUBSET Path, S # {}, \A q \in S : IsPrefix(q, p)
  PROVE  \E q \in S : \A o \in S : Len(o) <= Len(q)
PROOF
  <1>1. \A q \in S : Len(q) \in Nat /\ Len(q) <= Len(p) /\ Len(p) \in Nat
    BY PrefixOrder
  <1>2. {Len(p) - Len(q) : q \in S} \in SUBSET Nat /\ {Len(p) - Len(q) : q \in S} # {}
    BY <1>1
  <1>3. PICK n \in {Len(p) - Len(q) : q \in S} : \A m \in {Len(p) - Len(q) : q \in S} : n <= m
    BY <1>2, Least
  <1>4. PICK q \in S : n = Len(p) - Len(q)
    BY <1>3
  <1>5. ASSUME NEW o \in S PROVE Len(o) <= Len(q)
    <2>1. Len(p) - Len(q) <= Len(p) - Len(o)
      BY <1>3, <1>4
    <2>2. QED
      BY <1>1, <2>1
  <1>6. QED
    BY <1>5

-----------------------------------------------------------------------------
(* reconciliationScopes *)

LEMMA RepresentableIs ==
  ASSUME NEW p \in Path
  PROVE  LET r == Representable(p)
         IN  /\ r \in Path /\ IsPrefix(r, p)
             /\ r = p \/ SubSeq(p, 1, Len(r) + 1) \in Invalid
PROOF
  <1> DEFINE valid == {q \in Prefixes(p) : Prefixes(q) \cap Invalid = {}}
             r == Representable(p)
  <1>1. \A q \in Prefixes(p) : q \in Path /\ IsPrefix(q, p)
    BY InPrefixes
  <1>2. Root \in valid
    <2>1. Root \in Path /\ Root \notin Invalid
      BY ScopesAssumption
    <2>2. \A q \in Prefixes(Root) : q = Root
      <3>1. SUFFICES ASSUME NEW q \in Prefixes(Root) PROVE q = Root
        OBVIOUS
      <3>2. q \in Path /\ IsPrefix(q, Root) /\ IsPrefix(Root, q)
        BY <2>1, InPrefixes, PrefixOrder
      <3>3. QED
        BY <2>1, <3>2, PrefixOrder
    <2>3. Root \in Prefixes(p)
      BY <2>1, InPrefixes, PrefixOrder
    <2>4. QED
      BY <2>1, <2>2, <2>3
  <1>3. \E q \in valid : \A o \in valid : Len(o) <= Len(q)
    <2>1. valid \in SUBSET Path /\ valid # {} /\ \A q \in valid : IsPrefix(q, p)
      BY <1>1, <1>2
    <2>2. QED
      BY <2>1, Longest
  <1>4. r \in valid /\ \A o \in valid : Len(o) <= Len(r)
    BY <1>3 DEF Representable
  <1>5. r \in Path /\ IsPrefix(r, p) /\ Prefixes(r) \cap Invalid = {}
    BY <1>1, <1>4
  <1>6. ASSUME r # p PROVE SubSeq(p, 1, Len(r) + 1) \in Invalid
    <2> DEFINE n == SubSeq(p, 1, Len(r) + 1)
    <2>1. Len(r) \in Nat /\ Len(p) \in Nat /\ Len(r) < Len(p)
      BY <1>5, <1>6, PrefixOrder
    <2>2. n \in Prefixes(p)
      BY <2>1 DEF Prefixes
    <2>3. n \in Path /\ IsPrefix(n, p)
      BY <1>1, <2>2
    <2>4. Len(n) = Len(r) + 1
      <3>1. p \in Seq(Nat)
        BY ScopesAssumption
      <3>2. QED
        BY <2>1, <3>1
    <2>5. n \notin valid
      <3>1. n \in valid => Len(n) <= Len(r)
        BY <1>4
      <3>2. QED
        BY <2>1, <2>4, <3>1
    <2>6. PICK m \in Prefixes(n) : m \in Invalid
      BY <2>2, <2>5
    <2>7. m \in Path /\ IsPrefix(m, n) /\ IsPrefix(m, p)
      BY <2>3, <2>6, InPrefixes, PrefixOrder
    <2>8. ~IsPrefix(m, r)
      BY <1>5, <2>6, <2>7, InPrefixes
    <2>9. IsPrefix(r, m)
      BY <1>5, <2>7, <2>8, PrefixOrder
    <2>10. Len(r) <= Len(m) /\ Len(m) <= Len(n) /\ Len(m) # Len(r) /\ Len(m) \in Nat
      BY <1>5, <2>3, <2>7, <2>8, <2>9, PrefixOrder
    <2>11. Len(m) = Len(n)
      BY <2>1, <2>4, <2>10
    <2>12. m = n
      BY <2>3, <2>7, <2>11, PrefixOrder
    <2>13. QED
      BY <2>6, <2>12
  <1>7. QED
    BY <1>5, <1>6

LEMMA PromoteIs ==
  ASSUME NEW p \in Path
  PROVE  LET t == Promote(p)
         IN  /\ t \in Path /\ IsPrefix(t, p)
             /\ t = p \/ source[t] # "dir"
             /\ \A q \in Above(t) : source[q] = "dir"
PROOF
  <1> DEFINE blocked == {q \in Above(p) : source[q] # "dir"} \cup {p}
             t == Promote(p)
  <1>1. blocked \in SUBSET Path /\ blocked # {} /\ \A q \in blocked : IsPrefix(q, p)
    BY PrefixOrder DEF Above, IsStrictPrefix
  <1>2. \E q \in blocked : \A o \in blocked : Len(q) <= Len(o)
    BY <1>1, Shortest
  <1>3. t \in blocked /\ \A o \in blocked : Len(t) <= Len(o)
    BY <1>2 DEF Promote
  <1>4. t \in Path /\ IsPrefix(t, p) /\ (t = p \/ source[t] # "dir")
    BY <1>1, <1>3
  <1>5. ASSUME NEW q \in Above(t) PROVE source[q] = "dir"
    <2>1. q \in Path /\ IsPrefix(q, t) /\ q # t
      BY DEF Above, IsStrictPrefix
    <2>2. Len(q) < Len(t)
      BY <1>4, <2>1, PrefixOrder
    <2>3. IsPrefix(q, p) /\ q # p
      BY <1>4, <2>1, PrefixOrder
    <2>4. q \in Above(p)
      BY <2>1, <2>3 DEF Above, IsStrictPrefix
    <2>5. q \notin blocked
      BY <1>3, <1>4, <2>1, <2>2, PrefixOrder
    <2>6. QED
      BY <2>4, <2>5
  <1>6. QED
    BY <1>4, <1>5

LEMMA CollapseIs ==
  ASSUME NEW X \in SUBSET Path
  PROVE  /\ Collapse(X) \subseteq X
         /\ \A s, t \in Collapse(X) : ~IsStrictPrefix(s, t)
         /\ \A x \in X : \E s \in Collapse(X) : IsPrefix(s, x)
PROOF
  <1>1. Collapse(X) \subseteq X
    BY DEF Collapse
  <1>2. ASSUME NEW s \in Collapse(X), NEW t \in Collapse(X), IsStrictPrefix(s, t)
        PROVE  FALSE
    <2>1. s \in Prefixes(t) /\ s # t
      BY <1>1, <1>2, InPrefixes DEF IsStrictPrefix
    <2>2. QED
      BY <1>1, <2>1 DEF Collapse
  <1>3. ASSUME NEW x \in X PROVE \E s \in Collapse(X) : IsPrefix(s, x)
    <2> DEFINE over == {o \in X : IsPrefix(o, x)}
    <2>1. over \in SUBSET Path /\ over # {}
      BY PrefixOrder
    <2>2. PICK s \in over : \A o \in over : Len(s) <= Len(o)
      BY <2>1, Shortest
    <2>3. s \in Path /\ s \in X /\ IsPrefix(s, x)
      OBVIOUS
    <2>4. ASSUME NEW o \in Prefixes(s) \cap X PROVE o = s
      <3>1. o \in Path /\ IsPrefix(o, s)
        BY <2>3, InPrefixes
      <3>2. o \in over
        BY <2>3, <3>1, PrefixOrder
      <3>3. Len(s) = Len(o)
        BY <2>2, <2>3, <3>1, <3>2, PrefixOrder
      <3>4. QED
        BY <2>3, <3>1, <3>3, PrefixOrder
    <2>5. s \in Prefixes(s)
      BY <2>3, InPrefixes, PrefixOrder
    <2>6. QED
      BY <2>3, <2>4, <2>5 DEF Collapse
  <1>4. QED
    BY <1>1, <1>2, <1>3

\* The scopes of the changed paths X.  No path lies below a state file, so that
\* none of them is left without a scope.
LEMMA ScopesOf ==
  ASSUME NEW X \in SUBSET (Path \ State)
  PROVE  LET R == reconciliationScopes(X)
         IN  /\ R \subseteq Path \ State
             /\ \A s, t \in R : ~IsStrictPrefix(s, t)
             /\ \A s \in R : \A q \in Above(s) : source[q] = "dir"
             /\ \A p \in X : \E s \in R : IsPrefix(s, p)
             /\ \A s \in R : \E p \in X :
                    /\ IsPrefix(s, p)
                    /\ \/ s = p
                       \/ source[s] # "dir"
                       \/ SubSeq(p, 1, Len(s) + 1) \in Invalid
PROOF
  <1> DEFINE R == reconciliationScopes(X)
             spelled == {Representable(p) : p \in X}
             promoted == {Promote(p) : p \in spelled}
  <1>1. \A p \in X : /\ Representable(p) \in Path
                     /\ IsPrefix(Representable(p), p)
                     /\ \/ Representable(p) = p
                        \/ SubSeq(p, 1, Len(Representable(p)) + 1) \in Invalid
    BY RepresentableIs
  <1>2. spelled \in SUBSET Path
    BY <1>1
  <1>3. \A p \in spelled : /\ Promote(p) \in Path
                           /\ IsPrefix(Promote(p), p)
                           /\ Promote(p) = p \/ source[Promote(p)] # "dir"
                           /\ \A q \in Above(Promote(p)) : source[q] = "dir"
    BY <1>2, PromoteIs
  <1>4. CASE Root \in spelled
    <2>1. R = {Root}
      BY <1>4 DEF reconciliationScopes
    <2>2. Root \in Path \ State
      BY ScopesAssumption DEF Hidden
    <2>3. Above(Root) = {}
      BY <2>2, PrefixOrder DEF Above, IsStrictPrefix
    <2>4. \A p \in X : IsPrefix(Root, p)
      BY PrefixOrder
    <2>5. PICK p \in X : Root = Representable(p)
      BY <1>4
    <2>6. Root = p \/ SubSeq(p, 1, Len(Root) + 1) \in Invalid
      BY <1>1, <2>5
    <2>7. QED
      BY <2>1, <2>2, <2>3, <2>4, <2>6 DEF IsStrictPrefix
  <1>5. CASE Root \notin spelled
    <2>1. R = Collapse(promoted \ State)
      BY <1>5 DEF reconciliationScopes
    <2>2. promoted \in SUBSET Path
      BY <1>3
    <2>3. \A p \in X : /\ Promote(Representable(p)) \in promoted
                       /\ IsPrefix(Promote(Representable(p)), p)
      <3>1. SUFFICES ASSUME NEW p \in X
                     PROVE  /\ Promote(Representable(p)) \in promoted
                            /\ IsPrefix(Promote(Representable(p)), p)
        OBVIOUS
      <3>2. Representable(p) \in spelled
        OBVIOUS
      <3>3. QED
        BY <1>1, <1>3, <3>2, PrefixOrder
    <2>4. \A p \in X : Promote(Representable(p)) \notin State
      <3>1. SUFFICES ASSUME NEW p \in X, Promote(Representable(p)) \in State PROVE FALSE
        OBVIOUS
      <3>2. Below(Promote(Representable(p))) = {}
        BY <3>1, ScopesAssumption DEF Hidden
      <3>3. Promote(Representable(p)) = p
        BY <2>2, <2>3, <3>2, TreeOrder
      <3>4. QED
        BY <3>1, <3>3
    <2>5. (promoted \ State) \in SUBSET Path
      BY <2>2
    <2>6. /\ R \subseteq promoted \ State
          /\ \A s, t \in R : ~IsStrictPrefix(s, t)
          /\ \A x \in promoted \ State : \E s \in R : IsPrefix(s, x)
      <3> DEFINE Y == promoted \ State
      <3>1. Y \in SUBSET Path
        BY <2>5
      <3> HIDE DEF Y
      <3>2. /\ Collapse(Y) \subseteq Y
            /\ \A s, t \in Collapse(Y) : ~IsStrictPrefix(s, t)
            /\ \A x \in Y : \E s \in Collapse(Y) : IsPrefix(s, x)
        BY <3>1, CollapseIs
      <3>3. R = Collapse(Y)
        BY <2>1 DEF Y
      <3>4. QED
        BY <3>2, <3>3 DEF Y
    <2>7. \A s \in R : \A q \in Above(s) : source[q] = "dir"
      BY <1>3, <2>6
    <2>8. \A p \in X : \E s \in R : IsPrefix(s, p)
      <3>1. SUFFICES ASSUME NEW p \in X PROVE \E s \in R : IsPrefix(s, p)
        OBVIOUS
      <3>2. PICK s \in R : IsPrefix(s, Promote(Representable(p)))
        BY <2>3, <2>4, <2>6
      <3>3. s \in Path /\ Promote(Representable(p)) \in Path /\ p \in Path
        BY <2>2, <2>3, <2>6
      <3>4. IsPrefix(s, p)
        BY <2>3, <3>2, <3>3, PrefixOrder
      <3>5. QED
        BY <3>4
    <2>9. ASSUME NEW s \in R
          PROVE  \E p \in X : /\ IsPrefix(s, p)
                              /\ \/ s = p
                                 \/ source[s] # "dir"
                                 \/ SubSeq(p, 1, Len(s) + 1) \in Invalid
      <3>1. PICK p \in X : s = Promote(Representable(p))
        BY <2>6
      <3>2. s = Representable(p) \/ source[s] # "dir"
        BY <1>3, <3>1
      <3>3. QED
        BY <1>1, <2>3, <3>1, <3>2
    <2>10. QED
      BY <2>2, <2>6, <2>7, <2>8, <2>9
  <1>6. QED
    BY <1>4, <1>5

-----------------------------------------------------------------------------
(* The passes of rclone *)

LEMMA TreeIs ==
  ASSUME NEW t \in Tree
  PROVE  /\ t \in [Path -> {"none", "dir"} \cup Version]
         /\ t[Root] = "dir"
         /\ \A p, q \in Path : q \in Below(p) /\ t[q] # "none" => t[p] = "dir"
         /\ \A p \in Hidden : t[p] # "dir"
PROOF
  <1>1. t \in [Path -> {"none", "dir"} \cup Version] /\ IsTree(t)
    BY DEF Tree
  <1>2. \A p, q \in Path : q \in Below(p) => p \in Above(q)
    BY DEF Below, Above
  <1>3. QED
    BY <1>1, <1>2 DEF IsTree

LEMMA IsTreeIf ==
  ASSUME NEW t \in [Path -> {"none", "dir"} \cup Version], t[Root] = "dir",
         \A p, q \in Path : q \in Below(p) /\ t[q] # "none" => t[p] = "dir",
         \A p \in Hidden : t[p] # "dir"
  PROVE  t \in Tree
PROOF
  <1>1. \A p \in Path : \A q \in Above(p) : q \in Path /\ p \in Below(q)
    BY DEF Below, Above
  <1>2. QED
    BY <1>1 DEF Tree, IsTree

LEMMA Kinds ==
  /\ "none" \notin Version /\ "dir" \notin Version
  /\ \A p \in Hidden : p \in Path /\ Below(p) = {} /\ p # Root
  /\ Root \in Path
  BY ScopesAssumption

LEMMA GroupInPath ==
  ASSUME TypeOK
  PROVE  group \subseteq Path
  BY DEF TypeOK

\* What is in a scope, or above one, decides for what is below, or above.
LEMMA ScopesReach ==
  ASSUME TypeOK, NEW p \in Path, NEW q \in Below(p)
  PROVE  /\ InScope(p) => InScope(q)
         /\ OverScope(q) => OverScope(p)
         /\ Listed(q) => Listed(p)
PROOF
  <1>1. q \in Path /\ IsPrefix(p, q) /\ p # q
    BY DEF Below, IsStrictPrefix
  <1>2. InScope(p) => InScope(q)
    BY <1>1, GroupInPath, PrefixOrder DEF InScope
  <1>3. OverScope(q) => OverScope(p)
    BY <1>1, GroupInPath, PrefixOrder DEF OverScope, IsStrictPrefix
  <1>4. ASSUME InScope(q) PROVE Listed(p)
    <2>1. PICK s \in group : IsPrefix(s, q)
      BY <1>4 DEF InScope
    <2>2. s \in Path
      BY GroupInPath
    <2>3. IsPrefix(s, p) \/ IsPrefix(p, s)
      BY <1>1, <2>1, <2>2, PrefixOrder
    <2>4. IsPrefix(s, p) \/ IsStrictPrefix(p, s)
      BY <2>2, <2>3, PrefixOrder DEF IsStrictPrefix
    <2>5. QED
      BY <2>1, <2>4 DEF Listed, InScope, OverScope
  <1>5. QED
    BY <1>2, <1>3, <1>4 DEF Listed

LEMMA MadeIs ==
  ASSUME NEW r
  PROVE  r \in Made <=>
             \/ \E x \in Copied : r \in Above(x)
             \/ r \in Path /\ making /\ source[r] = "dir" /\ Listed(r)
PROOF
  <1>1. r \in UNION {Above(x) : x \in Copied} <=> \E x \in Copied : r \in Above(x)
    OBVIOUS
  <1>2. r \in {x \in Path : making /\ source[x] = "dir" /\ Listed(x)} <=>
            r \in Path /\ making /\ source[r] = "dir" /\ Listed(r)
    BY Zenon
  <1>3. r \in Made <=> \/ r \in UNION {Above(x) : x \in Copied}
                      \/ r \in {x \in Path : making /\ source[x] = "dir" /\ Listed(x)}
    BY Zenon DEF Made
  <1>4. QED
    BY <1>1, <1>2, <1>3, Zenon

\* The copying pass touches no hidden path, and leaves what the source has.
LEMMA CopyTouches ==
  ASSUME TypeOK, NEW p \in Copied \cup Made
  PROVE  /\ p \in Path /\ p \notin Hidden /\ Listed(p)
         /\ AfterCopy[p] = source[p]
         /\ p \in Made => source[p] = "dir" /\ p \notin Copied
PROOF
  <1>1. source \in Tree
    BY DEF TypeOK
  <1>2. ASSUME NEW r \in Copied PROVE r \in Path /\ source[r] \in Version /\ Included(r) /\ Listed(r)
    BY DEF Copied, Included, Listed
  <1>3. ASSUME NEW r \in Made
        PROVE  r \in Path /\ source[r] = "dir" /\ r \notin Hidden /\ Listed(r)
    <2>1. CASE r \in Path /\ making /\ source[r] = "dir" /\ Listed(r)
      BY <1>1, <2>1, TreeIs
    <2>2. CASE \E x \in Copied : r \in Above(x)
      <3>1. PICK x \in Copied : r \in Above(x)
        BY <2>2
      <3>2. r \in Path /\ x \in Below(r)
        BY <1>2, <3>1 DEF Above, Below
      <3>3. source[x] # "none"
        BY <1>2, Kinds
      <3>4. source[r] = "dir"
        BY <1>1, <1>2, <3>2, <3>3, TreeIs
      <3>5. r \notin Hidden
        BY <3>2, Kinds
      <3>6. QED
        BY <1>2, <3>2, <3>4, <3>5, ScopesReach
    <2>3. QED
      BY <2>1, <2>2, MadeIs
  <1>4. Made \cap Copied = {}
    BY <1>2, <1>3, Kinds
  <1>5. QED
    BY <1>2, <1>3, <1>4 DEF AfterCopy, Included

LEMMA CopyTree ==
  ASSUME TypeOK, ~Conflict
  PROVE  AfterCopy \in Tree
PROOF
  <1> DEFINE t == AfterCopy
  <1>1. source \in Tree /\ dest \in Tree
    BY DEF TypeOK
  <1>2. source \in [Path -> {"none", "dir"} \cup Version] /\ dest \in [Path -> {"none", "dir"} \cup Version]
    BY <1>1, TreeIs
  <1>3. t \in [Path -> {"none", "dir"} \cup Version]
    BY <1>2 DEF AfterCopy
  <1>4. \A p \in Path : p \notin Copied \cup Made => t[p] = dest[p]
    BY DEF AfterCopy
  <1>5. \A p \in Copied \cup Made : t[p] = source[p]
    BY CopyTouches
  <1>6. t[Root] = "dir"
    BY <1>1, <1>4, <1>5, Kinds, TreeIs
  <1>7. \A p \in Hidden : t[p] # "dir"
    BY <1>1, <1>4, <1>5, Kinds, TreeIs
  <1>8. ASSUME NEW p \in Path, NEW q \in Path, q \in Below(p), t[q] # "none"
        PROVE  t[p] = "dir"
    <2>1. p \in Above(q)
      BY <1>8 DEF Above, Below
    <2>2. CASE q \in Copied
      <3>1. p \in Made
        BY <2>1, <2>2, MadeIs
      <3>2. QED
        BY <1>5, <3>1, CopyTouches
    <2>3. CASE \E x \in Copied : q \in Above(x)
      <3>1. PICK x \in Copied : q \in Above(x)
        BY <2>3
      <3>2. x \in Path
        BY DEF Copied
      <3>3. p \in Above(x)
        BY <2>1, <3>1, <3>2, TreeOrder
      <3>4. p \in Made
        BY <3>3, MadeIs
      <3>5. QED
        BY <1>5, <3>4, CopyTouches
    <2>4. CASE making /\ source[q] = "dir" /\ Listed(q)
      <3>1. source[p] = "dir"
        BY <1>1, <1>8, <2>4, TreeIs
      <3>2. Listed(p)
        BY <1>8, <2>4, ScopesReach
      <3>3. p \in Made
        BY <2>4, <3>1, <3>2, MadeIs
      <3>4. QED
        BY <1>5, <3>3, CopyTouches
    <2>5. CASE q \notin Copied \cup Made
      <3>1. dest[p] = "dir"
        BY <1>1, <1>4, <1>8, <2>5, TreeIs
      <3>2. p \notin Copied
        BY <3>1 DEF Conflict
      <3>3. CASE p \in Made
        BY <1>5, <3>3, CopyTouches
      <3>4. CASE p \notin Made
        BY <1>4, <3>1, <3>2, <3>4
      <3>5. QED
        BY <3>3, <3>4
    <2>6. QED
      BY <2>2, <2>3, <2>4, <2>5, MadeIs
  <1>9. QED
    BY <1>3, <1>6, <1>7, <1>8, IsTreeIf

\* So does the deleting pass, which only takes what the source does not have in
\* the same form.
LEMMA DeleteTouches ==
  ASSUME TypeOK, NEW p \in Deleted \cup Pruned
  PROVE  /\ p \in Path /\ p \notin Hidden /\ Listed(p)
         /\ dest[p] # source[p] /\ dest[p] # "none"
         /\ p \in Deleted => dest[p] \in Version /\ Included(p)
         /\ p \in Pruned => dest[p] = "dir" /\ source[p] # "dir"
PROOF
  <1>1. dest \in Tree
    BY DEF TypeOK
  <1>2. CASE p \in Deleted
    BY <1>2, Kinds DEF Deleted, Pruned, Included, Listed
  <1>3. CASE p \in Pruned
    BY <1>1, <1>3, Kinds, TreeIs DEF Deleted, Pruned
  <1>4. QED
    BY <1>2, <1>3

\* A directory that the source lacks is kept only for a file below it that the
\* pass keeps.
LEMMA KeptFor ==
  ASSUME TypeOK, NEW p \in Path, dest[p] = "dir", Listed(p), source[p] # "dir", p \notin Pruned
  PROVE  \E q \in Below(p) :
             /\ dest[q] # "none" /\ q \notin Deleted
             /\ ~(dest[q] = "dir" /\ Listed(q))
  BY DEF Pruned

LEMMA DeleteTree ==
  ASSUME TypeOK
  PROVE  AfterDelete \in Tree
PROOF
  <1> DEFINE t == AfterDelete
  <1>1. source \in Tree /\ dest \in Tree
    BY DEF TypeOK
  <1>2. dest \in [Path -> {"none", "dir"} \cup Version]
    BY <1>1, TreeIs
  <1>3. t \in [Path -> {"none", "dir"} \cup Version]
    BY <1>2 DEF AfterDelete
  <1>4. \A p \in Path : t[p] = IF p \in Deleted \cup Pruned THEN "none" ELSE dest[p]
    BY DEF AfterDelete
  <1>5. t[Root] = "dir"
    BY <1>1, <1>4, DeleteTouches, Kinds, TreeIs
  <1>6. \A p \in Hidden : t[p] # "dir"
    BY <1>1, <1>4, Kinds, TreeIs
  <1>7. ASSUME NEW p \in Path, NEW q \in Path, q \in Below(p), t[q] # "none"
        PROVE  t[p] = "dir"
    <2>1. q \notin Deleted \cup Pruned /\ dest[q] # "none"
      BY <1>4, <1>7
    <2>2. dest[p] = "dir"
      BY <1>1, <1>7, <2>1, TreeIs
    <2>3. p \notin Deleted
      BY <2>2, Kinds DEF Deleted
    <2>4. ASSUME p \in Pruned PROVE FALSE
      <3>1. dest[q] = "dir" /\ Listed(q)
        BY <1>7, <2>1, <2>4 DEF Pruned
      <3>2. source[q] = "none"
        BY <1>1, <1>7, <2>4, DeleteTouches, TreeIs
      <3>3. PICK r \in Below(q) : /\ dest[r] # "none" /\ r \notin Deleted
                                  /\ ~(dest[r] = "dir" /\ Listed(r))
        BY <2>1, <3>1, <3>2, KeptFor
      <3>4. r \in Path /\ r \in Below(p)
        <4>1. r \in Path
          BY DEF Below
        <4>2. QED
          BY <1>7, <4>1, TreeOrder
      <3>5. QED
        BY <2>4, <3>3, <3>4 DEF Pruned
    <2>5. QED
      BY <1>4, <2>2, <2>3, <2>4
  <1>8. QED
    BY <1>3, <1>5, <1>6, <1>7, IsTreeIf

-----------------------------------------------------------------------------
(* What a pass, whole or in part, does to the destination *)

Effect(p) ==
    /\ p \notin Hidden /\ Listed(p)
    /\ \/ dest'[p] = source[p] /\ step = "copy" /\ p \in Copied \cup Made
       \/ dest'[p] = "none" /\ step = "delete" /\ p \in Deleted \cup Pruned

Pass == source' = source /\ \A p \in Path : dest'[p] = dest[p] \/ Effect(p)

LEMMA AfterDeleteIs ==
  ASSUME TypeOK, NEW p \in Path
  PROVE  AfterDelete[p] = IF p \in Deleted \cup Pruned THEN "none" ELSE dest[p]
  BY DEF AfterDelete

LEMMA AfterCopyIs ==
  ASSUME TypeOK, NEW p \in Path
  PROVE  AfterCopy[p] = IF p \in Copied \cup Made THEN source[p] ELSE dest[p]
PROOF
  <1>1. CASE p \in Copied \cup Made
    BY <1>1, CopyTouches
  <1>2. CASE p \notin Copied \cup Made
    BY <1>2 DEF AfterCopy
  <1>3. QED
    BY <1>1, <1>2

LEMMA DeletePass ==
  ASSUME TypeOK, step = "delete", source' = source,
         \A p \in Path : dest'[p] \in {dest[p], AfterDelete[p]}
  PROVE  Pass
  BY AfterDeleteIs, DeleteTouches DEF Pass, Effect

LEMMA CopyPass ==
  ASSUME TypeOK, step = "copy", source' = source,
         \A p \in Path : dest'[p] \in {dest[p], AfterCopy[p]}
  PROVE  Pass
  BY AfterCopyIs, CopyTouches DEF Pass, Effect

LEMMA FailPass ==
  ASSUME TypeOK, Fail
  PROVE  Pass /\ dest' \in Tree
PROOF
  <1> DEFINE full == CASE step = "delete" -> AfterDelete
                       [] step = "copy" -> AfterCopy
                       [] OTHER -> dest
  <1>1. PICK part \in SUBSET {p \in Path : full[p] # dest[p]} :
            /\ dest' = [p \in Path |-> IF p \in part THEN full[p] ELSE dest[p]]
            /\ IsTree(dest')
    BY DEF Fail
  <1>2. source' = source
    BY DEF Fail
  <1>3. \A p \in Path : dest'[p] \in {dest[p], full[p]}
    BY <1>1
  <1>4. source \in Tree /\ dest \in Tree
    BY DEF TypeOK
  <1>5. /\ source \in [Path -> {"none", "dir"} \cup Version]
        /\ dest \in [Path -> {"none", "dir"} \cup Version]
    BY <1>4, TreeIs
  <1>6. CASE step = "delete"
    <2>1. full = AfterDelete
      BY <1>6
    <2>2. \A p \in Path : AfterDelete[p] \in {"none", "dir"} \cup Version
      BY <1>5, AfterDeleteIs
    <2>3. dest' \in [Path -> {"none", "dir"} \cup Version]
      BY <1>1, <1>5, <2>1, <2>2
    <2>4. QED
      BY <1>1, <1>2, <1>3, <1>6, <2>1, <2>3, DeletePass DEF Tree
  <1>7. CASE step = "copy"
    <2>1. full = AfterCopy
      BY <1>7
    <2>2. \A p \in Path : AfterCopy[p] \in {"none", "dir"} \cup Version
      BY <1>5, AfterCopyIs
    <2>3. dest' \in [Path -> {"none", "dir"} \cup Version]
      BY <1>1, <1>5, <2>1, <2>2
    <2>4. QED
      BY <1>1, <1>2, <1>3, <1>7, <2>1, <2>3, CopyPass DEF Tree
  <1>8. CASE step \notin {"delete", "copy"}
    <2>1. full = dest
      BY <1>8
    <2>2. dest' = dest
      BY <1>1, <1>5, <2>1
    <2>3. QED
      BY <1>2, <1>4, <2>2 DEF Pass
  <1>9. QED
    BY <1>6, <1>7, <1>8

LEMMA PassOf ==
  ASSUME TypeOK, Delete \/ CopyFirst \/ CopyLast \/ Fail
  PROVE  Pass /\ dest' \in Tree
PROOF
  <1>1. CASE Delete
    <2>1. step = "delete" /\ source' = source /\ dest' = AfterDelete
      BY <1>1 DEF Delete
    <2>2. QED
      BY <2>1, DeletePass, DeleteTree
  <1>2. CASE CopyFirst \/ CopyLast
    <2>1. step = "copy" /\ source' = source /\ dest' = AfterCopy /\ ~Conflict
      BY <1>2 DEF CopyFirst, CopyLast
    <2>2. QED
      BY <2>1, CopyPass, CopyTree
  <1>3. QED
    BY <1>1, <1>2, FailPass

\* A pass never undoes an agreement.
LEMMA SettledStays ==
  ASSUME TypeOK, Pass, NEW p \in Path, Settled(p)
  PROVE  Settled(p)'
PROOF
  <1>1. CASE p \in Hidden
    BY <1>1 DEF Settled
  <1>2. CASE dest[p] = source[p]
    <2>1. dest'[p] = source[p]
      BY <1>2, DeleteTouches DEF Pass, Effect
    <2>2. QED
      BY <2>1 DEF Settled, Pass
  <1>3. CASE source[p] = "none" /\ Pinned(p)
    <2>1. PICK q \in Below(p) \cap Hidden : dest[q] \in Version
      BY <1>3 DEF Pinned
    <2>2. dest[p] = "dir" /\ q \in Path
      BY <1>3 DEF Pinned, Below
    <2>3. dest'[q] = dest[q]
      BY <2>1, <2>2 DEF Pass, Effect
    <2>4. dest'[p] \in {dest[p], "none"}
      BY <1>3 DEF Pass, Effect
    <2>5. source'[p] = "none"
      BY <1>3 DEF Pass
    <2>6. CASE dest'[p] = "none"
      BY <2>5, <2>6 DEF Settled
    <2>7. CASE dest'[p] = "dir"
      BY <2>1, <2>3, <2>5, <2>7 DEF Settled, Pinned
    <2>8. QED
      BY <2>2, <2>4, <2>6, <2>7
  <1>4. QED
    BY <1>1, <1>2, <1>3 DEF Settled

\* Neither does an edit elsewhere.
LEMMA SameAt ==
  ASSUME NEW p \in Path, source'[p] = source[p], dest' = dest
  PROVE  (Settled(p) => Settled(p)') /\ (Cleared(p) => Cleared(p)')
  BY DEF Settled, Cleared, Pinned

\* After the deleting pass a path in a scope is free for the copying one.
LEMMA DeleteClears ==
  ASSUME TypeOK, Delete, NEW p \in Path, InScope(p)
  PROVE  /\ Cleared(p)'
         /\ dest'[p] = "dir" /\ source[p] # "dir" => Pinned(p)'
PROOF
  <1>1. source' = source /\ dest' = AfterDelete /\ step = "delete"
    BY DEF Delete
  <1>2. source \in Tree /\ dest \in Tree
    BY DEF TypeOK
  <1>3. /\ source[p] \in {"none", "dir"} \cup Version
        /\ dest[p] \in {"none", "dir"} \cup Version
    BY <1>2, TreeIs
  <1>4. dest'[p] = IF p \in Deleted \cup Pruned THEN "none" ELSE dest[p]
    BY <1>1, AfterDeleteIs
  <1>5. Listed(p)
    BY DEF Listed
  <1>6. ASSUME dest'[p] = "dir", source[p] # "dir" PROVE Pinned(p)'
    <2>1. dest[p] = "dir" /\ p \notin Pruned
      BY <1>4, <1>6
    <2>2. PICK q \in Below(p) : /\ dest[q] # "none" /\ q \notin Deleted
                                /\ ~(dest[q] = "dir" /\ Listed(q))
      BY <1>5, <1>6, <2>1, KeptFor
    <2>3. q \in Path /\ InScope(q)
      BY ScopesReach DEF Below
    <2>4. dest[q] \in Version
      <3>1. dest[q] \in {"none", "dir"} \cup Version
        BY <1>2, <2>3, TreeIs
      <3>2. QED
        BY <2>2, <2>3, <3>1 DEF Listed
    <2>5. source[q] = "none"
      BY <1>2, <1>6, <2>3, TreeIs
    <2>6. q \in Hidden
      BY <2>2, <2>3, <2>4, <2>5, Kinds DEF Deleted, Included
    <2>7. dest'[q] = dest[q]
      <3>1. q \notin Deleted \cup Pruned
        BY <2>6, DeleteTouches
      <3>2. QED
        BY <1>1, <2>3, <3>1, AfterDeleteIs
    <2>8. QED
      BY <1>6, <2>4, <2>6, <2>7 DEF Pinned
  <1>7. CASE p \in Hidden
    BY <1>6, <1>7 DEF Cleared, Settled
  <1>8. CASE p \notin Hidden
    <2>1. Included(p)
      BY <1>8 DEF Included
    <2>2. source[p] \notin Version => dest'[p] \notin Version
      BY <1>3, <1>4, <2>1, Kinds DEF Deleted
    <2>3. dest'[p] \in {"none", "dir"} \cup Version
      BY <1>3, <1>4
    <2>4. CASE source[p] = "none"
      BY <1>1, <1>6, <2>2, <2>3, <2>4, Kinds DEF Cleared, Settled
    <2>5. CASE source[p] # "none"
      BY <1>1, <1>3, <1>6, <2>2, <2>5 DEF Cleared
    <2>6. QED
      BY <2>4, <2>5
  <1>9. QED
    BY <1>6, <1>7, <1>8

-----------------------------------------------------------------------------
(* The invariant is inductive *)

\* A path that no edit has touched has no touched path above it.
LEMMA UntouchedAbove ==
  ASSUME IInv, NEW s \in Path, NEW p \in Path, IsPrefix(s, p), p \notin touched
  PROVE  s \notin touched
  BY TreeOrder DEF IInv, BatchInv, TouchedIsKnown

\* The copying pass of its group settles a path that no edit has touched.
LEMMA CopySettles ==
  ASSUME IInv, CopyFirst \/ CopyLast, NEW s \in group, NEW p \in Path,
         IsPrefix(s, p), p \notin touched, Cleared(p)
  PROVE  Settled(p)'
PROOF
  <1>1. step = "copy" /\ source' = source /\ dest' = AfterCopy
    BY DEF CopyFirst, CopyLast
  <1>2. TypeOK /\ source \in Tree /\ s \in Path
    BY DEF IInv, TypeOK
  <1>3. InScope(p)
    BY DEF InScope
  <1>4. dest'[p] = IF p \in Copied \cup Made THEN source[p] ELSE dest[p]
    BY <1>1, <1>2, AfterCopyIs
  <1>5. CASE source[p] \in Version
    <2>1. CASE p \in Hidden
      BY <2>1 DEF Settled
    <2>2. CASE p \notin Hidden
      <3>1. p \in Copied
        BY <1>3, <1>5, <2>2 DEF Copied, Included
      <3>2. QED
        BY <1>1, <1>4, <3>1 DEF Settled
    <2>3. QED
      BY <2>1, <2>2
  <1>6. CASE source[p] = "dir"
    <2>1. making
      <3>1. SUFFICES ASSUME ~making PROVE FALSE
        OBVIOUS
      <3>2. s \notin touched
        BY <1>2, UntouchedAbove
      <3>3. source[s] = "none"
        BY <1>1, <3>1, <3>2 DEF IInv, BatchInv, GroupIsDeleted
      <3>4. s = p \/ p \in Below(s)
        BY <1>2, TreeOrder
      <3>5. QED
        BY <1>2, <1>6, <3>3, <3>4, TreeIs
    <2>2. p \in Made
      BY <1>3, <1>6, <2>1, MadeIs DEF Listed
    <2>3. QED
      BY <1>1, <1>4, <2>2 DEF Settled
  <1>7. CASE Settled(p)
    BY <1>2, <1>7, PassOf, SettledStays
  <1>8. QED
    BY <1>5, <1>6, <1>7 DEF Cleared

LEMMA InitIInv == Init => IInv
PROOF
  <1>1. SUFFICES ASSUME Init PROVE IInv
    OBVIOUS
  <1>2. TypeOK
    <2>1. source \in Tree /\ dest \in Tree /\ changed \subseteq Path \ State
      <3>1. CASE AnyDest
        BY <1>1, <3>1 DEF Init
      <3>2. CASE ~AnyDest
        BY <1>1, <3>2 DEF Init
      <3>3. QED
        BY <3>1, <3>2
    <2>2. edits \in 0..MaxEdits
      BY <1>1, ScopesAssumption DEF Init
    <2>3. QED
      BY <1>1, <2>1, <2>2 DEF Init, TypeOK
  <1>3. BatchInv
    BY <1>1 DEF Init, BatchInv, Idle, TouchedIsKnown, ScopesCover, ScopesAreExact,
                GroupIsDeleted, Progress, DeletePassed
  <1>4. QED
    BY <1>2, <1>3 DEF IInv

\* An edit changes nothing outside the paths that it touches, and all of these
\* are hidden or reported.
LEMMA EditInv ==
  ASSUME IInv, NEW e \in Path, Edit(e)
  PROVE  IInv'
PROOF
  <1>1. TypeOK /\ BatchInv
    BY DEF IInv
  <1>2. PICK t \in Tree :
            /\ \A q \in Path : t[q] # source[q] => IsPrefix(e, q)
            /\ source' = t
            /\ \E report \in {{e} \cup {q \in Below(e) : t[q] # "none"}, {Root}} :
                   changed' = changed \cup (report \ State)
    BY DEF Edit
  <1>3. /\ dest' = dest /\ batch' = batch /\ scopes' = scopes /\ step' = step
        /\ group' = group /\ queued' = queued /\ making' = making
        /\ edits < MaxEdits /\ edits' = edits + 1
        /\ touched' = IF step = "idle" THEN {} ELSE touched \cup {e} \cup Below(e)
    BY DEF Edit, syncVars
  <1>4. changed \subseteq changed' /\ changed' \subseteq Path \ State
    <2>1. PICK report \in {{e} \cup {q \in Below(e) : t[q] # "none"}, {Root}} :
                   changed' = changed \cup (report \ State)
      BY <1>2
    <2>2. report \subseteq Path
      BY Kinds DEF Below
    <2>3. QED
      BY <1>1, <2>1, <2>2 DEF TypeOK
  <1>5. e \in State \/ (\E c \in changed' : c \in {e, Root})
    BY <1>2, Kinds DEF Hidden
  <1>6. TypeOK'
    <2>1. edits' \in 0..MaxEdits
      BY <1>1, <1>3, ScopesAssumption DEF TypeOK
    <2>2. touched' \subseteq Path
      BY <1>1, <1>3 DEF TypeOK, Below
    <2>3. QED
      BY <1>1, <1>2, <1>3, <1>4, <2>1, <2>2 DEF TypeOK
  <1>7. Idle'
    BY <1>1, <1>3 DEF BatchInv, Idle
  <1>8. CASE step = "idle"
    <2>1. /\ batch' = {} /\ scopes' = {} /\ group' = {} /\ touched' = {}
          /\ step' = "idle"
      BY <1>1, <1>3, <1>8 DEF BatchInv, Idle
    <2>2. BatchInv'
      BY <1>7, <2>1 DEF BatchInv, TouchedIsKnown, ScopesCover, ScopesAreExact,
                        GroupIsDeleted, Progress, DeletePassed
    <2>3. QED
      BY <1>6, <2>2 DEF IInv
  <1>9. CASE step # "idle"
    <2>1. touched' = touched \cup {e} \cup Below(e)
      BY <1>3, <1>9
    <2>2. \A q \in Path : q \notin touched' => source'[q] = source[q] /\ q \notin touched
      BY <1>2, <2>1, TreeOrder
    <2>3. TouchedIsKnown'
      <3>1. SUFFICES ASSUME NEW p \in touched'
                     PROVE  (p \in Hidden \/ Known(p)') /\ Below(p) \subseteq touched'
        BY DEF TouchedIsKnown
      <3>2. p \in Path
        BY <1>6 DEF TypeOK
      <3>3. CASE p \in touched
        BY <1>1, <1>4, <2>1, <3>3 DEF BatchInv, TouchedIsKnown, Known
      <3>4. CASE p \in {e} \cup Below(e)
        <4>1. IsPrefix(e, p) /\ IsPrefix(Root, p)
          BY <3>2, <3>4, PrefixOrder, TreeOrder
        <4>2. Below(p) \subseteq {e} \cup Below(e)
          <5>1. \A q \in Below(p) : q \in Path
            BY DEF Below
          <5>2. QED
            BY <3>2, <3>4, <5>1, TreeOrder
        <4>3. e \in State => p \in Hidden
          BY <3>4, Kinds DEF Hidden
        <4>4. QED
          BY <1>5, <2>1, <4>1, <4>2, <4>3 DEF Known
      <3>5. QED
        BY <2>1, <3>3, <3>4
    <2>4. ScopesCover'
      BY <1>1, <1>3 DEF BatchInv, ScopesCover
    <2>5. touched' # {}
      BY <2>1
    <2>6. ScopesAreExact' /\ DeletePassed'
      BY <2>5 DEF ScopesAreExact, DeletePassed
    <2>7. GroupIsDeleted'
      <3>1. group \subseteq Path
        BY <1>1, GroupInPath
      <3>2. QED
        BY <1>1, <1>3, <2>1, <2>2, <3>1 DEF BatchInv, GroupIsDeleted
    <2>8. Progress'
      <3>1. SUFFICES ASSUME NEW s \in scopes', NEW p \in Path, IsPrefix(s, p), p \notin touched'
                     PROVE  Handled(s, p)'
        BY DEF Progress
      <3>2. Handled(s, p)
        BY <1>1, <1>3, <2>2, <3>1 DEF BatchInv, Progress
      <3>3. (Settled(p) => Settled(p)') /\ (Cleared(p) => Cleared(p)')
        BY <1>3, <2>2, <3>1, SameAt
      <3>4. QED
        BY <1>3, <3>2, <3>3 DEF Handled
    <2>9. BatchInv'
      BY <1>7, <2>3, <2>4, <2>6, <2>7, <2>8 DEF BatchInv
    <2>10. QED
      BY <1>6, <2>9 DEF IInv
  <1>10. QED
    BY <1>8, <1>9

\* The scopes of a batch that begins are exact.
LEMMA BeginInv ==
  ASSUME IInv, Begin
  PROVE  IInv' /\ step' = "scoped" /\ changed \cup batch \subseteq changed' \cup batch'
PROOF
  <1>1. TypeOK /\ BatchInv
    BY DEF IInv
  <1>2. PICK arrived \in SUBSET changed :
            /\ arrived # {}
            /\ scopes' = reconciliationScopes(arrived)
            /\ changed' = changed \ arrived
            /\ IF scopes' = {} THEN UNCHANGED <<step, batch>>
                               ELSE step' = "scoped" /\ batch' = arrived
    BY DEF Begin
  <1>3. /\ step = "idle" /\ source' = source /\ dest' = dest /\ group' = group
        /\ queued' = queued /\ making' = making /\ edits' = edits /\ touched' = touched
    BY DEF Begin
  <1>4. batch = {} /\ group = {} /\ queued = {} /\ touched = {}
    BY <1>1, <1>3 DEF BatchInv, Idle
  <1>5. arrived \in SUBSET (Path \ State)
    BY <1>1 DEF TypeOK
  <1>6. /\ scopes' \subseteq Path \ State
        /\ \A s, t \in scopes' : ~IsStrictPrefix(s, t)
        /\ \A s \in scopes' : \A q \in Above(s) : source[q] = "dir"
        /\ \A p \in arrived : \E s \in scopes' : IsPrefix(s, p)
        /\ \A s \in scopes' : \E p \in arrived :
               /\ IsPrefix(s, p)
               /\ \/ s = p
                  \/ source[s] # "dir"
                  \/ SubSeq(p, 1, Len(s) + 1) \in Invalid
    BY <1>2, <1>5, ScopesOf
  <1>7. step' = "scoped" /\ batch' = arrived
    BY <1>2, <1>6
  <1>8. TypeOK'
    BY <1>1, <1>2, <1>3, <1>4, <1>5, <1>6, <1>7 DEF TypeOK
  <1>9. Idle' /\ TouchedIsKnown'
    BY <1>3, <1>4, <1>7 DEF Idle, TouchedIsKnown
  <1>10. ScopesCover'
    BY <1>6, <1>7 DEF ScopesCover
  <1>11. ScopesAreExact'
    BY <1>3, <1>6, <1>7 DEF ScopesAreExact
  <1>12. GroupIsDeleted' /\ Progress' /\ DeletePassed'
    BY <1>7 DEF GroupIsDeleted, Progress, Handled, DeletePassed
  <1>13. QED
    BY <1>2, <1>4, <1>7, <1>8, <1>9, <1>10, <1>11, <1>12 DEF IInv, BatchInv

\* The groups of syncScopes: what the source lacks now, and the rest.
LEMMA syncScopesInv ==
  ASSUME IInv, syncScopes
  PROVE  IInv'
PROOF
  <1> DEFINE deleted == {s \in scopes : source[s] = "none"}
  <1>1. TypeOK /\ BatchInv
    BY DEF IInv
  <1>2. /\ step = "scoped" /\ step' = "delete" /\ source' = source /\ dest' = dest
        /\ changed' = changed /\ batch' = batch /\ scopes' = scopes
        /\ edits' = edits /\ touched' = touched
    BY DEF syncScopes
  <1>3. \/ deleted = {} /\ group' = scopes /\ queued' = {} /\ making' = (scopes \cap deleted = {})
        \/ /\ deleted # {} /\ group' = deleted /\ queued' = scopes \ deleted
           /\ making' = (deleted \cap deleted = {})
    BY DEF syncScopes
  <1>4. \/ deleted = {} /\ group' = scopes /\ queued' = {} /\ making' = TRUE
        \/ group' = deleted /\ queued' = scopes \ deleted /\ making' = FALSE
    BY <1>3
  <1>5. group' \subseteq scopes /\ queued' \subseteq scopes \ group' /\ making' \in BOOLEAN
    BY <1>4
  <1>6. TypeOK'
    BY <1>1, <1>2, <1>5 DEF TypeOK
  <1>7. Idle' /\ TouchedIsKnown' /\ ScopesCover'
    BY <1>1, <1>2 DEF BatchInv, Idle, TouchedIsKnown, Known, ScopesCover
  <1>8. ScopesAreExact'
    BY <1>1, <1>2 DEF BatchInv, ScopesAreExact
  <1>9. GroupIsDeleted'
    BY <1>2, <1>4 DEF GroupIsDeleted
  <1>10. Progress'
    BY <1>2, <1>4 DEF Progress, Handled
  <1>11. DeletePassed'
    BY <1>2 DEF DeletePassed
  <1>12. QED
    BY <1>6, <1>7, <1>8, <1>9, <1>10, <1>11 DEF IInv, BatchInv

LEMMA DeleteInv ==
  ASSUME IInv, Delete
  PROVE  IInv'
PROOF
  <1>1. TypeOK /\ BatchInv
    BY DEF IInv
  <1>2. /\ step = "delete" /\ step' = "copy" /\ dest' = AfterDelete /\ source' = source
        /\ changed' = changed /\ batch' = batch /\ scopes' = scopes /\ group' = group
        /\ queued' = queued /\ making' = making /\ edits' = edits /\ touched' = touched
    BY DEF Delete
  <1>3. Pass /\ dest' \in Tree
    BY <1>1, PassOf
  <1>4. TypeOK'
    BY <1>1, <1>2, <1>3 DEF TypeOK
  <1>5. Idle' /\ TouchedIsKnown' /\ ScopesCover'
    BY <1>1, <1>2 DEF BatchInv, Idle, TouchedIsKnown, Known, ScopesCover
  <1>6. ScopesAreExact'
    BY <1>1, <1>2 DEF BatchInv, ScopesAreExact
  <1>7. GroupIsDeleted'
    BY <1>1, <1>2 DEF BatchInv, GroupIsDeleted
  <1>8. Progress'
    <2>1. SUFFICES ASSUME NEW s \in scopes, NEW p \in Path, IsPrefix(s, p), p \notin touched
                   PROVE  s \in queued \/ (s \in group /\ Cleared(p)') \/ Settled(p)'
      BY <1>2 DEF Progress, Handled
    <2>2. s \in group \cup queued \/ Settled(p)
      BY <1>1, <1>2, <2>1 DEF BatchInv, Progress, Handled
    <2>3. CASE s \in group
      BY <1>1, <2>1, <2>3, DeleteClears DEF InScope
    <2>4. CASE Settled(p)
      BY <1>1, <1>3, <2>4, SettledStays
    <2>5. QED
      BY <2>2, <2>3, <2>4
  <1>9. DeletePassed'
    <2>1. SUFFICES ASSUME NEW p \in Path
                   PROVE  /\ dest'[p] \in Version /\ Included(p)' => source'[p] \in Version
                          /\ dest'[p] = "dir" /\ InScope(p)' /\ source'[p] \in Version
                                => Pinned(p)'
      BY DEF DeletePassed
    <2>2. (Included(p)' <=> Included(p)) /\ (InScope(p)' <=> InScope(p))
      BY <1>2 DEF Included, InScope, OverScope
    <2>3. dest'[p] \in Version /\ Included(p) => source[p] \in Version
      <3>1. dest'[p] = IF p \in Deleted \cup Pruned THEN "none" ELSE dest[p]
        BY <1>1, <1>2, AfterDeleteIs
      <3>2. QED
        BY <3>1, Kinds DEF Deleted
    <2>4. dest'[p] = "dir" /\ InScope(p) /\ source[p] \in Version => Pinned(p)'
      BY <1>1, Kinds, DeleteClears
    <2>5. QED
      BY <1>2, <2>2, <2>3, <2>4
  <1>10. QED
    BY <1>4, <1>5, <1>6, <1>7, <1>8, <1>9 DEF IInv, BatchInv

LEMMA CopyFirstInv ==
  ASSUME IInv, CopyFirst
  PROVE  IInv'
PROOF
  <1>1. TypeOK /\ BatchInv
    BY DEF IInv
  <1>2. /\ step = "copy" /\ step' = "delete" /\ source' = source /\ changed' = changed
        /\ batch' = batch /\ scopes' = scopes /\ group' = queued /\ queued' = {}
        /\ making' = TRUE /\ edits' = edits /\ touched' = touched
    BY DEF CopyFirst
  <1>3. Pass /\ dest' \in Tree
    BY <1>1, PassOf
  <1>4. TypeOK'
    BY <1>1, <1>2, <1>3 DEF TypeOK
  <1>5. Idle' /\ TouchedIsKnown' /\ ScopesCover'
    BY <1>1, <1>2 DEF BatchInv, Idle, TouchedIsKnown, Known, ScopesCover
  <1>6. ScopesAreExact'
    BY <1>1, <1>2 DEF BatchInv, ScopesAreExact
  <1>7. GroupIsDeleted' /\ DeletePassed'
    BY <1>2 DEF GroupIsDeleted, DeletePassed
  <1>8. Progress'
    <2>1. SUFFICES ASSUME NEW s \in scopes, NEW p \in Path, IsPrefix(s, p), p \notin touched
                   PROVE  s \in queued \/ Settled(p)'
      BY <1>2 DEF Progress, Handled
    <2>2. s \in queued \/ (s \in group /\ Cleared(p)) \/ Settled(p)
      BY <1>1, <1>2, <2>1 DEF BatchInv, Progress, Handled
    <2>3. QED
      BY <1>1, <1>3, <2>1, <2>2, CopySettles, SettledStays
  <1>9. QED
    BY <1>4, <1>5, <1>6, <1>7, <1>8 DEF IInv, BatchInv

LEMMA ResetInv ==
  ASSUME IInv, Reset, source' = source, edits' = edits, dest' \in Tree,
         changed' \in {changed, changed \cup batch}
  PROVE  IInv'
PROOF
  <1>1. /\ step' = "idle" /\ batch' = {} /\ scopes' = {} /\ group' = {} /\ queued' = {}
        /\ making' = FALSE /\ touched' = {}
    BY DEF Reset
  <1>2. TypeOK'
    BY <1>1 DEF IInv, TypeOK
  <1>3. BatchInv'
    BY <1>1 DEF BatchInv, Idle, TouchedIsKnown, ScopesCover, ScopesAreExact,
                GroupIsDeleted, Progress, DeletePassed
  <1>4. QED
    BY <1>2, <1>3 DEF IInv

LEMMA NextInv ==
  ASSUME IInv, [Next]_vars
  PROVE  IInv'
PROOF
  <1>1. ASSUME NEW e \in Path, Edit(e) PROVE IInv'
    BY <1>1, EditInv
  <1>2. CASE CopyLast
    <2>1. dest' \in Tree
      BY <1>2, PassOf DEF IInv
    <2>2. QED
      BY <1>2, <2>1, ResetInv DEF CopyLast
  <1>3. CASE Fail
    <2>1. dest' \in Tree
      BY <1>3, PassOf DEF IInv
    <2>2. QED
      BY <1>3, <2>1, ResetInv DEF Fail, Requeued
  <1>4. CASE UNCHANGED vars
    <2>1. TypeOK'
      BY <1>4 DEF vars, syncVars, IInv, TypeOK
    <2>2. Idle' /\ TouchedIsKnown' /\ ScopesCover'
      BY <1>4 DEF vars, syncVars, IInv, BatchInv, Idle, TouchedIsKnown, Known, ScopesCover
    <2>3. ScopesAreExact' /\ GroupIsDeleted'
      BY <1>4 DEF vars, syncVars, IInv, BatchInv, ScopesAreExact, GroupIsDeleted
    <2>4. Progress'
      BY <1>4 DEF vars, syncVars, IInv, BatchInv, Progress, Handled, Cleared, Settled, Pinned
    <2>5. DeletePassed'
      BY <1>4 DEF vars, syncVars, IInv, BatchInv, DeletePassed, Included, InScope,
                  OverScope, Pinned
    <2>6. QED
      BY <2>1, <2>2, <2>3, <2>4, <2>5 DEF IInv, BatchInv
  <1>5. QED
    BY <1>1, <1>2, <1>3, <1>4, BeginInv, syncScopesInv, DeleteInv, CopyFirstInv
       DEF Next, Done

LEMMA Inductive == Spec => []IInv
PROOF
  <1>1. IInv /\ [Next]_vars => IInv'
    BY NextInv
  <1>2. QED
    BY InitIInv, <1>1, PTL DEF Spec

-----------------------------------------------------------------------------
(* The theorems *)

\* Every variable keeps its type and the destination stays a tree: no pass of
\* rclone, whole or in part, leaves a file below a file or a path without its
\* directory.
THEOREM TypeCorrect == Spec => []TypeOK
PROOF
  <1>1. IInv => TypeOK
    BY DEF IInv
  <1>2. QED
    BY Inductive, <1>1, PTL

\* For every batch, tree and set of invalid names the scopes of
\* reconciliationScopes cover the batch, no more than needed and without overlap.
THEOREM Scopes == Spec => []ScopesAreExact
PROOF
  <1>1. IInv => ScopesAreExact
    BY DEF IInv, BatchInv
  <1>2. QED
    BY Inductive, <1>1, PTL

\* While the source stands still only a file that no filter includes can make
\* a sync fail on a file in the place of a directory, or the other way round:
\* --delete-before has taken everything else away.
THEOREM Converges == Spec => []ReplacementsConverge
PROOF
  <1>1. IInv => ReplacementsConverge
    <2>1. SUFFICES ASSUME IInv, step = "copy", Conflict, touched = {}
                   PROVE  \E p \in Path : source[p] \in Version /\ Pinned(p)
      BY DEF ReplacementsConverge
    <2>2. TypeOK /\ source \in Tree
      BY <2>1 DEF IInv, TypeOK
    <2>3. group \subseteq Path /\ group \subseteq scopes
      BY <2>2 DEF TypeOK
    <2>4. \A s \in scopes : \A q \in Above(s) : source[q] = "dir"
      BY <2>1 DEF IInv, BatchInv, ScopesAreExact
    <2>5. \A p \in Path :
              /\ dest[p] \in Version /\ Included(p) => source[p] \in Version
              /\ dest[p] = "dir" /\ InScope(p) /\ source[p] \in Version => Pinned(p)
      BY <2>1 DEF IInv, BatchInv, DeletePassed
    <2>6. ASSUME NEW r \in Copied PROVE making /\ InScope(r)
      <3>1. r \in Path /\ source[r] \in Version /\ Included(r)
        BY DEF Copied
      <3>2. ~OverScope(r)
        <4>1. SUFFICES ASSUME NEW s \in group, IsStrictPrefix(r, s) PROVE FALSE
          BY DEF OverScope
        <4>2. r \in Above(s)
          BY <3>1, <4>1 DEF Above
        <4>3. QED
          BY <2>3, <2>4, <3>1, <4>2, Kinds
      <3>3. PICK s \in group : IsPrefix(s, r)
        BY <3>1, <3>2 DEF Included, InScope
      <3>4. source[s] # "none"
        <4>1. s = r \/ r \in Below(s)
          BY <2>3, <3>1, <3>3, TreeOrder
        <4>2. QED
          BY <2>2, <2>3, <3>1, <4>1, Kinds, TreeIs
      <3>5. making
        BY <2>1, <3>4 DEF IInv, BatchInv, GroupIsDeleted
      <3>6. QED
        BY <3>3, <3>5 DEF InScope
    <2>7. ASSUME NEW p \in Made, dest[p] \in Version PROVE FALSE
      <3>1. p \in Path /\ p \notin Hidden /\ Listed(p) /\ source[p] = "dir"
        BY <2>2, CopyTouches
      <3>2. making
        BY <2>6, MadeIs
      <3>3. Included(p)
        BY <3>1, <3>2 DEF Included, Listed
      <3>4. QED
        BY <2>5, <2>7, <3>1, <3>3, Kinds
    <2>8. PICK p \in Copied : dest[p] = "dir"
      BY <2>1, <2>7 DEF Conflict
    <2>9. p \in Path /\ source[p] \in Version /\ InScope(p)
      BY <2>6 DEF Copied
    <2>10. QED
      BY <2>5, <2>8, <2>9
  <1>2. QED
    BY Inductive, <1>1, PTL

\* The last copying pass has handled every scope of the batch.
LEMMA CopyLastSettles ==
  ASSUME IInv, CopyLast, NEW b \in batch, NEW p \in Path, IsPrefix(b, p), p \notin touched
  PROVE  Settled(p)'
PROOF
  <1>1. TypeOK /\ step = "copy" /\ queued = {}
    BY DEF IInv, CopyLast
  <1>2. PICK s \in scopes : IsPrefix(s, b)
    BY DEF IInv, BatchInv, ScopesCover
  <1>3. s \in Path /\ b \in Path
    BY <1>1 DEF TypeOK
  <1>4. IsPrefix(s, p)
    BY <1>2, <1>3, PrefixOrder
  <1>5. (s \in group /\ Cleared(p)) \/ Settled(p)
    BY <1>1, <1>4 DEF IInv, BatchInv, Progress, Handled
  <1>6. QED
    BY <1>1, <1>4, <1>5, CopySettles, PassOf, SettledStays

\* A batch that succeeds makes the two sides agree at and below each of its
\* paths, except where an edit came during the batch, whatever the destination
\* had before and whatever else was edited.
THEOREM Agrees == Spec => SyncedPathsAgree
PROOF
  <1>1. ASSUME IInv, CopyLast
        PROVE  \A b \in batch : \A p \in {b} \cup Below(b) : p \in touched \/ Settled(p)'
    <2>1. \A b \in batch : b \in Path
      BY <1>1 DEF IInv, TypeOK
    <2>2. \A b \in batch : \A p \in {b} \cup Below(b) : p \in Path /\ IsPrefix(b, p)
      BY <2>1, PrefixOrder DEF Below, IsStrictPrefix
    <2>3. QED
      BY <1>1, <2>2, CopyLastSettles
  <1>2. IInv /\ [Next]_vars =>
            [CopyLast => \A b \in batch : \A p \in {b} \cup Below(b) :
                             p \in touched \/ Settled(p)']_vars
    BY <1>1
  <1>3. QED
    BY Inductive, <1>2, PTL DEF Spec, SyncedPathsAgree

\* The passes over deleted scopes delete within these scopes and nothing else,
\* while the source stands still; a failing pass too.
THEOREM OnlyDeletes == Spec => DeletionsOnlyDelete
PROOF
  <1>1. ASSUME IInv, Next, ~making, step \in {"delete", "copy"}, touched = {}, NEW p \in Path
        PROVE  dest'[p] = dest[p] \/ (dest'[p] = "none" /\ InScope(p))
    <2>1. TypeOK /\ source \in Tree /\ dest \in Tree
      BY <1>1 DEF IInv, TypeOK
    <2>2. group \subseteq Path /\ group \subseteq scopes
      BY <2>1 DEF TypeOK
    <2>3. \A s \in group : source[s] = "none" /\ \A q \in Above(s) : source[q] = "dir"
      BY <1>1, <2>2 DEF IInv, BatchInv, ScopesAreExact, GroupIsDeleted
    <2>4. \A q \in Path : OverScope(q) => source[q] = "dir"
      BY <2>3 DEF OverScope, Above
    <2>5. \A q \in Path : InScope(q) => source[q] = "none"
      <3>1. SUFFICES ASSUME NEW q \in Path, NEW s \in group, IsPrefix(s, q)
                     PROVE  source[q] = "none"
        BY DEF InScope
      <3>2. s \in Path /\ (s = q \/ q \in Below(s))
        BY <2>2, <3>1, TreeOrder
      <3>3. QED
        BY <2>1, <2>3, <3>1, <3>2, TreeIs
    <2>6. Copied = {}
      BY <1>1, <2>5, Kinds DEF Copied, Included
    <2>7. Made = {}
      BY <1>1, <2>6, MadeIs
    <2>8. Effect(p) => dest'[p] = "none" /\ InScope(p)
      <3>1. SUFFICES ASSUME p \in Deleted \cup Pruned PROVE InScope(p)
        BY <2>6, <2>7 DEF Effect
      <3>2. CASE p \in Deleted
        BY <1>1, <3>2 DEF Deleted, Included
      <3>3. CASE p \in Pruned
        BY <2>4, <3>3 DEF Pruned, Listed
      <3>4. QED
        BY <3>1, <3>2, <3>3
    <2>9. dest' = dest \/ Pass
      <3>1. (\E e \in Path : Edit(e)) \/ Begin \/ syncScopes \/ Done => dest' = dest
        BY DEF Edit, Begin, syncScopes, Done, vars
      <3>2. QED
        BY <1>1, <2>1, <3>1, PassOf DEF Next
    <2>10. QED
      BY <2>8, <2>9 DEF Pass
  <1>2. IInv /\ [Next]_vars =>
            [~making /\ step \in {"delete", "copy"} /\ touched = {} =>
                \A p \in Path :
                    dest'[p] = dest[p] \/ (dest'[p] = "none" /\ InScope(p))]_vars
    BY <1>1
  <1>3. QED
    BY Inductive, <1>2, PTL DEF Spec, DeletionsOnlyDelete

\* No pass touches a state file, an excluded file or a path that has nothing to
\* do with the batch or with the widened scope of one of its paths.
THEOREM Spares == Spec => NoCollateral
PROOF
  <1>1. ASSUME IInv, Next, NEW p \in Path, dest'[p] # dest[p]
        PROVE  /\ p \notin Hidden
               /\ \/ \E b \in batch : IsPrefix(b, p) \/ IsPrefix(p, b)
                  \/ \E s \in scopes : IsPrefix(s, p) /\ dest'[p] \in {"none", source[p]}
    <2>1. TypeOK
      BY <1>1 DEF IInv
    <2>2. Pass
      <3>1. (\E e \in Path : Edit(e)) \/ Begin \/ syncScopes \/ Done => dest' = dest
        BY DEF Edit, Begin, syncScopes, Done, vars
      <3>2. QED
        BY <1>1, <2>1, <3>1, PassOf DEF Next
    <2>3. p \notin Hidden /\ Listed(p) /\ dest'[p] \in {"none", source[p]}
      BY <1>1, <2>2 DEF Pass, Effect
    <2>4. PICK s \in group : IsPrefix(s, p) \/ IsPrefix(p, s)
      BY <2>3 DEF Listed, InScope, OverScope, IsStrictPrefix
    <2>5. s \in scopes /\ s \in Path
      BY <2>1, <2>4 DEF TypeOK
    <2>6. CASE IsPrefix(s, p)
      BY <2>3, <2>5, <2>6
    <2>7. CASE IsPrefix(p, s)
      <3>1. PICK b \in batch : IsPrefix(s, b)
        BY <1>1, <2>5 DEF IInv, BatchInv, ScopesCover
      <3>2. b \in Path
        BY <2>1 DEF TypeOK
      <3>3. IsPrefix(p, b)
        BY <2>5, <2>7, <3>1, <3>2, PrefixOrder
      <3>4. QED
        BY <2>3, <3>3
    <2>8. QED
      BY <2>4, <2>6, <2>7
  <1>2. IInv /\ [Next]_vars =>
            [\A p \in {q \in Path : dest'[q] # dest[q]} :
                /\ p \notin Hidden
                /\ \/ \E b \in batch : IsPrefix(b, p) \/ IsPrefix(p, b)
                   \/ \E s \in scopes :
                          IsPrefix(s, p) /\ dest'[p] \in {"none", source[p]}]_vars
    BY <1>1
  <1>3. QED
    BY Inductive, <1>2, PTL DEF Spec, NoCollateral

\* When the two sides agree at first, every later difference is at or below a
\* path that is pending or in the batch at work, whatever the order of edits,
\* late reports, passes and failures.
THEOREM Remembers ==
  ASSUME ~AnyDest
  PROVE  Spec => []NothingForgotten
PROOF
  <1>1. Init => NothingForgotten
    BY DEF Init, NothingForgotten, Settled
  <1>2. ASSUME IInv, NothingForgotten, [Next]_vars PROVE NothingForgotten'
    <2>1. TypeOK
      BY <1>2 DEF IInv
    <2>2. ASSUME Pass, changed \cup batch \subseteq changed' \cup batch'
          PROVE  NothingForgotten'
      BY <1>2, <2>1, <2>2, SettledStays DEF NothingForgotten
    <2>3. ASSUME NEW e \in Path, Edit(e) PROVE NothingForgotten'
      <3>1. SUFFICES ASSUME NEW p \in Path
                     PROVE  Settled(p)' \/ \E c \in changed' \cup batch' : IsPrefix(c, p)
        BY DEF NothingForgotten
      <3>2. PICK t \in Tree :
                /\ \A q \in Path : t[q] # source[q] => IsPrefix(e, q)
                /\ source' = t
                /\ \E report \in {{e} \cup {q \in Below(e) : t[q] # "none"}, {Root}} :
                       changed' = changed \cup (report \ State)
        BY <2>3 DEF Edit
      <3>3. dest' = dest /\ batch' = batch /\ changed \subseteq changed'
        BY <2>3, <3>2 DEF Edit, syncVars
      <3>4. CASE source'[p] = source[p]
        BY <1>2, <3>3, <3>4, SameAt DEF NothingForgotten
      <3>5. CASE source'[p] # source[p]
        <4>1. IsPrefix(e, p) /\ IsPrefix(Root, p)
          BY <3>2, <3>5, PrefixOrder
        <4>2. CASE e \in State
          <5>1. p = e
            BY <4>1, <4>2, Kinds, TreeOrder DEF Hidden
          <5>2. QED
            BY <4>2, <5>1 DEF Settled, Hidden
        <4>3. CASE e \notin State
          <5>1. e \in changed' \/ Root \in changed'
            BY <3>2, <4>3, Kinds DEF Hidden
          <5>2. QED
            BY <4>1, <5>1
        <4>4. QED
          BY <4>2, <4>3
      <3>6. QED
        BY <3>4, <3>5
    <2>4. CASE Begin
      <3>1. Pass
        BY <2>4 DEF Begin, Pass
      <3>2. QED
        BY <1>2, <2>2, <2>4, <3>1, BeginInv
    <2>5. CASE Delete \/ CopyFirst \/ Fail
      <3>1. Pass
        BY <2>1, <2>5, PassOf
      <3>2. changed \cup batch \subseteq changed' \cup batch'
        BY <2>5 DEF Delete, CopyFirst, Fail, Requeued
      <3>3. QED
        BY <2>2, <3>1, <3>2
    <2>6. CASE CopyLast
      <3>1. SUFFICES ASSUME NEW p \in Path
                     PROVE  Settled(p)' \/ \E c \in changed' : IsPrefix(c, p)
        BY DEF NothingForgotten
      <3>2. changed' = changed
        BY <2>6 DEF CopyLast
      <3>3. CASE Settled(p)
        BY <2>1, <2>6, <3>3, PassOf, SettledStays
      <3>4. CASE \E c \in changed : IsPrefix(c, p)
        BY <3>2, <3>4
      <3>5. CASE p \in touched
        BY <1>2, <3>2, <3>5 DEF IInv, BatchInv, TouchedIsKnown, Known, Settled
      <3>6. CASE p \notin touched /\ \E b \in batch : IsPrefix(b, p)
        BY <1>2, <2>6, <3>6, CopyLastSettles
      <3>7. QED
        BY <1>2, <3>3, <3>4, <3>5, <3>6 DEF NothingForgotten
    <2>7. CASE syncScopes \/ UNCHANGED vars
      <3>1. Pass /\ changed \cup batch \subseteq changed' \cup batch'
        BY <2>7 DEF syncScopes, vars, syncVars, Pass
      <3>2. QED
        BY <2>2, <3>1
    <2>8. QED
      BY <1>2, <2>3, <2>4, <2>5, <2>6, <2>7 DEF Next, Done
  <1>3. IInv /\ NothingForgotten /\ [Next]_vars => NothingForgotten'
    BY <1>2
  <1>4. QED
    BY Inductive, <1>1, <1>3, PTL DEF Spec
=============================================================================

-------------------------- MODULE WatcherCoreProofs --------------------------
(***************************************************************************)
(* The core of the proofs about Watcher: how the tree, the events in the   *)
(* queue of an instance, the watches of the kernel, the paths of the       *)
(* descriptors and the rest of a walk fit together (Core), that every step *)
(* of the other programs and of the reader keeps them so, and that every   *)
(* unreported item is announced by an event or by the walk (Reported).     *)
(* All of it is about values, not about the variables of Watcher: a is the *)
(* tree, Q the queue, W the watches, D the paths of the descriptors, and   *)
(* vs and ls are the paths that a walk has still to visit and to list.     *)
(***************************************************************************)
EXTENDS Watcher, FiniteSetTheorems, SequenceTheorems, WellFoundedInduction, TLAPS

Names == Name \cup {File}

\* Events of the link named n in the directory with descriptor u
Rem(Q, k, u, n) ==
    k \in DOMAIN Q /\ Q[k].wd = u /\ Q[k].name = <<n>> /\ Q[k].mask \in {"delete", "from"}
Cre(Q, k, u, n) ==
    k \in DOMAIN Q /\ Q[k].wd = u /\ Q[k].name = <<n>> /\ Q[k].mask \in {"create", "to"}
Fil(Q, k, u, n) ==
    k \in DOMAIN Q /\ Q[k].wd = u /\ Q[k].name = <<n>> /\ Q[k].mask = "file"

\* The queue Q, read with the paths D of the descriptors, holds a removal, a
\* creation, or some event to report, of the path x or one above it.
Doomed(Q, D, x) == \E k \in DOMAIN Q, u \in DOMAIN D, n \in Names :
                        Rem(Q, k, u, n) /\ IsPrefix(Append(D[u], n), x)
Created(Q, D, x) == \E k \in DOMAIN Q, u \in DOMAIN D, n \in Names :
                        Cre(Q, k, u, n) /\ IsPrefix(Append(D[u], n), x)
Announced(Q, D, x) == \E k \in DOMAIN Q, u \in DOMAIN D, n \in Names :
                        /\ Rem(Q, k, u, n) \/ Cre(Q, k, u, n) \/ Fil(Q, k, u, n)
                        /\ IsPrefix(Append(D[u], n), x)

\* In the tree a there is a directory at p, whose watch has that path.
Tracked(a, W, D, p) == \E d \in DOMAIN W : a[d] = p /\ D[W[d]] = p

\* The walk will still reach the path x.
Walked(vs, ls, x) ==
    \/ \E q \in vs : IsPrefix(q, x)
    \/ \E q \in ls : IsPrefix(q, x) /\ q # x

InTree(a, p) == \E d \in DOMAIN a : a[d] = p

Maps(W, D) ==
    /\ \A d, e \in DOMAIN W : W[d] = W[e] => d = e
    /\ \A u, v \in DOMAIN D : D[u] = D[v] => u = v
    /\ \A d \in DOMAIN W : W[d] \in DOMAIN D

\* A path that no event removes is right, and so are the paths above it.
Exact(a, Q, W, D) ==
    \A u \in DOMAIN D, q \in Path :
        ~Doomed(Q, D, D[u]) /\ IsPrefix(q, D[u]) => Tracked(a, W, D, q)

\* The last event of a link of a watched directory says whether it is there.
Links(a, Q, W) ==
    \A d \in DOMAIN W, n \in Names :
        /\ InTree(a, Append(a[d], n)) =>
            \A k \in DOMAIN Q : Rem(Q, k, W[d], n) => \E l \in DOMAIN Q : l > k /\ Cre(Q, l, W[d], n)
        /\ ~InTree(a, Append(a[d], n)) =>
            \A k \in DOMAIN Q : Cre(Q, k, W[d], n) => \E l \in DOMAIN Q : l > k /\ Rem(Q, l, W[d], n)

\* Each directory is watched under its path, or will be.
Covered(a, Q, W, D, vs, ls) ==
    \A d \in DOMAIN a :
        \/ Tracked(a, W, D, a[d]) /\ ~Doomed(Q, D, a[d])
        \/ Created(Q, D, a[d])
        \/ Walked(vs, ls, a[d])

\* A watch with a wrong path is removed before a walk can come to its directory.
Misplaced(a, Q, W, D, vs, ls) ==
    \A d \in DOMAIN W : D[W[d]] # a[d] =>
        /\ \A q \in vs \cup ls : ~IsPrefix(q, a[d])
        /\ \A j \in DOMAIN Q, u \in DOMAIN D, n \in Names :
            Cre(Q, j, u, n) /\ IsPrefix(Append(D[u], n), a[d]) =>
                \E k \in DOMAIN Q, v \in DOMAIN D, m \in Names :
                    k < j /\ Rem(Q, k, v, m) /\ IsPrefix(Append(D[v], m), D[W[d]])

\* The walk is in the tree, unless an event removes where it is.
Walking(a, Q, W, D, vs, ls) ==
    /\ \A p \in vs : ~Doomed(Q, D, p) =>
        InTree(a, p) /\ \A q \in Path : IsPrefix(q, p) /\ q # p => Tracked(a, W, D, q)
    /\ \A p \in ls : ~Doomed(Q, D, p) => Tracked(a, W, D, p)

\* A descriptor that is ignored is not watched, and nothing follows.
Ignored(Q, W) ==
    \A k \in DOMAIN Q : Q[k].mask = "ignored" =>
        /\ \A d \in DOMAIN W : W[d] # Q[k].wd
        /\ \A l \in DOMAIN Q : l > k => Q[l].wd # Q[k].wd

Core(a, Q, W, D, vs, ls) ==
    /\ DOMAIN W \subseteq DOMAIN a
    /\ Maps(W, D)
    /\ Ignored(Q, W)
    /\ Exact(a, Q, W, D)
    /\ Links(a, Q, W)
    /\ Covered(a, Q, W, D, vs, ls)
    /\ Misplaced(a, Q, W, D, vs, ls)
    /\ Walking(a, Q, W, D, vs, ls)

Reported(a, Q, D, vs, ls, s) ==
    \A x \in s :
        \/ Announced(Q, D, x)
        \/ \E q \in vs : IsPrefix(q, x)
        \/ \E q \in ls : InTree(a, q) /\ x = Append(q, File)
        \/ \E q \in ls, n \in Name : InTree(a, Append(q, n)) /\ IsPrefix(Append(q, n), x)

-----------------------------------------------------------------------------
(* Prefixes of paths *)

LEMMA PrefixChar ==
  ASSUME NEW s \in Seq(Nat), NEW t \in Seq(Nat)
  PROVE  IsPrefix(s, t) <=> Len(s) <= Len(t) /\ \A i \in 1..Len(s) : s[i] = t[i]
  BY DEF IsPrefix

LEMMA SameElements ==
  ASSUME NEW s \in Seq(Nat), NEW t \in Seq(Nat),
         Len(s) = Len(t), \A i \in 1..Len(s) : s[i] = t[i]
  PROVE  s = t
  OBVIOUS

LEMMA PrefixRefl ==
  ASSUME NEW s \in Seq(Nat)
  PROVE  IsPrefix(s, s) /\ IsPrefix(<<>>, s)
PROOF
  <1>1. <<>> \in Seq(Nat) /\ Len(<<>>) = 0 /\ Len(s) \in Nat
    OBVIOUS
  <1>2. IsPrefix(<<>>, s)
    <2>1. Len(<<>>) <= Len(s)
      BY <1>1
    <2>2. \A i \in 1..Len(<<>>) : <<>>[i] = s[i]
      BY <1>1
    <2>3. QED
      BY <1>1, <2>1, <2>2, PrefixChar
  <1>3. IsPrefix(s, s)
    BY <1>1, PrefixChar
  <1>4. QED
    BY <1>2, <1>3

LEMMA PrefixTrans ==
  ASSUME NEW s \in Seq(Nat), NEW t \in Seq(Nat), NEW u \in Seq(Nat),
         IsPrefix(s, t), IsPrefix(t, u)
  PROVE  IsPrefix(s, u)
PROOF
  <1>1. Len(s) <= Len(t) /\ \A i \in 1..Len(s) : s[i] = t[i]
    BY PrefixChar
  <1>2. Len(t) <= Len(u) /\ \A i \in 1..Len(t) : t[i] = u[i]
    BY PrefixChar
  <1>3. Len(s) <= Len(u) /\ \A i \in 1..Len(s) : s[i] = u[i]
    BY <1>1, <1>2
  <1>4. QED
    BY <1>3, PrefixChar

LEMMA PrefixAntisym ==
  ASSUME NEW s \in Seq(Nat), NEW t \in Seq(Nat), IsPrefix(s, t), IsPrefix(t, s)
  PROVE  s = t
PROOF
  <1>1. Len(s) <= Len(t) /\ \A i \in 1..Len(s) : s[i] = t[i]
    BY PrefixChar
  <1>2. Len(t) <= Len(s)
    BY PrefixChar
  <1>3. Len(s) = Len(t)
    <2>1. Len(s) \in Nat /\ Len(t) \in Nat
      OBVIOUS
    <2>2. QED
      BY <1>1, <1>2, <2>1
  <1>4. QED
    BY <1>1, <1>3, SameElements

LEMMA PrefixLength ==
  ASSUME NEW s \in Seq(Nat), NEW t \in Seq(Nat), IsPrefix(s, t)
  PROVE  /\ Len(s) \in Nat /\ Len(t) \in Nat /\ Len(s) <= Len(t)
         /\ Len(s) = Len(t) => s = t
  BY PrefixChar, SameElements

\* The paths above one path are in line.
LEMMA PrefixLinear ==
  ASSUME NEW s \in Seq(Nat), NEW t \in Seq(Nat), NEW u \in Seq(Nat),
         IsPrefix(s, u), IsPrefix(t, u)
  PROVE  IsPrefix(s, t) \/ IsPrefix(t, s)
PROOF
  <1>1. \A i \in 1..Len(s) : s[i] = u[i]
    BY PrefixChar
  <1>2. \A i \in 1..Len(t) : t[i] = u[i]
    BY PrefixChar
  <1>3. \/ Len(s) <= Len(t) /\ \A i \in 1..Len(s) : s[i] = t[i]
        \/ Len(t) <= Len(s) /\ \A i \in 1..Len(t) : t[i] = s[i]
    BY <1>1, <1>2
  <1>4. QED
    BY <1>3, PrefixChar

LEMMA AppendType ==
  ASSUME NEW s \in Seq(Nat), NEW n \in Nat
  PROVE  /\ Append(s, n) \in Seq(Nat) /\ Len(Append(s, n)) = Len(s) + 1
         /\ Append(s, n)[Len(s) + 1] = n
         /\ \A i \in 1..Len(s) : Append(s, n)[i] = s[i]
         /\ Append(s, n) # s /\ Append(s, n) # <<>>
         /\ s \o <<n>> = Append(s, n)
  OBVIOUS

LEMMA AppendPrefix ==
  ASSUME NEW s \in Seq(Nat), NEW n \in Nat
  PROVE  IsPrefix(s, Append(s, n)) /\ ~IsPrefix(Append(s, n), s)
PROOF
  <1>1. Len(s) \in Nat
    OBVIOUS
  <1>2. Len(s) <= Len(Append(s, n)) /\ \A i \in 1..Len(s) : s[i] = Append(s, n)[i]
    BY <1>1, AppendType
  <1>3. IsPrefix(s, Append(s, n))
    BY <1>2, AppendType, PrefixChar
  <1>4. ASSUME IsPrefix(Append(s, n), s) PROVE FALSE
    <2>1. Len(Append(s, n)) <= Len(s)
      BY <1>4, AppendType, PrefixChar
    <2>2. Len(Append(s, n)) = Len(s) + 1
      BY AppendType
    <2>3. QED
      BY <1>1, <2>1, <2>2
  <1>5. QED
    BY <1>3, <1>4

LEMMA AppendSame ==
  ASSUME NEW s \in Seq(Nat), NEW n \in Nat, NEW t \in Seq(Nat), NEW m \in Nat,
         Append(s, n) = Append(t, m)
  PROVE  s = t /\ n = m
PROOF
  <1>1. Len(s) = Len(t)
    <2>1. Len(s) \in Nat /\ Len(t) \in Nat
      OBVIOUS
    <2>2. Len(s) + 1 = Len(t) + 1
      BY AppendType
    <2>3. QED
      BY <2>1, <2>2
  <1>2. n = m
    BY <1>1, AppendType
  <1>3. \A i \in 1..Len(s) : Append(s, n)[i] = s[i]
    BY AppendType
  <1>4. \A i \in 1..Len(t) : Append(t, m)[i] = t[i]
    BY AppendType
  <1>5. \A i \in 1..Len(s) : s[i] = t[i]
    BY <1>1, <1>3, <1>4
  <1>6. QED
    BY <1>1, <1>2, <1>5, SameElements

\* What is above a path with one more name
LEMMA PrefixAppend ==
  ASSUME NEW s \in Seq(Nat), NEW n \in Nat, NEW x \in Seq(Nat), IsPrefix(x, Append(s, n))
  PROVE  IsPrefix(x, s) \/ x = Append(s, n)
PROOF
  <1>1. /\ Append(s, n) \in Seq(Nat) /\ Len(Append(s, n)) = Len(s) + 1
        /\ \A i \in 1..Len(s) : Append(s, n)[i] = s[i]
    BY AppendType
  <1>2. Len(x) <= Len(s) + 1 /\ \A i \in 1..Len(x) : x[i] = Append(s, n)[i]
    BY <1>1, PrefixChar
  <1>3. CASE Len(x) = Len(s) + 1
    BY <1>1, <1>2, <1>3, SameElements
  <1>4. CASE Len(x) # Len(s) + 1
    <2>1. Len(x) <= Len(s) /\ \A i \in 1..Len(x) : x[i] = s[i]
      BY <1>1, <1>2, <1>4
    <2>2. QED
      BY <2>1, PrefixChar
  <1>5. QED
    BY <1>3, <1>4

\* Between a path and one below it lies a name.
LEMMA PrefixNext ==
  ASSUME NEW s \in Seq(Nat), NEW t \in Seq(Nat), IsPrefix(s, t), s # t
  PROVE  t[Len(s) + 1] \in Nat /\ IsPrefix(Append(s, t[Len(s) + 1]), t)
PROOF
  <1>1. Len(s) \in Nat /\ Len(t) \in Nat /\ Len(s) < Len(t)
    BY PrefixLength
  <1>2. t[Len(s) + 1] \in Nat
    BY <1>1
  <1>3. \A i \in 1..Len(s) : s[i] = t[i]
    BY PrefixChar
  <1> DEFINE n == t[Len(s) + 1]
             x == Append(s, n)
  <1>4. /\ x \in Seq(Nat) /\ Len(x) = Len(s) + 1 /\ x[Len(s) + 1] = n
        /\ \A i \in 1..Len(s) : x[i] = s[i]
    BY <1>2, AppendType
  <1>5. Len(x) <= Len(t)
    BY <1>1, <1>4
  <1>6. \A i \in 1..Len(x) : x[i] = t[i]
    BY <1>1, <1>3, <1>4
  <1>7. QED
    BY <1>2, <1>4, <1>5, <1>6, PrefixChar

-----------------------------------------------------------------------------
(* The paths of the model *)

LEMMA PathChar ==
  ASSUME NEW p
  PROVE  p \in Path <=> p \in Seq(Name) /\ Len(p) <= MaxDepth
PROOF
  <1>1. MaxDepth \in Nat
    BY WatcherAssumption
  <1>2. ASSUME p \in Path PROVE p \in Seq(Name) /\ Len(p) <= MaxDepth
    <2>1. PICK m \in 0..MaxDepth : p \in [1..m -> Name]
      BY <1>2 DEF Path, BoundedSeq, SeqOf
    <2>2. QED
      BY <1>1, <2>1
  <1>3. ASSUME p \in Seq(Name), Len(p) <= MaxDepth PROVE p \in Path
    <2>1. Len(p) \in 0..MaxDepth /\ p \in [1..Len(p) -> Name]
      BY <1>1, <1>3
    <2>2. QED
      BY <2>1 DEF Path, BoundedSeq, SeqOf
  <1>4. QED
    BY <1>2, <1>3

LEMMA NamesAreNumbers == Name \subseteq Nat /\ Names \subseteq Nat /\ File \in Names /\ Name \subseteq Names
  BY WatcherAssumption DEF Names, File

LEMMA PathType ==
  /\ Path \subseteq Seq(Nat) /\ <<>> \in Path
PROOF
  <1>1. ASSUME NEW p \in Path PROVE p \in Seq(Nat)
    <2>1. p \in Seq(Name)
      BY PathChar
    <2>2. p \in [1..Len(p) -> Name] /\ Len(p) \in Nat
      BY <2>1
    <2>3. p \in [1..Len(p) -> Nat]
      BY <2>2, NamesAreNumbers
    <2>4. QED
      BY <2>2, <2>3
  <1>2. <<>> \in Path
    <2>1. <<>> \in Seq(Name) /\ Len(<<>>) = 0
      OBVIOUS
    <2>2. MaxDepth \in Nat
      BY WatcherAssumption
    <2>3. Len(<<>>) <= MaxDepth
      BY <2>1, <2>2
    <2>4. QED
      BY <2>1, <2>3, PathChar
  <1>3. QED
    BY <1>1, <1>2

LEMMA PathAbove ==
  ASSUME NEW p \in Path, NEW q \in Seq(Nat), IsPrefix(q, p)
  PROVE  q \in Path
PROOF
  <1>1. p \in Seq(Name) /\ p \in Seq(Nat) /\ Len(p) <= MaxDepth
    BY PathChar, PathType
  <1>2. Len(q) <= Len(p) /\ \A i \in 1..Len(q) : q[i] = p[i]
    BY <1>1, PrefixChar
  <1>3. Len(q) \in Nat /\ Len(p) \in Nat /\ MaxDepth \in Nat
    BY <1>1, WatcherAssumption
  <1>4. \A i \in 1..Len(q) : q[i] \in Name
    BY <1>1, <1>2, <1>3
  <1>5. q \in Seq(Name)
    BY <1>3, <1>4
  <1>6. Len(q) <= MaxDepth
    BY <1>1, <1>2, <1>3
  <1>7. QED
    BY <1>5, <1>6, PathChar

LEMMA PathAppend ==
  ASSUME NEW p \in Path, NEW n \in Nat, Append(p, n) \in Path
  PROVE  n \in Name
PROOF
  <1>1. p \in Seq(Nat) /\ Append(p, n) \in Seq(Name)
    BY PathType, PathChar
  <1>2. Len(Append(p, n)) = Len(p) + 1 /\ Append(p, n)[Len(p) + 1] = n /\ Len(p) \in Nat
    BY <1>1, AppendType
  <1>3. QED
    BY <1>1, <1>2

LEMMA PathExtend ==
  ASSUME NEW p \in Path, NEW n \in Name, Len(p) < MaxDepth
  PROVE  Append(p, n) \in Path
PROOF
  <1>1. p \in Seq(Name) /\ Len(p) \in Nat /\ MaxDepth \in Nat
    BY PathChar, WatcherAssumption
  <1>2. Append(p, n) \in Seq(Name) /\ Len(Append(p, n)) = Len(p) + 1
    BY <1>1
  <1>3. Len(Append(p, n)) <= MaxDepth
    BY <1>1, <1>2
  <1>4. QED
    BY <1>2, <1>3, PathChar

-----------------------------------------------------------------------------
(* Moved paths *)

LEMMA MovedChar ==
  ASSUME NEW o \in Seq(Nat), NEW w \in Seq(Nat), NEW p \in Seq(Nat), IsPrefix(o, p)
  PROVE  /\ Moved(o, w, p) \in Seq(Nat)
         /\ Len(Moved(o, w, p)) = Len(w) + (Len(p) - Len(o))
         /\ \A i \in 1..Len(w) : Moved(o, w, p)[i] = w[i]
         /\ \A i \in 1..Len(p) - Len(o) : Moved(o, w, p)[Len(w) + i] = p[Len(o) + i]
PROOF
  <1> DEFINE m == Len(o) + 1
             n == Len(p)
             t == SubSeq(p, m, n)
  <1>1. Len(o) \in Nat /\ Len(p) \in Nat /\ Len(o) <= Len(p) /\ Len(w) \in Nat
    BY PrefixLength
  <1>2. m \in Int /\ n \in Int /\ \A i \in m .. n : p[i] \in Nat
    BY <1>1
  <1>3. /\ t \in Seq(Nat) /\ Len(t) = (IF m <= n THEN n - m + 1 ELSE 0)
        /\ \A i \in 1 .. n - m + 1 : t[i] = p[m + i - 1]
    <2> HIDE DEF m, n
    <2>1. QED
      BY <1>2, SubSeqProperties
  <1>4. Len(t) = Len(p) - Len(o)
    BY <1>1, <1>3
  <1>5. \A i \in 1..Len(p) - Len(o) : t[i] = p[Len(o) + i]
    <2>1. n - m + 1 = Len(p) - Len(o)
      BY <1>1
    <2>2. \A i \in 1..Len(p) - Len(o) : m + i - 1 = Len(o) + i
      BY <1>1
    <2>3. QED
      BY <1>3, <2>1, <2>2
  <1>6. Moved(o, w, p) = w \o t
    BY DEF Moved
  <1> HIDE DEF t
  <1>7. /\ w \o t \in Seq(Nat) /\ Len(w \o t) = Len(w) + Len(t)
        /\ \A i \in 1..Len(w) : (w \o t)[i] = w[i]
        /\ \A i \in 1..Len(t) : (w \o t)[Len(w) + i] = t[i]
    <2>1. t \in Seq(Nat) /\ Len(t) \in Nat
      BY <1>3
    <2>2. /\ w \o t \in Seq(Nat) /\ Len(w \o t) = Len(w) + Len(t)
          /\ \A i \in 1..Len(w) : (w \o t)[i] = w[i]
      BY <1>1, <2>1
    <2>3. ASSUME NEW i \in 1..Len(t) PROVE (w \o t)[Len(w) + i] = t[i]
      <3>1. /\ Len(w) + i \in 1..Len(w) + Len(t) /\ ~(Len(w) + i <= Len(w))
            /\ Len(w) + i - Len(w) = i
        BY <1>1, <2>1
      <3>2. QED
        BY <2>1, <3>1
    <2>4. QED
      BY <2>2, <2>3
  <1>8. QED
    BY <1>4, <1>5, <1>6, <1>7

LEMMA MovedBelow ==
  ASSUME NEW o \in Seq(Nat), NEW w \in Seq(Nat), NEW p \in Seq(Nat), IsPrefix(o, p)
  PROVE  Moved(o, w, p) \in Seq(Nat) /\ IsPrefix(w, Moved(o, w, p))
PROOF
  <1>1. Len(o) \in Nat /\ Len(p) \in Nat /\ Len(o) <= Len(p) /\ Len(w) \in Nat
    BY PrefixLength
  <1>2. /\ Moved(o, w, p) \in Seq(Nat) /\ Len(Moved(o, w, p)) = Len(w) + (Len(p) - Len(o))
        /\ \A i \in 1..Len(w) : Moved(o, w, p)[i] = w[i]
    BY MovedChar
  <1>3. Len(w) <= Len(Moved(o, w, p))
    BY <1>1, <1>2
  <1>4. QED
    BY <1>2, <1>3, PrefixChar

LEMMA MovedBack ==
  ASSUME NEW o \in Seq(Nat), NEW w \in Seq(Nat), NEW p \in Seq(Nat), IsPrefix(o, p)
  PROVE  Moved(w, o, Moved(o, w, p)) = p
PROOF
  <1> DEFINE y == Moved(o, w, p)
             z == Moved(w, o, y)
  <1>1. Len(o) \in Nat /\ Len(p) \in Nat /\ Len(o) <= Len(p) /\ Len(w) \in Nat
    BY PrefixLength
  <1>2. /\ y \in Seq(Nat) /\ Len(y) = Len(w) + (Len(p) - Len(o))
        /\ \A i \in 1..Len(p) - Len(o) : y[Len(w) + i] = p[Len(o) + i]
    BY MovedChar
  <1>3. IsPrefix(w, y)
    BY MovedBelow
  <1> HIDE DEF y
  <1>4. /\ z \in Seq(Nat) /\ Len(z) = Len(o) + (Len(y) - Len(w))
        /\ \A i \in 1..Len(o) : z[i] = o[i]
        /\ \A i \in 1..Len(y) - Len(w) : z[Len(o) + i] = y[Len(w) + i]
    BY <1>2, <1>3, MovedChar
  <1> HIDE DEF z
  <1>5. Len(z) = Len(p) /\ Len(y) - Len(w) = Len(p) - Len(o)
    BY <1>1, <1>2, <1>4
  <1>6. \A i \in 1..Len(o) : o[i] = p[i]
    BY PrefixChar
  <1>7. ASSUME NEW i \in 1..Len(z) PROVE z[i] = p[i]
    <2>1. CASE i \in 1..Len(o)
      BY <1>4, <1>6, <2>1
    <2>2. CASE i \notin 1..Len(o)
      <3>1. i - Len(o) \in 1..Len(p) - Len(o) /\ i = Len(o) + (i - Len(o))
        BY <1>1, <1>5, <1>7, <2>2
      <3>2. z[Len(o) + (i - Len(o))] = p[Len(o) + (i - Len(o))]
        BY <1>2, <1>4, <1>5, <3>1
      <3>3. QED
        BY <3>1, <3>2
    <2>3. QED
      BY <2>1, <2>2
  <1>8. z = p
    BY <1>4, <1>5, <1>7, SameElements
  <1>9. QED
    BY <1>8 DEF z, y

LEMMA MovedOrder ==
  ASSUME NEW o \in Seq(Nat), NEW w \in Seq(Nat), NEW p \in Seq(Nat), NEW q \in Seq(Nat),
         IsPrefix(o, p), IsPrefix(p, q)
  PROVE  IsPrefix(Moved(o, w, p), Moved(o, w, q))
PROOF
  <1> DEFINE y == Moved(o, w, p)
             z == Moved(o, w, q)
  <1>1. Len(o) \in Nat /\ Len(p) \in Nat /\ Len(o) <= Len(p) /\ Len(w) \in Nat
    BY PrefixLength
  <1>2. Len(q) \in Nat /\ Len(p) <= Len(q) /\ \A i \in 1..Len(p) : p[i] = q[i]
    BY PrefixChar, PrefixLength
  <1>3. /\ y \in Seq(Nat) /\ Len(y) = Len(w) + (Len(p) - Len(o))
        /\ \A i \in 1..Len(w) : y[i] = w[i]
        /\ \A i \in 1..Len(p) - Len(o) : y[Len(w) + i] = p[Len(o) + i]
    BY MovedChar
  <1>4. IsPrefix(o, q)
    BY PrefixTrans
  <1>5. /\ z \in Seq(Nat) /\ Len(z) = Len(w) + (Len(q) - Len(o))
        /\ \A i \in 1..Len(w) : z[i] = w[i]
        /\ \A i \in 1..Len(q) - Len(o) : z[Len(w) + i] = q[Len(o) + i]
    BY <1>4, MovedChar
  <1> HIDE DEF y, z
  <1>6. Len(y) <= Len(z)
    BY <1>1, <1>2, <1>3, <1>5
  <1>7. ASSUME NEW i \in 1..Len(y) PROVE y[i] = z[i]
    <2>1. CASE i \in 1..Len(w)
      BY <1>3, <1>5, <2>1
    <2>2. CASE i \notin 1..Len(w)
      <3> DEFINE j == i - Len(w)
      <3>1. /\ j \in 1..Len(p) - Len(o) /\ j \in 1..Len(q) - Len(o)
            /\ i = Len(w) + j /\ Len(o) + j \in 1..Len(p)
        BY <1>1, <1>2, <1>3, <1>7, <2>2
      <3> HIDE DEF j
      <3>2. y[Len(w) + j] = p[Len(o) + j] /\ z[Len(w) + j] = q[Len(o) + j]
        BY <1>3, <1>5, <3>1
      <3>3. p[Len(o) + j] = q[Len(o) + j]
        BY <1>2, <3>1
      <3>4. QED
        BY <3>1, <3>2, <3>3
    <2>3. QED
      BY <2>1, <2>2
  <1>8. IsPrefix(y, z)
    BY <1>3, <1>5, <1>6, <1>7, PrefixChar
  <1>9. QED
    BY <1>8 DEF y, z

LEMMA MovedSelf ==
  ASSUME NEW o \in Seq(Nat), NEW w \in Seq(Nat)
  PROVE  Moved(o, w, o) = w
PROOF
  <1>1. IsPrefix(o, o) /\ Len(o) \in Nat /\ Len(w) \in Nat
    BY PrefixRefl
  <1>2. /\ Moved(o, w, o) \in Seq(Nat) /\ Len(Moved(o, w, o)) = Len(w) + (Len(o) - Len(o))
        /\ \A i \in 1..Len(w) : Moved(o, w, o)[i] = w[i]
    BY <1>1, MovedChar
  <1>3. Len(Moved(o, w, o)) = Len(w)
    BY <1>1, <1>2
  <1>4. QED
    BY <1>2, <1>3, SameElements

\* A move to another place moves everything.
LEMMA MovedAway ==
  ASSUME NEW o \in Seq(Nat), NEW w \in Seq(Nat), NEW p \in Seq(Nat), IsPrefix(o, p), o # w
  PROVE  Moved(o, w, p) # p
PROOF
  <1>1. Len(o) \in Nat /\ Len(p) \in Nat /\ Len(o) <= Len(p) /\ Len(w) \in Nat
    BY PrefixLength
  <1>2. SUFFICES ASSUME Moved(o, w, p) = p PROVE FALSE
    OBVIOUS
  <1>3. IsPrefix(w, p)
    BY <1>2, MovedBelow
  <1>4. Len(Moved(o, w, p)) = Len(w) + (Len(p) - Len(o))
    BY MovedChar
  <1>5. Len(w) = Len(o)
    BY <1>1, <1>2, <1>4
  <1>6. IsPrefix(w, o) \/ IsPrefix(o, w)
    BY <1>3, PrefixLinear
  <1>7. QED
    BY <1>5, <1>6, PrefixLength

LEMMA MovedAppend ==
  ASSUME NEW o \in Seq(Nat), NEW w \in Seq(Nat), NEW p \in Seq(Nat), NEW n \in Nat, IsPrefix(o, p)
  PROVE  Moved(o, w, Append(p, n)) = Append(Moved(o, w, p), n)
PROOF
  <1> DEFINE y == Moved(o, w, p)
             x == Append(p, n)
             z == Moved(o, w, x)
             v == Append(y, n)
  <1>1. Len(o) \in Nat /\ Len(p) \in Nat /\ Len(o) <= Len(p) /\ Len(w) \in Nat
    BY PrefixLength
  <1>2. /\ y \in Seq(Nat) /\ Len(y) = Len(w) + (Len(p) - Len(o))
        /\ \A i \in 1..Len(w) : y[i] = w[i]
        /\ \A i \in 1..Len(p) - Len(o) : y[Len(w) + i] = p[Len(o) + i]
    BY MovedChar
  <1>3. /\ x \in Seq(Nat) /\ Len(x) = Len(p) + 1 /\ x[Len(p) + 1] = n
        /\ \A i \in 1..Len(p) : x[i] = p[i]
    BY AppendType
  <1>4. IsPrefix(o, x)
    BY <1>3, AppendPrefix, PrefixTrans
  <1> HIDE DEF y, x
  <1>5. /\ z \in Seq(Nat) /\ Len(z) = Len(w) + (Len(x) - Len(o))
        /\ \A i \in 1..Len(w) : z[i] = w[i]
        /\ \A i \in 1..Len(x) - Len(o) : z[Len(w) + i] = x[Len(o) + i]
    BY <1>3, <1>4, MovedChar
  <1>6. /\ v \in Seq(Nat) /\ Len(v) = Len(y) + 1 /\ v[Len(y) + 1] = n
        /\ \A i \in 1..Len(y) : v[i] = y[i]
    BY <1>2, AppendType
  <1> HIDE DEF z, v
  <1>7. Len(z) = Len(v)
    BY <1>1, <1>2, <1>3, <1>5, <1>6
  <1>8. ASSUME NEW i \in 1..Len(z) PROVE z[i] = v[i]
    <2>1. CASE i \in 1..Len(w)
      <3>1. i \in 1..Len(y)
        BY <1>1, <1>2, <2>1
      <3>2. QED
        BY <1>2, <1>5, <1>6, <2>1, <3>1
    <2>2. CASE i = Len(v)
      <3>1. Len(x) - Len(o) \in 1..Len(x) - Len(o) /\ i = Len(w) + (Len(x) - Len(o))
        <4>1. Len(v) = Len(w) + (Len(x) - Len(o)) /\ Len(x) = Len(p) + 1
          BY <1>3, <1>5, <1>7
        <4>2. QED
          BY <1>1, <2>2, <4>1
      <3>2. z[i] = x[Len(o) + (Len(x) - Len(o))]
        BY <1>5, <3>1
      <3>3. Len(o) + (Len(x) - Len(o)) = Len(p) + 1
        BY <1>1, <1>3
      <3>4. QED
        BY <1>3, <1>6, <2>2, <3>2, <3>3
    <2>3. CASE i \notin 1..Len(w) /\ i # Len(v)
      <3> DEFINE j == i - Len(w)
      <3>1. /\ j \in 1..Len(p) - Len(o) /\ j \in 1..Len(x) - Len(o)
            /\ i = Len(w) + j /\ Len(o) + j \in 1..Len(p) /\ i \in 1..Len(y)
        <4>1. /\ Len(v) = Len(y) + 1 /\ Len(y) = Len(w) + (Len(p) - Len(o))
              /\ i \in 1..Len(v) /\ Len(x) = Len(p) + 1
          BY <1>2, <1>3, <1>6, <1>7, <1>8
        <4>2. QED
          BY <1>1, <2>3, <4>1
      <3> HIDE DEF j
      <3>2. y[Len(w) + j] = p[Len(o) + j] /\ z[Len(w) + j] = x[Len(o) + j]
        BY <1>2, <1>5, <3>1
      <3>3. x[Len(o) + j] = p[Len(o) + j] /\ v[i] = y[i]
        BY <1>3, <1>6, <3>1
      <3>4. QED
        BY <3>1, <3>2, <3>3
    <2>4. QED
      BY <2>1, <2>2, <2>3
  <1>9. z = v
    BY <1>5, <1>6, <1>7, <1>8, SameElements
  <1>10. QED
    BY <1>9 DEF z, v, x, y

-----------------------------------------------------------------------------
(* Facts about one state *)

Masks == {"create", "to", "delete", "from", "file", "attrib", "deleteself", "moveself", "ignored", "overflow"}
Events == [wd : Nat, mask : Masks, name : Seq(Nat)]

\* The types of a tree a, a queue Q, the paths D of descriptors, and a walk
CoreTypes(a, Q, D, vs, ls) ==
    /\ a \in [DOMAIN a -> Path]
    /\ Q \in Seq(Events)
    /\ D \in [DOMAIN D -> Path]
    /\ vs \subseteq Path /\ ls \subseteq Path

LEMMA Least ==
  ASSUME NEW S \in SUBSET Nat, S # {}
  PROVE  \E n \in S : \A m \in S : n <= m
PROOF
  <1>1. PICK n \in S : \A m \in S : ~(<<m, n>> \in OpToRel(<, Nat))
    BY WFMin, NatLessThanWellFounded
  <1>2. \A m \in S : ~(m < n)
    BY <1>1 DEF OpToRel
  <1>3. QED
    BY <1>2

LEMMA Shortest ==
  ASSUME NEW S \in SUBSET Seq(Nat), S # {}
  PROVE  \E q \in S : \A o \in S : Len(q) <= Len(o)
PROOF
  <1>1. \A q \in S : Len(q) \in Nat
    OBVIOUS
  <1>2. {Len(q) : q \in S} \in SUBSET Nat /\ {Len(q) : q \in S} # {}
    BY <1>1
  <1>3. PICK n \in {Len(q) : q \in S} : \A m \in {Len(q) : q \in S} : n <= m
    BY <1>2, Least
  <1>4. QED
    BY <1>3

LEMMA TreeUp ==
  ASSUME NEW a, IsTree(a), NEW x, InTree(a, x), NEW q \in Path, IsPrefix(q, x)
  PROVE  InTree(a, q)
  BY DEF IsTree, InTree, Range

LEMMA TreeOne ==
  ASSUME NEW a, IsTree(a), NEW d \in DOMAIN a, NEW e \in DOMAIN a, a[d] = a[e]
  PROVE  d = e
  BY DEF IsTree, IsInjective

\* The path of a link
LEMMA LinkType ==
  ASSUME NEW D, D \in [DOMAIN D -> Path], NEW u \in DOMAIN D, NEW n \in Names
  PROVE  /\ D[u] \in Path /\ D[u] \in Seq(Nat) /\ n \in Nat /\ Append(D[u], n) \in Seq(Nat)
         /\ IsPrefix(D[u], Append(D[u], n)) /\ Append(D[u], n) # D[u]
PROOF
  <1>1. D[u] \in Path /\ D[u] \in Seq(Nat) /\ n \in Nat
    BY PathType, NamesAreNumbers
  <1>2. QED
    BY <1>1, AppendType, AppendPrefix

LEMMA DoomedBy ==
  ASSUME NEW Q, NEW D, NEW x, NEW k \in DOMAIN Q, NEW u \in DOMAIN D, NEW n \in Names,
         Rem(Q, k, u, n), IsPrefix(Append(D[u], n), x)
  PROVE  Doomed(Q, D, x)
  BY DEF Doomed

LEMMA CreatedBy ==
  ASSUME NEW Q, NEW D, NEW x, NEW k \in DOMAIN Q, NEW u \in DOMAIN D, NEW n \in Names,
         Cre(Q, k, u, n), IsPrefix(Append(D[u], n), x)
  PROVE  Created(Q, D, x)
  BY DEF Created

LEMMA DoomedBelow ==
  ASSUME NEW Q, NEW D, D \in [DOMAIN D -> Path], NEW x \in Seq(Nat), NEW y \in Seq(Nat),
         Doomed(Q, D, x), IsPrefix(x, y)
  PROVE  Doomed(Q, D, y)
PROOF
  <1>1. PICK k \in DOMAIN Q, u \in DOMAIN D, n \in Names :
            Rem(Q, k, u, n) /\ IsPrefix(Append(D[u], n), x)
    BY DEF Doomed
  <1>2. Append(D[u], n) \in Seq(Nat)
    BY LinkType
  <1>3. IsPrefix(Append(D[u], n), y)
    BY <1>1, <1>2, PrefixTrans
  <1>4. QED
    BY <1>1, <1>3, DoomedBy

LEMMA CreatedBelow ==
  ASSUME NEW Q, NEW D, D \in [DOMAIN D -> Path], NEW x \in Seq(Nat), NEW y \in Seq(Nat),
         Created(Q, D, x), IsPrefix(x, y)
  PROVE  Created(Q, D, y)
PROOF
  <1>1. PICK k \in DOMAIN Q, u \in DOMAIN D, n \in Names :
            Cre(Q, k, u, n) /\ IsPrefix(Append(D[u], n), x)
    BY DEF Created
  <1>2. Append(D[u], n) \in Seq(Nat)
    BY LinkType
  <1>3. IsPrefix(Append(D[u], n), y)
    BY <1>1, <1>2, PrefixTrans
  <1>4. QED
    BY <1>1, <1>3, CreatedBy

LEMMA ToldBy ==
  ASSUME NEW Q, NEW D, D \in [DOMAIN D -> Path], NEW x \in Seq(Nat), NEW y \in Seq(Nat),
         Doomed(Q, D, x) \/ Created(Q, D, x), IsPrefix(x, y)
  PROVE  Announced(Q, D, y)
PROOF
  <1>1. Doomed(Q, D, y) \/ Created(Q, D, y)
    BY DoomedBelow, CreatedBelow
  <1>2. QED
    BY <1>1 DEF Doomed, Created, Announced

LEMMA TrackedOne ==
  ASSUME NEW a, NEW W, NEW D, IsTree(a), DOMAIN W \subseteq DOMAIN a,
         NEW d \in DOMAIN a, Tracked(a, W, D, a[d])
  PROVE  d \in DOMAIN W /\ D[W[d]] = a[d]
PROOF
  <1>1. PICK e \in DOMAIN W : a[e] = a[d] /\ D[W[e]] = a[d]
    BY DEF Tracked
  <1>2. e = d
    BY <1>1, TreeOne
  <1>3. QED
    BY <1>1, <1>2

\* A descriptor whose path is not doomed belongs to the directory there.
LEMMA ExactOne ==
  ASSUME NEW a, NEW Q, NEW W, NEW D, D \in [DOMAIN D -> Path], Maps(W, D), Exact(a, Q, W, D),
         NEW u \in DOMAIN D, ~Doomed(Q, D, D[u])
  PROVE  \E d \in DOMAIN W : W[d] = u /\ a[d] = D[u]
PROOF
  <1>1. D[u] \in Path /\ IsPrefix(D[u], D[u])
    BY PathType, PrefixRefl
  <1>2. Tracked(a, W, D, D[u])
    BY <1>1 DEF Exact
  <1>3. PICK d \in DOMAIN W : a[d] = D[u] /\ D[W[d]] = D[u]
    BY <1>2 DEF Tracked
  <1>4. W[d] = u
    BY <1>3 DEF Maps
  <1>5. QED
    BY <1>3, <1>4

\* If a removal of a path that exists, or of one above it, is still to be
\* handled, so is a later creation that leads the reader there again.
LEMMA Rescue ==
  ASSUME NEW a, NEW Q, NEW W, NEW D, NEW vs, NEW ls, CoreTypes(a, Q, D, vs, ls), IsTree(a),
         DOMAIN W \subseteq DOMAIN a,
         Maps(W, D), Exact(a, Q, W, D), Links(a, Q, W),
         NEW x \in Path, InTree(a, x), Doomed(Q, D, x)
  PROVE  \E j, k \in DOMAIN Q, u \in DOMAIN D, n \in Names :
            /\ Rem(Q, j, u, n) /\ Cre(Q, k, u, n) /\ j < k
            /\ IsPrefix(Append(D[u], n), x) /\ ~Doomed(Q, D, D[u])
PROOF
  <1> DEFINE Dooms == {p \in Seq(Nat) : \E k \in DOMAIN Q, u \in DOMAIN D, n \in Names :
                          Rem(Q, k, u, n) /\ p = Append(D[u], n) /\ IsPrefix(p, x)}
  <1>1. D \in [DOMAIN D -> Path] /\ x \in Seq(Nat)
    BY PathType DEF CoreTypes
  <1>2. Dooms # {}
    <2>1. PICK k \in DOMAIN Q, u \in DOMAIN D, n \in Names :
              Rem(Q, k, u, n) /\ IsPrefix(Append(D[u], n), x)
      BY DEF Doomed
    <2>2. Append(D[u], n) \in Seq(Nat)
      BY <1>1, LinkType
    <2>3. Append(D[u], n) \in Dooms
      BY <2>1, <2>2
    <2>4. QED
      BY <2>3
  <1>3. PICK p \in Dooms : \A o \in Dooms : Len(p) <= Len(o)
    <2>1. Dooms \in SUBSET Seq(Nat)
      OBVIOUS
    <2> HIDE DEF Dooms
    <2>2. QED
      BY <1>2, <2>1, Shortest
  <1>4. PICK j \in DOMAIN Q, u \in DOMAIN D, n \in Names :
            Rem(Q, j, u, n) /\ p = Append(D[u], n) /\ IsPrefix(p, x)
    BY <1>3
  <1>5. /\ D[u] \in Path /\ D[u] \in Seq(Nat) /\ n \in Nat /\ p \in Seq(Nat)
        /\ IsPrefix(D[u], p) /\ p # D[u]
    BY <1>1, <1>4, LinkType
  <1>6. ~Doomed(Q, D, D[u])
    <2>1. SUFFICES ASSUME Doomed(Q, D, D[u]) PROVE FALSE
      OBVIOUS
    <2>2. PICK k \in DOMAIN Q, v \in DOMAIN D, m \in Names :
              Rem(Q, k, v, m) /\ IsPrefix(Append(D[v], m), D[u])
      BY <2>1 DEF Doomed
    <2> DEFINE o == Append(D[v], m)
    <2>3. o \in Seq(Nat)
      BY <1>1, LinkType
    <2>4. IsPrefix(o, D[u])
      BY <2>2
    <2>5. o \in Dooms
      <3>1. IsPrefix(o, x)
        BY <1>1, <1>4, <1>5, <2>3, <2>4, PrefixTrans
      <3>2. QED
        BY <2>2, <2>3, <3>1
    <2> HIDE DEF o
    <2>6. Len(o) <= Len(D[u]) /\ Len(o) \in Nat /\ Len(D[u]) \in Nat
      BY <1>5, <2>3, <2>4, PrefixLength
    <2>7. Len(p) = Len(D[u]) + 1
      BY <1>4, <1>5, AppendType
    <2>8. Len(p) <= Len(o)
      BY <1>3, <2>5
    <2>9. QED
      BY <2>6, <2>7, <2>8
  <1>7. PICK d \in DOMAIN W : W[d] = u /\ a[d] = D[u]
    BY <1>1, <1>6, ExactOne
  <1>8. InTree(a, Append(a[d], n))
    <2>1. p \in Path
      BY <1>4, <1>5, PathAbove
    <2>2. QED
      BY <1>4, <1>7, <2>1, TreeUp
  <1>9. PICK k \in DOMAIN Q : k > j /\ Cre(Q, k, W[d], n)
    BY <1>4, <1>7, <1>8 DEF Links
  <1>10. j < k
    BY <1>9 DEF CoreTypes
  <1>11. QED
    BY <1>4, <1>6, <1>7, <1>9, <1>10

\* The path that a watched directory has left is doomed.
LEMMA MisplacedDoomed ==
  ASSUME NEW a, NEW Q, NEW W, NEW D, NEW vs, NEW ls, CoreTypes(a, Q, D, vs, ls), IsTree(a),
         Core(a, Q, W, D, vs, ls), NEW d \in DOMAIN W, D[W[d]] # a[d]
  PROVE  /\ \E k \in DOMAIN Q, v \in DOMAIN D, m \in Names :
                Rem(Q, k, v, m) /\ IsPrefix(Append(D[v], m), D[W[d]])
         /\ Doomed(Q, D, D[W[d]])
PROOF
  <1>1. d \in DOMAIN a /\ DOMAIN W \subseteq DOMAIN a
    BY DEF Core
  <1>2. ~Tracked(a, W, D, a[d])
    BY <1>1, TrackedOne
  <1>3. ~Walked(vs, ls, a[d])
    BY DEF Core, Misplaced, Walked
  <1>4. Created(Q, D, a[d])
    BY <1>1, <1>2, <1>3 DEF Core, Covered
  <1>5. PICK k \in DOMAIN Q, u \in DOMAIN D, n \in Names :
            Cre(Q, k, u, n) /\ IsPrefix(Append(D[u], n), a[d])
    BY <1>4 DEF Created
  <1>6. PICK j \in DOMAIN Q, v \in DOMAIN D, m \in Names :
            j < k /\ Rem(Q, j, v, m) /\ IsPrefix(Append(D[v], m), D[W[d]])
    BY <1>5 DEF Core, Misplaced
  <1>7. QED
    BY <1>6, DoomedBy

\* An event of a directory that has left its path concerns nothing that is
\* tracked and not doomed.
LEMMA StrayLink ==
  ASSUME NEW a, NEW Q, NEW W, NEW D, NEW vs, NEW ls, CoreTypes(a, Q, D, vs, ls), IsTree(a),
         Core(a, Q, W, D, vs, ls), NEW d \in DOMAIN W, D[W[d]] # a[d], NEW n \in Names,
         NEW x \in Seq(Nat), IsPrefix(Append(D[W[d]], n), x)
  PROVE  Doomed(Q, D, x)
PROOF
  <1>1. Doomed(Q, D, D[W[d]])
    BY MisplacedDoomed
  <1>2. W[d] \in DOMAIN D /\ D \in [DOMAIN D -> Path]
    BY DEF Core, Maps, CoreTypes
  <1>3. D[W[d]] \in Seq(Nat) /\ Append(D[W[d]], n) \in Seq(Nat) /\ IsPrefix(D[W[d]], Append(D[W[d]], n))
    BY <1>2, LinkType
  <1>4. IsPrefix(D[W[d]], x)
    BY <1>3, PrefixTrans
  <1>5. QED
    BY <1>1, <1>2, <1>3, <1>4, DoomedBelow

-----------------------------------------------------------------------------
(* A queue that grows *)

Grows(Q, R) ==
    /\ DOMAIN Q \subseteq DOMAIN R
    /\ \A k \in DOMAIN Q : R[k] = Q[k]
    /\ \A k \in DOMAIN Q, l \in DOMAIN R \ DOMAIN Q : k < l

LEMMA GrowsSame ==
  ASSUME NEW Q, NEW R, Grows(Q, R), NEW k \in DOMAIN Q, NEW u, NEW n
  PROVE  /\ k \in DOMAIN R
         /\ Rem(R, k, u, n) <=> Rem(Q, k, u, n)
         /\ Cre(R, k, u, n) <=> Cre(Q, k, u, n)
         /\ Fil(R, k, u, n) <=> Fil(Q, k, u, n)
  BY DEF Grows, Rem, Cre, Fil

LEMMA GrowsKeeps ==
  ASSUME NEW Q, NEW R, Grows(Q, R), NEW D, NEW x
  PROVE  /\ Doomed(Q, D, x) => Doomed(R, D, x)
         /\ Created(Q, D, x) => Created(R, D, x)
         /\ Announced(Q, D, x) => Announced(R, D, x)
PROOF
  <1>1. ASSUME Doomed(Q, D, x) PROVE Doomed(R, D, x)
    <2>1. PICK k \in DOMAIN Q, u \in DOMAIN D, n \in Names :
              Rem(Q, k, u, n) /\ IsPrefix(Append(D[u], n), x)
      BY <1>1 DEF Doomed
    <2>2. k \in DOMAIN R /\ Rem(R, k, u, n)
      BY <2>1, GrowsSame
    <2>3. QED
      BY <2>1, <2>2 DEF Doomed
  <1>2. ASSUME Created(Q, D, x) PROVE Created(R, D, x)
    <2>1. PICK k \in DOMAIN Q, u \in DOMAIN D, n \in Names :
              Cre(Q, k, u, n) /\ IsPrefix(Append(D[u], n), x)
      BY <1>2 DEF Created
    <2>2. k \in DOMAIN R /\ Cre(R, k, u, n)
      BY <2>1, GrowsSame
    <2>3. QED
      BY <2>1, <2>2 DEF Created
  <1>3. ASSUME Announced(Q, D, x) PROVE Announced(R, D, x)
    <2>1. PICK k \in DOMAIN Q, u \in DOMAIN D, n \in Names :
              /\ Rem(Q, k, u, n) \/ Cre(Q, k, u, n) \/ Fil(Q, k, u, n)
              /\ IsPrefix(Append(D[u], n), x)
      BY <1>3 DEF Announced
    <2>2. k \in DOMAIN R /\ (Rem(R, k, u, n) \/ Cre(R, k, u, n) \/ Fil(R, k, u, n))
      BY <2>1, GrowsSame
    <2>3. QED
      BY <2>1, <2>2 DEF Announced
  <1>4. QED
    BY <1>1, <1>2, <1>3

\* What was misplaced stays so, whatever is queued behind.
LEMMA GrowsMisplaced ==
  ASSUME NEW a, NEW Q, NEW W, NEW D, NEW vs, NEW ls, CoreTypes(a, Q, D, vs, ls), IsTree(a),
         Core(a, Q, W, D, vs, ls), NEW R, Grows(Q, R),
         NEW d \in DOMAIN W, D[W[d]] # a[d], NEW j \in DOMAIN R, NEW u \in DOMAIN D, NEW n \in Names,
         Cre(R, j, u, n), IsPrefix(Append(D[u], n), a[d])
  PROVE  \E k \in DOMAIN R, v \in DOMAIN D, m \in Names :
            k < j /\ Rem(R, k, v, m) /\ IsPrefix(Append(D[v], m), D[W[d]])
PROOF
  <1>1. CASE j \in DOMAIN Q
    <2>1. Cre(Q, j, u, n)
      BY <1>1, GrowsSame
    <2>2. PICK k \in DOMAIN Q, v \in DOMAIN D, m \in Names :
            k < j /\ Rem(Q, k, v, m) /\ IsPrefix(Append(D[v], m), D[W[d]])
      BY <1>1, <2>1 DEF Core, Misplaced
    <2>3. k \in DOMAIN R /\ Rem(R, k, v, m)
      BY <2>2, GrowsSame
    <2>4. QED
      BY <2>2, <2>3
  <1>2. CASE j \notin DOMAIN Q
    <2>1. PICK k \in DOMAIN Q, v \in DOMAIN D, m \in Names :
                Rem(Q, k, v, m) /\ IsPrefix(Append(D[v], m), D[W[d]])
      BY MisplacedDoomed
    <2>2. k \in DOMAIN R /\ Rem(R, k, v, m) /\ k < j
      BY <1>2, <2>1, GrowsSame DEF Grows
    <2>3. QED
      BY <2>1, <2>2
  <1>3. QED
    BY <1>1, <1>2

\* New events that concern no link change nothing.
LEMMA GrowsPlainly ==
  ASSUME NEW a, NEW Q, NEW W, NEW D, NEW vs, NEW ls, CoreTypes(a, Q, D, vs, ls), IsTree(a),
         Core(a, Q, W, D, vs, ls), NEW R, Grows(Q, R),
         Ignored(R, W),
         \A k \in DOMAIN R \ DOMAIN Q :
            R[k].mask \in {"file", "attrib", "deleteself", "moveself", "ignored"}
  PROVE  Core(a, R, W, D, vs, ls)
PROOF
  <1>1. ASSUME NEW k \in DOMAIN R, NEW u, NEW n, Rem(R, k, u, n) \/ Cre(R, k, u, n)
        PROVE  k \in DOMAIN Q
    BY <1>1 DEF Rem, Cre
  <1>2. ASSUME NEW x, Doomed(R, D, x) PROVE Doomed(Q, D, x)
    <2>1. PICK k \in DOMAIN R, u \in DOMAIN D, n \in Names :
              Rem(R, k, u, n) /\ IsPrefix(Append(D[u], n), x)
      BY <1>2 DEF Doomed
    <2>2. k \in DOMAIN Q
      BY <1>1, <2>1
    <2>3. Rem(Q, k, u, n)
      BY <2>1, <2>2, GrowsSame
    <2>4. QED
      BY <2>1, <2>2, <2>3 DEF Doomed
  <1>3. \A x : Doomed(R, D, x) <=> Doomed(Q, D, x)
    BY <1>2, GrowsKeeps
  <1>4. DOMAIN W \subseteq DOMAIN a /\ Maps(W, D)
    BY DEF Core
  <1>6. Exact(a, R, W, D)
    BY <1>3 DEF Core, Exact
  <1>7. Links(a, R, W)
    <2>1. SUFFICES ASSUME NEW d \in DOMAIN W, NEW n \in Names
                   PROVE  /\ InTree(a, Append(a[d], n)) =>
                                \A k \in DOMAIN R : Rem(R, k, W[d], n) =>
                                    \E l \in DOMAIN R : l > k /\ Cre(R, l, W[d], n)
                          /\ ~InTree(a, Append(a[d], n)) =>
                                \A k \in DOMAIN R : Cre(R, k, W[d], n) =>
                                    \E l \in DOMAIN R : l > k /\ Rem(R, l, W[d], n)
      BY DEF Links
    <2>2. ASSUME InTree(a, Append(a[d], n)), NEW k \in DOMAIN R, Rem(R, k, W[d], n)
          PROVE  \E l \in DOMAIN R : l > k /\ Cre(R, l, W[d], n)
      <3>1. k \in DOMAIN Q /\ Rem(Q, k, W[d], n)
        BY <1>1, <2>2, GrowsSame
      <3>2. PICK l \in DOMAIN Q : l > k /\ Cre(Q, l, W[d], n)
        BY <2>2, <3>1 DEF Core, Links
      <3>3. QED
        BY <3>2, GrowsSame
    <2>3. ASSUME ~InTree(a, Append(a[d], n)), NEW k \in DOMAIN R, Cre(R, k, W[d], n)
          PROVE  \E l \in DOMAIN R : l > k /\ Rem(R, l, W[d], n)
      <3>1. k \in DOMAIN Q /\ Cre(Q, k, W[d], n)
        BY <1>1, <2>3, GrowsSame
      <3>2. PICK l \in DOMAIN Q : l > k /\ Rem(Q, l, W[d], n)
        BY <2>3, <3>1 DEF Core, Links
      <3>3. QED
        BY <3>2, GrowsSame
    <2>4. QED
      BY <2>2, <2>3
  <1>8. Covered(a, R, W, D, vs, ls)
    BY <1>3, GrowsKeeps DEF Core, Covered
  <1>9. Misplaced(a, R, W, D, vs, ls)
    <2>1. \A d \in DOMAIN W : D[W[d]] # a[d] => \A q \in vs \cup ls : ~IsPrefix(q, a[d])
      BY DEF Core, Misplaced
    <2>2. QED
      BY <2>1, GrowsMisplaced DEF Misplaced
  <1>10. Walking(a, R, W, D, vs, ls)
    BY <1>3 DEF Core, Walking
  <1>11. QED
    BY <1>4, <1>6, <1>7, <1>8, <1>9, <1>10 DEF Core

\* Neither do those of watches that stay.
LEMMA GrowsQuietly ==
  ASSUME NEW a, NEW Q, NEW W, NEW D, NEW vs, NEW ls, CoreTypes(a, Q, D, vs, ls), IsTree(a),
         Core(a, Q, W, D, vs, ls), NEW R, Grows(Q, R),
         \A k \in DOMAIN R \ DOMAIN Q :
            /\ \E d \in DOMAIN W : R[k].wd = W[d]
            /\ R[k].mask \in {"file", "attrib", "deleteself", "moveself"}
  PROVE  Core(a, R, W, D, vs, ls)
PROOF
  <1>1. Ignored(R, W)
    <2>1. SUFFICES ASSUME NEW k \in DOMAIN R, R[k].mask = "ignored"
                   PROVE  /\ \A d \in DOMAIN W : W[d] # R[k].wd
                          /\ \A l \in DOMAIN R : l > k => R[l].wd # R[k].wd
      BY DEF Ignored
    <2>2. k \in DOMAIN Q /\ R[k] = Q[k]
      BY <2>1 DEF Grows
    <2>3. /\ \A d \in DOMAIN W : W[d] # Q[k].wd
          /\ \A l \in DOMAIN Q : l > k => Q[l].wd # Q[k].wd
      BY <2>1, <2>2 DEF Core, Ignored
    <2>4. QED
      BY <2>2, <2>3 DEF Grows
  <1>2. QED
    BY <1>1, GrowsPlainly

-----------------------------------------------------------------------------
(* A new directory *)

\* The tree b is a with the directory d at x.
Added(a, b, d, x) ==
    /\ d \notin DOMAIN a /\ DOMAIN b = DOMAIN a \cup {d}
    /\ b[d] = x /\ \A e \in DOMAIN a : b[e] = a[e]

LEMMA AddedTree ==
  ASSUME NEW a, NEW b, NEW P \in DOMAIN a, NEW n \in Name, NEW d,
         a \in [DOMAIN a -> Path], IsTree(a), Append(a[P], n) \in Path,
         ~InTree(a, Append(a[P], n)), Added(a, b, d, Append(a[P], n))
  PROVE  /\ IsTree(b) /\ \A e \in DOMAIN b : b[e] \in Path
         /\ \A x : InTree(b, x) <=> InTree(a, x) \/ x = Append(a[P], n)
PROOF
  <1> DEFINE x == Append(a[P], n)
  <1>0. x \in Path /\ ~InTree(a, x) /\ Added(a, b, d, x)
    OBVIOUS
  <1>1. \A e \in DOMAIN b : b[e] \in Path
    BY DEF Added
  <1>2. \A y : InTree(b, y) <=> InTree(a, y) \/ y = x
    BY DEF Added, InTree
  <1>3. Root \in DOMAIN b /\ b[Root] = <<>>
    BY DEF Added, IsTree
  <1>4. IsInjective(b)
    <2>1. SUFFICES ASSUME NEW e \in DOMAIN b, NEW f \in DOMAIN b, b[e] = b[f]
                   PROVE  e = f
      BY DEF IsInjective
    <2>2. CASE e = d \/ f = d
      BY <2>1, <2>2 DEF Added, InTree
    <2>3. CASE e # d /\ f # d
      <3>1. e \in DOMAIN a /\ f \in DOMAIN a /\ a[e] = a[f]
        BY <2>1, <2>3 DEF Added
      <3>2. QED
        BY <3>1, TreeOne
    <2>4. QED
      BY <2>2, <2>3
  <1>5. ASSUME NEW e \in DOMAIN b, NEW p \in Path, IsPrefix(p, b[e])
        PROVE  InTree(b, p)
    <2>1. CASE e = d
      <3>1. a[P] \in Seq(Nat) /\ n \in Nat /\ p \in Seq(Nat) /\ b[e] = Append(a[P], n)
        BY <2>1, PathType, NamesAreNumbers DEF Added
      <3>2. IsPrefix(p, a[P]) \/ p = x
        BY <1>5, <3>1, PrefixAppend
      <3>3. InTree(a, a[P])
        BY DEF InTree
      <3>4. InTree(a, p) \/ p = x
        BY <3>2, <3>3, TreeUp
      <3>5. QED
        BY <1>2, <3>4
    <2>2. CASE e # d
      <3>1. e \in DOMAIN a /\ IsPrefix(p, a[e])
        BY <1>5, <2>2 DEF Added
      <3>2. InTree(a, p)
        BY <3>1, TreeUp DEF InTree
      <3>3. QED
        BY <1>2, <3>2
    <2>3. QED
      BY <2>1, <2>2
  <1>6. IsTree(b)
    BY <1>3, <1>4, <1>5 DEF IsTree, InTree, Range
  <1>7. QED
    BY <1>1, <1>2, <1>6

LEMMA CoreMkdir ==
  ASSUME NEW a, NEW Q, NEW W, NEW D, NEW vs, NEW ls, CoreTypes(a, Q, D, vs, ls), IsTree(a),
         Core(a, Q, W, D, vs, ls), NEW R, Grows(Q, R),
         NEW b, NEW P \in DOMAIN a, NEW n \in Name, NEW d,
         Append(a[P], n) \in Path, ~InTree(a, Append(a[P], n)), Added(a, b, d, Append(a[P], n)),
         \A k \in DOMAIN R \ DOMAIN Q : P \in DOMAIN W /\ R[k] = Event(W[P], "create", <<n>>),
         P \in DOMAIN W => \E k \in DOMAIN R \ DOMAIN Q : R[k] = Event(W[P], "create", <<n>>)
  PROVE  Core(b, R, W, D, vs, ls)
PROOF
  <1> DEFINE x == Append(a[P], n)
  <1>1. /\ IsTree(b) /\ \A e \in DOMAIN b : b[e] \in Path
        /\ \A y : InTree(b, y) <=> InTree(a, y) \/ y = x
    BY AddedTree DEF CoreTypes
  <1>2. /\ DOMAIN W \subseteq DOMAIN a /\ Maps(W, D) /\ DOMAIN W \subseteq DOMAIN b
        /\ \A e \in DOMAIN W : b[e] = a[e]
    BY DEF Core, Added
  <1>3. ASSUME NEW k \in DOMAIN R, NEW u, NEW m, Rem(R, k, u, m)
        PROVE  k \in DOMAIN Q /\ Rem(Q, k, u, m)
    <2>1. k \in DOMAIN Q
      BY <1>3 DEF Rem, Event
    <2>2. QED
      BY <1>3, <2>1, GrowsSame
  <1>4. ASSUME NEW k \in DOMAIN R, NEW u, NEW m, Cre(R, k, u, m), k \notin DOMAIN Q
        PROVE  P \in DOMAIN W /\ u = W[P] /\ m = n
    <2>1. P \in DOMAIN W /\ R[k] = Event(W[P], "create", <<n>>)
      BY <1>4
    <2>2. u = W[P] /\ <<m>> = <<n>>
      BY <1>4, <2>1 DEF Cre, Event
    <2>3. QED
      BY <2>1, <2>2
  <1>5. \A y : Doomed(R, D, y) <=> Doomed(Q, D, y)
    <2>1. ASSUME NEW y, Doomed(R, D, y) PROVE Doomed(Q, D, y)
      BY <1>3, <2>1 DEF Doomed
    <2>2. QED
      BY <2>1, GrowsKeeps
  <1>6. \A y : Tracked(b, W, D, y) <=> Tracked(a, W, D, y)
    BY <1>2 DEF Tracked
  <1>7. Ignored(R, W)
    <2>1. SUFFICES ASSUME NEW k \in DOMAIN R, R[k].mask = "ignored"
                   PROVE  /\ \A e \in DOMAIN W : W[e] # R[k].wd
                          /\ \A l \in DOMAIN R : l > k => R[l].wd # R[k].wd
      BY DEF Ignored
    <2>2. k \in DOMAIN Q /\ R[k] = Q[k]
      BY <2>1 DEF Grows, Event
    <2>3. /\ \A e \in DOMAIN W : W[e] # Q[k].wd
          /\ \A l \in DOMAIN Q : l > k => Q[l].wd # Q[k].wd
      BY <2>1, <2>2 DEF Core, Ignored
    <2>4. QED
      BY <2>2, <2>3 DEF Grows, Event
  <1>8. Exact(b, R, W, D)
    BY <1>5, <1>6 DEF Core, Exact
  <1>9. Links(b, R, W)
    <2>1. SUFFICES ASSUME NEW e \in DOMAIN W, NEW m \in Names
                   PROVE  /\ InTree(b, Append(b[e], m)) =>
                                \A k \in DOMAIN R : Rem(R, k, W[e], m) =>
                                    \E l \in DOMAIN R : l > k /\ Cre(R, l, W[e], m)
                          /\ ~InTree(b, Append(b[e], m)) =>
                                \A k \in DOMAIN R : Cre(R, k, W[e], m) =>
                                    \E l \in DOMAIN R : l > k /\ Rem(R, l, W[e], m)
      BY DEF Links
    <2>2. b[e] = a[e] /\ e \in DOMAIN a /\ a[e] \in Seq(Nat) /\ a[P] \in Seq(Nat) /\ m \in Nat /\ n \in Nat
      BY <1>2, PathType, NamesAreNumbers DEF CoreTypes
    <2>3. CASE Append(a[e], m) = x
      <3>1. a[e] = a[P] /\ m = n
        BY <2>2, <2>3, AppendSame
      <3>2. e = P
        BY <2>2, <3>1, TreeOne
      <3>3. PICK l \in DOMAIN R \ DOMAIN Q : R[l] = Event(W[P], "create", <<n>>)
        BY <3>2
      <3>4. Cre(R, l, W[e], m)
        BY <3>1, <3>2, <3>3 DEF Cre, Event
      <3>5. InTree(b, Append(b[e], m))
        BY <1>1, <2>2, <2>3
      <3>6. \A k \in DOMAIN R : Rem(R, k, W[e], m) => l > k
        BY <1>3 DEF Grows, CoreTypes
      <3>7. QED
        BY <3>4, <3>5, <3>6
    <2>4. CASE Append(a[e], m) # x
      <3>1. InTree(b, Append(b[e], m)) <=> InTree(a, Append(a[e], m))
        BY <1>1, <2>2, <2>4
      <3>2. ASSUME InTree(a, Append(a[e], m)), NEW k \in DOMAIN R, Rem(R, k, W[e], m)
            PROVE  \E l \in DOMAIN R : l > k /\ Cre(R, l, W[e], m)
        <4>1. k \in DOMAIN Q /\ Rem(Q, k, W[e], m)
          BY <1>3, <3>2
        <4>2. PICK l \in DOMAIN Q : l > k /\ Cre(Q, l, W[e], m)
          BY <3>2, <4>1 DEF Core, Links
        <4>3. QED
          BY <4>2, GrowsSame
      <3>3. ASSUME ~InTree(a, Append(a[e], m)), NEW k \in DOMAIN R, Cre(R, k, W[e], m)
            PROVE  \E l \in DOMAIN R : l > k /\ Rem(R, l, W[e], m)
        <4>1. k \in DOMAIN Q
          <5>1. SUFFICES ASSUME k \notin DOMAIN Q PROVE FALSE
            OBVIOUS
          <5>2. P \in DOMAIN W /\ W[e] = W[P] /\ m = n
            BY <1>4, <3>3, <5>1
          <5>3. e = P
            BY <1>2, <5>2 DEF Maps
          <5>4. QED
            BY <2>4, <5>2, <5>3
        <4>2. Cre(Q, k, W[e], m)
          BY <3>3, <4>1, GrowsSame
        <4>3. PICK l \in DOMAIN Q : l > k /\ Rem(Q, l, W[e], m)
          BY <3>3, <4>1, <4>2 DEF Core, Links
        <4>4. QED
          BY <4>3, GrowsSame
      <3>4. QED
        BY <3>1, <3>2, <3>3
    <2>5. QED
      BY <2>3, <2>4
  <1>10. Covered(b, R, W, D, vs, ls)
    <2>1. SUFFICES ASSUME NEW e \in DOMAIN b
                   PROVE  \/ Tracked(b, W, D, b[e]) /\ ~Doomed(R, D, b[e])
                          \/ Created(R, D, b[e])
                          \/ Walked(vs, ls, b[e])
      BY DEF Covered
    <2>2. CASE e \in DOMAIN a
      <3>1. b[e] = a[e]
        BY <2>2 DEF Added
      <3>2. \/ Tracked(a, W, D, a[e]) /\ ~Doomed(Q, D, a[e])
            \/ Created(Q, D, a[e])
            \/ Walked(vs, ls, a[e])
        BY <2>2 DEF Core, Covered
      <3>3. QED
        BY <1>5, <1>6, <3>1, <3>2, GrowsKeeps
    <2>3. CASE e = d
      <3>1. b[e] = x /\ a[P] \in Seq(Nat) /\ n \in Nat /\ x \in Seq(Nat) /\ IsPrefix(a[P], x) /\ x # a[P]
        BY <2>3, PathType, NamesAreNumbers, AppendPrefix, AppendType DEF Added, CoreTypes
      <3>2. CASE Tracked(a, W, D, a[P])
        <4>1. P \in DOMAIN W /\ D[W[P]] = a[P] /\ W[P] \in DOMAIN D
          BY <1>2, <3>2, TrackedOne DEF Maps
        <4>2. PICK l \in DOMAIN R : R[l] = Event(W[P], "create", <<n>>)
          BY <4>1
        <4>3. Cre(R, l, W[P], n)
          BY <4>2 DEF Cre, Event
        <4>4. IsPrefix(Append(D[W[P]], n), x)
          BY <3>1, <4>1, PrefixRefl
        <4>5. Created(R, D, x)
          BY <4>1, <4>3, <4>4, NamesAreNumbers, CreatedBy
        <4>6. QED
          BY <3>1, <4>5
      <3>3. CASE Created(Q, D, a[P])
        <4>1. Created(Q, D, x)
          BY <3>1, <3>3, CreatedBelow DEF CoreTypes
        <4>2. QED
          BY <3>1, <4>1, GrowsKeeps
      <3>4. CASE Walked(vs, ls, a[P])
        <4>1. \A q \in vs \cup ls : q \in Seq(Nat) /\ (IsPrefix(q, a[P]) => IsPrefix(q, x))
          BY <3>1, PathType, PrefixTrans DEF CoreTypes
        <4>2. \A q \in ls : q = x => ~IsPrefix(q, a[P])
          BY <3>1, AppendPrefix
        <4>3. Walked(vs, ls, x)
          BY <3>4, <4>1, <4>2 DEF Walked
        <4>4. QED
          BY <3>1, <4>3
      <3>5. QED
        BY <3>2, <3>3, <3>4 DEF Core, Covered
    <2>4. QED
      BY <2>2, <2>3 DEF Added
  <1>11. Misplaced(b, R, W, D, vs, ls)
    <2>1. \A e \in DOMAIN W : D[W[e]] # a[e] => \A q \in vs \cup ls : ~IsPrefix(q, a[e])
      BY DEF Core, Misplaced
    <2>2. QED
      BY <1>2, <2>1, GrowsMisplaced DEF Misplaced
  <1>12. Walking(b, R, W, D, vs, ls)
    <2>1. \A y : InTree(a, y) => InTree(b, y)
      BY <1>1
    <2>2. QED
      BY <1>5, <1>6, <2>1 DEF Core, Walking
  <1>13. QED
    BY <1>2, <1>7, <1>8, <1>9, <1>10, <1>11, <1>12 DEF Core

-----------------------------------------------------------------------------
(* A directory is removed *)

\* The tree b is a without the directory d.
Removed(a, b, d) ==
    /\ d \in DOMAIN a /\ DOMAIN b = DOMAIN a \ {d}
    /\ \A e \in DOMAIN b : b[e] = a[e]

\* The directory d is the entry n of the directory P.
Child(a, P, n, d) == d \in DOMAIN a /\ a[d] = Append(a[P], n)

LEMMA RemovedTree ==
  ASSUME NEW a, NEW b, NEW P \in DOMAIN a, NEW n \in Name, NEW d,
         a \in [DOMAIN a -> Path], IsTree(a), Removed(a, b, d), Child(a, P, n, d),
         \A m \in Name : ~InTree(a, Append(a[d], m))
  PROVE  /\ IsTree(b) /\ \A e \in DOMAIN b : b[e] \in Path
         /\ \A x : InTree(b, x) <=> InTree(a, x) /\ x # a[d]
         /\ \A e \in DOMAIN a : IsPrefix(a[d], a[e]) => e = d
         /\ P # d
PROOF
  <1>1. a[P] \in Seq(Nat) /\ n \in Nat /\ a[d] \in Seq(Nat) /\ d \in DOMAIN a
    BY PathType, NamesAreNumbers DEF Removed
  <1>2. P # d
    BY <1>1, AppendType DEF Child
  <1>3. \A e \in DOMAIN b : b[e] \in Path
    BY DEF Removed
  <1>4. \A x : InTree(b, x) <=> InTree(a, x) /\ x # a[d]
    <2>1. \A e \in DOMAIN a : a[e] = a[d] => e = d
      BY <1>1, TreeOne
    <2>2. QED
      BY <2>1 DEF Removed, InTree
  <1>5. ASSUME NEW e \in DOMAIN a, IsPrefix(a[d], a[e]) PROVE e = d
    <2>1. SUFFICES ASSUME e # d PROVE FALSE
      OBVIOUS
    <2>2. a[e] # a[d] /\ a[e] \in Path /\ a[e] \in Seq(Nat)
      BY <1>1, <2>1, TreeOne, PathType
    <2> DEFINE m == a[e][Len(a[d]) + 1]
    <2>3. m \in Nat /\ IsPrefix(Append(a[d], m), a[e])
      BY <1>1, <1>5, <2>2, PrefixNext
    <2> HIDE DEF m
    <2>4. Append(a[d], m) \in Seq(Nat)
      BY <1>1, <2>3, AppendType
    <2>5. Append(a[d], m) \in Path
      BY <2>2, <2>3, <2>4, PathAbove
    <2>6. m \in Name
      BY <1>1, <2>3, <2>5, PathAppend
    <2>7. InTree(a, Append(a[d], m))
      BY <2>3, <2>5, TreeUp DEF InTree
    <2>8. QED
      BY <2>6, <2>7
  <1>6. Root \in DOMAIN b /\ b[Root] = <<>>
    <2>1. a[Root] = <<>> /\ Root \in DOMAIN a
      BY DEF IsTree
    <2>2. a[d] # <<>>
      BY <1>1, AppendType DEF Child
    <2>3. QED
      BY <2>1, <2>2 DEF Removed
  <1>7. IsInjective(b)
    BY TreeOne DEF Removed, IsInjective
  <1>8. ASSUME NEW e \in DOMAIN b, NEW p \in Path, IsPrefix(p, b[e])
        PROVE  InTree(b, p)
    <2>1. e \in DOMAIN a /\ e # d /\ IsPrefix(p, a[e])
      BY <1>8 DEF Removed
    <2>2. InTree(a, p)
      BY <2>1, TreeUp DEF InTree
    <2>3. p # a[d]
      BY <1>5, <2>1
    <2>4. QED
      BY <1>4, <2>2, <2>3
  <1>9. IsTree(b)
    BY <1>6, <1>7, <1>8 DEF IsTree, InTree, Range
  <1>10. QED
    BY <1>2, <1>3, <1>4, <1>5, <1>9

\* The events of a removal, after the queue Q in R
RemovalTail(Q, R, W, P, n, d) ==
    /\ \A k \in DOMAIN R \ DOMAIN Q :
        \/ P \in DOMAIN W /\ R[k] = Event(W[P], "delete", <<n>>)
        \/ d \in DOMAIN W /\ R[k] = Event(W[d], "deleteself", <<>>)
        \/ /\ d \in DOMAIN W /\ R[k] = Event(W[d], "ignored", <<>>)
           /\ \A l \in DOMAIN R : l > k => R[l].wd # W[d]
    /\ P \in DOMAIN W => \E k \in DOMAIN R \ DOMAIN Q : R[k] = Event(W[P], "delete", <<n>>)

LEMMA CoreRmdir ==
  ASSUME NEW a, NEW Q, NEW W, NEW D, NEW vs, NEW ls, CoreTypes(a, Q, D, vs, ls), IsTree(a),
         Core(a, Q, W, D, vs, ls), NEW R, Grows(Q, R),
         NEW b, NEW P \in DOMAIN a, NEW n \in Name, NEW d,
         Removed(a, b, d), Child(a, P, n, d), \A m \in Name : ~InTree(a, Append(a[d], m)),
         NEW V, DOMAIN V = DOMAIN W \ {d}, \A e \in DOMAIN V : V[e] = W[e],
         RemovalTail(Q, R, W, P, n, d)
  PROVE  Core(b, R, V, D, vs, ls)
PROOF
  <1>hyp1. \A k \in DOMAIN R \ DOMAIN Q :
           \/ P \in DOMAIN W /\ R[k] = Event(W[P], "delete", <<n>>)
           \/ d \in DOMAIN W /\ R[k] = Event(W[d], "deleteself", <<>>)
           \/ /\ d \in DOMAIN W /\ R[k] = Event(W[d], "ignored", <<>>)
              /\ \A l \in DOMAIN R : l > k => R[l].wd # W[d]
    BY DEF RemovalTail
  <1>hyp2. P \in DOMAIN W => \E k \in DOMAIN R \ DOMAIN Q : R[k] = Event(W[P], "delete", <<n>>)
    BY DEF RemovalTail
  <1> USE <1>hyp1, <1>hyp2
  <1> DEFINE x == a[d]
  <1>1. /\ IsTree(b) /\ \A e \in DOMAIN b : b[e] \in Path
        /\ \A y : InTree(b, y) <=> InTree(a, y) /\ y # x
        /\ \A e \in DOMAIN a : IsPrefix(x, a[e]) => e = d
        /\ P # d
    <2>1. a \in [DOMAIN a -> Path]
      BY DEF CoreTypes
    <2>2. QED
      BY <2>1, RemovedTree
  <1>2. /\ DOMAIN W \subseteq DOMAIN a /\ Maps(W, D) /\ DOMAIN V \subseteq DOMAIN b
        /\ \A e \in DOMAIN V : b[e] = a[e] /\ V[e] = W[e] /\ e \in DOMAIN W /\ e # d /\ e \in DOMAIN a
    BY DEF Core, Removed
  <1>3. Maps(V, D)
    BY <1>2 DEF Maps
  <1>4. /\ a[P] \in Seq(Nat) /\ n \in Nat /\ n \in Names /\ x \in Path /\ x \in Seq(Nat)
        /\ d \in DOMAIN a /\ D \in [DOMAIN D -> Path]
    BY PathType, NamesAreNumbers DEF Removed, CoreTypes
  <1>5. ASSUME NEW k \in DOMAIN R, NEW u, NEW m, Cre(R, k, u, m)
        PROVE  k \in DOMAIN Q /\ Cre(Q, k, u, m)
    <2>1. k \in DOMAIN Q
      BY <1>5 DEF Cre, Event
    <2>2. QED
      BY <1>5, <2>1, GrowsSame
  <1>6. ASSUME NEW k \in DOMAIN R, NEW u, NEW m, Rem(R, k, u, m), k \notin DOMAIN Q
        PROVE  P \in DOMAIN W /\ u = W[P] /\ m = n
    <2>1. P \in DOMAIN W /\ R[k] = Event(W[P], "delete", <<n>>)
      BY <1>6 DEF Rem, Event
    <2>2. u = W[P] /\ <<m>> = <<n>>
      BY <1>6, <2>1 DEF Rem, Event
    <2>3. QED
      BY <2>1, <2>2
  <1>7. ASSUME Tracked(a, W, D, a[P]) PROVE Doomed(R, D, x)
    <2>1. P \in DOMAIN W /\ D[W[P]] = a[P] /\ W[P] \in DOMAIN D
      BY <1>2, <1>7, TrackedOne DEF Maps
    <2>2. PICK l \in DOMAIN R : R[l] = Event(W[P], "delete", <<n>>)
      BY <2>1
    <2>3. Rem(R, l, W[P], n)
      BY <2>2 DEF Rem, Event
    <2>4. IsPrefix(Append(D[W[P]], n), x)
      BY <1>4, <2>1, PrefixRefl DEF Child
    <2>5. QED
      BY <1>4, <2>1, <2>3, <2>4, DoomedBy
  \* A tracked directory that is removed is doomed.
  <1>8. ASSUME Tracked(a, W, D, x) PROVE Doomed(R, D, x)
    <2>1. SUFFICES ASSUME ~Doomed(Q, D, x) PROVE Doomed(R, D, x)
      BY GrowsKeeps
    <2>2. d \in DOMAIN W /\ D[W[d]] = x /\ W[d] \in DOMAIN D
      <3>1. d \in DOMAIN W /\ D[W[d]] = a[d]
        BY <1>2, <1>4, <1>8, TrackedOne
      <3>2. QED
        BY <1>2, <3>1 DEF Maps
    <2>3. IsPrefix(a[P], x) /\ a[P] \in Path
      BY <1>4, AppendPrefix DEF CoreTypes, Child
    <2>4. Tracked(a, W, D, a[P])
      BY <2>1, <2>2, <2>3 DEF Core, Exact
    <2>5. QED
      BY <1>7, <2>4
  <1>9. ASSUME NEW y, Tracked(a, W, D, y), y # x PROVE Tracked(b, V, D, y)
    <2>1. PICK e \in DOMAIN W : a[e] = y /\ D[W[e]] = y
      BY <1>9 DEF Tracked
    <2>2. e \in DOMAIN V
      BY <1>9, <2>1
    <2>3. QED
      BY <1>2, <2>1, <2>2 DEF Tracked
  \* What exists and is not doomed by the old events is not by the new one.
  <1>10. ASSUME NEW e \in DOMAIN b, ~Doomed(Q, D, a[e]) PROVE ~Doomed(R, D, a[e])
    <2>1. SUFFICES ASSUME Doomed(R, D, a[e]) PROVE FALSE
      OBVIOUS
    <2>2. PICK k \in DOMAIN R, u \in DOMAIN D, m \in Names :
              Rem(R, k, u, m) /\ IsPrefix(Append(D[u], m), a[e])
      BY <2>1 DEF Doomed
    <2>3. k \notin DOMAIN Q
      BY <1>10, <2>2, GrowsSame, DoomedBy
    <2>4. P \in DOMAIN W /\ u = W[P] /\ m = n
      BY <1>6, <2>2, <2>3
    <2>5. e \in DOMAIN a /\ a[e] \in Seq(Nat) /\ e # d
      BY PathType DEF Removed, CoreTypes
    <2>6. CASE D[W[P]] = a[P]
      BY <1>1, <1>4, <2>2, <2>4, <2>5, <2>6 DEF Child
    <2>7. CASE D[W[P]] # a[P]
      BY <1>4, <1>10, <2>2, <2>4, <2>5, <2>7, StrayLink
    <2>8. QED
      BY <2>6, <2>7
  <1>11. Ignored(R, V)
    <2>1. SUFFICES ASSUME NEW k \in DOMAIN R, R[k].mask = "ignored"
                   PROVE  /\ \A e \in DOMAIN V : V[e] # R[k].wd
                          /\ \A l \in DOMAIN R : l > k => R[l].wd # R[k].wd
      BY DEF Ignored
    <2>2. CASE k \in DOMAIN Q
      <3>1. R[k] = Q[k]
        BY <2>2 DEF Grows
      <3>2. /\ \A e \in DOMAIN W : W[e] # Q[k].wd
            /\ \A l \in DOMAIN Q : l > k => Q[l].wd # Q[k].wd
        BY <2>1, <2>2, <3>1 DEF Core, Ignored
      <3>3. \A l \in DOMAIN R \ DOMAIN Q : \E e \in DOMAIN W : R[l].wd = W[e]
        BY DEF Event
      <3>4. \A l \in DOMAIN R : l > k => R[l].wd # R[k].wd
        BY <3>1, <3>2, <3>3 DEF Grows
      <3>5. QED
        BY <1>2, <3>1, <3>2, <3>4
    <2>3. CASE k \notin DOMAIN Q
      <3>1. /\ d \in DOMAIN W /\ R[k] = Event(W[d], "ignored", <<>>)
            /\ \A l \in DOMAIN R : l > k => R[l].wd # W[d]
        BY <2>1, <2>3 DEF Event
      <3>2. R[k].wd = W[d]
        BY <3>1 DEF Event
      <3>3. \A e \in DOMAIN V : V[e] # W[d]
        BY <1>2, <3>1 DEF Maps
      <3>4. QED
        BY <3>1, <3>2, <3>3
    <2>4. QED
      BY <2>2, <2>3
  <1>12. Exact(b, R, V, D)
    <2>1. SUFFICES ASSUME NEW u \in DOMAIN D, NEW q \in Path, ~Doomed(R, D, D[u]), IsPrefix(q, D[u])
                   PROVE  Tracked(b, V, D, q)
      BY DEF Exact
    <2>2. Tracked(a, W, D, q)
      BY <2>1, GrowsKeeps DEF Core, Exact
    <2>3. q # x
      <3>1. SUFFICES ASSUME q = x PROVE FALSE
        OBVIOUS
      <3>2. Doomed(R, D, x) /\ D[u] \in Seq(Nat)
        BY <1>4, <1>8, <2>2, <3>1, PathType
      <3>3. QED
        BY <1>4, <2>1, <3>1, <3>2, DoomedBelow
    <2>4. QED
      BY <1>9, <2>2, <2>3
  <1>13. Links(b, R, V)
    <2>1. SUFFICES ASSUME NEW e \in DOMAIN V, NEW m \in Names
                   PROVE  /\ InTree(b, Append(b[e], m)) =>
                                \A k \in DOMAIN R : Rem(R, k, V[e], m) =>
                                    \E l \in DOMAIN R : l > k /\ Cre(R, l, V[e], m)
                          /\ ~InTree(b, Append(b[e], m)) =>
                                \A k \in DOMAIN R : Cre(R, k, V[e], m) =>
                                    \E l \in DOMAIN R : l > k /\ Rem(R, l, V[e], m)
      BY DEF Links
    <2>2. /\ b[e] = a[e] /\ V[e] = W[e] /\ e \in DOMAIN W /\ e \in DOMAIN a
          /\ a[e] \in Seq(Nat) /\ m \in Nat
      BY <1>2, PathType, NamesAreNumbers DEF CoreTypes
    <2>3. CASE Append(a[e], m) = x
      <3>1. a[e] = a[P] /\ m = n
        <4>1. Append(a[e], m) = Append(a[P], n)
          BY <1>4, <2>3 DEF Child
        <4>2. a[e] \in Seq(Nat) /\ m \in Nat /\ a[P] \in Seq(Nat) /\ n \in Nat
          BY <1>4, <2>2
        <4>3. QED
          BY <4>1, <4>2, AppendSame
      <3>2. e = P
        BY <2>2, <3>1, TreeOne
      <3>3. PICK l \in DOMAIN R \ DOMAIN Q : R[l] = Event(W[P], "delete", <<n>>)
        BY <2>2, <3>2
      <3>4. Rem(R, l, W[e], m)
        BY <3>1, <3>2, <3>3 DEF Rem, Event
      <3>5. ~InTree(b, Append(b[e], m))
        BY <1>1, <2>2, <2>3
      <3>6. \A k \in DOMAIN R : Cre(R, k, W[e], m) => l > k
        BY <1>5 DEF Grows, CoreTypes
      <3>7. QED
        BY <2>2, <3>4, <3>5, <3>6
    <2>4. CASE Append(a[e], m) # x
      <3>1. InTree(b, Append(b[e], m)) <=> InTree(a, Append(a[e], m))
        BY <1>1, <2>2, <2>4
      <3>2. ASSUME InTree(a, Append(a[e], m)), NEW k \in DOMAIN R, Rem(R, k, W[e], m)
            PROVE  \E l \in DOMAIN R : l > k /\ Cre(R, l, W[e], m)
        <4>1. k \in DOMAIN Q
          <5>1. SUFFICES ASSUME k \notin DOMAIN Q PROVE FALSE
            OBVIOUS
          <5>2. P \in DOMAIN W /\ W[e] = W[P] /\ m = n
            BY <1>6, <3>2, <5>1
          <5>3. e = P
            BY <1>2, <2>2, <5>2 DEF Maps
          <5>4. QED
            BY <2>4, <5>2, <5>3 DEF Child
        <4>2. Rem(Q, k, W[e], m)
          BY <3>2, <4>1, GrowsSame
        <4>3. PICK l \in DOMAIN Q : l > k /\ Cre(Q, l, W[e], m)
          BY <2>2, <3>2, <4>1, <4>2 DEF Core, Links
        <4>4. QED
          BY <4>3, GrowsSame
      <3>3. ASSUME ~InTree(a, Append(a[e], m)), NEW k \in DOMAIN R, Cre(R, k, W[e], m)
            PROVE  \E l \in DOMAIN R : l > k /\ Rem(R, l, W[e], m)
        <4>1. k \in DOMAIN Q /\ Cre(Q, k, W[e], m)
          BY <1>5, <3>3
        <4>2. PICK l \in DOMAIN Q : l > k /\ Rem(Q, l, W[e], m)
          BY <2>2, <3>3, <4>1 DEF Core, Links
        <4>3. QED
          BY <4>2, GrowsSame
      <3>4. QED
        BY <2>2, <3>1, <3>2, <3>3
    <2>5. QED
      BY <2>3, <2>4
  <1>14. Covered(b, R, V, D, vs, ls)
    <2>1. SUFFICES ASSUME NEW e \in DOMAIN b
                   PROVE  \/ Tracked(b, V, D, b[e]) /\ ~Doomed(R, D, b[e])
                          \/ Created(R, D, b[e])
                          \/ Walked(vs, ls, b[e])
      BY DEF Covered
    <2>2. b[e] = a[e] /\ e \in DOMAIN a /\ e # d
      BY DEF Removed
    <2>3. a[e] # x
      BY <1>4, <2>2, TreeOne
    <2>4. \/ Tracked(a, W, D, a[e]) /\ ~Doomed(Q, D, a[e])
          \/ Created(Q, D, a[e])
          \/ Walked(vs, ls, a[e])
      BY <2>2 DEF Core, Covered
    <2>5. QED
      BY <1>9, <1>10, <2>2, <2>3, <2>4, GrowsKeeps
  <1>15. Misplaced(b, R, V, D, vs, ls)
    <2>1. \A e \in DOMAIN W : D[W[e]] # a[e] => \A q \in vs \cup ls : ~IsPrefix(q, a[e])
      BY DEF Core, Misplaced
    <2>2. QED
      BY <1>2, <2>1, GrowsMisplaced DEF Misplaced
  <1>16. Walking(b, R, V, D, vs, ls)
    <2>1. ASSUME NEW p \in vs, ~Doomed(R, D, p)
          PROVE  InTree(b, p) /\ \A q \in Path : IsPrefix(q, p) /\ q # p => Tracked(b, V, D, q)
      <3>1. InTree(a, p) /\ \A q \in Path : IsPrefix(q, p) /\ q # p => Tracked(a, W, D, q)
        BY <2>1, GrowsKeeps DEF Core, Walking
      <3>2. p \in Path /\ p \in Seq(Nat)
        BY PathType DEF CoreTypes
      <3>3. p # x
        <4>1. SUFFICES ASSUME p = x PROVE FALSE
          OBVIOUS
        <4>2. Tracked(a, W, D, a[P])
          <5>1. IsPrefix(a[P], x) /\ a[P] # x /\ a[P] \in Path
            BY <1>4, AppendPrefix, AppendType DEF CoreTypes, Child
          <5>2. QED
            BY <3>1, <4>1, <5>1
        <4>3. QED
          BY <1>7, <2>1, <4>1, <4>2
      <3>4. ASSUME NEW q \in Path, IsPrefix(q, p), q # p PROVE q # x
        <4>1. PICK e \in DOMAIN a : a[e] = p
          BY <3>1 DEF InTree
        <4>2. QED
          BY <1>1, <3>3, <3>4, <4>1
      <3>5. QED
        BY <1>1, <1>9, <3>1, <3>3, <3>4
    <2>2. ASSUME NEW p \in ls, ~Doomed(R, D, p) PROVE Tracked(b, V, D, p)
      <3>1. Tracked(a, W, D, p)
        BY <2>2, GrowsKeeps DEF Core, Walking
      <3>2. p # x
        BY <1>8, <2>2, <3>1
      <3>3. QED
        BY <1>9, <3>1, <3>2
    <2>3. QED
      BY <2>1, <2>2 DEF Walking
  <1>17. QED
    BY <1>2, <1>3, <1>11, <1>12, <1>13, <1>14, <1>15, <1>16 DEF Core

-----------------------------------------------------------------------------
(* A directory is renamed *)

\* The tree b is a after what is at and below o has moved to w.
Relocated(a, b, o, w) ==
    /\ DOMAIN b = DOMAIN a
    /\ \A e \in DOMAIN a : IsPrefix(o, a[e]) => b[e] = Moved(o, w, a[e]) /\ b[e] \in Path
    /\ \A e \in DOMAIN a : ~IsPrefix(o, a[e]) => b[e] = a[e]

\* The path w is that of the entry m of the directory S.
Onto(a, S, m, w) == w = Append(a[S], m)

\* Then b is a tree too, whose directories have the same entries but for o and w.
Transfer(a, b, o, w) ==
    /\ IsTree(b) /\ \A e \in DOMAIN b : b[e] \in Path
    /\ \A e \in DOMAIN a : ~IsPrefix(w, a[e])
    /\ \A e \in DOMAIN a : IsPrefix(o, a[e]) => b[e] # a[e] /\ IsPrefix(w, b[e])
    /\ \A e \in DOMAIN a, k \in Names :
            IF IsPrefix(o, a[e]) THEN InTree(b, Append(b[e], k)) <=> InTree(a, Append(a[e], k))
            ELSE IF Append(a[e], k) = o THEN ~InTree(b, Append(b[e], k))
            ELSE IF Append(a[e], k) = w THEN InTree(b, Append(b[e], k))
            ELSE InTree(b, Append(b[e], k)) <=> InTree(a, Append(a[e], k))

LEMMA RelocatedTree ==
  ASSUME NEW a, NEW b, NEW P \in DOMAIN a, NEW n \in Name, NEW d, NEW S \in DOMAIN a, NEW m \in Name,
         a \in [DOMAIN a -> Path], IsTree(a), Child(a, P, n, d),
         NEW w \in Path, Onto(a, S, m, w), ~InTree(a, w), ~IsPrefix(a[d], a[S]),
         Relocated(a, b, a[d], w)
  PROVE  Transfer(a, b, a[d], w)
PROOF
  <1> DEFINE o == a[d]
             M(p) == Moved(o, w, p)
  <1>0. w = Append(a[S], m)
    BY DEF Onto
  <1>1. /\ d \in DOMAIN a /\ o \in Path /\ o \in Seq(Nat) /\ w \in Seq(Nat) /\ a[S] \in Seq(Nat)
        /\ m \in Nat /\ \A e \in DOMAIN a : a[e] \in Path /\ a[e] \in Seq(Nat)
    BY PathType, NamesAreNumbers DEF Child
  <1>2. InTree(a, o) /\ o # w /\ o # <<>> /\ IsPrefix(o, o)
    <2>1. InTree(a, o) /\ o # w
      BY <1>1 DEF InTree
    <2>2. o # <<>>
      <3>1. a[P] \in Seq(Nat) /\ n \in Nat
        BY <1>1, NamesAreNumbers
      <3>2. Append(a[P], n) # <<>>
        BY <3>1, AppendType
      <3>3. QED
        BY <3>2 DEF Child
    <2>3. QED
      BY <1>1, <2>1, <2>2, PrefixRefl
  <1>3. ASSUME NEW e \in DOMAIN a PROVE ~IsPrefix(w, a[e])
    BY TreeUp DEF InTree
  <1>4. ASSUME NEW e \in DOMAIN a, IsPrefix(o, a[e])
        PROVE  b[e] = M(a[e]) /\ b[e] \in Path /\ b[e] # a[e] /\ IsPrefix(w, b[e])
    <2>1. b[e] = M(a[e]) /\ b[e] \in Path
      BY <1>4 DEF Relocated
    <2>2. M(a[e]) # a[e] /\ IsPrefix(w, M(a[e]))
      BY <1>1, <1>2, <1>4, MovedAway, MovedBelow
    <2>3. QED
      BY <2>1, <2>2
  <1>5. ASSUME NEW e \in DOMAIN a, ~IsPrefix(o, a[e]) PROVE b[e] = a[e]
    BY <1>5 DEF Relocated
  <1>6. \A e \in DOMAIN b : b[e] \in Path
    BY <1>1, <1>4, <1>5 DEF Relocated
  \* A moved path determines the one that it was.
  <1>7. ASSUME NEW p \in Seq(Nat), NEW q \in Seq(Nat), IsPrefix(o, p), IsPrefix(o, q), M(p) = M(q)
        PROVE  p = q
    <2>1. Moved(w, o, M(p)) = p /\ Moved(w, o, M(q)) = q
      BY <1>1, <1>7, MovedBack
    <2>2. QED
      BY <1>7, <2>1
  <1>8. IsInjective(b)
    <2>1. SUFFICES ASSUME NEW e \in DOMAIN a, NEW f \in DOMAIN a, b[e] = b[f]
                   PROVE  e = f
      BY DEF IsInjective, Relocated
    <2>2. CASE IsPrefix(o, a[e]) /\ IsPrefix(o, a[f])
      <3>1. M(a[e]) = M(a[f])
        BY <1>4, <2>1, <2>2
      <3>2. a[e] = a[f]
        BY <1>1, <1>7, <2>2, <3>1
      <3>3. QED
        BY <3>2, TreeOne
    <2>3. CASE ~IsPrefix(o, a[e]) /\ ~IsPrefix(o, a[f])
      BY <1>5, <2>1, <2>3, TreeOne
    <2>4. CASE IsPrefix(o, a[e]) /\ ~IsPrefix(o, a[f])
      BY <1>3, <1>4, <1>5, <2>1, <2>4
    <2>5. CASE ~IsPrefix(o, a[e]) /\ IsPrefix(o, a[f])
      BY <1>3, <1>4, <1>5, <2>1, <2>5
    <2>6. QED
      BY <2>2, <2>3, <2>4, <2>5
  <1>9. Root \in DOMAIN b /\ b[Root] = <<>>
    <2>1. Root \in DOMAIN a /\ a[Root] = <<>>
      BY DEF IsTree
    <2>2. ~IsPrefix(o, <<>>)
      <3>1. SUFFICES ASSUME IsPrefix(o, <<>>) PROVE FALSE
        OBVIOUS
      <3>2. <<>> \in Seq(Nat) /\ IsPrefix(<<>>, o)
        BY <1>1, PrefixRefl
      <3>3. o = <<>>
        BY <1>1, <3>1, <3>2, PrefixAntisym
      <3>4. QED
        BY <1>2, <3>3
    <2>3. QED
      BY <1>5, <2>1, <2>2 DEF Relocated
  <1>10. \A y : InTree(a, y) /\ ~IsPrefix(o, y) => InTree(b, y)
    BY <1>5 DEF InTree, Relocated
  <1>11. \A y \in Path : InTree(a, y) /\ IsPrefix(o, y) => InTree(b, M(y))
    BY <1>4 DEF InTree, Relocated
  <1>12. ASSUME NEW e \in DOMAIN b, NEW p \in Path, IsPrefix(p, b[e])
         PROVE  InTree(b, p)
    <2>0. e \in DOMAIN a /\ p \in Seq(Nat)
      BY PathType DEF Relocated
    <2>1. CASE ~IsPrefix(o, a[e])
      <3>1. IsPrefix(p, a[e])
        BY <1>5, <1>12, <2>0, <2>1
      <3>2. InTree(a, p)
        BY <2>0, <3>1, TreeUp DEF InTree
      <3>3. ~IsPrefix(o, p)
        BY <1>1, <2>0, <2>1, <3>1, PrefixTrans
      <3>4. QED
        BY <1>10, <3>2, <3>3
    <2>2. CASE IsPrefix(o, a[e])
      <3>1. b[e] = M(a[e]) /\ IsPrefix(w, b[e]) /\ b[e] \in Seq(Nat)
        BY <1>4, <2>0, <2>2, PathType
      <3>2. IsPrefix(p, w) \/ IsPrefix(w, p)
        BY <1>1, <1>12, <2>0, <3>1, PrefixLinear
      <3>3. CASE IsPrefix(w, p)
        <4> DEFINE y == Moved(w, o, p)
        <4>1. y \in Seq(Nat) /\ IsPrefix(o, y)
          BY <1>1, <2>0, <3>3, MovedBelow
        <4>2. M(y) = p
          BY <1>1, <2>0, <3>3, MovedBack
        <4>3. IsPrefix(y, a[e])
          <5>1. IsPrefix(y, Moved(w, o, b[e]))
            BY <1>1, <1>12, <2>0, <3>1, <3>3, MovedOrder
          <5>2. Moved(w, o, M(a[e])) = a[e]
            BY <1>1, <2>0, <2>2, MovedBack
          <5>3. QED
            BY <3>1, <5>1, <5>2
        <4> HIDE DEF y
        <4>4. y \in Path
          BY <1>1, <2>0, <4>1, <4>3, PathAbove
        <4>5. InTree(a, y)
          BY <2>0, <4>3, <4>4, TreeUp DEF InTree
        <4>6. QED
          BY <1>11, <4>1, <4>2, <4>4, <4>5
      <3>4. CASE IsPrefix(p, w) /\ ~IsPrefix(w, p)
        <4>1. IsPrefix(w, w)
          BY <1>1, PrefixRefl
        <4>2. IsPrefix(p, a[S])
          BY <1>0, <1>1, <2>0, <3>4, <4>1, PrefixAppend
        <4>3. InTree(a, p)
          BY <4>2, TreeUp DEF InTree
        <4>4. ~IsPrefix(o, p)
          BY <1>1, <2>0, <4>2, PrefixTrans
        <4>5. QED
          BY <1>10, <4>3, <4>4
      <3>5. QED
        BY <3>2, <3>3, <3>4
    <2>3. QED
      BY <2>1, <2>2
  <1>13. IsTree(b)
    BY <1>8, <1>9, <1>12 DEF IsTree, InTree, Range
  \* The entries of the directories
  <1>14. ASSUME NEW y, InTree(b, y)
         PROVE  \/ IsPrefix(w, y) /\ \E f \in DOMAIN a : IsPrefix(o, a[f]) /\ y = M(a[f])
                \/ ~IsPrefix(w, y) /\ InTree(a, y) /\ ~IsPrefix(o, y)
    <2>1. PICK f \in DOMAIN a : b[f] = y
      BY <1>14 DEF InTree, Relocated
    <2>2. QED
      BY <1>3, <1>4, <1>5, <2>1 DEF InTree
  <1>15. ASSUME NEW e \in DOMAIN a, NEW k \in Names
         PROVE  IF IsPrefix(o, a[e]) THEN InTree(b, Append(b[e], k)) <=> InTree(a, Append(a[e], k))
                ELSE IF Append(a[e], k) = o THEN ~InTree(b, Append(b[e], k))
                ELSE IF Append(a[e], k) = w THEN InTree(b, Append(b[e], k))
                ELSE InTree(b, Append(b[e], k)) <=> InTree(a, Append(a[e], k))
    <2> DEFINE y == Append(a[e], k)
    <2>1. k \in Nat /\ a[e] \in Seq(Nat) /\ y \in Seq(Nat) /\ IsPrefix(a[e], y)
      BY <1>1, NamesAreNumbers, AppendType, AppendPrefix
    <2>2. CASE IsPrefix(o, a[e])
      <3>1. b[e] = M(a[e])
        BY <1>4, <2>2
      <3>2. Append(b[e], k) = M(y)
        <4>1. M(y) = Append(M(a[e]), k)
          <5>1. o \in Seq(Nat) /\ w \in Seq(Nat) /\ a[e] \in Seq(Nat) /\ k \in Nat /\ IsPrefix(o, a[e])
            BY <1>1, <2>1, <2>2
          <5> HIDE DEF o
          <5>2. QED
            BY <5>1, MovedAppend
        <4>2. QED
          BY <3>1, <4>1
      <3>3. IsPrefix(o, y) /\ IsPrefix(w, M(y))
        <4>1. IsPrefix(o, y)
          BY <1>1, <2>1, <2>2, PrefixTrans
        <4>2. QED
          BY <1>1, <2>1, <4>1, MovedBelow
      <3> HIDE DEF y
      <3>4. ASSUME InTree(b, M(y)) PROVE InTree(a, y)
        <4>1. PICK f \in DOMAIN a : IsPrefix(o, a[f]) /\ M(y) = M(a[f])
          BY <1>14, <3>3, <3>4
        <4>2. y = a[f]
          BY <1>1, <1>7, <2>1, <3>3, <4>1
        <4>3. QED
          BY <4>2 DEF InTree
      <3>5. ASSUME InTree(a, y) PROVE InTree(b, M(y))
        <4>1. y \in Path
          BY <1>1, <3>5 DEF InTree
        <4>2. QED
          BY <1>11, <3>3, <3>5, <4>1
      <3>6. QED
        BY <2>2, <3>2, <3>4, <3>5 DEF y
    <2>3. CASE ~IsPrefix(o, a[e])
      <3>1. Append(b[e], k) = y
        BY <1>5, <2>3
      <3>2. y = o => ~InTree(b, y)
        BY <1>1, <1>2, <1>3, <1>14
      <3>3. y = w => InTree(b, y)
        <4>1. M(o) = w
          BY <1>1, MovedSelf
        <4>2. QED
          BY <1>1, <1>2, <1>11, <4>1
      <3>4. ASSUME y # o, y # w PROVE InTree(b, y) <=> InTree(a, y)
        <4>1. ~IsPrefix(o, y)
          BY <1>1, <2>1, <2>3, <3>4, PrefixAppend
        <4>2. ~IsPrefix(w, y)
          BY <1>1, <1>3, <2>1, <3>4, PrefixAppend
        <4>3. QED
          BY <1>10, <1>14, <4>1, <4>2
      <3>5. QED
        BY <2>3, <3>1, <3>2, <3>3, <3>4
    <2>4. QED
      BY <2>2, <2>3
  <1>16. QED
    BY <1>3, <1>4, <1>6, <1>13, <1>15 DEF Transfer

\* No creation is pending at, above or below w.
Apart(Q, D, w) ==
    \A k \in DOMAIN Q, u \in DOMAIN D, l \in Names : Cre(Q, k, u, l) =>
        ~IsPrefix(Append(D[u], l), w) /\ ~IsPrefix(w, Append(D[u], l))

\* The events of a rename of d, n in P, to m in S, after the queue Q in R
RenameTail(Q, R, W, P, n, S, m, d, t) ==
    /\ t \in DOMAIN R \ DOMAIN Q /\ R[t] = Event(W[S], "to", <<m>>)
    /\ \A k \in DOMAIN R \ DOMAIN Q :
        \/ P \in DOMAIN W /\ R[k] = Event(W[P], "from", <<n>>)
        \/ k = t
        \/ d \in DOMAIN W /\ R[k] = Event(W[d], "moveself", <<>>)
    /\ P \in DOMAIN W => \E k \in DOMAIN R \ DOMAIN Q : k < t /\ R[k] = Event(W[P], "from", <<n>>)

LEMMA CoreRename ==
  ASSUME NEW a, NEW Q, NEW W, NEW D, CoreTypes(a, Q, D, {}, {}), IsTree(a),
         Core(a, Q, W, D, {}, {}), NEW R, Grows(Q, R),
         NEW b, NEW P \in DOMAIN a, NEW n \in Name, NEW d, NEW S \in DOMAIN a, NEW m \in Name,
         Child(a, P, n, d), NEW w \in Path, Onto(a, S, m, w), ~InTree(a, w),
         ~IsPrefix(a[d], a[S]), Relocated(a, b, a[d], w),
         S \in DOMAIN W,
         Apart(Q, D, w), NEW t, RenameTail(Q, R, W, P, n, S, m, d, t)
  PROVE  Core(b, R, W, D, {}, {}) /\ Created(R, D, w)
PROOF
  <1>hyp1. \A k \in DOMAIN Q, u \in DOMAIN D, l \in Names : Cre(Q, k, u, l) =>
               ~IsPrefix(Append(D[u], l), w) /\ ~IsPrefix(w, Append(D[u], l))
    BY DEF Apart
  <1>hyp2. t \in DOMAIN R \ DOMAIN Q /\ R[t] = Event(W[S], "to", <<m>>)
    BY DEF RenameTail
  <1>hyp3. \A k \in DOMAIN R \ DOMAIN Q :
               \/ P \in DOMAIN W /\ R[k] = Event(W[P], "from", <<n>>)
               \/ k = t
               \/ d \in DOMAIN W /\ R[k] = Event(W[d], "moveself", <<>>)
    BY DEF RenameTail
  <1>hyp4. P \in DOMAIN W => \E k \in DOMAIN R \ DOMAIN Q : k < t /\ R[k] = Event(W[P], "from", <<n>>)
    BY DEF RenameTail
  <1> USE <1>hyp1, <1>hyp2, <1>hyp3, <1>hyp4
  <1> DEFINE o == a[d]
  <1>b. w = Append(a[S], m)
    BY DEF Onto
  <1>1. /\ d \in DOMAIN a /\ o \in Path /\ o \in Seq(Nat) /\ w \in Path /\ w \in Seq(Nat) /\ a[S] \in Seq(Nat)
        /\ m \in Nat /\ m \in Names /\ n \in Nat /\ n \in Names
        /\ D \in [DOMAIN D -> Path] /\ a \in [DOMAIN a -> Path]
        /\ \A e \in DOMAIN a : a[e] \in Path /\ a[e] \in Seq(Nat)
        /\ DOMAIN W \subseteq DOMAIN a /\ Maps(W, D)
    BY PathType, NamesAreNumbers DEF Child, CoreTypes, Core
  <1>a. \A f \in DOMAIN a : Tracked(a, W, D, a[f]) => f \in DOMAIN W /\ D[W[f]] = a[f]
    <2>1. DOMAIN W \subseteq DOMAIN a
      BY <1>1
    <2>2. QED
      BY <2>1, TrackedOne
  <1>0. DOMAIN b = DOMAIN a
    BY DEF Relocated
  <1>2. /\ IsTree(b) /\ \A e \in DOMAIN b : b[e] \in Path
        /\ \A e \in DOMAIN a : ~IsPrefix(w, a[e])
        /\ \A e \in DOMAIN a : IsPrefix(o, a[e]) => b[e] # a[e] /\ IsPrefix(w, b[e])
        /\ \A e \in DOMAIN a, k \in Names :
                IF IsPrefix(o, a[e]) THEN InTree(b, Append(b[e], k)) <=> InTree(a, Append(a[e], k))
                ELSE IF Append(a[e], k) = o THEN ~InTree(b, Append(b[e], k))
                ELSE IF Append(a[e], k) = w THEN InTree(b, Append(b[e], k))
                ELSE InTree(b, Append(b[e], k)) <=> InTree(a, Append(a[e], k))
    <2>1. a \in [DOMAIN a -> Path]
      BY <1>1
    <2>2. QED
      <3>1. Transfer(a, b, a[d], w)
        BY <2>1, RelocatedTree
      <3>2. QED
        BY <3>1 DEF Transfer
  <1>3. \A e \in DOMAIN a : ~IsPrefix(o, a[e]) => b[e] = a[e]
    BY DEF Relocated
  \* The target is tracked.
  <1>4. D[W[S]] = a[S] /\ W[S] \in DOMAIN D
    <2>1. IsPrefix(a[S], w)
      BY <1>b, <1>1, AppendPrefix
    <2>2. ~Created(Q, D, a[S])
      <3>1. SUFFICES ASSUME Created(Q, D, a[S]) PROVE FALSE
        OBVIOUS
      <3>2. Created(Q, D, w)
        BY <1>1, <2>1, <3>1, CreatedBelow
      <3>3. QED
        BY <3>2 DEF Created
    <2>3. Tracked(a, W, D, a[S])
      BY <2>2 DEF Core, Covered, Walked
    <2>4. QED
      <3>1. DOMAIN W \subseteq DOMAIN a
        BY <1>1
      <3>2. D[W[S]] = a[S]
        BY <2>3, <3>1, TrackedOne
      <3>3. QED
        BY <1>1, <3>2 DEF Maps
  <1>5. Cre(R, t, W[S], m)
    BY DEF Cre, Event
  <1>6. Created(R, D, w)
    <2>1. IsPrefix(Append(D[W[S]], m), w)
      BY <1>b, <1>1, <1>4, PrefixRefl
    <2>2. QED
      BY <1>1, <1>4, <1>5, <2>1, CreatedBy
  \* The new events
  <1>7. ASSUME NEW k \in DOMAIN R, NEW u, NEW l, Rem(R, k, u, l), k \notin DOMAIN Q
        PROVE  P \in DOMAIN W /\ u = W[P] /\ l = n
    <2>1. P \in DOMAIN W /\ R[k] = Event(W[P], "from", <<n>>)
      BY <1>7 DEF Rem, Event
    <2>2. u = W[P] /\ <<l>> = <<n>>
      BY <1>7, <2>1 DEF Rem, Event
    <2>3. QED
      BY <2>1, <2>2
  <1>8. ASSUME NEW k \in DOMAIN R, NEW u, NEW l, Cre(R, k, u, l), k \notin DOMAIN Q
        PROVE  k = t /\ u = W[S] /\ l = m
    <2>1. k = t
      BY <1>8 DEF Cre, Event
    <2>2. u = W[S] /\ <<l>> = <<m>>
      BY <1>8, <2>1 DEF Cre, Event
    <2>3. QED
      BY <2>1, <2>2
  <1>9. \A k \in DOMAIN R \ DOMAIN Q : \E e \in DOMAIN W : R[k].wd = W[e] /\ R[k].mask # "ignored"
    BY DEF Event
  \* The removal dooms what has moved, if that was tracked.
  <1>10. ASSUME NEW e \in DOMAIN W, D[W[e]] = a[e], IsPrefix(o, a[e])
         PROVE  \E k \in DOMAIN R, v \in DOMAIN D, l \in Names :
                    k < t /\ Rem(R, k, v, l) /\ IsPrefix(Append(D[v], l), a[e])
    <2>1. CASE Doomed(Q, D, a[e])
      <3>1. PICK k \in DOMAIN Q, v \in DOMAIN D, l \in Names :
                Rem(Q, k, v, l) /\ IsPrefix(Append(D[v], l), a[e])
        BY <2>1 DEF Doomed
      <3>2. k \in DOMAIN R /\ Rem(R, k, v, l) /\ k < t
        BY <3>1, GrowsSame DEF Grows
      <3>3. QED
        BY <3>1, <3>2
    <2>2. CASE ~Doomed(Q, D, a[e])
      <3>1. IsPrefix(a[P], o) /\ a[P] \in Seq(Nat) /\ a[P] \in Path
        BY <1>1, AppendPrefix DEF Child
      <3>2. IsPrefix(a[P], a[e])
        BY <1>1, <1>10, <3>1, PrefixTrans
      <3>3. W[e] \in DOMAIN D
        BY <1>1 DEF Maps
      <3>4. Tracked(a, W, D, a[P])
        BY <1>10, <2>2, <3>1, <3>2, <3>3 DEF Core, Exact
      <3>5. P \in DOMAIN W /\ D[W[P]] = a[P]
        BY <1>a, <3>4
      <3>6. W[P] \in DOMAIN D
        BY <1>1, <3>5 DEF Maps
      <3>7. PICK k \in DOMAIN R : k < t /\ R[k] = Event(W[P], "from", <<n>>)
        BY <3>5
      <3>8. Rem(R, k, W[P], n)
        BY <3>7 DEF Rem, Event
      <3>9. IsPrefix(Append(D[W[P]], n), a[e])
        BY <1>10, <3>5 DEF Child
      <3>10. QED
        BY <1>1, <3>6, <3>7, <3>8, <3>9
    <2>3. QED
      BY <2>1, <2>2
  <1>11. ASSUME NEW e \in DOMAIN W, D[W[e]] = a[e], IsPrefix(o, a[e])
         PROVE  Doomed(R, D, a[e])
    BY <1>10, <1>11 DEF Doomed
  \* What stays and is not doomed by the old events is not by the new ones.
  <1>12. ASSUME NEW e \in DOMAIN a, ~IsPrefix(o, a[e]), ~Doomed(Q, D, a[e])
         PROVE  ~Doomed(R, D, a[e])
    <2>1. SUFFICES ASSUME Doomed(R, D, a[e]) PROVE FALSE
      OBVIOUS
    <2>2. PICK k \in DOMAIN R, u \in DOMAIN D, l \in Names :
              Rem(R, k, u, l) /\ IsPrefix(Append(D[u], l), a[e])
      BY <2>1 DEF Doomed
    <2>3. k \notin DOMAIN Q
      BY <1>12, <2>2, GrowsSame, DoomedBy
    <2>4. P \in DOMAIN W /\ u = W[P] /\ l = n
      BY <1>7, <2>2, <2>3
    <2>5. CASE D[W[P]] = a[P]
      BY <1>12, <2>2, <2>4, <2>5 DEF Child
    <2>6. CASE D[W[P]] # a[P]
      BY <1>1, <1>12, <2>2, <2>4, <2>6, StrayLink
    <2>7. QED
      BY <2>5, <2>6
  <1>13. ASSUME NEW e \in DOMAIN W, a[e] = D[W[e]], ~IsPrefix(o, a[e]) PROVE Tracked(b, W, D, a[e])
    BY <1>1, <1>3, <1>13 DEF Tracked
  <1>14. Ignored(R, W)
    <2>1. SUFFICES ASSUME NEW k \in DOMAIN R, R[k].mask = "ignored"
                   PROVE  /\ \A e \in DOMAIN W : W[e] # R[k].wd
                          /\ \A l \in DOMAIN R : l > k => R[l].wd # R[k].wd
      BY DEF Ignored
    <2>2. k \in DOMAIN Q /\ R[k] = Q[k]
      BY <1>9, <2>1 DEF Grows
    <2>3. /\ \A e \in DOMAIN W : W[e] # Q[k].wd
          /\ \A l \in DOMAIN Q : l > k => Q[l].wd # Q[k].wd
      BY <2>1, <2>2 DEF Core, Ignored
    <2>4. \A l \in DOMAIN R : l > k => R[l].wd # R[k].wd
      BY <1>9, <2>2, <2>3 DEF Grows
    <2>5. QED
      BY <2>2, <2>3, <2>4
  <1>15. Exact(b, R, W, D)
    <2>1. SUFFICES ASSUME NEW u \in DOMAIN D, NEW q \in Path, ~Doomed(R, D, D[u]), IsPrefix(q, D[u])
                   PROVE  Tracked(b, W, D, q)
      BY DEF Exact
    <2>2. Tracked(a, W, D, q)
      BY <2>1, GrowsKeeps DEF Core, Exact
    <2>3. PICK e \in DOMAIN W : a[e] = q /\ D[W[e]] = q
      BY <2>2 DEF Tracked
    <2>4. ~IsPrefix(o, a[e])
      <3>1. SUFFICES ASSUME IsPrefix(o, a[e]) PROVE FALSE
        OBVIOUS
      <3>2. Doomed(R, D, q) /\ q \in Seq(Nat) /\ D[u] \in Seq(Nat)
        BY <1>1, <1>11, <2>3, <3>1, PathType
      <3>3. QED
        BY <1>1, <2>1, <3>2, DoomedBelow
    <2>5. QED
      BY <1>13, <2>3, <2>4
  <1>16. Links(b, R, W)
    <2>1. SUFFICES ASSUME NEW e \in DOMAIN W, NEW k \in Names
                   PROVE  /\ InTree(b, Append(b[e], k)) =>
                                \A i \in DOMAIN R : Rem(R, i, W[e], k) =>
                                    \E l \in DOMAIN R : l > i /\ Cre(R, l, W[e], k)
                          /\ ~InTree(b, Append(b[e], k)) =>
                                \A i \in DOMAIN R : Cre(R, i, W[e], k) =>
                                    \E l \in DOMAIN R : l > i /\ Rem(R, l, W[e], k)
      BY DEF Links
    <2>2. e \in DOMAIN a /\ a[e] \in Seq(Nat) /\ k \in Nat
      BY <1>1, NamesAreNumbers
    <2>3. a[P] \in Seq(Nat)
      BY <1>1
    \* The link that is removed
    <2>4. CASE ~IsPrefix(o, a[e]) /\ Append(a[e], k) = o
      <3>1. Append(a[e], k) = Append(a[P], n)
        BY <2>4 DEF Child
      <3>2. a[e] = a[P] /\ k = n
        <4>1. n \in Nat
          BY <1>1
        <4>2. QED
          BY <2>2, <2>3, <3>1, <4>1, AppendSame
      <3>3. e = P
        BY <2>2, <3>2, TreeOne
      <3>4. PICK l \in DOMAIN R \ DOMAIN Q : l < t /\ R[l] = Event(W[P], "from", <<n>>)
        BY <3>3
      <3>5. Rem(R, l, W[e], k)
        BY <3>2, <3>3, <3>4 DEF Rem, Event
      <3>6. ~InTree(b, Append(b[e], k))
        BY <1>2, <2>2, <2>4
      <3>7. ASSUME NEW i \in DOMAIN R, Cre(R, i, W[e], k) PROVE l > i
        <4>1. i \in DOMAIN Q
          <5>1. SUFFICES ASSUME i \notin DOMAIN Q PROVE FALSE
            OBVIOUS
          <5>2. W[e] = W[S] /\ k = m
            BY <1>8, <3>7, <5>1
          <5>3. e = S
            BY <1>1, <5>2 DEF Maps
          <5>4. InTree(a, w)
            BY <1>b, <1>1, <2>4, <5>2, <5>3 DEF InTree
          <5>5. QED
            BY <5>4
        <4>2. QED
          BY <3>4, <4>1 DEF Grows, CoreTypes
      <3>8. QED
        BY <3>5, <3>6, <3>7
    \* The link that is created
    <2>5. CASE ~IsPrefix(o, a[e]) /\ Append(a[e], k) = w
      <3>1. a[e] = a[S] /\ k = m
        <4>1. a[S] \in Seq(Nat) /\ m \in Nat /\ a[e] \in Seq(Nat) /\ k \in Nat
          BY <1>1, <2>2
        <4>2. Append(a[e], k) = Append(a[S], m)
          BY <1>b, <2>5
        <4>3. QED
          BY <4>1, <4>2, AppendSame
      <3>2. e = S
        BY <2>2, <3>1, TreeOne
      <3>3. Cre(R, t, W[e], k)
        BY <1>5, <3>1, <3>2
      <3>4. InTree(b, Append(b[e], k))
        <4>1. w # o
          BY <1>1 DEF InTree
        <4>2. QED
          BY <1>2, <2>2, <2>5, <4>1
      <3>5. ASSUME NEW i \in DOMAIN R, Rem(R, i, W[e], k) PROVE t > i
        <4>1. i \in DOMAIN Q
          <5>1. SUFFICES ASSUME i \notin DOMAIN Q PROVE FALSE
            OBVIOUS
          <5>2. P \in DOMAIN W /\ W[e] = W[P] /\ k = n
            BY <1>7, <3>5, <5>1
          <5>3. e = P
            BY <1>1, <5>2 DEF Maps
          <5>4. w = o
            BY <2>5, <5>2, <5>3 DEF Child
          <5>5. QED
            BY <1>1, <5>4 DEF InTree
        <4>2. QED
          BY <4>1 DEF Grows, CoreTypes
      <3>6. QED
        BY <3>3, <3>4, <3>5
    \* The others
    <2>6. CASE IsPrefix(o, a[e]) \/ (Append(a[e], k) # o /\ Append(a[e], k) # w)
      <3>1. InTree(b, Append(b[e], k)) <=> InTree(a, Append(a[e], k))
        BY <1>2, <2>2, <2>6
      <3>2. ASSUME NEW i \in DOMAIN R, Rem(R, i, W[e], k) PROVE i \in DOMAIN Q /\ Rem(Q, i, W[e], k)
        <4>1. i \in DOMAIN Q
          <5>1. SUFFICES ASSUME i \notin DOMAIN Q PROVE FALSE
            OBVIOUS
          <5>2. P \in DOMAIN W /\ W[e] = W[P] /\ k = n
            BY <1>7, <3>2, <5>1
          <5>3. e = P
            BY <1>1, <5>2 DEF Maps
          <5>4. Append(a[e], k) = o
            BY <5>2, <5>3 DEF Child
          <5>5. ~IsPrefix(o, a[e])
            <6>1. ~IsPrefix(Append(a[e], k), a[e])
              BY <2>2, AppendPrefix
            <6>2. QED
              BY <5>4, <6>1
          <5>6. QED
            BY <2>6, <5>4, <5>5
        <4>2. QED
          BY <3>2, <4>1, GrowsSame
      <3>3. ASSUME NEW i \in DOMAIN R, Cre(R, i, W[e], k) PROVE i \in DOMAIN Q /\ Cre(Q, i, W[e], k)
        <4>1. i \in DOMAIN Q
          <5>1. SUFFICES ASSUME i \notin DOMAIN Q PROVE FALSE
            OBVIOUS
          <5>2. W[e] = W[S] /\ k = m
            BY <1>8, <3>3, <5>1
          <5>3. e = S
            BY <1>1, <5>2 DEF Maps
          <5>4. QED
            BY <1>b, <2>6, <5>2, <5>3
        <4>2. QED
          BY <3>3, <4>1, GrowsSame
      <3>4. ASSUME InTree(a, Append(a[e], k)), NEW i \in DOMAIN R, Rem(R, i, W[e], k)
            PROVE  \E l \in DOMAIN R : l > i /\ Cre(R, l, W[e], k)
        <4>1. PICK l \in DOMAIN Q : l > i /\ Cre(Q, l, W[e], k)
          BY <3>2, <3>4 DEF Core, Links
        <4>2. QED
          BY <4>1, GrowsSame
      <3>5. ASSUME ~InTree(a, Append(a[e], k)), NEW i \in DOMAIN R, Cre(R, i, W[e], k)
            PROVE  \E l \in DOMAIN R : l > i /\ Rem(R, l, W[e], k)
        <4>1. PICK l \in DOMAIN Q : l > i /\ Rem(Q, l, W[e], k)
          BY <3>3, <3>5 DEF Core, Links
        <4>2. QED
          BY <4>1, GrowsSame
      <3>6. QED
        BY <3>1, <3>4, <3>5
    <2>7. QED
      BY <2>4, <2>5, <2>6
  <1>17. Covered(b, R, W, D, {}, {})
    <2>1. SUFFICES ASSUME NEW e \in DOMAIN a
                   PROVE  \/ Tracked(b, W, D, b[e]) /\ ~Doomed(R, D, b[e])
                          \/ Created(R, D, b[e])
      BY <1>0 DEF Covered
    <2>2. CASE IsPrefix(o, a[e])
      <3>1. IsPrefix(w, b[e]) /\ b[e] \in Seq(Nat)
        BY <1>0, <1>2, <2>2, PathType
      <3>2. QED
        BY <1>1, <1>6, <3>1, CreatedBelow
    <2>3. CASE ~IsPrefix(o, a[e])
      <3>1. b[e] = a[e]
        BY <1>3, <2>3
      <3>2. \/ Tracked(a, W, D, a[e]) /\ ~Doomed(Q, D, a[e])
            \/ Created(Q, D, a[e])
        BY DEF Core, Covered, Walked
      <3>3. CASE Tracked(a, W, D, a[e]) /\ ~Doomed(Q, D, a[e])
        <4>1. e \in DOMAIN W /\ D[W[e]] = a[e]
          <5>1. DOMAIN W \subseteq DOMAIN a
            BY <1>1
          <5>2. QED
            BY <3>3, <5>1, TrackedOne
        <4>2. Tracked(b, W, D, a[e])
          BY <1>13, <2>3, <4>1
        <4>3. QED
          BY <1>12, <2>3, <3>1, <3>3, <4>2
      <3>4. QED
        BY <3>1, <3>2, <3>3, GrowsKeeps
    <2>4. QED
      BY <2>2, <2>3
  <1>18. Misplaced(b, R, W, D, {}, {})
    <2>1. SUFFICES ASSUME NEW e \in DOMAIN W, D[W[e]] # b[e],
                          NEW j \in DOMAIN R, NEW u \in DOMAIN D, NEW l \in Names,
                          Cre(R, j, u, l), IsPrefix(Append(D[u], l), b[e])
                   PROVE  \E k \in DOMAIN R, v \in DOMAIN D, i \in Names :
                            k < j /\ Rem(R, k, v, i) /\ IsPrefix(Append(D[v], i), D[W[e]])
      BY DEF Misplaced
    <2>2. e \in DOMAIN a
      BY <1>1
    <2>3. CASE ~IsPrefix(o, a[e])
      <3>1. b[e] = a[e]
        BY <1>3, <2>2, <2>3
      <3>2. QED
        BY <2>1, <3>1, GrowsMisplaced
    <2>4. CASE IsPrefix(o, a[e])
      <3>1. IsPrefix(w, b[e]) /\ b[e] \in Seq(Nat)
        BY <1>0, <1>2, <2>2, <2>4, PathType
      <3>2. Append(D[u], l) \in Seq(Nat)
        BY <1>1, LinkType
      <3>3. IsPrefix(Append(D[u], l), w) \/ IsPrefix(w, Append(D[u], l))
        BY <1>1, <2>1, <3>1, <3>2, PrefixLinear
      <3>4. j \notin DOMAIN Q
        BY <2>1, <3>3, GrowsSame
      <3>5. j = t
        BY <1>8, <2>1, <3>4
      <3>6. CASE D[W[e]] = a[e]
        BY <1>10, <2>4, <3>5, <3>6
      <3>7. CASE D[W[e]] # a[e]
        <4>1. PICK k \in DOMAIN Q, v \in DOMAIN D, i \in Names :
                    Rem(Q, k, v, i) /\ IsPrefix(Append(D[v], i), D[W[e]])
          BY <3>7, MisplacedDoomed
        <4>2. k \in DOMAIN R /\ Rem(R, k, v, i) /\ k < j
          BY <3>5, <4>1, GrowsSame DEF Grows
        <4>3. QED
          BY <4>1, <4>2
      <3>8. QED
        BY <3>6, <3>7
    <2>5. QED
      BY <2>3, <2>4
  <1>19. Walking(b, R, W, D, {}, {})
    BY DEF Walking
  <1>20. QED
    BY <1>0, <1>1, <1>6, <1>14, <1>15, <1>16, <1>17, <1>18, <1>19 DEF Core

-----------------------------------------------------------------------------
(* The first event is taken from the queue *)

Shifts(Q, R) == Q \in Seq(Events) /\ Q # <<>> /\ R = Tail(Q)

LEMMA ShiftUp ==
  ASSUME NEW Q, NEW R, Shifts(Q, R), NEW k \in DOMAIN R, NEW u, NEW n
  PROVE  /\ k + 1 \in DOMAIN Q /\ k + 1 > 1 /\ k \in Nat /\ R[k] = Q[k + 1]
         /\ Rem(R, k, u, n) <=> Rem(Q, k + 1, u, n)
         /\ Cre(R, k, u, n) <=> Cre(Q, k + 1, u, n)
         /\ Fil(R, k, u, n) <=> Fil(Q, k + 1, u, n)
PROOF
  <1>1. Q \in Seq(Events) /\ Q # <<>> /\ R = Tail(Q)
    BY DEF Shifts
  <1>2. k + 1 \in DOMAIN Q /\ k + 1 > 1 /\ k \in Nat /\ R[k] = Q[k + 1]
    BY <1>1
  <1>3. QED
    BY <1>2 DEF Rem, Cre, Fil

LEMMA ShiftDown ==
  ASSUME NEW Q, NEW R, Shifts(Q, R), NEW k \in DOMAIN Q, k # 1, NEW u, NEW n
  PROVE  /\ k - 1 \in DOMAIN R /\ k > 1 /\ k \in Nat /\ R[k - 1] = Q[k]
         /\ Rem(Q, k, u, n) <=> Rem(R, k - 1, u, n)
         /\ Cre(Q, k, u, n) <=> Cre(R, k - 1, u, n)
         /\ Fil(Q, k, u, n) <=> Fil(R, k - 1, u, n)
PROOF
  <1>1. Q \in Seq(Events) /\ Q # <<>> /\ R = Tail(Q)
    BY DEF Shifts
  <1>2. k - 1 \in DOMAIN R /\ k > 1 /\ k \in Nat /\ R[k - 1] = Q[k]
    BY <1>1
  <1>3. QED
    BY <1>2 DEF Rem, Cre, Fil

LEMMA ShiftTypes ==
  ASSUME NEW Q, NEW R, Shifts(Q, R)
  PROVE  R \in Seq(Events) /\ 1 \in DOMAIN Q /\ DOMAIN Q \subseteq Nat /\ DOMAIN R \subseteq Nat
PROOF
  <1>1. Q \in Seq(Events) /\ Q # <<>> /\ R = Tail(Q)
    BY DEF Shifts
  <1>2. QED
    BY <1>1

\* The part E of the paths D of descriptors
Part(E, D) == DOMAIN E \subseteq DOMAIN D /\ \A u \in DOMAIN E : E[u] = D[u]

\* The queue without its first event tells no more.
LEMMA ShiftTold ==
  ASSUME NEW Q, NEW R, Shifts(Q, R), NEW D, NEW E, Part(E, D), NEW x
  PROVE  /\ Doomed(R, E, x) => Doomed(Q, D, x)
         /\ Created(R, E, x) => Created(Q, D, x)
PROOF
  <1>1. ASSUME Doomed(R, E, x) PROVE Doomed(Q, D, x)
    <2>1. PICK k \in DOMAIN R, u \in DOMAIN E, n \in Names :
              Rem(R, k, u, n) /\ IsPrefix(Append(E[u], n), x)
      BY <1>1 DEF Doomed
    <2>2. k + 1 \in DOMAIN Q /\ Rem(Q, k + 1, u, n)
      BY <2>1, ShiftUp
    <2>3. u \in DOMAIN D /\ IsPrefix(Append(D[u], n), x)
      BY <2>1 DEF Part
    <2>4. QED
      BY <2>2, <2>3 DEF Doomed
  <1>2. ASSUME Created(R, E, x) PROVE Created(Q, D, x)
    <2>1. PICK k \in DOMAIN R, u \in DOMAIN E, n \in Names :
              Cre(R, k, u, n) /\ IsPrefix(Append(E[u], n), x)
      BY <1>2 DEF Created
    <2>2. k + 1 \in DOMAIN Q /\ Cre(Q, k + 1, u, n)
      BY <2>1, ShiftUp
    <2>3. u \in DOMAIN D /\ IsPrefix(Append(D[u], n), x)
      BY <2>1 DEF Part
    <2>4. QED
      BY <2>2, <2>3 DEF Created
  <1>3. QED
    BY <1>1, <1>2

\* It still has the events for the path x if the first one is not for x and
\* the descriptors of the others are kept.
LEMMA ShiftDoomed ==
  ASSUME NEW Q, NEW R, Shifts(Q, R), NEW D, NEW E, Part(E, D), NEW x,
         \A k \in DOMAIN Q, u \in DOMAIN D, n \in Names :
            Rem(Q, k, u, n) /\ IsPrefix(Append(D[u], n), x) => k # 1 /\ u \in DOMAIN E,
         Doomed(Q, D, x)
  PROVE  Doomed(R, E, x)
PROOF
  <1>1. PICK k \in DOMAIN Q, u \in DOMAIN D, n \in Names :
            Rem(Q, k, u, n) /\ IsPrefix(Append(D[u], n), x)
    BY DEF Doomed
  <1>2. k # 1 /\ u \in DOMAIN E
    BY <1>1
  <1>3. /\ k - 1 \in DOMAIN R /\ IsPrefix(Append(E[u], n), x)
        /\ Rem(R, k - 1, u, n)
    BY <1>1, <1>2, ShiftDown DEF Part
  <1>4. QED
    BY <1>2, <1>3 DEF Doomed

LEMMA ShiftCreated ==
  ASSUME NEW Q, NEW R, Shifts(Q, R), NEW D, NEW E, Part(E, D), NEW x,
         \A k \in DOMAIN Q, u \in DOMAIN D, n \in Names :
            Cre(Q, k, u, n) /\ IsPrefix(Append(D[u], n), x) => k # 1 /\ u \in DOMAIN E,
         Created(Q, D, x)
  PROVE  Created(R, E, x)
PROOF
  <1>1. PICK k \in DOMAIN Q, u \in DOMAIN D, n \in Names :
            Cre(Q, k, u, n) /\ IsPrefix(Append(D[u], n), x)
    BY DEF Created
  <1>2. k # 1 /\ u \in DOMAIN E
    BY <1>1
  <1>3. /\ k - 1 \in DOMAIN R /\ IsPrefix(Append(E[u], n), x)
        /\ Cre(R, k - 1, u, n)
    BY <1>1, <1>2, ShiftDown DEF Part
  <1>4. QED
    BY <1>2, <1>3 DEF Created

LEMMA ShiftTells ==
  ASSUME NEW Q, NEW R, Shifts(Q, R), NEW D, NEW E, Part(E, D), NEW x,
         \A k \in DOMAIN Q, u \in DOMAIN D, n \in Names :
            (Rem(Q, k, u, n) \/ Cre(Q, k, u, n) \/ Fil(Q, k, u, n)) /\ IsPrefix(Append(D[u], n), x) => k # 1 /\ u \in DOMAIN E,
         Announced(Q, D, x)
  PROVE  Announced(R, E, x)
PROOF
  <1>1. PICK k \in DOMAIN Q, u \in DOMAIN D, n \in Names :
            (Rem(Q, k, u, n) \/ Cre(Q, k, u, n) \/ Fil(Q, k, u, n)) /\ IsPrefix(Append(D[u], n), x)
    BY DEF Announced
  <1>2. k # 1 /\ u \in DOMAIN E
    BY <1>1
  <1>3. /\ k - 1 \in DOMAIN R /\ IsPrefix(Append(E[u], n), x)
        /\ Rem(R, k - 1, u, n) \/ Cre(R, k - 1, u, n) \/ Fil(R, k - 1, u, n)
    BY <1>1, <1>2, ShiftDown DEF Part
  <1>4. QED
    BY <1>2, <1>3 DEF Announced

LEMMA ShiftIgnored ==
  ASSUME NEW Q, NEW R, Shifts(Q, R), NEW W, Ignored(Q, W), NEW V,
         DOMAIN V \subseteq DOMAIN W, \A d \in DOMAIN V : V[d] = W[d]
  PROVE  Ignored(R, V)
PROOF
  <1>1. SUFFICES ASSUME NEW k \in DOMAIN R, R[k].mask = "ignored"
                 PROVE  /\ \A d \in DOMAIN V : V[d] # R[k].wd
                        /\ \A l \in DOMAIN R : l > k => R[l].wd # R[k].wd
    BY DEF Ignored
  <1>2. k + 1 \in DOMAIN Q /\ R[k] = Q[k + 1] /\ k \in Nat
    BY ShiftUp
  <1>3. /\ \A d \in DOMAIN W : W[d] # Q[k + 1].wd
        /\ \A l \in DOMAIN Q : l > k + 1 => Q[l].wd # Q[k + 1].wd
    BY <1>1, <1>2 DEF Ignored
  <1>4. ASSUME NEW l \in DOMAIN R, l > k PROVE R[l].wd # R[k].wd
    <2>1. l + 1 \in DOMAIN Q /\ R[l] = Q[l + 1] /\ l \in Nat
      BY ShiftUp
    <2>2. l + 1 > k + 1
      BY <1>2, <1>4, <2>1
    <2>3. QED
      BY <1>2, <1>3, <2>1, <2>2
  <1>5. QED
    BY <1>2, <1>3, <1>4

\* The links of the watches that are kept are told as before.
LEMMA ShiftLinks ==
  ASSUME NEW a, NEW Q, NEW R, Shifts(Q, R), NEW W, Links(a, Q, W), NEW V,
         DOMAIN V \subseteq DOMAIN W, \A d \in DOMAIN V : V[d] = W[d]
  PROVE  Links(a, R, V)
PROOF
  <1>1. SUFFICES ASSUME NEW d \in DOMAIN V, NEW n \in Names
                 PROVE  /\ InTree(a, Append(a[d], n)) =>
                            \A k \in DOMAIN R : Rem(R, k, V[d], n) =>
                                \E l \in DOMAIN R : l > k /\ Cre(R, l, V[d], n)
                        /\ ~InTree(a, Append(a[d], n)) =>
                            \A k \in DOMAIN R : Cre(R, k, V[d], n) =>
                                \E l \in DOMAIN R : l > k /\ Rem(R, l, V[d], n)
    BY DEF Links
  <1>2. d \in DOMAIN W /\ V[d] = W[d]
    OBVIOUS
  <1>3. ASSUME InTree(a, Append(a[d], n)), NEW k \in DOMAIN R, Rem(R, k, V[d], n)
        PROVE  \E l \in DOMAIN R : l > k /\ Cre(R, l, V[d], n)
    <2>1. k + 1 \in DOMAIN Q /\ Rem(Q, k + 1, W[d], n) /\ k \in Nat
      BY <1>2, <1>3, ShiftUp
    <2>2. PICK l \in DOMAIN Q : l > k + 1 /\ Cre(Q, l, W[d], n)
      BY <1>2, <1>3, <2>1 DEF Links
    <2>3. l \in Nat /\ l # 1
      BY <2>1, <2>2, ShiftTypes
    <2>4. l - 1 \in DOMAIN R /\ Cre(R, l - 1, W[d], n)
      BY <2>2, <2>3, ShiftDown
    <2>5. l - 1 > k
      BY <2>1, <2>2, <2>3
    <2>6. QED
      BY <1>2, <2>4, <2>5
  <1>4. ASSUME ~InTree(a, Append(a[d], n)), NEW k \in DOMAIN R, Cre(R, k, V[d], n)
        PROVE  \E l \in DOMAIN R : l > k /\ Rem(R, l, V[d], n)
    <2>1. k + 1 \in DOMAIN Q /\ Cre(Q, k + 1, W[d], n) /\ k \in Nat
      BY <1>2, <1>4, ShiftUp
    <2>2. PICK l \in DOMAIN Q : l > k + 1 /\ Rem(Q, l, W[d], n)
      BY <1>2, <1>4, <2>1 DEF Links
    <2>3. l \in Nat /\ l # 1
      BY <2>1, <2>2, ShiftTypes
    <2>4. l - 1 \in DOMAIN R /\ Rem(R, l - 1, W[d], n)
      BY <2>2, <2>3, ShiftDown
    <2>5. l - 1 > k
      BY <2>1, <2>2, <2>3
    <2>6. QED
      BY <1>2, <2>4, <2>5
  <1>5. QED
    BY <1>3, <1>4

\* What is misplaced is removed before what is created there.
LEMMA ShiftMisplaced ==
  ASSUME NEW a, NEW Q, NEW R, Shifts(Q, R), NEW W, NEW D, NEW vs, NEW ls,
         Misplaced(a, Q, W, D, vs, ls), NEW E, Part(E, D),
         NEW d \in DOMAIN W, D[W[d]] # a[d],
         \A k \in DOMAIN Q, u \in DOMAIN D, n \in Names :
            Rem(Q, k, u, n) /\ IsPrefix(Append(D[u], n), D[W[d]]) => k # 1 /\ u \in DOMAIN E,
         NEW j \in DOMAIN R, NEW u \in DOMAIN E, NEW n \in Names,
         Cre(R, j, u, n), IsPrefix(Append(E[u], n), a[d])
  PROVE  \E k \in DOMAIN R, v \in DOMAIN E, m \in Names :
            k < j /\ Rem(R, k, v, m) /\ IsPrefix(Append(E[v], m), D[W[d]])
PROOF
  <1>1. j + 1 \in DOMAIN Q /\ Cre(Q, j + 1, u, n) /\ j \in Nat
    BY ShiftUp
  <1>2. u \in DOMAIN D /\ IsPrefix(Append(D[u], n), a[d])
    BY DEF Part
  <1>3. PICK k \in DOMAIN Q, v \in DOMAIN D, m \in Names :
            k < j + 1 /\ Rem(Q, k, v, m) /\ IsPrefix(Append(D[v], m), D[W[d]])
    BY <1>1, <1>2 DEF Misplaced
  <1>4. k # 1 /\ v \in DOMAIN E
    BY <1>3
  <1>5. k - 1 \in DOMAIN R /\ Rem(R, k - 1, v, m) /\ k \in Nat
    BY <1>3, <1>4, ShiftDown
  <1>6. k - 1 < j
    BY <1>1, <1>3, <1>5
  <1>7. IsPrefix(Append(E[v], m), D[W[d]])
    BY <1>3, <1>4 DEF Part
  <1>8. QED
    BY <1>4, <1>5, <1>6, <1>7

\* A removal is handled: what is below its path is forgotten.
LEMMA CoreRemoval ==
  ASSUME NEW a, NEW Q, NEW W, NEW D, CoreTypes(a, Q, D, {}, {}), IsTree(a),
         Core(a, Q, W, D, {}, {}), NEW R, Shifts(Q, R),
         NEW c \in DOMAIN D, NEW i \in Names, Rem(Q, 1, c, i),
         NEW E, Part(E, D), \A u \in DOMAIN D : u \in DOMAIN E <=> ~IsPrefix(Append(D[c], i), D[u]),
         NEW V, DOMAIN V = {d \in DOMAIN W : W[d] \in DOMAIN E}, \A d \in DOMAIN V : V[d] = W[d]
  PROVE  /\ Core(a, R, V, E, {}, {})
         /\ \A s \in SUBSET Seq(Nat) :
                Reported(a, Q, D, {}, {}, s) =>
                    Reported(a, R, E, {}, {}, {x \in s : ~IsPrefix(Append(D[c], i), x)})
PROOF
  <1> DEFINE z == Append(D[c], i)
  <1>1. /\ D \in [DOMAIN D -> Path] /\ \A u \in DOMAIN D : D[u] \in Path /\ D[u] \in Seq(Nat)
        /\ a \in [DOMAIN a -> Path] /\ \A e \in DOMAIN a : a[e] \in Path /\ a[e] \in Seq(Nat)
        /\ DOMAIN W \subseteq DOMAIN a /\ Maps(W, D) /\ DOMAIN V \subseteq DOMAIN W
    BY PathType DEF CoreTypes, Core
  <1>2. z \in Seq(Nat)
    BY <1>1, LinkType
  <1>3. \A u \in DOMAIN D : u \in DOMAIN E <=> ~IsPrefix(z, D[u])
    OBVIOUS
  <1>4. 1 \in DOMAIN Q /\ \A x : IsPrefix(z, x) => Doomed(Q, D, x)
    BY ShiftTypes, DoomedBy
  <1> HIDE DEF z
  \* The events for other paths stay.
  <1>5. ASSUME NEW x \in Seq(Nat), ~IsPrefix(z, x), NEW k \in DOMAIN Q, NEW u \in DOMAIN D, NEW n \in Names,
               Rem(Q, k, u, n) \/ Cre(Q, k, u, n) \/ Fil(Q, k, u, n), IsPrefix(Append(D[u], n), x)
        PROVE  k # 1 /\ u \in DOMAIN E
    <2>1. D[u] \in Seq(Nat) /\ Append(D[u], n) \in Seq(Nat) /\ IsPrefix(D[u], Append(D[u], n))
      BY <1>1, LinkType
    <2>2. IsPrefix(D[u], x)
      BY <1>5, <2>1, PrefixTrans
    <2>3. u \in DOMAIN E
      <3>1. ~IsPrefix(z, D[u])
        BY <1>2, <1>5, <2>1, <2>2, PrefixTrans
      <3>2. QED
        BY <1>3, <3>1
    <2>4. k # 1
      <3>1. SUFFICES ASSUME k = 1 PROVE FALSE
        OBVIOUS
      <3>2. Rem(Q, 1, u, n)
        BY <1>5, <3>1 DEF Rem, Cre, Fil
      <3>3. u = c /\ <<n>> = <<i>>
        BY <3>2 DEF Rem
      <3>4. n = i
        BY <3>3
      <3>5. Append(D[u], n) = z
        BY <3>3, <3>4 DEF z
      <3>6. QED
        BY <1>5, <3>5
    <2>5. QED
      BY <2>3, <2>4
  <1>6. ASSUME NEW x \in Seq(Nat), ~IsPrefix(z, x)
        PROVE  /\ Doomed(Q, D, x) => Doomed(R, E, x)
               /\ Created(Q, D, x) => Created(R, E, x)
               /\ Announced(Q, D, x) => Announced(R, E, x)
    <2>1. Doomed(Q, D, x) => Doomed(R, E, x)
      BY <1>5, <1>6, ShiftDoomed
    <2>2. Created(Q, D, x) => Created(R, E, x)
      BY <1>5, <1>6, ShiftCreated
    <2>3. Announced(Q, D, x) => Announced(R, E, x)
      BY <1>5, <1>6, ShiftTells
    <2>4. QED
      BY <2>1, <2>2, <2>3
  <1>7. ASSUME NEW d \in DOMAIN V
        PROVE  d \in DOMAIN W /\ V[d] = W[d] /\ W[d] \in DOMAIN E /\ E[V[d]] = D[W[d]] /\ W[d] \in DOMAIN D
    BY DEF Part
  <1>8. ASSUME NEW q \in Seq(Nat), ~IsPrefix(z, q), Tracked(a, W, D, q)
        PROVE  Tracked(a, V, E, q)
    <2>1. PICK d \in DOMAIN W : a[d] = q /\ D[W[d]] = q
      BY <1>8 DEF Tracked
    <2>2. W[d] \in DOMAIN D
      BY <1>1 DEF Maps
    <2>3. W[d] \in DOMAIN E
      BY <1>3, <1>8, <2>1, <2>2
    <2>4. d \in DOMAIN V
      BY <2>3
    <2>5. E[V[d]] = q
      BY <1>7, <2>1, <2>4
    <2>6. QED
      BY <2>1, <2>4, <2>5 DEF Tracked
  <1>9. DOMAIN V \subseteq DOMAIN a /\ Maps(V, E)
    <2>1. \A d, e \in DOMAIN V : V[d] = V[e] => d = e
      BY <1>1, <1>7 DEF Maps
    <2>2. \A u, v \in DOMAIN E : E[u] = E[v] => u = v
      BY <1>1 DEF Maps, Part
    <2>3. \A d \in DOMAIN V : V[d] \in DOMAIN E
      BY <1>7
    <2>4. QED
      BY <1>1, <2>1, <2>2, <2>3 DEF Maps
  <1>10. Ignored(R, V)
    <2>1. Ignored(Q, W)
      BY DEF Core
    <2>2. QED
      BY <1>1, <2>1, ShiftIgnored
  <1>11. Exact(a, R, V, E)
    <2>1. SUFFICES ASSUME NEW u \in DOMAIN E, NEW q \in Path, ~Doomed(R, E, E[u]), IsPrefix(q, E[u])
                   PROVE  Tracked(a, V, E, q)
      BY DEF Exact
    <2>2. u \in DOMAIN D /\ E[u] = D[u] /\ D[u] \in Seq(Nat) /\ ~IsPrefix(z, D[u]) /\ q \in Seq(Nat)
      BY <1>1, <1>3, PathType DEF Part
    <2>3. ~Doomed(Q, D, D[u]) /\ IsPrefix(q, D[u])
      BY <1>6, <2>1, <2>2
    <2>4. Tracked(a, W, D, q)
      BY <2>2, <2>3 DEF Core, Exact
    <2>5. ~IsPrefix(z, q)
      BY <1>2, <2>2, <2>3, PrefixTrans
    <2>6. QED
      BY <1>8, <2>2, <2>4, <2>5
  <1>12. Links(a, R, V)
    <2>1. Links(a, Q, W)
      BY DEF Core
    <2>2. QED
      BY <1>1, <2>1, ShiftLinks
  <1>13. Covered(a, R, V, E, {}, {})
    <2>1. SUFFICES ASSUME NEW d \in DOMAIN a
                   PROVE  \/ Tracked(a, V, E, a[d]) /\ ~Doomed(R, E, a[d])
                          \/ Created(R, E, a[d])
      BY DEF Covered
    <2>2. a[d] \in Seq(Nat) /\ a[d] \in Path /\ InTree(a, a[d])
      BY <1>1 DEF InTree
    <2>3. CASE ~IsPrefix(z, a[d])
      <3>1. \/ Tracked(a, W, D, a[d]) /\ ~Doomed(Q, D, a[d])
            \/ Created(Q, D, a[d])
        BY DEF Core, Covered, Walked
      <3>2. ~Doomed(Q, D, a[d]) => ~Doomed(R, E, a[d])
        BY ShiftTold
      <3>3. QED
        BY <1>6, <1>8, <2>2, <2>3, <3>1, <3>2
    <2>4. CASE IsPrefix(z, a[d])
      <3>1. Doomed(Q, D, a[d])
        BY <1>4, <2>4
      <3>2. /\ Exact(a, Q, W, D) /\ Links(a, Q, W) /\ DOMAIN W \subseteq DOMAIN a /\ Maps(W, D)
            /\ a[d] \in Path /\ InTree(a, a[d])
        BY <2>2 DEF Core
      <3>3. PICK j \in DOMAIN Q, k \in DOMAIN Q, u \in DOMAIN D, n \in Names :
                /\ Rem(Q, j, u, n) /\ Cre(Q, k, u, n) /\ j < k
                /\ IsPrefix(Append(D[u], n), a[d]) /\ ~Doomed(Q, D, D[u])
        BY <3>1, <3>2, Rescue
      <3>4. u \in DOMAIN E
        BY <1>3, <1>4, <3>3
      <3>5. k # 1 /\ j \in Nat /\ k \in Nat
        BY <3>3, ShiftTypes DEF Rem, Cre
      <3>6. k - 1 \in DOMAIN R /\ Cre(R, k - 1, u, n)
        BY <3>3, <3>5, ShiftDown
      <3>7. IsPrefix(Append(E[u], n), a[d])
        BY <3>3, <3>4 DEF Part
      <3>8. QED
        BY <3>4, <3>6, <3>7, CreatedBy
    <2>5. QED
      BY <2>3, <2>4
  <1>14. Misplaced(a, R, V, E, {}, {})
    <2>1. SUFFICES ASSUME NEW d \in DOMAIN V, E[V[d]] # a[d],
                          NEW j \in DOMAIN R, NEW u \in DOMAIN E, NEW n \in Names,
                          Cre(R, j, u, n), IsPrefix(Append(E[u], n), a[d])
                   PROVE  \E k \in DOMAIN R, v \in DOMAIN E, m \in Names :
                            k < j /\ Rem(R, k, v, m) /\ IsPrefix(Append(E[v], m), E[V[d]])
      BY DEF Misplaced
    <2>2. d \in DOMAIN W /\ E[V[d]] = D[W[d]] /\ D[W[d]] \in Seq(Nat) /\ ~IsPrefix(z, D[W[d]])
      BY <1>1, <1>3, <1>7
    <2>3. \A k \in DOMAIN Q, v \in DOMAIN D, m \in Names :
            Rem(Q, k, v, m) /\ IsPrefix(Append(D[v], m), D[W[d]]) => k # 1 /\ v \in DOMAIN E
      BY <1>5, <2>2
    <2>4. Misplaced(a, Q, W, D, {}, {}) /\ D[W[d]] # a[d]
      BY <2>1, <2>2 DEF Core
    <2>5. QED
      BY <2>1, <2>2, <2>3, <2>4, ShiftMisplaced
  <1>15. Walking(a, R, V, E, {}, {})
    BY DEF Walking
  <1>16. ASSUME NEW s \in SUBSET Seq(Nat), Reported(a, Q, D, {}, {}, s)
         PROVE  Reported(a, R, E, {}, {}, {x \in s : ~IsPrefix(z, x)})
    BY <1>6, <1>16 DEF Reported
  <1>17. QED
    BY <1>9, <1>10, <1>11, <1>12, <1>13, <1>14, <1>15, <1>16 DEF Core, z

\* A creation is handled: the walk of its path begins, if there is something.
\* A walk starts at x if that is a directory.
Starts(a, x, vs) == vs = IF InTree(a, x) THEN {x} ELSE {}

LEMMA CoreCreation ==
  ASSUME NEW a, NEW Q, NEW W, NEW D, CoreTypes(a, Q, D, {}, {}), IsTree(a),
         Core(a, Q, W, D, {}, {}), NEW R, Shifts(Q, R),
         NEW c \in DOMAIN D, NEW i \in Names, Cre(Q, 1, c, i),
         NEW vs, Starts(a, Append(D[c], i), vs)
  PROVE  /\ Core(a, R, W, D, vs, {})
         /\ \A s \in SUBSET Seq(Nat) : Reported(a, Q, D, {}, {}, s) => Reported(a, R, D, vs, {}, s)
PROOF
  <1> DEFINE z == Append(D[c], i)
  <1>1. /\ D \in [DOMAIN D -> Path] /\ \A u \in DOMAIN D : D[u] \in Path /\ D[u] \in Seq(Nat)
        /\ a \in [DOMAIN a -> Path] /\ \A e \in DOMAIN a : a[e] \in Path /\ a[e] \in Seq(Nat)
        /\ DOMAIN W \subseteq DOMAIN a /\ Maps(W, D) /\ i \in Nat
    BY PathType, NamesAreNumbers DEF CoreTypes, Core
  <1>2. z \in Seq(Nat) /\ IsPrefix(D[c], z)
    BY <1>1, LinkType
  <1>3. /\ InTree(a, z) => vs = {z}
        /\ ~InTree(a, z) => vs = {}
    BY DEF Starts
  <1>4. Part(D, D) /\ 1 \in DOMAIN Q
    BY ShiftTypes DEF Part
  \* The first event is no other.
  <1>5. ASSUME NEW u, NEW n PROVE ~Rem(Q, 1, u, n) /\ ~Fil(Q, 1, u, n)
    BY DEF Rem, Cre, Fil
  <1>6. ASSUME NEW u \in DOMAIN D, NEW n \in Names, Cre(Q, 1, u, n) PROVE Append(D[u], n) = z
    <2>1. u = c /\ <<n>> = <<i>>
      BY <1>6 DEF Cre
    <2>2. n = i
      BY <2>1
    <2>3. QED
      BY <2>1, <2>2
  <1> HIDE DEF z
  <1>7. ASSUME NEW x PROVE Doomed(Q, D, x) <=> Doomed(R, D, x)
    <2>1. \A k \in DOMAIN Q, u \in DOMAIN D, n \in Names :
            Rem(Q, k, u, n) /\ IsPrefix(Append(D[u], n), x) => k # 1 /\ u \in DOMAIN D
      BY <1>5
    <2>2. QED
      BY <1>4, <2>1, ShiftDoomed, ShiftTold
  <1>8. ASSUME NEW x, ~IsPrefix(z, x)
        PROVE  /\ Created(Q, D, x) => Created(R, D, x)
               /\ Announced(Q, D, x) => Announced(R, D, x)
    <2>1. \A k \in DOMAIN Q, u \in DOMAIN D, n \in Names :
            (Rem(Q, k, u, n) \/ Cre(Q, k, u, n) \/ Fil(Q, k, u, n)) /\ IsPrefix(Append(D[u], n), x)
                => k # 1 /\ u \in DOMAIN D
      BY <1>5, <1>6, <1>8
    <2>2. Created(Q, D, x) => Created(R, D, x)
      BY <1>4, <2>1, ShiftCreated
    <2>3. Announced(Q, D, x) => Announced(R, D, x)
      BY <1>4, <2>1, ShiftTells
    <2>4. QED
      BY <2>2, <2>3
  <1>9. Ignored(R, W)
    <2>1. Ignored(Q, W)
      BY DEF Core
    <2>2. QED
      BY <2>1, ShiftIgnored
  <1>10. Exact(a, R, W, D)
    BY <1>7 DEF Core, Exact
  <1>11. Links(a, R, W)
    <2>1. Links(a, Q, W)
      BY DEF Core
    <2>2. QED
      BY <2>1, ShiftLinks
  <1>12. Covered(a, R, W, D, vs, {})
    <2>1. SUFFICES ASSUME NEW d \in DOMAIN a
                   PROVE  \/ Tracked(a, W, D, a[d]) /\ ~Doomed(R, D, a[d])
                          \/ Created(R, D, a[d])
                          \/ Walked(vs, {}, a[d])
      BY DEF Covered
    <2>2. a[d] \in Seq(Nat) /\ a[d] \in Path /\ InTree(a, a[d])
      BY <1>1 DEF InTree
    <2>3. \/ Tracked(a, W, D, a[d]) /\ ~Doomed(Q, D, a[d])
          \/ Created(Q, D, a[d])
      BY DEF Core, Covered, Walked
    <2>4. CASE ~IsPrefix(z, a[d])
      BY <1>7, <1>8, <2>3, <2>4
    <2>5. CASE IsPrefix(z, a[d])
      <3>1. z \in Path
        BY <1>2, <2>2, <2>5, PathAbove
      <3>2. InTree(a, z)
        BY <2>2, <2>5, <3>1, TreeUp
      <3>3. z \in vs
        BY <1>3, <3>2
      <3>4. QED
        BY <2>5, <3>3 DEF Walked
    <2>6. QED
      BY <2>4, <2>5
  <1>13. Misplaced(a, R, W, D, vs, {})
    <2>1. SUFFICES ASSUME NEW d \in DOMAIN W, D[W[d]] # a[d]
                   PROVE  /\ \A q \in vs : ~IsPrefix(q, a[d])
                          /\ \A j \in DOMAIN R, u \in DOMAIN D, n \in Names :
                                Cre(R, j, u, n) /\ IsPrefix(Append(D[u], n), a[d]) =>
                                    \E k \in DOMAIN R, v \in DOMAIN D, m \in Names :
                                        k < j /\ Rem(R, k, v, m) /\ IsPrefix(Append(D[v], m), D[W[d]])
      BY DEF Misplaced
    <2>2. Misplaced(a, Q, W, D, {}, {})
      BY DEF Core
    <2>3. ~IsPrefix(z, a[d])
      <3>1. SUFFICES ASSUME IsPrefix(z, a[d]) PROVE FALSE
        OBVIOUS
      <3>2. PICK k \in DOMAIN Q, v \in DOMAIN D, m \in Names : k < 1 /\ Rem(Q, k, v, m)
        BY <1>4, <2>1, <2>2, <3>1 DEF Misplaced, z
      <3>3. k \in DOMAIN Q /\ Q \in Seq(Events)
        BY <3>2 DEF CoreTypes
      <3>4. QED
        BY <3>2, <3>3
    <2>4. \A k \in DOMAIN Q, v \in DOMAIN D, m \in Names :
            Rem(Q, k, v, m) /\ IsPrefix(Append(D[v], m), D[W[d]]) => k # 1 /\ v \in DOMAIN D
      BY <1>5
    <2>5. ASSUME NEW j \in DOMAIN R, NEW u \in DOMAIN D, NEW n \in Names,
                 Cre(R, j, u, n), IsPrefix(Append(D[u], n), a[d])
          PROVE  \E k \in DOMAIN R, v \in DOMAIN D, m \in Names :
                    k < j /\ Rem(R, k, v, m) /\ IsPrefix(Append(D[v], m), D[W[d]])
      BY <1>4, <2>1, <2>2, <2>4, <2>5, ShiftMisplaced
    <2>6. \A q \in vs : q = z
      BY <1>3
    <2>7. QED
      BY <2>3, <2>5, <2>6
  <1>14. Walking(a, R, W, D, vs, {})
    <2>1. SUFFICES ASSUME InTree(a, z), ~Doomed(R, D, z), NEW q \in Path, IsPrefix(q, z), q # z
                   PROVE  Tracked(a, W, D, q)
      <3>1. \A q \in vs : q = z /\ InTree(a, z)
        BY <1>3
      <3>2. QED
        BY <3>1 DEF Walking
    <2>2. q \in Seq(Nat)
      BY PathType
    <2>3. IsPrefix(q, D[c])
      BY <1>1, <2>1, <2>2, PrefixAppend DEF z
    <2>4. ~Doomed(Q, D, z)
      BY <1>7, <2>1
    <2>5. ~Doomed(Q, D, D[c])
      BY <1>1, <1>2, <2>4, DoomedBelow
    <2>6. QED
      BY <2>3, <2>5 DEF Core, Exact
  <1>15. ASSUME NEW s \in SUBSET Seq(Nat), Reported(a, Q, D, {}, {}, s)
         PROVE  Reported(a, R, D, vs, {}, s)
    <2>1. SUFFICES ASSUME NEW x \in s PROVE Announced(R, D, x) \/ \E q \in vs : IsPrefix(q, x)
      BY DEF Reported
    <2>2. Announced(Q, D, x) /\ x \in Seq(Nat)
      BY <1>15 DEF Reported
    <2>3. CASE ~IsPrefix(z, x)
      BY <1>8, <2>2, <2>3
    <2>4. CASE IsPrefix(z, x) /\ InTree(a, z)
      BY <1>3, <2>4
    <2>5. CASE IsPrefix(z, x) /\ ~InTree(a, z)
      <3>1. CASE Doomed(Q, D, D[c])
        <4>1. Doomed(R, D, D[c])
          BY <1>7, <3>1
        <4>2. IsPrefix(D[c], x)
          BY <1>1, <1>2, <2>2, <2>5, PrefixTrans
        <4>3. QED
          BY <1>1, <2>2, <4>1, <4>2, ToldBy
      <3>2. CASE ~Doomed(Q, D, D[c])
        <4>1. PICK d \in DOMAIN W : W[d] = c /\ a[d] = D[c]
          <5>1. Exact(a, Q, W, D) /\ Maps(W, D) /\ D \in [DOMAIN D -> Path]
            BY <1>1 DEF Core
          <5>2. QED
            BY <3>2, <5>1, ExactOne
        <4>2. ~InTree(a, Append(a[d], i))
          BY <2>5, <4>1 DEF z
        <4>3. PICK l \in DOMAIN Q : l > 1 /\ Rem(Q, l, c, i)
          BY <1>4, <4>1, <4>2 DEF Core, Links
        <4>4. l # 1
          BY <1>5, <4>3
        <4>5. l - 1 \in DOMAIN R /\ Rem(R, l - 1, c, i)
          BY <4>3, <4>4, ShiftDown
        <4>6. QED
          BY <2>5, <4>5 DEF Announced, z
      <3>3. QED
        BY <3>1, <3>2
    <2>6. QED
      BY <2>3, <2>4, <2>5
  <1>16. QED
    BY <1>1, <1>9, <1>10, <1>11, <1>12, <1>13, <1>14, <1>15 DEF Core

\* Any other event is handled; the descriptors that nothing concerns any more
\* may be forgotten.
LEMMA CoreDrop ==
  ASSUME NEW a, NEW Q, NEW W, NEW D, CoreTypes(a, Q, D, {}, {}), IsTree(a),
         Core(a, Q, W, D, {}, {}), NEW R, Shifts(Q, R),
         \A u \in DOMAIN D, n \in Names : ~Rem(Q, 1, u, n) /\ ~Cre(Q, 1, u, n),
         NEW E, Part(E, D),
         \A u \in DOMAIN D \ DOMAIN E : /\ \A d \in DOMAIN W : W[d] # u
                                        /\ \A k \in DOMAIN Q : k # 1 => Q[k].wd # u
  PROVE  /\ Core(a, R, W, E, {}, {})
         /\ \A s \in SUBSET Seq(Nat) :
                /\ Reported(a, Q, D, {}, {}, s)
                /\ \A u \in DOMAIN D, n \in Names, x \in s : Fil(Q, 1, u, n) => ~IsPrefix(Append(D[u], n), x)
                => Reported(a, R, E, {}, {}, s)
PROOF
  <1>1. /\ DOMAIN W \subseteq DOMAIN a /\ Maps(W, D)
    BY DEF Core
  <1>2. ASSUME NEW k \in DOMAIN Q, NEW u \in DOMAIN D, NEW n \in Names,
               Rem(Q, k, u, n) \/ Cre(Q, k, u, n)
        PROVE  k # 1 /\ u \in DOMAIN E
    <2>1. k # 1
      BY <1>2
    <2>2. QED
      BY <1>2, <2>1 DEF Rem, Cre
  <1>3. ASSUME NEW x PROVE Doomed(Q, D, x) <=> Doomed(R, E, x)
    BY <1>2, ShiftDoomed, ShiftTold
  <1>4. ASSUME NEW x PROVE Created(Q, D, x) => Created(R, E, x)
    BY <1>2, ShiftCreated
  <1>5. ASSUME NEW d \in DOMAIN W PROVE W[d] \in DOMAIN E /\ E[W[d]] = D[W[d]]
    BY <1>1 DEF Maps, Part
  <1>6. ASSUME NEW q, Tracked(a, W, D, q) PROVE Tracked(a, W, E, q)
    BY <1>5, <1>6 DEF Tracked
  <1>7. Maps(W, E)
    BY <1>1, <1>5 DEF Maps, Part
  <1>8. Ignored(R, W)
    <2>1. Ignored(Q, W)
      BY DEF Core
    <2>2. QED
      BY <2>1, ShiftIgnored
  <1>9. Exact(a, R, W, E)
    <2>1. SUFFICES ASSUME NEW u \in DOMAIN E, NEW q \in Path, ~Doomed(R, E, E[u]), IsPrefix(q, E[u])
                   PROVE  Tracked(a, W, E, q)
      BY DEF Exact
    <2>2. u \in DOMAIN D /\ E[u] = D[u]
      BY DEF Part
    <2>3. ~Doomed(Q, D, D[u]) /\ IsPrefix(q, D[u])
      BY <1>3, <2>1, <2>2
    <2>4. QED
      BY <1>6, <2>2, <2>3 DEF Core, Exact
  <1>10. Links(a, R, W)
    <2>1. Links(a, Q, W)
      BY DEF Core
    <2>2. QED
      BY <2>1, ShiftLinks
  <1>11. Covered(a, R, W, E, {}, {})
    BY <1>3, <1>4, <1>6 DEF Core, Covered, Walked
  <1>12. Misplaced(a, R, W, E, {}, {})
    <2>1. SUFFICES ASSUME NEW d \in DOMAIN W, E[W[d]] # a[d],
                          NEW j \in DOMAIN R, NEW u \in DOMAIN E, NEW n \in Names,
                          Cre(R, j, u, n), IsPrefix(Append(E[u], n), a[d])
                   PROVE  \E k \in DOMAIN R, v \in DOMAIN E, m \in Names :
                            k < j /\ Rem(R, k, v, m) /\ IsPrefix(Append(E[v], m), E[W[d]])
      BY DEF Misplaced
    <2>2. Misplaced(a, Q, W, D, {}, {}) /\ D[W[d]] # a[d] /\ E[W[d]] = D[W[d]]
      BY <1>5, <2>1 DEF Core
    <2>3. QED
      BY <1>2, <2>1, <2>2, ShiftMisplaced
  <1>13. Walking(a, R, W, E, {}, {})
    BY DEF Walking
  <1>14. ASSUME NEW s \in SUBSET Seq(Nat), Reported(a, Q, D, {}, {}, s),
                \A u \in DOMAIN D, n \in Names, x \in s : Fil(Q, 1, u, n) => ~IsPrefix(Append(D[u], n), x)
         PROVE  Reported(a, R, E, {}, {}, s)
    <2>1. SUFFICES ASSUME NEW x \in s PROVE Announced(R, E, x)
      BY DEF Reported
    <2>2. Announced(Q, D, x)
      BY <1>14 DEF Reported
    <2>3. ASSUME NEW k \in DOMAIN Q, NEW u \in DOMAIN D, NEW n \in Names,
                 Fil(Q, k, u, n), IsPrefix(Append(D[u], n), x)
          PROVE  k # 1 /\ u \in DOMAIN E
      <3>1. k # 1
        BY <1>14, <2>3
      <3>2. QED
        BY <2>3, <3>1 DEF Fil
    <2>4. QED
      BY <1>2, <2>2, <2>3, ShiftTells
  <1>15. QED
    BY <1>1, <1>7, <1>8, <1>9, <1>10, <1>11, <1>12, <1>13, <1>14 DEF Core

-----------------------------------------------------------------------------
(* The walk *)

\* The directory p, that was to be visited, is now to be listed.
Visited(p, vs, ls, us, ms) ==
    p \in vs /\ us \subseteq vs /\ vs \subseteq us \cup {p} /\ ms = ls \cup {p}

\* The visit of p leaves the walk to do what is below, or adds a watch for p.
LEMMA VisitWalked ==
  ASSUME NEW p, NEW vs, NEW ls, NEW us, NEW ms, Visited(p, vs, ls, us, ms), NEW x, Walked(vs, ls, x), x # p
  PROVE  Walked(us, ms, x)
PROOF
  <1>1. CASE \E q \in vs : IsPrefix(q, x)
    BY <1>1 DEF Visited, Walked
  <1>2. CASE \E q \in ls : IsPrefix(q, x) /\ q # x
    BY <1>2 DEF Visited, Walked
  <1>3. QED
    BY <1>1, <1>2 DEF Walked

\* A live directory that is to be visited has its path or is created there.
LEMMA LiveCreated ==
  ASSUME NEW a, NEW Q, NEW W, NEW D, NEW vs, NEW ls, CoreTypes(a, Q, D, vs, ls), IsTree(a),
         Core(a, Q, W, D, vs, ls), NEW x \in Path, InTree(a, x), Doomed(Q, D, x)
  PROVE  Created(Q, D, x)
PROOF
  <1>1. DOMAIN W \subseteq DOMAIN a /\ Maps(W, D) /\ Exact(a, Q, W, D) /\ Links(a, Q, W)
    BY DEF Core
  <1>2. PICK j \in DOMAIN Q, k \in DOMAIN Q, u \in DOMAIN D, n \in Names :
            Cre(Q, k, u, n) /\ IsPrefix(Append(D[u], n), x)
    BY <1>1, Rescue
  <1>3. QED
    BY <1>2 DEF Created

LEMMA CoreVisitIdle ==
  ASSUME NEW a, NEW Q, NEW W, NEW D, NEW vs, NEW ls, CoreTypes(a, Q, D, vs, ls), IsTree(a),
         Core(a, Q, W, D, vs, ls), NEW p, NEW us, NEW ms, Visited(p, vs, ls, us, ms),
         (\E u \in DOMAIN D : D[u] = p) \/ ~InTree(a, p)
  PROVE  Core(a, Q, W, D, us, ms)
PROOF
  <1>1. p \in Path /\ p \in Seq(Nat) /\ p \in vs /\ IsPrefix(p, p)
    BY PathType, PrefixRefl DEF CoreTypes, Visited
  <1>2. InTree(a, p) /\ ~Doomed(Q, D, p) => Tracked(a, W, D, p)
    <2>1. SUFFICES ASSUME InTree(a, p), ~Doomed(Q, D, p) PROVE Tracked(a, W, D, p)
      OBVIOUS
    <2>2. PICK u \in DOMAIN D : D[u] = p
      BY <2>1
    <2>3. ~Doomed(Q, D, D[u]) /\ IsPrefix(p, D[u])
      BY <1>1, <2>1, <2>2
    <2>4. QED
      BY <1>1, <2>3 DEF Core, Exact
  <1>3. ~InTree(a, p) => Doomed(Q, D, p)
    BY <1>1 DEF Core, Walking
  <1>4. Covered(a, Q, W, D, us, ms)
    <2>1. SUFFICES ASSUME NEW d \in DOMAIN a
                   PROVE  \/ Tracked(a, W, D, a[d]) /\ ~Doomed(Q, D, a[d])
                          \/ Created(Q, D, a[d])
                          \/ Walked(us, ms, a[d])
      BY DEF Covered
    <2>2. \/ Tracked(a, W, D, a[d]) /\ ~Doomed(Q, D, a[d])
          \/ Created(Q, D, a[d])
          \/ Walked(vs, ls, a[d])
      BY DEF Core, Covered
    <2>3. CASE Walked(vs, ls, a[d]) /\ a[d] # p
      BY <2>3, VisitWalked
    <2>4. CASE a[d] = p
      <3>1. InTree(a, p)
        BY <2>4 DEF InTree
      <3>2. Doomed(Q, D, p) => Created(Q, D, p)
        BY <1>1, <3>1, LiveCreated
      <3>3. QED
        BY <1>2, <2>4, <3>1, <3>2
    <2>5. QED
      BY <2>2, <2>3, <2>4
  <1>5. Misplaced(a, Q, W, D, us, ms)
    <2>1. us \cup ms \subseteq vs \cup ls
      BY DEF Visited
    <2>2. QED
      BY <2>1 DEF Core, Misplaced
  <1>6. Walking(a, Q, W, D, us, ms)
    <2>1. \A q \in us : q \in vs
      BY DEF Visited
    <2>2. \A q \in ms : q \in ls \/ q = p
      BY DEF Visited
    <2>3. QED
      BY <1>2, <1>3, <2>1, <2>2 DEF Core, Walking
  <1>7. QED
    BY <1>4, <1>5, <1>6 DEF Core

\* The map g is f with the entry v for k.
Extends(f, g, k, v) ==
    /\ k \notin DOMAIN f /\ DOMAIN g = DOMAIN f \cup {k}
    /\ g[k] = v /\ \A x \in DOMAIN f : g[x] = f[x]

LEMMA CoreVisit ==
  ASSUME NEW a, NEW Q, NEW W, NEW D, NEW vs, NEW ls, CoreTypes(a, Q, D, vs, ls), IsTree(a),
         Core(a, Q, W, D, vs, ls), NEW p, NEW us, NEW ms, Visited(p, vs, ls, us, ms),
         NEW e \in DOMAIN a, a[e] = p, \A u \in DOMAIN D : D[u] # p,
         NEW wd, \A d \in DOMAIN W : W[d] # wd, \A k \in DOMAIN Q : Q[k].wd # wd,
         NEW V, NEW E, Extends(W, V, e, wd), Extends(D, E, wd, p)
  PROVE  Core(a, Q, V, E, us, ms)
PROOF
  <1>1. p \in Path /\ p \in Seq(Nat) /\ p \in vs /\ InTree(a, p)
    BY PathType DEF CoreTypes, Visited, InTree
  <1>2. /\ e \notin DOMAIN W /\ DOMAIN V = DOMAIN W \cup {e} /\ V[e] = wd /\ \A d \in DOMAIN W : V[d] = W[d]
        /\ wd \notin DOMAIN D /\ DOMAIN E = DOMAIN D \cup {wd} /\ E[wd] = p /\ \A u \in DOMAIN D : E[u] = D[u]
    BY DEF Extends
  <1>3. DOMAIN W \subseteq DOMAIN a /\ Maps(W, D)
    BY DEF Core
  <1>4. ASSUME NEW k, NEW n PROVE ~Rem(Q, k, wd, n) /\ ~Cre(Q, k, wd, n)
    BY DEF Rem, Cre
  <1>5. ASSUME NEW x PROVE /\ Doomed(Q, D, x) <=> Doomed(Q, E, x)
                           /\ Created(Q, D, x) <=> Created(Q, E, x)
    BY <1>2, <1>4 DEF Doomed, Created
  <1>6. \A d \in DOMAIN W : W[d] \in DOMAIN D /\ E[V[d]] = D[W[d]]
    BY <1>2, <1>3 DEF Maps
  <1>7. ASSUME NEW q, Tracked(a, W, D, q) PROVE Tracked(a, V, E, q)
    <2>1. PICK d \in DOMAIN W : a[d] = q /\ D[W[d]] = q
      BY <1>7 DEF Tracked
    <2>2. d \in DOMAIN V /\ E[V[d]] = q
      BY <1>2, <1>6, <2>1
    <2>3. QED
      BY <2>1, <2>2 DEF Tracked
  <1>8. Tracked(a, V, E, p)
    BY <1>2 DEF Tracked
  <1>9. DOMAIN V \subseteq DOMAIN a /\ Maps(V, E)
    <2>1. \A d, f \in DOMAIN V : V[d] = V[f] => d = f
      BY <1>2, <1>3 DEF Maps
    <2>2. \A u, v \in DOMAIN E : E[u] = E[v] => u = v
      BY <1>2, <1>3 DEF Maps
    <2>3. \A d \in DOMAIN V : V[d] \in DOMAIN E
      BY <1>2, <1>3 DEF Maps
    <2>4. QED
      BY <1>2, <1>3, <2>1, <2>2, <2>3 DEF Maps
  <1>10. Ignored(Q, V)
    BY <1>2 DEF Core, Ignored
  <1>11. Exact(a, Q, V, E)
    <2>1. SUFFICES ASSUME NEW u \in DOMAIN E, NEW q \in Path, ~Doomed(Q, E, E[u]), IsPrefix(q, E[u])
                   PROVE  Tracked(a, V, E, q)
      BY DEF Exact
    <2>2. CASE u \in DOMAIN D
      <3>1. ~Doomed(Q, D, D[u]) /\ IsPrefix(q, D[u])
        BY <1>2, <1>5, <2>1, <2>2
      <3>2. QED
        BY <1>7, <2>2, <3>1 DEF Core, Exact
    <2>3. CASE u = wd
      <3>1. ~Doomed(Q, D, p) /\ IsPrefix(q, p)
        BY <1>2, <1>5, <2>1, <2>3
      <3>2. CASE q = p
        BY <1>8, <3>2
      <3>3. CASE q # p
        <4>1. Tracked(a, W, D, q)
          BY <1>1, <3>1, <3>3 DEF Core, Walking
        <4>2. QED
          BY <1>7, <4>1
      <3>4. QED
        BY <3>2, <3>3
    <2>4. QED
      BY <1>2, <2>2, <2>3
  <1>12. Links(a, Q, V)
    BY <1>2, <1>4 DEF Core, Links
  <1>13. Covered(a, Q, V, E, us, ms)
    <2>1. SUFFICES ASSUME NEW d \in DOMAIN a
                   PROVE  \/ Tracked(a, V, E, a[d]) /\ ~Doomed(Q, E, a[d])
                          \/ Created(Q, E, a[d])
                          \/ Walked(us, ms, a[d])
      BY DEF Covered
    <2>2. \/ Tracked(a, W, D, a[d]) /\ ~Doomed(Q, D, a[d])
          \/ Created(Q, D, a[d])
          \/ Walked(vs, ls, a[d])
      BY DEF Core, Covered
    <2>3. CASE Walked(vs, ls, a[d]) /\ a[d] # p
      BY <2>3, VisitWalked
    <2>4. CASE a[d] = p
      <3>1. Doomed(Q, D, p) => Created(Q, D, p)
        BY <1>1, LiveCreated
      <3>2. QED
        BY <1>5, <1>8, <2>4, <3>1
    <2>5. QED
      BY <1>5, <1>7, <2>2, <2>3, <2>4
  <1>14. Misplaced(a, Q, V, E, us, ms)
    <2>1. us \cup ms \subseteq vs \cup ls
      BY DEF Visited
    <2>2. SUFFICES ASSUME NEW d \in DOMAIN V, E[V[d]] # a[d]
                   PROVE  /\ \A q \in us \cup ms : ~IsPrefix(q, a[d])
                          /\ \A j \in DOMAIN Q, u \in DOMAIN E, n \in Names :
                                Cre(Q, j, u, n) /\ IsPrefix(Append(E[u], n), a[d]) =>
                                    \E k \in DOMAIN Q, v \in DOMAIN E, m \in Names :
                                        k < j /\ Rem(Q, k, v, m) /\ IsPrefix(Append(E[v], m), E[V[d]])
      BY DEF Misplaced
    <2>3. d \in DOMAIN W /\ D[W[d]] # a[d] /\ E[V[d]] = D[W[d]]
      BY <1>2, <1>6, <2>2
    <2>4. ASSUME NEW j \in DOMAIN Q, NEW u \in DOMAIN E, NEW n \in Names,
                 Cre(Q, j, u, n), IsPrefix(Append(E[u], n), a[d])
          PROVE  \E k \in DOMAIN Q, v \in DOMAIN E, m \in Names :
                    k < j /\ Rem(Q, k, v, m) /\ IsPrefix(Append(E[v], m), E[V[d]])
      <3>1. u \in DOMAIN D /\ IsPrefix(Append(D[u], n), a[d])
        BY <1>2, <1>4, <2>4
      <3>2. PICK k \in DOMAIN Q, v \in DOMAIN D, m \in Names :
                k < j /\ Rem(Q, k, v, m) /\ IsPrefix(Append(D[v], m), D[W[d]])
        BY <2>3, <2>4, <3>1 DEF Core, Misplaced
      <3>3. v \in DOMAIN E /\ IsPrefix(Append(E[v], m), E[V[d]])
        BY <1>2, <2>3, <3>2
      <3>4. QED
        BY <3>2, <3>3
    <2>5. QED
      BY <2>1, <2>3, <2>4 DEF Core, Misplaced
  <1>15. Walking(a, Q, V, E, us, ms)
    <2>1. \A q \in us : q \in vs
      BY DEF Visited
    <2>2. \A q \in ms : q \in ls \/ q = p
      BY DEF Visited
    <2>3. QED
      BY <1>5, <1>7, <1>8, <2>1, <2>2 DEF Core, Walking
  <1>16. QED
    BY <1>9, <1>10, <1>11, <1>12, <1>13, <1>14, <1>15 DEF Core

\* A watched directory at the path p of a visit has that path already.
LEMMA VisitWatched ==
  ASSUME NEW a, NEW Q, NEW W, NEW D, NEW vs, NEW ls, CoreTypes(a, Q, D, vs, ls),
         Core(a, Q, W, D, vs, ls), NEW p \in vs, NEW e \in DOMAIN W, a[e] = p
  PROVE  W[e] \in DOMAIN D /\ D[W[e]] = p
PROOF
  <1>1. IsPrefix(p, a[e])
    BY PathType, PrefixRefl DEF CoreTypes
  <1>2. QED
    BY <1>1 DEF Core, Misplaced, Maps

\* The visit reports what is at and below p.
LEMMA ReportedVisit ==
  ASSUME NEW a, NEW Q, NEW D, NEW vs, NEW ls, NEW p, NEW us, NEW ms, Visited(p, vs, ls, us, ms),
         NEW E, Part(D, E), NEW s, Reported(a, Q, D, vs, ls, s),
         NEW r, r \subseteq s, \A x \in r : ~IsPrefix(p, x)
  PROVE  Reported(a, Q, E, us, ms, r)
PROOF
  <1>1. SUFFICES ASSUME NEW x \in r
                 PROVE  \/ Announced(Q, E, x)
                        \/ \E q \in us : IsPrefix(q, x)
                        \/ \E q \in ms : InTree(a, q) /\ x = Append(q, File)
                        \/ \E q \in ms, n \in Name : InTree(a, Append(q, n)) /\ IsPrefix(Append(q, n), x)
    BY DEF Reported
  <1>2. x \in s /\ ~IsPrefix(p, x) /\ ls \subseteq ms /\ vs \subseteq us \cup {p}
    BY DEF Visited
  <1>3. ASSUME Announced(Q, D, x) PROVE Announced(Q, E, x)
    BY <1>3 DEF Announced, Part
  <1>4. ASSUME NEW q \in vs, IsPrefix(q, x) PROVE q \in us
    BY <1>2, <1>4
  <1>5. \/ Announced(Q, D, x)
        \/ \E q \in vs : IsPrefix(q, x)
        \/ \E q \in ls : InTree(a, q) /\ x = Append(q, File)
        \/ \E q \in ls, n \in Name : InTree(a, Append(q, n)) /\ IsPrefix(Append(q, n), x)
    BY <1>2 DEF Reported
  <1>6. QED
    BY <1>2, <1>3, <1>4, <1>5

\* The entries of the directory p, that was to be listed, are to be visited.
Listed(a, p, vs, ls, us, ms) ==
    /\ p \in ls /\ ms \subseteq ls /\ ls \subseteq ms \cup {p}
    /\ us = vs \cup {Append(p, n) : n \in {m \in Name : InTree(a, Append(p, m))}}

LEMMA CoreList ==
  ASSUME NEW a, NEW Q, NEW W, NEW D, NEW vs, NEW ls, CoreTypes(a, Q, D, vs, ls), IsTree(a),
         Core(a, Q, W, D, vs, ls), NEW p, NEW us, NEW ms, Listed(a, p, vs, ls, us, ms)
  PROVE  Core(a, Q, W, D, us, ms)
PROOF
  <1>1. p \in Path /\ p \in Seq(Nat) /\ p \in ls /\ D \in [DOMAIN D -> Path]
    BY PathType DEF CoreTypes, Listed
  <1>2. \A q \in us : q \in vs \/ \E n \in Name : q = Append(p, n) /\ InTree(a, Append(p, n))
    BY DEF Listed
  <1>3. \A n \in Name : InTree(a, Append(p, n)) => Append(p, n) \in us
    BY DEF Listed
  <1>4. vs \subseteq us /\ ms \subseteq ls /\ ls \subseteq ms \cup {p}
    BY DEF Listed
  <1>5. \A d \in DOMAIN a : a[d] \in Path /\ a[d] \in Seq(Nat)
    BY PathType DEF CoreTypes
  <1>6. \A n \in Name : /\ n \in Nat /\ Append(p, n) \in Seq(Nat)
                        /\ IsPrefix(p, Append(p, n))
    BY <1>1, NamesAreNumbers, AppendType, AppendPrefix
  <1>7. Covered(a, Q, W, D, us, ms)
    <2>1. SUFFICES ASSUME NEW d \in DOMAIN a, Walked(vs, ls, a[d])
                   PROVE  Walked(us, ms, a[d])
      BY DEF Core, Covered
    <2>2. CASE \E q \in vs : IsPrefix(q, a[d])
      BY <1>4, <2>2 DEF Walked
    <2>3. CASE \E q \in ms : IsPrefix(q, a[d]) /\ q # a[d]
      BY <2>3 DEF Walked
    <2>4. CASE IsPrefix(p, a[d]) /\ p # a[d]
      <3> DEFINE m == a[d][Len(p) + 1]
      <3>1. m \in Nat /\ IsPrefix(Append(p, m), a[d])
        BY <1>1, <1>5, <2>4, PrefixNext
      <3> HIDE DEF m
      <3>2. Append(p, m) \in Seq(Nat)
        BY <1>1, <3>1, AppendType
      <3>3. Append(p, m) \in Path
        BY <1>5, <3>1, <3>2, PathAbove
      <3>4. m \in Name
        BY <1>1, <3>1, <3>3, PathAppend
      <3>5. InTree(a, Append(p, m))
        BY <3>1, <3>3, TreeUp DEF InTree
      <3>6. QED
        BY <1>3, <3>1, <3>4, <3>5 DEF Walked
    <2>5. QED
      BY <1>4, <2>1, <2>2, <2>3, <2>4 DEF Walked
  <1>8. Misplaced(a, Q, W, D, us, ms)
    <2>1. ASSUME NEW d \in DOMAIN W, D[W[d]] # a[d], NEW q \in us \cup ms, IsPrefix(q, a[d])
          PROVE  FALSE
      <3>1. \A r \in vs \cup ls : ~IsPrefix(r, a[d])
        BY <2>1 DEF Core, Misplaced
      <3>2. PICK n \in Name : q = Append(p, n)
        BY <1>2, <1>4, <2>1, <3>1
      <3>3. d \in DOMAIN a
        BY DEF Core
      <3>4. IsPrefix(p, a[d])
        BY <1>1, <1>5, <1>6, <2>1, <3>2, <3>3, PrefixTrans
      <3>5. QED
        BY <1>1, <3>1, <3>4
    <2>2. QED
      BY <2>1 DEF Core, Misplaced
  <1>9. Walking(a, Q, W, D, us, ms)
    <2>1. ASSUME NEW n \in Name, ~Doomed(Q, D, Append(p, n)),
                 NEW q \in Path, IsPrefix(q, Append(p, n)), q # Append(p, n)
          PROVE  Tracked(a, W, D, q)
      <3>1. q \in Seq(Nat) /\ n \in Nat
        BY <1>6, PathType
      <3>2. IsPrefix(q, p)
        BY <1>1, <2>1, <3>1, PrefixAppend
      <3>3. ~Doomed(Q, D, p)
        BY <1>1, <1>6, <2>1, DoomedBelow
      <3>4. Tracked(a, W, D, p)
        BY <1>1, <3>3 DEF Core, Walking
      <3>5. PICK d \in DOMAIN W : D[W[d]] = p
        BY <3>4 DEF Tracked
      <3>6. W[d] \in DOMAIN D /\ ~Doomed(Q, D, D[W[d]]) /\ IsPrefix(q, D[W[d]])
        BY <3>2, <3>3, <3>5 DEF Core, Maps
      <3>7. QED
        BY <3>6 DEF Core, Exact
    <2>2. ASSUME NEW r \in us, ~Doomed(Q, D, r)
          PROVE  InTree(a, r) /\ \A q \in Path : IsPrefix(q, r) /\ q # r => Tracked(a, W, D, q)
      <3>1. CASE r \in vs
        BY <2>2, <3>1 DEF Core, Walking
      <3>2. CASE \E n \in Name : r = Append(p, n) /\ InTree(a, Append(p, n))
        BY <2>1, <2>2, <3>2
      <3>3. QED
        BY <1>2, <3>1, <3>2
    <2>3. \A q \in ms : ~Doomed(Q, D, q) => Tracked(a, W, D, q)
      BY <1>4 DEF Core, Walking
    <2>4. QED
      BY <2>2, <2>3 DEF Walking
  <1>10. QED
    BY <1>7, <1>8, <1>9 DEF Core

\* The listing reports the files of p.
LEMMA ReportedList ==
  ASSUME NEW a, NEW Q, NEW D, NEW vs, NEW ls, NEW p, NEW us, NEW ms, Listed(a, p, vs, ls, us, ms),
         NEW s, Reported(a, Q, D, vs, ls, s),
         NEW r, r \subseteq s, InTree(a, p) => Append(p, File) \notin r
  PROVE  Reported(a, Q, D, us, ms, r)
PROOF
  <1>1. SUFFICES ASSUME NEW x \in r
                 PROVE  \/ Announced(Q, D, x)
                        \/ \E q \in us : IsPrefix(q, x)
                        \/ \E q \in ms : InTree(a, q) /\ x = Append(q, File)
                        \/ \E q \in ms, n \in Name : InTree(a, Append(q, n)) /\ IsPrefix(Append(q, n), x)
    BY DEF Reported
  <1>2. vs \subseteq us /\ ls \subseteq ms \cup {p}
    BY DEF Listed
  <1>3. \A n \in Name : InTree(a, Append(p, n)) => Append(p, n) \in us
    BY DEF Listed
  <1>4. \/ Announced(Q, D, x)
        \/ \E q \in vs : IsPrefix(q, x)
        \/ \E q \in ls : InTree(a, q) /\ x = Append(q, File)
        \/ \E q \in ls, n \in Name : InTree(a, Append(q, n)) /\ IsPrefix(Append(q, n), x)
    BY DEF Reported
  <1>5. CASE Announced(Q, D, x) \/ \E q \in vs : IsPrefix(q, x)
    BY <1>2, <1>5
  <1>6. CASE \E q \in ls : InTree(a, q) /\ x = Append(q, File)
    BY <1>2, <1>6
  <1>7. ASSUME NEW q \in ls, NEW n \in Name, InTree(a, Append(q, n)), IsPrefix(Append(q, n), x)
        PROVE  \/ \E o \in us : IsPrefix(o, x)
               \/ \E o \in ms, m \in Name : InTree(a, Append(o, m)) /\ IsPrefix(Append(o, m), x)
    BY <1>2, <1>3, <1>7
  <1>8. QED
    BY <1>4, <1>5, <1>6, <1>7

-----------------------------------------------------------------------------
(* What the other programs change is told or still to be walked *)

\* The item x that changes in the directory P
LEMMA ReportedNew ==
  ASSUME NEW a, NEW Q, NEW W, NEW D, NEW vs, NEW ls, CoreTypes(a, Q, D, vs, ls), IsTree(a),
         Core(a, Q, W, D, vs, ls), NEW R, Grows(Q, R), NEW b,
         NEW P \in DOMAIN a, NEW x \in Seq(Nat), IsPrefix(a[P], x),
         P \in DOMAIN W /\ D[W[P]] = a[P] => Announced(R, D, x),
         \A y : InTree(a, y) /\ IsPrefix(y, a[P]) => InTree(b, y)
  PROVE  Reported(b, R, D, vs, ls, {x})
PROOF
  <1>1. /\ D \in [DOMAIN D -> Path] /\ a[P] \in Seq(Nat) /\ a[P] \in Path
        /\ vs \subseteq Seq(Nat) /\ ls \subseteq Seq(Nat) /\ ls \subseteq Path
        /\ DOMAIN W \subseteq DOMAIN a
    BY PathType DEF CoreTypes, Core
  <1>2. \/ Tracked(a, W, D, a[P])
        \/ Created(Q, D, a[P])
        \/ Walked(vs, ls, a[P])
    BY DEF Core, Covered
  <1>3. CASE Tracked(a, W, D, a[P])
    <2>1. DOMAIN W \subseteq DOMAIN a
      BY <1>1
    <2>2. P \in DOMAIN W /\ D[W[P]] = a[P]
      <3>1. \A f \in DOMAIN a : Tracked(a, W, D, a[f]) => f \in DOMAIN W /\ D[W[f]] = a[f]
        BY <2>1, TrackedOne
      <3>2. QED
        BY <1>3, <3>1
    <2>3. QED
      BY <2>2 DEF Reported
  <1>4. CASE Created(Q, D, a[P])
    <2>1. Created(R, D, a[P])
      BY <1>4, GrowsKeeps
    <2>2. Announced(R, D, x)
      BY <1>1, <2>1, ToldBy
    <2>3. QED
      BY <2>2 DEF Reported
  <1>5. ASSUME NEW q \in vs, IsPrefix(q, a[P]) PROVE IsPrefix(q, x)
    BY <1>1, <1>5, PrefixTrans
  <1>6. ASSUME NEW q \in ls, IsPrefix(q, a[P]), q # a[P]
        PROVE  \E n \in Name : InTree(b, Append(q, n)) /\ IsPrefix(Append(q, n), x)
    <2> DEFINE m == a[P][Len(q) + 1]
    <2>1. q \in Seq(Nat) /\ q \in Path
      BY <1>1
    <2>2. m \in Nat /\ IsPrefix(Append(q, m), a[P])
      BY <1>1, <1>6, <2>1, PrefixNext
    <2> HIDE DEF m
    <2>3. Append(q, m) \in Seq(Nat)
      BY <2>1, <2>2, AppendType
    <2>4. Append(q, m) \in Path
      BY <1>1, <2>2, <2>3, PathAbove
    <2>5. m \in Name
      BY <2>1, <2>2, <2>4, PathAppend
    <2>6. InTree(a, Append(q, m))
      BY <2>2, <2>4, TreeUp DEF InTree
    <2>7. InTree(b, Append(q, m))
      BY <2>2, <2>6
    <2>8. IsPrefix(Append(q, m), x)
      BY <1>1, <2>2, <2>3, PrefixTrans
    <2>9. QED
      BY <2>5, <2>7, <2>8
  <1>7. CASE Walked(vs, ls, a[P])
    BY <1>5, <1>6, <1>7 DEF Walked, Reported
  <1>8. QED
    BY <1>2, <1>3, <1>4, <1>7

\* The items that had changed before
LEMMA ReportedOld ==
  ASSUME NEW a, NEW Q, NEW D, NEW vs, NEW ls, NEW s, Reported(a, Q, D, vs, ls, s),
         NEW R, Grows(Q, R), NEW b,
         \A q \in ls : InTree(a, q) => InTree(b, q) \/ Announced(R, D, Append(q, File)),
         \A q \in ls, n \in Name, x \in s :
            InTree(a, Append(q, n)) /\ IsPrefix(Append(q, n), x) =>
                InTree(b, Append(q, n)) \/ Announced(R, D, x)
  PROVE  Reported(b, R, D, vs, ls, s)
PROOF
  <1>1. SUFFICES ASSUME NEW x \in s
                 PROVE  \/ Announced(R, D, x)
                        \/ \E q \in vs : IsPrefix(q, x)
                        \/ \E q \in ls : InTree(b, q) /\ x = Append(q, File)
                        \/ \E q \in ls, n \in Name : InTree(b, Append(q, n)) /\ IsPrefix(Append(q, n), x)
    BY DEF Reported
  <1>2. \/ Announced(Q, D, x)
        \/ \E q \in vs : IsPrefix(q, x)
        \/ \E q \in ls : InTree(a, q) /\ x = Append(q, File)
        \/ \E q \in ls, n \in Name : InTree(a, Append(q, n)) /\ IsPrefix(Append(q, n), x)
    BY DEF Reported
  <1>3. Announced(Q, D, x) => Announced(R, D, x)
    BY GrowsKeeps
  <1>4. QED
    BY <1>2, <1>3

\* A directory to be listed whose entry d is removed: its watch tells, or an
\* event that is queued.
LEMMA RemovalTold ==
  ASSUME NEW a, NEW Q, NEW W, NEW D, NEW vs, NEW ls, CoreTypes(a, Q, D, vs, ls), IsTree(a),
         Core(a, Q, W, D, vs, ls), NEW R, Grows(Q, R),
         NEW P \in DOMAIN a, NEW n \in Name, NEW d, Child(a, P, n, d),
         P \in DOMAIN W => \E k \in DOMAIN R : R[k] = Event(W[P], "delete", <<n>>),
         NEW q \in ls, q = a[P] \/ q = a[d], NEW x \in Seq(Nat), IsPrefix(a[d], x)
  PROVE  Announced(R, D, x)
PROOF
  <1>0. \A f \in DOMAIN a : Tracked(a, W, D, a[f]) => f \in DOMAIN W /\ D[W[f]] = a[f]
    <2>1. DOMAIN W \subseteq DOMAIN a
      BY DEF Core
    <2>2. QED
      BY <2>1, TrackedOne
  <1>1. /\ D \in [DOMAIN D -> Path] /\ a[P] \in Seq(Nat) /\ a[P] \in Path /\ n \in Nat /\ n \in Names
        /\ d \in DOMAIN a /\ a[d] \in Seq(Nat)
        /\ q \in Path /\ q \in Seq(Nat) /\ DOMAIN W \subseteq DOMAIN a
    BY PathType, NamesAreNumbers DEF CoreTypes, Core, Child
  <1>2. IsPrefix(a[P], a[d])
    BY <1>1, AppendPrefix DEF Child
  <1>3. IsPrefix(q, x)
    BY <1>1, <1>2, PrefixTrans
  <1>4. CASE Doomed(Q, D, q)
    <2>1. Doomed(R, D, q)
      BY <1>4, GrowsKeeps
    <2>2. QED
      BY <1>1, <1>3, <2>1, ToldBy
  <1>5. CASE ~Doomed(Q, D, q)
    <2>1. Tracked(a, W, D, q)
      BY <1>5 DEF Core, Walking
    <2>2. PICK e \in DOMAIN W : D[W[e]] = q
      BY <2>1 DEF Tracked
    <2>3. W[e] \in DOMAIN D
      BY DEF Core, Maps
    <2>4. IsPrefix(a[P], q)
      BY <1>1, <1>2, PrefixRefl
    <2>5. Tracked(a, W, D, a[P])
      BY <1>1, <1>5, <2>2, <2>3, <2>4 DEF Core, Exact
    <2>6. P \in DOMAIN W /\ D[W[P]] = a[P]
      BY <1>0, <2>5
    <2>7. PICK k \in DOMAIN R : R[k] = Event(W[P], "delete", <<n>>)
      BY <2>6
    <2>8. Rem(R, k, W[P], n)
      BY <2>7 DEF Rem, Event
    <2>9. W[P] \in DOMAIN D
      BY <2>6 DEF Core, Maps
    <2>10. Append(D[W[P]], n) = a[d]
      BY <2>6 DEF Child
    <2>11. QED
      BY <1>1, <2>8, <2>9, <2>10 DEF Announced
  <1>6. QED
    BY <1>4, <1>5

-----------------------------------------------------------------------------
(* The ends of the walk and of the queue *)

\* A walk of the whole tree begins without a watch.
LEMMA CoreStart ==
  ASSUME NEW a, a \in [DOMAIN a -> Path], IsTree(a)
  PROVE  Core(a, <<>>, Empty, Empty, {<<>>}, {})
PROOF
  <1>1. /\ DOMAIN Empty = {} /\ \A k : k \notin DOMAIN <<>>
    BY DEF Empty
  <1>2. \A x : ~Doomed(<<>>, Empty, x)
    BY <1>1 DEF Doomed
  <1>3. Covered(a, <<>>, Empty, Empty, {<<>>}, {})
    <2>1. \A d \in DOMAIN a : IsPrefix(<<>>, a[d])
      BY PathType, PrefixRefl
    <2>2. QED
      BY <2>1 DEF Covered, Walked
  <1>4. Walking(a, <<>>, Empty, Empty, {<<>>}, {})
    <2>1. InTree(a, <<>>)
      BY DEF IsTree, InTree
    <2>2. \A q \in Path : IsPrefix(q, <<>>) => q = <<>>
      BY PathType, PrefixRefl, PrefixAntisym
    <2>3. QED
      BY <2>1, <2>2 DEF Walking
  <1>5. /\ Maps(Empty, Empty) /\ Ignored(<<>>, Empty) /\ Exact(a, <<>>, Empty, Empty)
        /\ Links(a, <<>>, Empty) /\ Misplaced(a, <<>>, Empty, Empty, {<<>>}, {})
    BY <1>1 DEF Maps, Ignored, Exact, Links, Misplaced
  <1>6. QED
    BY <1>1, <1>3, <1>4, <1>5 DEF Core

\* Without events and without a walk the watches are those of the tree.
LEMMA CoreQuiet ==
  ASSUME NEW a, NEW W, NEW D, D \in [DOMAIN D -> Path], IsTree(a), Core(a, <<>>, W, D, {}, {})
  PROVE  /\ DOMAIN W = DOMAIN a
         /\ \A d \in DOMAIN a : W[d] \in DOMAIN D /\ D[W[d]] = a[d]
         /\ \A u \in DOMAIN D : InTree(a, D[u])
         /\ \A s : Reported(a, <<>>, D, {}, {}, s) => s = {}
PROOF
  <1>1. \A k : k \notin DOMAIN <<>>
    OBVIOUS
  <1>2. \A x : ~Doomed(<<>>, D, x) /\ ~Created(<<>>, D, x) /\ ~Announced(<<>>, D, x)
    BY <1>1 DEF Doomed, Created, Announced
  <1>3. DOMAIN W \subseteq DOMAIN a /\ Maps(W, D)
    BY DEF Core
  <1>4. ASSUME NEW d \in DOMAIN a PROVE d \in DOMAIN W /\ D[W[d]] = a[d]
    <2>1. Tracked(a, W, D, a[d])
      BY <1>2 DEF Core, Covered, Walked
    <2>2. DOMAIN W \subseteq DOMAIN a
      BY <1>3
    <2>3. \A f \in DOMAIN a : Tracked(a, W, D, a[f]) => f \in DOMAIN W /\ D[W[f]] = a[f]
      BY <2>2, TrackedOne
    <2>4. QED
      BY <2>1, <2>3
  <1>5. ASSUME NEW u \in DOMAIN D PROVE InTree(a, D[u])
    <2>1. D[u] \in Path /\ IsPrefix(D[u], D[u])
      BY PathType, PrefixRefl
    <2>2. Tracked(a, W, D, D[u])
      BY <1>2, <2>1 DEF Core, Exact
    <2>3. QED
      BY <1>3, <2>2 DEF Tracked, InTree
  <1>6. ASSUME NEW s, Reported(a, <<>>, D, {}, {}, s) PROVE s = {}
    BY <1>2, <1>6 DEF Reported
  <1>7. QED
    BY <1>3, <1>4, <1>5, <1>6 DEF Maps

\* While the tree is there, its root is watched, and its descriptor not ignored.
LEMMA CoreRoot ==
  ASSUME NEW a, NEW Q, NEW W, NEW D, NEW vs, NEW ls, CoreTypes(a, Q, D, vs, ls), IsTree(a),
         Core(a, Q, W, D, vs, ls), NEW r \in DOMAIN D, D[r] = <<>>
  PROVE  /\ Root \in DOMAIN W /\ W[Root] = r
         /\ \A k \in DOMAIN Q : Q[k].wd = r => Q[k].mask # "ignored"
PROOF
  <1>1. ~Doomed(Q, D, <<>>)
    <2>1. SUFFICES ASSUME Doomed(Q, D, <<>>) PROVE FALSE
      OBVIOUS
    <2>2. PICK u \in DOMAIN D, n \in Names : IsPrefix(Append(D[u], n), <<>>)
      BY <2>1 DEF Doomed
    <2>3. Append(D[u], n) \in Seq(Nat) /\ D[u] \in Seq(Nat) /\ n \in Nat
      BY LinkType DEF CoreTypes
    <2>4. Append(D[u], n) = <<>>
      BY <2>2, <2>3, PrefixRefl, PrefixAntisym, PathType
    <2>5. QED
      BY <2>3, <2>4, AppendType
  <1>2. PICK d \in DOMAIN W : W[d] = r /\ a[d] = <<>>
    <2>1. Exact(a, Q, W, D) /\ Maps(W, D) /\ D \in [DOMAIN D -> Path] /\ ~Doomed(Q, D, D[r])
      BY <1>1 DEF Core, CoreTypes
    <2>2. \E d \in DOMAIN W : W[d] = r /\ a[d] = D[r]
      BY <2>1, ExactOne
    <2>3. QED
      BY <2>2
  <1>3. d = Root
    <2>1. Root \in DOMAIN a /\ a[Root] = a[d] /\ d \in DOMAIN a
      BY <1>2 DEF IsTree, Core
    <2>2. QED
      BY <2>1, TreeOne
  <1>4. QED
    BY <1>2, <1>3 DEF Core, Ignored
=============================================================================

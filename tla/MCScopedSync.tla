----------------------------- MODULE MCScopedSync -----------------------------
(* Instances of ScopedSync for TLC, and the loop that Collapse stands for. *)
EXTENDS ScopedSync

CONSTANTS v, w

Symmetry == Permutations({v, w})

\* Three levels and two siblings.
Deep == {<<>>, <<1>>, <<1, 1>>, <<1, 1, 1>>, <<1, 2>>}

\* One directory: the tree that other programs edit while batches run.
Family == {<<>>, <<1>>, <<1, 1>>, <<1, 2>>}

\* sort.Strings and the loop of reconciliationScopes that skips a path when it
\* has selected one above it.
Before(p, q) ==
    \E i \in 1..Len(q) :
        /\ i > Len(p) \/ (i <= Len(p) /\ p[i] < q[i])
        /\ \A j \in 1..(i - 1) : p[j] = q[j]

SelectLoop(paths) ==
    FoldLeft(LAMBDA selected, p :
                 IF Prefixes(p) \cap selected # {} THEN selected
                                                   ELSE selected \cup {p},
             {}, SetToSortSeq(paths, Before))

ASSUME CollapseAssumption ==
    \A paths \in SUBSET (Path \ {Root}) : SelectLoop(paths) = Collapse(paths)

Nothing == {}
FileIn1 == {<<1, 2>>}
Leaf == {<<1, 1, 1>>}
=============================================================================

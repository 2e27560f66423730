------------------------------ MODULE MCFlags ------------------------------
(* Small instances of Flags: the name "b!" is escaped to "b".              *)
EXTENDS Flags

CONSTANTS
    s, t, u,     \* three spaces
    MaxWork      \* bound on what happens at once while there are flags

EscapeB == [n \in Names |-> IF n = "b!" THEN "b" ELSE n]

SpaceSymmetry == Permutations(SpaceNames)

\* The cells that are in use or that an index still points to.
Cells == flags \cup UNION {Range(ht_name[n]) : n \in Names}
               \cup UNION {Range(ht_off[o]) : o \in Off}

\* Cells, spaces, pushed spaces, aliases and a base other than 0: at most
\* MaxWork of them together, unless there are no cells.
Bounded ==
    \/ Cells = {}
    \/ Cardinality(Cells) + Cardinality({x \in Slots : spaces[x] # Free})
       + Len(spacestack) + Cardinality({i \in flags : items[i].alias # NoAlias})
       + (IF base = 0 THEN 0 ELSE 1) <= MaxWork
=============================================================================

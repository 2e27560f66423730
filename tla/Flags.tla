------------------------------- MODULE Flags -------------------------------
(***************************************************************************)
(* The flags of libr/flag: items that are reached along three ways, the    *)
(* list f->flags, the hash table f->ht_name and the lists of the hash      *)
(* table f->ht_off, and the flag spaces that items belong to.              *)
(*                                                                         *)
(* Items are cells of a heap: removing a flag frees its cell, which the    *)
(* next new flag may get, and with it every entry that was left behind in  *)
(* an index.  Using an entry of a cell that is still free is undefined in  *)
(* C, and the model goes no further there.  Offsets have a width and wrap  *)
(* around; a name is opaque, and of r_name_filter only the name it makes   *)
(* is kept.                                                                *)
(***************************************************************************)
EXTENDS Naturals, Sequences, FiniteSets, SequencesExt

CONSTANTS
    Names,        \* names given by users and names of items
    Filter,       \* [Names -> Names], r_str_chop and r_name_filter
    Size,         \* number of offsets (2^64 in the code)
    Page,         \* r_flag_relocate is given the mask Page - 1
    InOffs,       \* offsets given by users
    Bases,        \* values of f->base and of the base of fb
    Aliases,      \* values the expression of an alias can have
    Globs,        \* for each glob given by users, the names it matches
    SpaceNames,
    MaxSpaces,    \* R_FLAG_SPACES_MAX
    MaxItems,     \* bound on the items
    MaxList,      \* bound on the entries of one offset and of one name
    MaxStack      \* bound on the stack of spaces

Off      == 0 .. Size - 1
Ids      == 1 .. MaxItems
NoSpace  == 0                     \* -1 in the code
Slots    == 1 .. MaxSpaces
NoAlias  == Size
All      == "*"
Free     == ""

ASSUME NamesAssumption ==
    /\ Filter \in [Names -> Names] /\ \A n \in Names : Filter[Filter[n]] = Filter[n]
    /\ Names # {} /\ Globs \subseteq SUBSET Names
ASSUME NumbersAssumption ==
    /\ Size \in Nat \ {0} /\ Page \in 1 .. Size /\ Size % Page = 0
    /\ InOffs \cup Bases \cup Aliases \subseteq Off
    /\ MaxSpaces \in Nat /\ MaxItems \in Nat /\ MaxList \in Nat /\ MaxStack \in Nat
ASSUME SpacesAssumption == SpaceNames \cap {All, Free} = {}

VARIABLES
    items,       \* the heap: an item for each id of flags
    flags,       \* f->flags, as the set of its items
    ht_name,     \* [Names -> Seq(Ids)], entries of one hash, first one first
    ht_off,      \* [Off -> Seq(Ids)]
    base,        \* f->base
    spaces,      \* f->spaces
    space_idx,   \* f->space_idx
    spacestack,  \* f->spacestack, pointers to the strings of f->spaces
    \* history, read by the properties only
    spoilt,      \* names a flag was renamed from, or was given while in use
    behind       \* offsets in whose lists flags stayed when their offset changed

indexes == <<items, flags, ht_name, ht_off, spoilt, behind>>
selected == <<spaces, space_idx, spacestack>>
vars == <<indexes, base, selected>>

Blank == [name |-> CHOOSE n \in Names : TRUE, off |-> 0, space |-> NoSpace,
          alias |-> NoAlias, drift |-> FALSE]

Init ==
    /\ items = [i \in Ids |-> Blank] /\ flags = {}
    /\ ht_name = [n \in Names |-> << >>] /\ ht_off = [o \in Off |-> << >>]
    /\ base = 0
    /\ spaces = [s \in Slots |-> Free] /\ space_idx = NoSpace /\ spacestack = << >>
    /\ spoilt = {} /\ behind = {}

----------------------------------------------------------------------------
(* Items.  drift is history too: the offset was changed without moving the *)
(* item in ht_off.                                                         *)

\* Mutated: offsets do not wrap around.
MovedPastEnd(item, o) == [item EXCEPT !.off = o, !.drift = @ \/ (o # item.off)]

Moved(item, o) == [item EXCEPT !.off = o % Size,
                               !.drift = @ \/ (o % Size # item.off)]

\* An item as a lookup returns it.
evalFlag(i) ==
    IF items[i].alias = NoAlias THEN items[i] ELSE Moved(items[i], items[i].alias)

\* The offsets whose lists keep a flag that leaves them in its.
LeftBehind(its) == {items[i].off : i \in {j \in flags : its[j].drift /\ ~items[j].drift}}

First(S) == CHOOSE s \in S : \A t \in S : s <= t

\* A list without the first of its entries for item i.
r_list_delete_data(q, i) ==
    LET at == {p \in DOMAIN q : q[p] = i}
    IN  IF at = {} THEN q ELSE RemoveAt(q, First(at))

\* Mutated: an item stays in the list of the offset it leaves.
KeepOffsetmap(table, i, o) == table

\* ht_off when item i, at offset o, has left it.
remove_offsetmap(table, i, o) == [table EXCEPT ![o] = r_list_delete_data(@, i)]

\* An entry goes before or after another one of the same hash, as the
\* table happens to be filled.
Inserted(q, i) == {Append(q, i), <<i>> \o q}

\* A found item at the offset it is set to.
Placed(item, off) == [item EXCEPT !.off = (off + base) % Size, !.space = space_idx,
                                  !.drift = base # 0]

\* An item goes to the list of the offset as given, without the base.
Misplaced(off) == IF base = 0 THEN {} ELSE {off}

\* r_flag_set, given the items with the evaluated alias of the found one.
SetFound(i, its, off) ==
    /\ IF its[i].off = off
       THEN items' = its /\ behind' = behind \cup LeftBehind(its) /\ UNCHANGED ht_off
       ELSE /\ Len(ht_off[off]) < MaxList
            /\ ht_off' = [remove_offsetmap(ht_off, i, its[i].off) EXCEPT ![off] = Append(@, i)]
            /\ items' = [its EXCEPT ![i] = Placed(its[i], off)]
            /\ behind' = behind \cup LeftBehind(its) \cup Misplaced(off)
    /\ UNCHANGED <<flags, ht_name, spoilt>>

\* The name was looked up as given, and is entered as it is escaped.
Entered(i, name) ==
    /\ Len(ht_name[name]) < MaxList
    /\ \E q \in Inserted(ht_name[name], i) : ht_name' = [ht_name EXCEPT ![name] = q]

Taken(name) == IF ht_name[name] = << >> THEN {} ELSE {name}

\* R_NEW0 may return any cell that is free.
SetNew(its, raw, off) ==
    \E i \in Ids \ flags :
       /\ Len(ht_off[off]) < MaxList
       /\ flags' = flags \cup {i}
       /\ items' = [its EXCEPT ![i] =
             [name |-> Filter[raw], off |-> (off + base) % Size, space |-> space_idx,
              alias |-> NoAlias, drift |-> (base # 0)]]
       /\ Entered(i, Filter[raw]) /\ spoilt' = spoilt \cup Taken(Filter[raw])
       /\ ht_off' = [ht_off EXCEPT ![off] = Append(@, i)]
       /\ behind' = behind \cup LeftBehind(its) \cup Misplaced(off)

SetIn(its, raw, off) ==
    IF ht_name[raw] = << >> THEN SetNew(its, raw, off)
    ELSE LET i == Head(ht_name[raw])
         IN  i \in flags /\ SetFound(i, [its EXCEPT ![i] = evalFlag(i)], off)

r_flag_set(raw, off) == SetIn(items, raw, off) /\ UNCHANGED <<base, selected>>

\* r_flag_get, r_flag_get_i and r_flag_get_at of a flag with an alias.
r_flag_get(i) ==
    /\ i \in flags /\ items[i].alias # NoAlias
    /\ items' = [items EXCEPT ![i] = evalFlag(i)]
    /\ behind' = behind \cup LeftBehind(items')
    /\ UNCHANGED <<flags, ht_name, ht_off, spoilt, base, selected>>

r_flag_item_set_alias(i, alias) ==
    /\ i \in flags
    /\ items' = [items EXCEPT ![i].alias = alias]
    /\ UNCHANGED <<flags, ht_name, ht_off, spoilt, behind, base, selected>>

\* Mutated: the item is not entered under its new name.
RenameNoInsert(i, raw) ==
    /\ i \in flags /\ ht_name[raw] = << >>
    /\ items' = [items EXCEPT ![i].name = Filter[raw]]
    /\ spoilt' = spoilt \cup {items[i].name} \cup Taken(Filter[raw])
    /\ UNCHANGED <<flags, ht_name, ht_off, behind, base, selected>>

\* The entry of the old name stays.
r_flag_rename(i, raw) ==
    /\ i \in flags /\ ht_name[raw] = << >>
    /\ items' = [items EXCEPT ![i].name = Filter[raw]]
    /\ Entered(i, Filter[raw])
    /\ spoilt' = spoilt \cup {items[i].name} \cup Taken(Filter[raw])
    /\ UNCHANGED <<flags, ht_off, behind, base, selected>>

\* r_flag_move: the last item of the list at an offset is set again.
r_flag_move(at, to) ==
    /\ ht_off[at] # << >>
    /\ LET i == Last(ht_off[at])
       IN  i \in flags /\ SetIn([items EXCEPT ![i] = evalFlag(i)], items[i].name, to)
    /\ UNCHANGED <<base, selected>>

----------------------------------------------------------------------------
(* Removing items.  r_flag_unset takes an item out of the list of the      *)
(* offset it has now and out of the entries of the name it has now; its    *)
(* callers in flag.c free it (cbin.c:1525 leaks it).                       *)

\* The two tables after the items of gone were unset one by one; a name is
\* removed by its hash, which is its first entry.
Unindexed(its, gone) ==
    LET after[n \in 0 .. MaxItems] ==
          IF n = 0 THEN [name |-> ht_name, off |-> ht_off]
          ELSE IF n \notin gone THEN after[n - 1]
          ELSE [after[n - 1] EXCEPT
                  !.name[its[n].name] = IF @ = << >> THEN @ ELSE Tail(@),
                  !.off = remove_offsetmap(@, n, its[n].off)]
    IN  after[MaxItems]

Unset(its, gone) ==
    /\ gone \subseteq flags
    /\ ht_off' = Unindexed(its, gone).off /\ ht_name' = Unindexed(its, gone).name
    /\ flags' = flags \ gone
    /\ items' = [i \in Ids |-> IF i \in flags \ gone THEN its[i] ELSE Blank]
    /\ behind' = behind \cup LeftBehind(its)
    /\ UNCHANGED <<spoilt, base, selected>>

r_flag_unset_off(off) ==
    /\ ht_off[off] # << >>
    /\ LET i == Last(ht_off[off]) IN Unset([items EXCEPT ![i] = evalFlag(i)], {i})

r_flag_unset_name(raw) == ht_name[raw] # << >> /\ Unset(items, {Head(ht_name[raw])})

IS_IN_SPACE(i) == space_idx # NoSpace /\ items[i].space # space_idx

r_flag_unset_glob(glob) ==
    LET gone == {i \in flags : ~IS_IN_SPACE(i) /\ items[i].name \in glob}
    IN  gone # {} /\ Unset(items, gone)

----------------------------------------------------------------------------
(* Changing many offsets at once: fb, fR.                                  *)

SetBase(b) == base' = b /\ UNCHANGED <<indexes, selected>>

Shift(glob, b) ==
    /\ items' = [i \in Ids |-> IF i \in flags /\ items[i].name \in glob
                               THEN Moved(items[i], items[i].off + b) ELSE items[i]]
    /\ behind' = behind \cup LeftBehind(items')
    /\ UNCHANGED <<flags, ht_name, ht_off, spoilt, base, selected>>

\* The low bits of an offset and of the target are added.
r_flag_relocate(off, to) ==
    /\ items' = [i \in Ids |->
          IF i \in flags /\ items[i].off \div Page = off \div Page
          THEN Moved(items[i], to + (items[i].off % Page)) ELSE items[i]]
    /\ behind' = behind \cup LeftBehind(items')
    /\ UNCHANGED <<flags, ht_name, ht_off, spoilt, base, selected>>

----------------------------------------------------------------------------
(* Spaces.                                                                 *)

\* r_flag_space_set; without a free slot the selection stays.
Select(name) ==
    LET same == {s \in Slots : spaces[s] = name}
        free == {s \in Slots : spaces[s] = Free}
    IN  /\ space_idx' = CASE name = All                         -> NoSpace
                          [] name # All /\ same # {}            -> First(same)
                          [] name # All /\ same = {} /\ free # {} -> First(free)
                          [] OTHER                              -> space_idx
        /\ spaces' = IF name # All /\ same = {} /\ free # {}
                     THEN [spaces EXCEPT ![First(free)] = name] ELSE spaces

r_flag_space_set(name) == Select(name) /\ UNCHANGED <<indexes, base, spacestack>>

\* Mutated: the new space is pushed instead of the one it replaces.
PushNew(name) ==
    /\ Len(spacestack) < MaxStack
    /\ Select(name)
    /\ spacestack' = Append(spacestack, [slot |-> space_idx, live |-> TRUE,
          name |-> IF space_idx' = NoSpace THEN All ELSE spaces'[space_idx']])
    /\ UNCHANGED <<indexes, base>>

r_flag_space_push(name) ==
    /\ Len(spacestack) < MaxStack
    /\ spacestack' = Append(spacestack, [slot |-> space_idx, live |-> TRUE,
          name |-> IF space_idx = NoSpace THEN All ELSE spaces[space_idx]])
    /\ Select(name)
    /\ UNCHANGED <<indexes, base>>

\* A string that was freed can read as any name, or as the empty one.
r_flag_space_pop ==
    /\ spacestack # << >>
    /\ spacestack' = Front(spacestack)
    /\ \E name \in IF Last(spacestack).live THEN {Last(spacestack).name}
                   ELSE SpaceNames \cup {All, Free} :
          IF name = Free THEN UNCHANGED <<spaces, space_idx>> ELSE Select(name)
    /\ UNCHANGED <<indexes, base>>

Dangling == [slot |-> NoSpace, live |-> FALSE, name |-> All]

\* The stack when the strings of some slots are freed.
Freed(gone) == [p \in DOMAIN spacestack |->
    IF spacestack[p].slot \in gone THEN Dangling ELSE spacestack[p]]

\* Mutated: the items keep the number of the space.
SpaceUnsetKeepsItems(gone) ==
    /\ spaces' = [s \in Slots |-> IF s \in gone THEN Free ELSE spaces[s]]
    /\ space_idx' = IF space_idx \in gone THEN NoSpace ELSE space_idx
    /\ spacestack' = Freed(gone)
    /\ UNCHANGED items

UnsetSlots(gone) ==
    /\ spaces' = [s \in Slots |-> IF s \in gone THEN Free ELSE spaces[s]]
    /\ space_idx' = IF space_idx \in gone THEN NoSpace ELSE space_idx
    /\ spacestack' = Freed(gone)
    /\ items' = [i \in Ids |-> IF i \in flags /\ items[i].space \in gone
                               THEN [items[i] EXCEPT !.space = NoSpace] ELSE items[i]]

\* The name All stands for NULL, all spaces.
r_flag_space_unset(name) ==
    /\ UnsetSlots({s \in Slots : spaces[s] # Free /\ name \in {All, spaces[s]}})
    /\ UNCHANGED <<flags, ht_name, ht_off, spoilt, behind, base>>

\* The new name may be that of another space.
r_flag_space_rename(old, new) ==
    LET same == {s \in Slots : spaces[s] = old} IN
    /\ same # {}
    /\ spaces' = [spaces EXCEPT ![First(same)] = new]
    /\ spacestack' = Freed({First(same)})
    /\ UNCHANGED <<indexes, base, space_idx>>

\* fsm: the flag at an offset moves to the selected space.
MoveToSpace(off) ==
    /\ ht_off[off] # << >>
    /\ LET i == Last(ht_off[off])
       IN  /\ i \in flags
           /\ items' = [items EXCEPT ![i] = [evalFlag(i) EXCEPT !.space = space_idx]]
    /\ behind' = behind \cup LeftBehind(items')
    /\ UNCHANGED <<flags, ht_name, ht_off, spoilt, base, selected>>

r_flag_unset_all ==
    /\ items' = [i \in Ids |-> Blank] /\ flags' = {}
    /\ ht_name' = [n \in Names |-> << >>] /\ ht_off' = [o \in Off |-> << >>]
    /\ spaces' = [s \in Slots |-> Free] /\ space_idx' = NoSpace
    /\ spacestack' = Freed(Slots)
    /\ spoilt' = {} /\ behind' = {}
    /\ UNCHANGED base

Next ==
    \/ \E n \in Names, o \in InOffs : r_flag_set(n, o)
    \/ \E i \in Ids : r_flag_get(i)
    \/ \E i \in Ids, a \in Aliases \cup {NoAlias} : r_flag_item_set_alias(i, a)
    \/ \E i \in Ids, n \in Names : r_flag_rename(i, n)
    \/ \E o, p \in InOffs : r_flag_move(o, p) \/ r_flag_relocate(o, p)
    \/ \E o \in InOffs : r_flag_unset_off(o) \/ MoveToSpace(o)
    \/ \E n \in Names : r_flag_unset_name(n)
    \/ \E glob \in Globs : r_flag_unset_glob(glob) \/ \E b \in Bases : Shift(glob, b)
    \/ \E b \in Bases : SetBase(b)
    \/ \E s \in SpaceNames \cup {All} :
          r_flag_space_set(s) \/ r_flag_space_push(s) \/ r_flag_space_unset(s)
    \/ \E s, t \in SpaceNames : r_flag_space_rename(s, t)
    \/ r_flag_space_pop \/ r_flag_unset_all

Spec == Init /\ [][Next]_vars

----------------------------------------------------------------------------
(* Properties.                                                             *)

\* The fields of RFlag and of its items hold what r_flag.h says they do, and
\* only listed items are in use.
TypeOK ==
    /\ items \in [Ids -> [name : Names, off : Off, space : Slots \cup {NoSpace},
                          alias : Aliases \cup {NoAlias}, drift : BOOLEAN]]
    /\ flags \subseteq Ids /\ \A i \in Ids \ flags : items[i] = Blank
    /\ ht_name \in [Names -> Seq(Ids)] /\ \A n \in Names : Len(ht_name[n]) <= MaxList
    /\ ht_off \in [Off -> Seq(Ids)] /\ \A o \in Off : Len(ht_off[o]) <= MaxList
    /\ base \in Bases \cup {0}
    /\ spaces \in [Slots -> SpaceNames \cup {Free}]
    /\ space_idx \in Slots \cup {NoSpace}
    /\ spacestack \in Seq([slot : Slots \cup {NoSpace}, live : BOOLEAN,
                           name : SpaceNames \cup {All}])
    /\ Len(spacestack) <= MaxStack
    /\ spoilt \subseteq Names /\ behind \subseteq Off

\* Whatever was set, renamed, moved and removed before, and wherever freed
\* cells were used again: r_flag_get finds by a name the flag that has it, no
\* second one, and never a freed item.  Only two kinds of names are spoilt,
\* ones that a flag was renamed from (flag.c:477 leaves its entry, also when
\* the flag is removed later) and ones that were taken when they were entered
\* (flag.c:393 looks up the name that is not escaped).
NameIndex ==
    \A n \in Names \ spoilt :
        /\ Range(ht_name[n]) = {i \in flags : items[i].name = n}
        /\ Len(ht_name[n]) <= 1

\* r_flag_get_i and r_flag_get_list find at an offset only flags that are
\* there, and never a freed item, unless a flag was left in that list when an
\* alias, a base, fb or fR changed its offset; and every flag whose offset was
\* not changed like that is found at its offset.
OffsetIndex ==
    /\ \A o \in Off \ behind : \A i \in Range(ht_off[o]) : i \in flags /\ items[i].off = o
    /\ \A i \in flags : ~items[i].drift => i \in Range(ht_off[items[i].off])

\* The selected space and the space of every flag exist: a slot that is used
\* again never takes over flags of the space that had it before.
SpaceRefs ==
    \A s \in {space_idx} \cup {items[i].space : i \in flags} :
        s # NoSpace => spaces[s] # Free

\* r_flag_space_pop selects the space that was selected before the push,
\* however pushes and pops are nested and whatever other spaces were created,
\* removed or renamed in between.  It may select another one only when that
\* space itself was removed or renamed (spaces.c:90 and 176 free the string on
\* the stack) or another space was given its name.
PopRestores ==
    [][Len(spacestack') < Len(spacestack) =>
         LET top == Last(spacestack)
         IN  (/\ top.live
              /\ \A s \in Slots \ {top.slot} : top.slot # NoSpace => spaces[s] # spaces[top.slot])
             => space_idx' = top.slot]_vars

\* r_flag_get (flag.c:304): "return the flag item with name "name"".
GetByName ==
    \A n \in Names : ht_name[n] # << >> => items[Head(ht_name[n])].name = n
=============================================================================

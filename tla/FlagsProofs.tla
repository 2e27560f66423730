---------------------------- MODULE FlagsProofs ----------------------------
(***************************************************************************)
(* Theorems about Flags for every number of names, offsets, items and      *)
(* spaces: types, that both indexes lead to the flags, that every space    *)
(* that is referred to exists, and that a pop selects the space that was   *)
(* selected before the push.                                               *)
(*                                                                         *)
(* Facts about removing many items are inductions on their number; they    *)
(* are proofs that the least number at which they fail does not exist.     *)
(***************************************************************************)
EXTENDS Flags, TLAPS, WellFoundedInduction, SequenceTheorems

----------------------------------------------------------------------------
(* Numbers and lists.                                                      *)

\* A non-empty set of naturals has a least element, and First finds it.
LEMMA LeastNatural ==
    ASSUME NEW S, S \subseteq Nat, S # {}
    PROVE  First(S) \in S /\ \A j \in S : First(S) <= j
<1>1. PICK i \in S : \A j \in S : ~ (<<j, i>> \in OpToRel(<, Nat))
    BY NatLessThanWellFounded, WFMin
<1>2. \A j \in S : ~ (j < i)
    BY <1>1 DEF OpToRel
<1>3. \E s \in S : \A t \in S : s <= t
    BY <1>2
<1> QED  BY <1>3 DEF First

\* A list without one of its positions.
LEMMA RemoveAtIs ==
    ASSUME NEW T, NEW s \in Seq(T), NEW i \in 1 .. Len(s)
    PROVE  /\ RemoveAt(s, i) \in Seq(T)
           /\ Len(RemoveAt(s, i)) = Len(s) - 1
           /\ \A j \in 1 .. (Len(s) - 1) : RemoveAt(s, i)[j] = IF j < i THEN s[j] ELSE s[j + 1]
<1> DEFINE a == SubSeq(s, 1, i - 1)
           b == SubSeq(s, i + 1, Len(s))
<1>1. a \in Seq(T) /\ Len(a) = i - 1 /\ \A j \in 1 .. (i - 1) : a[j] = s[j]
    OBVIOUS
<1>2. b \in Seq(T) /\ Len(b) = Len(s) - i /\ \A j \in 1 .. (Len(s) - i) : b[j] = s[j + i]
    OBVIOUS
<1>3. RemoveAt(s, i) = a \o b
    BY DEF RemoveAt
<1> HIDE DEF a, b
<1>4. a \o b \in Seq(T) /\ Len(a \o b) = Len(a) + Len(b)
    BY <1>1, <1>2, ConcatProperties
<1>5. \A j \in 1 .. Len(a) + Len(b) : (a \o b)[j] = IF j <= Len(a) THEN a[j] ELSE b[j - Len(a)]
    BY <1>1, <1>2
<1>6. ASSUME NEW j \in 1 .. (Len(s) - 1) PROVE (a \o b)[j] = IF j < i THEN s[j] ELSE s[j + 1]
    <2>1. CASE j < i
        BY <2>1, <1>1, <1>2, <1>5
    <2>2. CASE ~(j < i)
        <3>1. (a \o b)[j] = b[j - (i - 1)]
            BY <2>2, <1>1, <1>2, <1>5
        <3>2. j - (i - 1) \in 1 .. (Len(s) - i) /\ (j - (i - 1)) + i = j + 1
            BY <2>2
        <3> QED  BY <2>2, <3>1, <3>2, <1>2
    <2> QED  BY <2>1, <2>2
<1>7. Len(a \o b) = Len(s) - 1
    BY <1>1, <1>2, <1>4
<1> QED  BY <1>3, <1>4, <1>6, <1>7

\* r_list_delete_data removes one entry of the item, or none when the list
\* has none.
LEMMA DeleteIs ==
    ASSUME NEW T, NEW q \in Seq(T), NEW i, NEW r, r = r_list_delete_data(q, i)
    PROVE  /\ r \in Seq(T) /\ Len(r) <= Len(q)
           /\ \/ r = q /\ \A p \in 1 .. Len(q) : q[p] # i
              \/ \E at \in 1 .. Len(q) :
                    /\ q[at] = i /\ Len(r) = Len(q) - 1
                    /\ \A p \in 1 .. Len(r) : r[p] = IF p < at THEN q[p] ELSE q[p + 1]
<1>1. DOMAIN q = 1 .. Len(q) /\ Len(q) \in Nat
    OBVIOUS
<1>2. PICK at : at = {p \in 1 .. Len(q) : q[p] = i}
    OBVIOUS
<1>3. r = IF at = {} THEN q ELSE RemoveAt(q, First(at))
    BY <1>1, <1>2 DEF r_list_delete_data
<1>4. CASE at = {}
    <2>1. \A p \in 1 .. Len(q) : q[p] # i
        BY <1>2, <1>4
    <2>2. r = q
        BY <1>3, <1>4
    <2>3. r \in Seq(T) /\ Len(r) <= Len(q)
        BY <2>2, <1>1
    <2> QED  BY <2>1, <2>2, <2>3, Zenon
<1>5. CASE at # {}
    <2>1. at \subseteq Nat
        BY <1>1, <1>2
    <2>2. First(at) \in at
        BY <2>1, <1>5, LeastNatural
    <2>3. PICK p \in 1 .. Len(q) : p = First(at) /\ q[p] = i
        BY <1>2, <2>2
    <2>4. r = RemoveAt(q, p)
        BY <1>3, <1>5, <2>3
    <2>5. /\ r \in Seq(T) /\ Len(r) = Len(q) - 1
          /\ \A j \in 1 .. (Len(q) - 1) : r[j] = IF j < p THEN q[j] ELSE q[j + 1]
        BY <2>4, RemoveAtIs
    <2>6. Len(r) <= Len(q)
        BY <1>1, <2>5
    <2> QED  BY <2>3, <2>5, <2>6
<1> QED  BY <1>4, <1>5

\* Every entry of the shorter list is one of the longer list.
LEMMA DeleteSub ==
    ASSUME NEW T, NEW q \in Seq(T), NEW i, NEW r, r = r_list_delete_data(q, i)
    PROVE  \A p \in 1 .. Len(r) : \E w \in 1 .. Len(q) : r[p] = q[w]
<1>1. CASE r = q
    BY <1>1
<1>2. CASE \E at \in 1 .. Len(q) :
              /\ q[at] = i /\ Len(r) = Len(q) - 1
              /\ \A p \in 1 .. Len(r) : r[p] = IF p < at THEN q[p] ELSE q[p + 1]
    <2>1. PICK at \in 1 .. Len(q) :
              /\ q[at] = i /\ Len(r) = Len(q) - 1
              /\ \A p \in 1 .. Len(r) : r[p] = IF p < at THEN q[p] ELSE q[p + 1]
        BY <1>2
    <2>2. ASSUME NEW p \in 1 .. Len(r) PROVE \E w \in 1 .. Len(q) : r[p] = q[w]
        <3>1. Len(q) \in Nat /\ p \in 1 .. Len(q) /\ p + 1 \in 1 .. Len(q)
            BY <2>1
        <3> QED  BY <2>1, <3>1
    <2> QED  BY <2>2
<1> QED  BY <1>1, <1>2, DeleteIs

\* An entry that occurs once.
Single(q, j) == \E p \in 1 .. Len(q) : \A w \in 1 .. Len(q) : q[w] = j <=> w = p
None(q, j) == \A w \in 1 .. Len(q) : q[w] # j

\* Removing one item leaves the other ones as often in the list as before.
LEMMA DeleteOther ==
    ASSUME NEW T, NEW q \in Seq(T), NEW i, NEW r, r = r_list_delete_data(q, i),
           NEW j, j # i, Single(q, j)
    PROVE  Single(r, j)
<1>1. CASE r = q
    BY <1>1
<1>2. CASE \E at \in 1 .. Len(q) :
              /\ q[at] = i /\ Len(r) = Len(q) - 1
              /\ \A p \in 1 .. Len(r) : r[p] = IF p < at THEN q[p] ELSE q[p + 1]
    <2>1. PICK at \in 1 .. Len(q) :
              /\ q[at] = i /\ Len(r) = Len(q) - 1
              /\ \A p \in 1 .. Len(r) : r[p] = IF p < at THEN q[p] ELSE q[p + 1]
        BY <1>2
    <2>2. PICK p \in 1 .. Len(q) : \A w \in 1 .. Len(q) : q[w] = j <=> w = p
        BY DEF Single
    <2>3. p # at /\ Len(q) \in Nat
        BY <2>1, <2>2
    <2>4. PICK z \in 1 .. Len(r) : z = IF p < at THEN p ELSE p - 1
        BY <2>1, <2>3
    <2>5. ASSUME NEW w \in 1 .. Len(r) PROVE r[w] = j <=> w = z
        <3>1. w \in 1 .. Len(q) /\ w + 1 \in 1 .. Len(q)
            BY <2>1, <2>3
        <3>2. CASE w < at
            <4>1. r[w] = q[w]
                BY <2>1, <3>2
            <4>2. w = z <=> w = p
                BY <3>2, <2>3, <2>4
            <4> QED  BY <4>1, <4>2, <3>1, <2>2
        <3>3. CASE ~(w < at)
            <4>1. r[w] = q[w + 1]
                BY <2>1, <3>3
            <4>2. w = z <=> w + 1 = p
                BY <3>3, <2>3, <2>4
            <4> QED  BY <4>1, <4>2, <3>1, <2>2
        <3> QED  BY <3>2, <3>3
    <2> QED  BY <2>5 DEF Single
<1> QED  BY <1>1, <1>2, DeleteIs

\* Removing the one entry of an item leaves none.
LEMMA DeleteOnly ==
    ASSUME NEW T, NEW q \in Seq(T), NEW i, NEW r, r = r_list_delete_data(q, i), Single(q, i)
    PROVE  None(r, i)
<1>1. PICK p \in 1 .. Len(q) : \A w \in 1 .. Len(q) : q[w] = i <=> w = p
    BY DEF Single
<1>2. q[p] = i
    BY <1>1
<1>3. PICK at \in 1 .. Len(q) :
              /\ q[at] = i /\ Len(r) = Len(q) - 1
              /\ \A w \in 1 .. Len(r) : r[w] = IF w < at THEN q[w] ELSE q[w + 1]
    BY <1>2, DeleteIs
<1>4. at = p
    BY <1>1, <1>3
<1>5. ASSUME NEW w \in 1 .. Len(r) PROVE r[w] # i
    <2>1. w \in 1 .. Len(q) /\ w + 1 \in 1 .. Len(q) /\ (w < at => w # at) /\ (~(w < at) => w + 1 # at)
        BY <1>3
    <2> QED  BY <1>1, <1>3, <1>4, <2>1
<1> QED  BY <1>5 DEF None

\* How often the items are in a list from which one entry of i was removed.
Dropped(r, q, i) ==
    /\ \A j : None(q, j) => None(r, j)
    /\ \A j : j # i => (Single(q, j) => Single(r, j)) /\ (~None(q, j) => ~None(r, j))
    /\ Single(q, i) => None(r, i)

LEMMA DeleteDropped ==
    ASSUME NEW T, NEW q \in Seq(T), NEW i, NEW r, r = r_list_delete_data(q, i)
    PROVE  Dropped(r, q, i)
<1>1. ASSUME NEW j, None(q, j) PROVE None(r, j)
    BY <1>1, DeleteSub DEF None
<1>2. ASSUME NEW j, j # i, Single(q, j) PROVE Single(r, j)
    BY <1>2, DeleteOther
<1>3. ASSUME Single(q, i) PROVE None(r, i)
    BY <1>3, DeleteOnly
<1>4. ASSUME NEW j, j # i, ~None(q, j) PROVE ~None(r, j)
    <2>1. PICK w \in 1 .. Len(q) : q[w] = j
        BY <1>4 DEF None
    <2>2. CASE r = q
        BY <1>4, <2>2
    <2>3. CASE \E at \in 1 .. Len(q) :
                  /\ q[at] = i /\ Len(r) = Len(q) - 1
                  /\ \A p \in 1 .. Len(r) : r[p] = IF p < at THEN q[p] ELSE q[p + 1]
        <3>1. PICK at \in 1 .. Len(q) :
                  /\ q[at] = i /\ Len(r) = Len(q) - 1
                  /\ \A p \in 1 .. Len(r) : r[p] = IF p < at THEN q[p] ELSE q[p + 1]
            BY <2>3
        <3>2. w # at /\ Len(q) \in Nat
            BY <1>4, <2>1, <3>1
        <3>3. PICK z \in 1 .. Len(r) : z = IF w < at THEN w ELSE w - 1
            BY <3>1, <3>2
        <3>4. r[z] = q[w]
            BY <3>1, <3>2, <3>3
        <3> QED  BY <2>1, <3>4 DEF None
    <2> QED  BY <2>2, <2>3, DeleteIs
<1> QED  BY <1>1, <1>2, <1>3, <1>4 DEF Dropped

\* How often the items are in a list that is longer by one of them.
Longer(r, q, i) ==
    /\ Len(r) = Len(q) + 1
    /\ None(q, i) => Single(r, i)
    /\ \A j : j # i => (Single(q, j) => Single(r, j)) /\ (None(q, j) => None(r, j))
    /\ ~None(r, i) /\ \A j : ~None(q, j) => ~None(r, j)

\* What appending an item does to the number of entries of the items.
LEMMA AppendIs ==
    ASSUME NEW T, NEW q \in Seq(T), NEW i \in T, NEW r, r = Append(q, i)
    PROVE  r \in Seq(T) /\ Longer(r, q, i)
<1>1. r \in Seq(T) /\ Len(r) = Len(q) + 1 /\ Len(q) \in Nat
    OBVIOUS
<1>2. \A w \in 1 .. Len(r) : r[w] = IF w = Len(q) + 1 THEN i ELSE q[w]
    OBVIOUS
<1>3. \A w : w \in 1 .. Len(r) <=> (w \in 1 .. Len(q) \/ w = Len(q) + 1)
    BY <1>1
<1>4. Len(q) + 1 \notin 1 .. Len(q)
    BY <1>1
<1>5. ASSUME None(q, i) PROVE Single(r, i)
    BY <1>2, <1>3, <1>4, <1>5 DEF None, Single
<1>6. ASSUME NEW j, j # i, None(q, j) PROVE None(r, j)
    BY <1>2, <1>3, <1>4, <1>6 DEF None
<1>7. ASSUME NEW j, j # i, Single(q, j) PROVE Single(r, j)
    <2>1. PICK p \in 1 .. Len(q) : \A w \in 1 .. Len(q) : q[w] = j <=> w = p
        BY <1>7 DEF Single
    <2>2. p \in 1 .. Len(r) /\ \A w \in 1 .. Len(r) : r[w] = j <=> w = p
        BY <2>1, <1>2, <1>3, <1>4, <1>7
    <2> QED  BY <2>2 DEF Single
<1>8. ~None(r, i)
    BY <1>2, <1>3 DEF None
<1>9. ASSUME NEW j, ~None(q, j) PROVE ~None(r, j)
    <2>1. PICK w \in 1 .. Len(q) : q[w] = j
        BY <1>9 DEF None
    <2>2. w \in 1 .. Len(r) /\ r[w] = j
        BY <2>1, <1>2, <1>3, <1>4
    <2> QED  BY <2>2 DEF None
<1> QED  BY <1>1, <1>5, <1>6, <1>7, <1>8, <1>9 DEF Longer

----------------------------------------------------------------------------
(* The table of the offsets.                                               *)

Tables == [Off -> Seq(Ids)]

\* No list is longer.
Shorter(t, table) == \A c \in Off : Len(t[c]) <= Len(table[c])

\* remove_offsetmap: the item leaves the list of the offset, other items
\* stay where they are.
LEMMA RemoveIs ==
    ASSUME NEW table \in Tables, NEW i, NEW o \in Off, NEW t, t = remove_offsetmap(table, i, o)
    PROVE  /\ t \in Tables /\ Shorter(t, table)
           /\ \A c \in Off \ {o} : t[c] = table[c]
           /\ Dropped(t[o], table[o], i)
<1>1. PICK r : r = r_list_delete_data(table[o], i)
    OBVIOUS
<1>2. table[o] \in Seq(Ids)
    BY DEF Tables
<1>3. r \in Seq(Ids) /\ Len(r) <= Len(table[o])
    BY <1>1, <1>2, DeleteIs
<1>4. t = [table EXCEPT ![o] = r]
    BY <1>1 DEF remove_offsetmap
<1>5. t[o] = r /\ \A c \in Off \ {o} : t[c] = table[c]
    BY <1>4 DEF Tables
<1>6. t \in Tables
    BY <1>3, <1>4 DEF Tables
<1>7. \A c \in Off : Len(table[c]) \in Nat
    BY DEF Tables
<1>8. Shorter(t, table)
    BY <1>3, <1>5, <1>7 DEF Shorter
<1>9. Dropped(r, table[o], i)
    BY <1>1, <1>2, DeleteDropped
<1> QED  BY <1>5, <1>6, <1>8, <1>9

\* Appending an item to the list of an offset.
Appended(t, table, i, o) ==
    /\ t \in Tables
    /\ \A c \in Off \ {o} : t[c] = table[c]
    /\ Longer(t[o], table[o], i)

LEMMA AppendedIs ==
    ASSUME NEW table \in Tables, NEW i \in Ids, NEW o \in Off, NEW t,
           t = [table EXCEPT ![o] = Append(table[o], i)]
    PROVE  Appended(t, table, i, o)
<1>1. PICK r : r = Append(table[o], i)
    OBVIOUS
<1>2. PICK q \in Seq(Ids) : q = table[o]
    BY DEF Tables
<1>3. r \in Seq(Ids) /\ Longer(r, table[o], i)
    <2>1. r = Append(q, i)
        BY <1>1, <1>2
    <2>2. r \in Seq(Ids) /\ Longer(r, q, i)
        BY <2>1, AppendIs
    <2> QED  BY <1>2, <2>2
<1>4. t = [table EXCEPT ![o] = r]
    BY <1>1
<1>5. t[o] = r /\ \A c \in Off \ {o} : t[c] = table[c]
    BY <1>4 DEF Tables
<1>6. t \in Tables
    BY <1>3, <1>4 DEF Tables
<1> QED  BY <1>3, <1>5, <1>6 DEF Appended

----------------------------------------------------------------------------
(* Items and the types of the indexes.                                     *)

Item == [name : Names, off : Off, space : Slots \cup {NoSpace},
         alias : Aliases \cup {NoAlias}, drift : BOOLEAN]

Heap == [Ids -> Item]

IndexTypes ==
    /\ items \in Heap /\ flags \subseteq Ids
    /\ ht_name \in [Names -> Seq(Ids)] /\ \A n \in Names : Len(ht_name[n]) <= MaxList
    /\ ht_off \in Tables /\ \A o \in Off : Len(ht_off[o]) <= MaxList
    /\ base \in Bases \cup {0}
    /\ spoilt \subseteq Names /\ behind \subseteq Off

\* Offsets wrap around.
LEMMA Wrapped ==
    ASSUME NEW o \in Nat
    PROVE  o % Size \in Off /\ (o \in Off => o % Size = o)
BY NumbersAssumption DEF Off

LEMMA BlankItem == Blank \in Item
<1>1. (CHOOSE n \in Names : TRUE) \in Names
    BY NamesAssumption
<1>2. 0 \in Off
    BY NumbersAssumption DEF Off
<1> QED  BY <1>1, <1>2 DEF Blank, Item

\* An item at a new offset: it drifts unless that is the offset it has.
LEMMA MovedIs ==
    ASSUME NEW item \in Item, NEW o \in Nat, NEW m, m = Moved(item, o)
    PROVE  /\ m \in Item /\ m.name = item.name /\ m.space = item.space
           /\ ~m.drift => (~item.drift /\ m.off = item.off)
<1>1. o % Size \in Off
    BY Wrapped
<1>2. PICK d \in BOOLEAN : d = (item.drift \/ o % Size # item.off)
    BY Zenon
<1>3. m = [item EXCEPT !.off = o % Size, !.drift = d]
    BY <1>2 DEF Moved
<1>4. /\ item.name \in Names /\ item.space \in Slots \cup {NoSpace}
      /\ item.alias \in Aliases \cup {NoAlias}
    BY DEF Item
<1>5. m = [name |-> item.name, off |-> o % Size, space |-> item.space,
           alias |-> item.alias, drift |-> d]
    BY <1>3 DEF Item
<1>6. m \in Item /\ m.name = item.name /\ m.space = item.space
    BY <1>1, <1>4, <1>5 DEF Item
<1>7. m.drift = d /\ m.off = o % Size
    BY <1>5
<1>8. ~m.drift => (~item.drift /\ m.off = item.off)
    BY <1>2, <1>7, Zenon
<1> QED  BY <1>6, <1>8

\* evalFlag keeps name and space, and an item that does not drift afterwards
\* did not move.
LEMMA EvalIs ==
    ASSUME items \in Heap, NEW i \in Ids, NEW m, m = evalFlag(i)
    PROVE  /\ m \in Item /\ m.name = items[i].name /\ m.space = items[i].space
           /\ ~m.drift => (~items[i].drift /\ m.off = items[i].off)
<1>1. items[i] \in Item
    BY DEF Heap
<1>2. CASE items[i].alias = NoAlias
    BY <1>1, <1>2 DEF evalFlag
<1>3. CASE items[i].alias # NoAlias
    <2>1. items[i].alias \in Nat
        BY <1>1, <1>3, NumbersAssumption DEF Item, Off
    <2>2. m = Moved(items[i], items[i].alias)
        BY <1>3 DEF evalFlag
    <2> QED  BY <1>1, <2>1, <2>2, MovedIs
<1> QED  BY <1>2, <1>3

\* The items with evaluated aliases, or moved ones: names and spaces are kept
\* and what does not drift did not move.
Evaluated(its) ==
    /\ its \in Heap
    /\ \A j \in Ids : /\ its[j].name = items[j].name /\ its[j].space = items[j].space
                      /\ ~its[j].drift => (~items[j].drift /\ its[j].off = items[j].off)

LEMMA EvaluatedItems ==
    ASSUME items \in Heap
    PROVE  Evaluated(items)
BY DEF Evaluated

LEMMA EvaluatedExcept ==
    ASSUME items \in Heap, NEW its, Evaluated(its), NEW i \in Ids,
           NEW e, e = [its EXCEPT ![i] = evalFlag(i)]
    PROVE  Evaluated(e)
<1>1. PICK m : m = evalFlag(i)
    OBVIOUS
<1>2. /\ m \in Item /\ m.name = items[i].name /\ m.space = items[i].space
      /\ ~m.drift => (~items[i].drift /\ m.off = items[i].off)
    BY <1>1, EvalIs
<1>3. its \in Heap
    BY DEF Evaluated
<1>4. e = [its EXCEPT ![i] = m]
    BY <1>1
<1>5. e \in Heap /\ e[i] = m /\ \A j \in Ids \ {i} : e[j] = its[j]
    BY <1>2, <1>3, <1>4 DEF Heap
<1>6. ASSUME NEW j \in Ids
      PROVE  /\ e[j].name = items[j].name /\ e[j].space = items[j].space
             /\ ~e[j].drift => (~items[j].drift /\ e[j].off = items[j].off)
    <2>1. CASE j = i
        BY <2>1, <1>2, <1>5, Zenon
    <2>2. CASE j # i
        <3>1. e[j] = its[j]
            BY <2>2, <1>5
        <3>2. /\ its[j].name = items[j].name /\ its[j].space = items[j].space
              /\ ~its[j].drift => (~items[j].drift /\ its[j].off = items[j].off)
            BY DEF Evaluated
        <3> QED  BY <3>1, <3>2, Zenon
    <2> QED  BY <2>1, <2>2, Zenon
<1> QED  BY <1>5, <1>6 DEF Evaluated

----------------------------------------------------------------------------
(* Unsetting items.                                                        *)

\* The tables before, and after one more item.
Indexed == [name |-> ht_name, off |-> ht_off]

Without(its, gone, t, n) ==
    IF n \notin gone THEN t
    ELSE [t EXCEPT !.name[its[n].name] = IF @ = << >> THEN @ ELSE Tail(@),
                   !.off = remove_offsetmap(@, n, its[n].off)]

\* f holds the tables after the items up to each number.
UnsetUpTo(f, its, gone, m) ==
    f = [n \in 0 .. m |-> IF n = 0 THEN Indexed ELSE Without(its, gone, f[n - 1], n)]

LEMMA UnsetUpToExists ==
    ASSUME NEW its, NEW gone, NEW m \in Nat
    PROVE  \E f : UnsetUpTo(f, its, gone, m)
<1> DEFINE Bad == {n \in Nat : ~ \E f : UnsetUpTo(f, its, gone, n)}
<1> SUFFICES ASSUME Bad # {} PROVE FALSE
    OBVIOUS
<1>1. PICK n : n = First(Bad)
    OBVIOUS
<1>2. n \in Bad /\ \A j \in Bad : n <= j
    BY <1>1, LeastNatural
<1>3. n # 0
    <2>1. PICK f : f = [k \in 0 .. 0 |-> Indexed]
        OBVIOUS
    <2>2. f = [k \in 0 .. 0 |-> IF k = 0 THEN Indexed ELSE Without(its, gone, f[k - 1], k)]
        BY <2>1
    <2>3. 0 \notin Bad
        BY <2>2 DEF UnsetUpTo
    <2> QED  BY <1>2, <2>3
<1>4. n - 1 \in Nat /\ n - 1 \notin Bad
    BY <1>2, <1>3
<1>5. PICK g : UnsetUpTo(g, its, gone, n - 1)
    BY <1>4
<1>6. PICK f : f = [k \in 0 .. n |-> IF k = n THEN Without(its, gone, g[n - 1], n) ELSE g[k]]
    OBVIOUS
<1>7. \A k \in 0 .. (n - 1) : f[k] = g[k]
    BY <1>2, <1>4, <1>6
<1>8. \A k \in 0 .. (n - 1) : g[k] = IF k = 0 THEN Indexed ELSE Without(its, gone, g[k - 1], k)
    BY <1>5 DEF UnsetUpTo
<1>9. ASSUME NEW k \in 0 .. n
      PROVE  f[k] = IF k = 0 THEN Indexed ELSE Without(its, gone, f[k - 1], k)
    <2>1. CASE k = n
        <3>1. f[k] = Without(its, gone, g[n - 1], n) /\ f[n - 1] = g[n - 1]
            BY <2>1, <1>4, <1>6, <1>7
        <3> QED  BY <2>1, <3>1, <1>3
    <2>2. CASE k # n
        <3>1. k \in 0 .. (n - 1) /\ (k # 0 => k - 1 \in 0 .. (n - 1))
            BY <2>2, <1>2
        <3>2. f[k] = g[k] /\ (k # 0 => f[k - 1] = g[k - 1])
            BY <3>1, <1>7
        <3> QED  BY <3>1, <3>2, <1>8
    <2> QED  BY <2>1, <2>2
<1>10. f = [k \in 0 .. n |-> IF k = 0 THEN Indexed ELSE Without(its, gone, f[k - 1], k)]
    BY <1>6, <1>9
<1>11. n \notin Bad
    BY <1>10 DEF UnsetUpTo
<1> QED  BY <1>2, <1>11

\* Unindexed, unrolled.
LEMMA UnindexedIs ==
    ASSUME NEW its, NEW gone
    PROVE  \E f : /\ f[0] = Indexed
                  /\ \A n \in 1 .. MaxItems : f[n] = Without(its, gone, f[n - 1], n)
                  /\ Unindexed(its, gone) = f[MaxItems]
<1>1. MaxItems \in Nat
    BY NumbersAssumption
<1>2. PICK f : f = CHOOSE g : UnsetUpTo(g, its, gone, MaxItems)
    OBVIOUS
<1>3. UnsetUpTo(f, its, gone, MaxItems)
    BY <1>1, <1>2, UnsetUpToExists
<1>4. Unindexed(its, gone) = f[MaxItems]
    BY <1>2 DEF Unindexed, UnsetUpTo, Without, Indexed
<1>5. \A n \in 0 .. MaxItems : f[n] = IF n = 0 THEN Indexed ELSE Without(its, gone, f[n - 1], n)
    BY <1>3 DEF UnsetUpTo
<1> QED  BY <1>1, <1>4, <1>5

TwoTables == [name : [Names -> Seq(Ids)], off : Tables]

\* One more item, field by field.
OneLess(its, gone, t, n, r) ==
    /\ r \in TwoTables
    /\ n \notin gone => r = t
    /\ n \in gone =>
          /\ r.off = remove_offsetmap(t.off, n, its[n].off)
          /\ r.name[its[n].name] = IF t.name[its[n].name] = << >> THEN << >>
                                   ELSE Tail(t.name[its[n].name])
          /\ \A x \in Names \ {its[n].name} : r.name[x] = t.name[x]

LEMMA WithoutIs ==
    ASSUME NEW its \in Heap, NEW gone, NEW t \in TwoTables, NEW n \in Ids,
           NEW r, r = Without(its, gone, t, n)
    PROVE  OneLess(its, gone, t, n, r)
<1> USE DEF OneLess
<1>1. CASE n \notin gone
    BY <1>1 DEF Without
<1>2. CASE n \in gone
    <2>1. its[n].name \in Names /\ its[n].off \in Off
        BY DEF Heap, Item
    <2>2. t.name \in [Names -> Seq(Ids)] /\ t.off \in Tables
        BY DEF TwoTables
    <2>3. PICK o : o = remove_offsetmap(t.off, n, its[n].off)
        OBVIOUS
    <2>4. o \in Tables
        BY <2>1, <2>2, <2>3, RemoveIs
    <2>5. PICK q : q = t.name[its[n].name]
        OBVIOUS
    <2>6. q \in Seq(Ids)
        BY <2>1, <2>2, <2>5
    <2>7. PICK p : p = IF q = << >> THEN q ELSE Tail(q)
        OBVIOUS
    <2>8. p \in Seq(Ids)
        BY <2>6, <2>7
    <2>9. PICK a : a = [t.name EXCEPT ![its[n].name] = p]
        OBVIOUS
    <2>10. /\ a \in [Names -> Seq(Ids)] /\ a[its[n].name] = p
           /\ \A x \in Names \ {its[n].name} : a[x] = t.name[x]
        BY <2>1, <2>2, <2>8, <2>9
    <2>11. r = [name |-> a, off |-> o]
        <3>1. t = [name |-> t.name, off |-> t.off]
            BY DEF TwoTables
        <3>2. r = [t EXCEPT !.name[its[n].name] = p, !.off = o]
            BY <1>2, <2>3, <2>5, <2>7 DEF Without
        <3> QED  BY <3>1, <3>2, <2>9
    <2>12. r \in TwoTables /\ r.name = a /\ r.off = o
        BY <2>4, <2>10, <2>11 DEF TwoTables
    <2> QED  BY <1>2, <2>3, <2>5, <2>7, <2>10, <2>12
<1> QED  BY <1>1, <1>2

\* No list of a name is longer.
Fewer(names) == \A x \in Names : Len(names[x]) <= Len(ht_name[x])

\* Unsetting items keeps the types of the tables and makes no list longer.
LEMMA UnindexedTypes ==
    ASSUME IndexTypes, NEW its \in Heap, NEW gone, NEW u, u = Unindexed(its, gone)
    PROVE  u \in TwoTables /\ Shorter(u.off, ht_off) /\ Fewer(u.name)
<1>1. PICK f : /\ f[0] = Indexed
               /\ \A n \in 1 .. MaxItems : f[n] = Without(its, gone, f[n - 1], n)
               /\ u = f[MaxItems]
    BY UnindexedIs
<1>2. MaxItems \in Nat
    BY NumbersAssumption
<1> DEFINE Good(n) == f[n] \in TwoTables /\ Shorter(f[n].off, ht_off) /\ Fewer(f[n].name)
           Bad == {n \in 0 .. MaxItems : ~Good(n)}
<1>3. Good(0)
    <2>1. /\ f[0] \in TwoTables /\ f[0].off = ht_off /\ ht_off \in Tables
          /\ f[0].name = ht_name /\ ht_name \in [Names -> Seq(Ids)]
        BY <1>1 DEF Indexed, TwoTables, IndexTypes
    <2>2. (\A c \in Off : Len(ht_off[c]) \in Nat) /\ (\A x \in Names : Len(ht_name[x]) \in Nat)
        BY <2>1 DEF Tables
    <2> QED  BY <2>1, <2>2 DEF Shorter, Fewer
<1>4. ASSUME NEW n \in 1 .. MaxItems, Good(n - 1) PROVE Good(n)
    <2>1. PICK t : t = f[n - 1]
        OBVIOUS
    <2>2. PICK r : r = f[n]
        OBVIOUS
    <2>3. t \in TwoTables /\ Shorter(t.off, ht_off) /\ Fewer(t.name) /\ n \in Ids
        BY <1>4, <2>1 DEF Ids
    <2>4. OneLess(its, gone, t, n, r)
        <3>1. r = Without(its, gone, t, n)
            BY <1>1, <2>1, <2>2
        <3> QED  BY <2>3, <3>1, WithoutIs
    <2>5. CASE n \notin gone
        BY <2>2, <2>3, <2>4, <2>5 DEF OneLess
    <2>6. CASE n \in gone
        <3>1. /\ r \in TwoTables /\ r.off = remove_offsetmap(t.off, n, its[n].off)
              /\ r.name[its[n].name] = IF t.name[its[n].name] = << >> THEN << >>
                                       ELSE Tail(t.name[its[n].name])
              /\ \A x \in Names \ {its[n].name} : r.name[x] = t.name[x]
            BY <2>4, <2>6 DEF OneLess
        <3>2. /\ t.off \in Tables /\ r.off \in Tables /\ ht_off \in Tables /\ its[n].off \in Off
              /\ t.name \in [Names -> Seq(Ids)] /\ ht_name \in [Names -> Seq(Ids)]
              /\ its[n].name \in Names
            BY <2>3, <3>1 DEF TwoTables, IndexTypes, Heap, Item
        <3>3. Shorter(r.off, t.off)
            BY <3>1, <3>2, RemoveIs
        <3>4. Shorter(r.off, ht_off)
            <4>1. \A c \in Off : Len(r.off[c]) \in Nat /\ Len(t.off[c]) \in Nat /\ Len(ht_off[c]) \in Nat
                BY <3>2 DEF Tables
            <4> QED  BY <2>3, <3>3, <4>1 DEF Shorter
        <3>5. Fewer(r.name)
            <4> SUFFICES ASSUME NEW x \in Names PROVE Len(r.name[x]) <= Len(ht_name[x])
                BY DEF Fewer
            <4>1. Len(t.name[x]) <= Len(ht_name[x])
                BY <2>3 DEF Fewer
            <4>2. CASE x # its[n].name
                BY <3>1, <4>1, <4>2
            <4>3. CASE x = its[n].name
                <5>1. PICK q \in Seq(Ids) : q = t.name[x]
                    BY <3>2
                <5>2. r.name[x] = IF q = << >> THEN << >> ELSE Tail(q)
                    BY <3>1, <4>3, <5>1
                <5>3. Len(q) \in Nat /\ (q # << >> => Len(Tail(q)) = Len(q) - 1)
                    OBVIOUS
                <5>4. Len(r.name[x]) <= Len(q)
                    BY <5>2, <5>3
                <5>5. Len(ht_name[x]) \in Nat /\ Len(r.name[x]) \in Nat
                    BY <3>1, <3>2 DEF TwoTables
                <5> QED  BY <4>1, <5>1, <5>3, <5>4, <5>5
            <4> QED  BY <4>2, <4>3
        <3> QED  BY <2>2, <3>1, <3>4, <3>5
    <2> QED  BY <2>5, <2>6
<1>5. Bad = {}
    <2> SUFFICES ASSUME Bad # {} PROVE FALSE
        OBVIOUS
    <2>1. PICK n : n = First(Bad)
        OBVIOUS
    <2>2. Bad \subseteq Nat
        BY <1>2
    <2>3. n \in Bad /\ \A j \in Bad : n <= j
        BY <2>1, <2>2, LeastNatural
    <2> HIDE DEF Good
    <2>4. n \in 1 .. MaxItems /\ n - 1 \in 0 .. MaxItems
        BY <1>2, <1>3, <2>3
    <2>5. Good(n - 1)
        BY <1>2, <2>3, <2>4
    <2> QED  BY <1>4, <2>3, <2>4, <2>5
<1> HIDE DEF Good
<1>6. Good(MaxItems)
    BY <1>2, <1>5
<1> QED  BY <1>1, <1>6 DEF Good

\* The names with one entry when the items of gone up to n were unset.
NamesLeft(names, its, gone, n) == \A x \in Names : Len(ht_name[x]) <= 1 =>
    names[x] = IF \E j \in gone : j <= n /\ its[j].name = x THEN << >> ELSE ht_name[x]

\* How often item j is in the list of offset c when the items of gone up to n
\* were unset.
Leaves(table, its, gone, n, c, j) ==
    /\ None(ht_off[c], j) => None(table[c], j)
    /\ (j \notin gone \/ n < j) =>
          /\ Single(ht_off[c], j) => Single(table[c], j)
          /\ ~None(ht_off[c], j) => ~None(table[c], j)
    /\ (j \in gone /\ j <= n /\ its[j].off = c /\ Single(ht_off[c], j)) => None(table[c], j)

OffsetsLeft(table, its, gone, n) == \A c \in Off, j \in Ids : Leaves(table, its, gone, n, c, j)

\* Unsetting items removes their names and takes each of them out of the list
\* of its offset, and leaves the other ones alone.
LEMMA UnindexedLists ==
    ASSUME IndexTypes, NEW its \in Heap, NEW gone, gone \subseteq Ids,
           NEW u, u = Unindexed(its, gone)
    PROVE  NamesLeft(u.name, its, gone, MaxItems) /\ OffsetsLeft(u.off, its, gone, MaxItems)
<1>1. PICK f : /\ f[0] = Indexed
               /\ \A n \in 1 .. MaxItems : f[n] = Without(its, gone, f[n - 1], n)
               /\ u = f[MaxItems]
    BY UnindexedIs
<1>2. MaxItems \in Nat /\ \A j \in gone : j \in 1 .. MaxItems
    BY NumbersAssumption DEF Ids
<1> DEFINE Good(n) == /\ f[n] \in TwoTables /\ NamesLeft(f[n].name, its, gone, n)
                      /\ OffsetsLeft(f[n].off, its, gone, n)
           Bad == {n \in 0 .. MaxItems : ~Good(n)}
<1>3. Good(0)
    <2>1. f[0] \in TwoTables /\ f[0].off = ht_off /\ f[0].name = ht_name
        BY <1>1 DEF Indexed, TwoTables, IndexTypes
    <2>2. \A j \in gone : ~(j <= 0)
        BY <1>2
    <2>3. NamesLeft(f[0].name, its, gone, 0)
        BY <2>1, <2>2 DEF NamesLeft
    <2>4. OffsetsLeft(f[0].off, its, gone, 0)
        BY <2>1, <2>2 DEF OffsetsLeft, Leaves
    <2> QED  BY <2>1, <2>3, <2>4
<1>4. ASSUME NEW n \in 1 .. MaxItems, Good(n - 1) PROVE Good(n)
    <2>1. PICK t : t = f[n - 1]
        OBVIOUS
    <2>2. PICK r : r = f[n]
        OBVIOUS
    <2>3. PICK m \in Nat : m = n - 1
        OBVIOUS
    <2>4. /\ t \in TwoTables /\ n \in Ids /\ NamesLeft(t.name, its, gone, m)
          /\ OffsetsLeft(t.off, its, gone, m)
        BY <1>4, <2>1, <2>3 DEF Ids
    <2>5. OneLess(its, gone, t, n, r)
        <3>1. r = Without(its, gone, t, n)
            BY <1>1, <2>1, <2>2
        <3> QED  BY <2>4, <3>1, WithoutIs
    <2>6. \A j \in Ids : (j <= n <=> (j <= m \/ j = n)) /\ (n < j <=> (m < j /\ j # n))
        BY <2>3 DEF Ids
    <2>7. m < n /\ n <= n
        BY <2>3
    <2>8. CASE n \notin gone
        <3>1. r = t /\ \A j \in gone : j <= n <=> j <= m
            BY <2>5, <2>6, <2>8 DEF OneLess
        <3>2. NamesLeft(r.name, its, gone, n)
            BY <2>4, <3>1 DEF NamesLeft
        <3>3. OffsetsLeft(r.off, its, gone, n)
            <4> SUFFICES ASSUME NEW c \in Off, NEW j \in Ids PROVE Leaves(r.off, its, gone, n, c, j)
                BY DEF OffsetsLeft
            <4>1. Leaves(t.off, its, gone, m, c, j)
                BY <2>4 DEF OffsetsLeft
            <4> QED  BY <2>6, <3>1, <4>1 DEF Leaves
        <3> QED  BY <2>2, <2>4, <3>1, <3>2, <3>3
    <2>9. CASE n \in gone
        <3>1. /\ r \in TwoTables
              /\ r.off = remove_offsetmap(t.off, n, its[n].off)
              /\ r.name[its[n].name] = IF t.name[its[n].name] = << >> THEN << >>
                                       ELSE Tail(t.name[its[n].name])
              /\ \A x \in Names \ {its[n].name} : r.name[x] = t.name[x]
            BY <2>5, <2>9 DEF OneLess
        <3>2. NamesLeft(r.name, its, gone, n)
            <4> SUFFICES ASSUME NEW x \in Names, Len(ht_name[x]) <= 1
                         PROVE  r.name[x] = IF \E j \in gone : j <= n /\ its[j].name = x
                                            THEN << >> ELSE ht_name[x]
                BY DEF NamesLeft
            <4>1. t.name[x] = IF \E j \in gone : j <= m /\ its[j].name = x THEN << >> ELSE ht_name[x]
                BY <2>4 DEF NamesLeft
            <4>2. CASE x = its[n].name
                <5>1. PICK q \in Seq(Ids) : q = t.name[x]
                    BY <2>4 DEF TwoTables
                <5>2. Len(q) <= 1
                    BY <4>1, <5>1
                <5>3. q = << >> \/ Tail(q) = << >>
                    <6>1. CASE q = << >>
                        BY <6>1
                    <6>2. CASE q # << >>
                        <7>1. PICK z : z = Tail(q)
                            OBVIOUS
                        <7>2. z \in Seq(Ids) /\ Len(z) = Len(q) - 1 /\ Len(q) \in Nat /\ Len(q) # 0
                            BY <6>2, <7>1
                        <7>3. Len(z) = 0
                            BY <5>2, <7>2
                        <7>4. z = << >>
                            BY <7>2, <7>3
                        <7> QED  BY <7>1, <7>4
                    <6> QED  BY <6>1, <6>2
                <5>4. r.name[x] = << >>
                    BY <3>1, <4>2, <5>1, <5>3
                <5> QED  BY <4>2, <2>7, <2>9, <5>4
            <4>3. CASE x # its[n].name
                <5>1. r.name[x] = t.name[x]
                    BY <3>1, <4>3
                <5>2. (\E j \in gone : j <= n /\ its[j].name = x) <=> (\E j \in gone : j <= m /\ its[j].name = x)
                    BY <2>6, <4>3
                <5> QED  BY <4>1, <5>1, <5>2
            <4> QED  BY <4>2, <4>3
        <3>3. OffsetsLeft(r.off, its, gone, n)
            <4> SUFFICES ASSUME NEW c \in Off, NEW j \in Ids PROVE Leaves(r.off, its, gone, n, c, j)
                BY DEF OffsetsLeft
            <4>1. PICK a \in Tables : a = t.off
                BY <2>4 DEF TwoTables
            <4>2. PICK b : b = r.off
                OBVIOUS
            <4>3. PICK o \in Off : o = its[n].off
                BY <2>4 DEF Heap, Item
            <4>4. b = remove_offsetmap(a, n, o)
                BY <3>1, <4>1, <4>2, <4>3
            <4>5. Dropped(b[o], a[o], n) /\ \A k \in Off \ {o} : b[k] = a[k]
                BY <4>4, RemoveIs
            <4>6. Leaves(a, its, gone, m, c, j)
                BY <2>4, <4>1 DEF OffsetsLeft
            <4>7. Leaves(b, its, gone, n, c, j)
                <5>1. CASE c # o
                    BY <5>1, <2>6, <2>9, <4>3, <4>5, <4>6 DEF Leaves
                <5>2. CASE c = o /\ j # n
                    BY <5>2, <2>6, <4>5, <4>6 DEF Leaves, Dropped
                <5>3. CASE c = o /\ j = n
                    BY <5>3, <2>6, <2>7, <2>9, <4>5, <4>6 DEF Leaves, Dropped
                <5> QED  BY <5>1, <5>2, <5>3
            <4> QED  BY <4>2, <4>7
        <3> QED  BY <2>2, <3>1, <3>2, <3>3
    <2> QED  BY <2>8, <2>9
<1>5. Bad = {}
    <2> SUFFICES ASSUME Bad # {} PROVE FALSE
        OBVIOUS
    <2>1. PICK n : n = First(Bad)
        OBVIOUS
    <2>2. Bad \subseteq Nat
        BY <1>2
    <2>3. n \in Bad /\ \A j \in Bad : n <= j
        BY <2>1, <2>2, LeastNatural
    <2> HIDE DEF Good
    <2>4. n \in 1 .. MaxItems /\ n - 1 \in 0 .. MaxItems
        BY <1>2, <1>3, <2>3
    <2>5. Good(n - 1)
        BY <1>2, <2>3, <2>4
    <2> QED  BY <1>4, <2>3, <2>4, <2>5
<1> HIDE DEF Good
<1>6. Good(MaxItems)
    BY <1>2, <1>5
<1> QED  BY <1>1, <1>6 DEF Good

----------------------------------------------------------------------------
(* Types of the indexes, and where the spaces of items come from.          *)

SpaceIds == Slots \cup {NoSpace}

\* The indexes keep their types, and a flag keeps its space or gets none or
\* the selected one.
IndexStep ==
    /\ items' \in Heap /\ flags' \subseteq Ids
    /\ ht_name' \in [Names -> Seq(Ids)] /\ \A n \in Names : Len(ht_name'[n]) <= MaxList
    /\ ht_off' \in Tables /\ \A o \in Off : Len(ht_off'[o]) <= MaxList
    /\ \A j \in flags' : \/ items'[j].space \in {space_idx, NoSpace}
                         \/ j \in flags /\ items'[j].space = items[j].space
    /\ spoilt' \subseteq Names /\ behind' \subseteq Off

\* The offsets that items leave are offsets.
LEMMA LeftBehindOff ==
    ASSUME IndexTypes, NEW its
    PROVE  LeftBehind(its) \subseteq Off
BY DEF LeftBehind, IndexTypes, Heap, Item

LEMMA MisplacedOff ==
    ASSUME NEW off \in Off
    PROVE  Misplaced(off) \subseteq Off
BY DEF Misplaced

\* A set that changes the items only.
LEMMA ItemsStep ==
    ASSUME IndexTypes, items' \in Heap, UNCHANGED <<flags, ht_name, ht_off>>,
           \A j \in Ids : items'[j].space \in {items[j].space, space_idx, NoSpace},
           spoilt' \subseteq Names, behind' \subseteq Off
    PROVE  IndexStep
BY DEF IndexTypes, IndexStep

LEMMA BaseIs == ASSUME IndexTypes PROVE base \in Off /\ base \in Nat
BY NumbersAssumption DEF IndexTypes, Off

\* An item that r_flag_set places at an offset.
LEMMA PlacedIs ==
    ASSUME IndexTypes, space_idx \in SpaceIds, NEW item \in Item, NEW off \in Off,
           NEW m, m = Placed(item, off)
    PROVE  /\ m \in Item /\ m.name = item.name /\ m.space = space_idx
           /\ ~m.drift => base = 0
           /\ base = 0 => (~m.drift /\ m.off = off)
<1>1. off + base \in Nat /\ off \in Nat
    BY BaseIs DEF Off
<1>2. (off + base) % Size \in Off /\ (base = 0 => (off + base) % Size = off)
    BY <1>1, Wrapped
<1>3. PICK o \in Off : o = (off + base) % Size
    BY <1>2
<1>4. PICK d \in BOOLEAN : d = (base # 0)
    BY Zenon
<1>5. m = [item EXCEPT !.off = o, !.space = space_idx, !.drift = d]
    BY <1>3, <1>4 DEF Placed
<1>6. item.name \in Names /\ item.alias \in Aliases \cup {NoAlias}
    BY DEF Item
<1>7. m = [name |-> item.name, off |-> o, space |-> space_idx,
           alias |-> item.alias, drift |-> d]
    BY <1>5 DEF Item
<1>8. m \in Item /\ m.name = item.name /\ m.space = space_idx
    BY <1>6, <1>7 DEF Item, SpaceIds
<1>9. m.drift = d /\ m.off = o
    <2>1. m.drift = d
        BY ONLY <1>7
    <2>2. m.off = o
        BY <1>7
    <2> QED  BY <2>1, <2>2, Zenon
<1>10. ~m.drift => base = 0
    BY <1>4, <1>9, Zenon
<1>11. base = 0 => ~m.drift
    BY <1>4, <1>9, Zenon
<1>12. base = 0 => m.off = off
    BY <1>2, <1>3, <1>9
<1> QED  BY <1>8, <1>10, <1>11, <1>12, Zenon

LEMMA SetFoundTypes ==
    ASSUME IndexTypes, space_idx \in SpaceIds, NEW its, Evaluated(its),
           NEW i \in Ids, NEW off \in Off, SetFound(i, its, off)
    PROVE  IndexStep
<1>1. UNCHANGED <<flags, ht_name, spoilt>> /\ its \in Heap /\ spoilt' \subseteq Names
    BY DEF SetFound, Evaluated, IndexTypes
<1>h. behind' \subseteq Off
    <2>1. behind' = behind \cup LeftBehind(its) \/ behind' = behind \cup LeftBehind(its) \cup Misplaced(off)
        BY DEF SetFound
    <2> QED  BY <2>1, LeftBehindOff, MisplacedOff DEF IndexTypes
<1>2. CASE its[i].off = off
    <2>1. items' = its /\ UNCHANGED ht_off
        BY <1>2 DEF SetFound
    <2> QED  BY <1>1, <1>h, <2>1, ItemsStep DEF Evaluated
<1>3. CASE its[i].off # off
    <2>1. PICK t : t = remove_offsetmap(ht_off, i, its[i].off)
        OBVIOUS
    <2>2. /\ Len(ht_off[off]) < MaxList
          /\ ht_off' = [t EXCEPT ![off] = Append(@, i)]
          /\ items' = [its EXCEPT ![i] = Placed(its[i], off)]
        <3>1. /\ Len(ht_off[off]) < MaxList
              /\ ht_off' = [remove_offsetmap(ht_off, i, its[i].off) EXCEPT ![off] = Append(@, i)]
            BY <1>3 DEF SetFound
        <3>2. items' = [its EXCEPT ![i] = Placed(its[i], off)]
            BY <1>3 DEF SetFound
        <3> QED  BY <2>1, <3>1, <3>2
    <2>3. its[i] \in Item /\ its[i].off \in Off /\ ht_off \in Tables
        BY <1>1 DEF Heap, Item, IndexTypes
    <2>4. t \in Tables /\ Shorter(t, ht_off)
        BY <2>1, <2>3, RemoveIs
    <2>5. /\ ht_off' \in Tables
          /\ \A c \in Off \ {off} : ht_off'[c] = t[c]
          /\ Len(ht_off'[off]) = Len(t[off]) + 1
        <3>1. Appended(ht_off', t, i, off)
            BY <2>2, <2>4, AppendedIs
        <3> QED  BY <3>1 DEF Appended, Longer
    <2>6. \A c \in Off : Len(t[c]) \in Nat /\ Len(ht_off[c]) \in Nat /\ Len(t[c]) <= Len(ht_off[c])
        BY <2>3, <2>4 DEF Tables, Shorter
    <2>7. \A o \in Off : Len(ht_off'[o]) <= MaxList
        <3> SUFFICES ASSUME NEW o \in Off PROVE Len(ht_off'[o]) <= MaxList
            OBVIOUS
        <3>1. MaxList \in Nat /\ Len(ht_off[o]) <= MaxList
            BY NumbersAssumption DEF IndexTypes
        <3>2. CASE o = off
            BY <3>1, <3>2, <2>2, <2>5, <2>6
        <3>3. CASE o # off
            BY <3>1, <3>3, <2>5, <2>6
        <3> QED  BY <3>2, <3>3
    <2>8. PICK m : m = Placed(its[i], off)
        OBVIOUS
    <2>9. m \in Item /\ m.space = space_idx
        BY <2>3, <2>8, PlacedIs
    <2>10. items' = [its EXCEPT ![i] = m]
        BY <2>2, <2>8
    <2>11. items' \in Heap /\ items'[i] = m /\ \A j \in Ids \ {i} : items'[j] = its[j]
        BY <1>1, <2>9, <2>10 DEF Heap
    <2>12. ASSUME NEW j \in flags'
           PROVE  \/ items'[j].space \in {space_idx, NoSpace}
                  \/ j \in flags /\ items'[j].space = items[j].space
        <3>1. j \in flags /\ j \in Ids
            BY <1>1 DEF IndexTypes
        <3> QED  BY <2>9, <2>11, <3>1 DEF Evaluated
    <2> QED  BY <1>1, <1>h, <2>5, <2>7, <2>11, <2>12 DEF IndexStep, IndexTypes
<1> QED  BY <1>2, <1>3

\* A new item.
NewItem(raw, off) ==
    [name |-> Filter[raw], off |-> (off + base) % Size, space |-> space_idx,
     alias |-> NoAlias, drift |-> (base # 0)]

LEMMA NewItemIs ==
    ASSUME IndexTypes, space_idx \in SpaceIds, NEW raw \in Names, NEW off \in Off,
           NEW m, m = NewItem(raw, off)
    PROVE  /\ m \in Item /\ m.name = Filter[raw] /\ m.space = space_idx
           /\ ~m.drift => base = 0
           /\ base = 0 => (~m.drift /\ m.off = off)
<1>1. off + base \in Nat /\ off \in Nat
    BY BaseIs DEF Off
<1>2. (off + base) % Size \in Off /\ (base = 0 => (off + base) % Size = off)
    BY <1>1, Wrapped
<1>3. PICK o \in Off : o = (off + base) % Size
    BY <1>2
<1>4. PICK d \in BOOLEAN : d = (base # 0)
    BY Zenon
<1>5. m = [name |-> Filter[raw], off |-> o, space |-> space_idx,
           alias |-> NoAlias, drift |-> d]
    BY <1>3, <1>4 DEF NewItem
<1>6. Filter[raw] \in Names
    BY NamesAssumption
<1>7. m \in Item /\ m.name = Filter[raw] /\ m.space = space_idx /\ m.drift = d /\ m.off = o
    BY <1>5, <1>6 DEF Item, SpaceIds
<1>8. ~m.drift => base = 0
    BY <1>4, <1>7, Zenon
<1>9. base = 0 => ~m.drift
    BY <1>4, <1>7, Zenon
<1>10. base = 0 => m.off = off
    BY <1>2, <1>3, <1>7
<1> QED  BY <1>7, <1>8, <1>9, <1>10, Zenon

\* Entering an item under a name.
LEMMA InsertedIs ==
    ASSUME NEW names \in [Names -> Seq(Ids)], NEW x \in Names, NEW i \in Ids,
           NEW q \in Inserted(names[x], i)
    PROVE  /\ q \in Seq(Ids) /\ [names EXCEPT ![x] = q] \in [Names -> Seq(Ids)]
           /\ Len(q) = Len(names[x]) + 1
           /\ names[x] = << >> => q = <<i>>
<1>1. PICK s \in Seq(Ids) : s = names[x]
    OBVIOUS
<1>2. <<i>> \in Seq(Ids)
    OBVIOUS
<1>3. Append(s, i) \in Seq(Ids) /\ <<i>> \o s \in Seq(Ids)
    BY <1>2, ConcatProperties
<1>l. Len(Append(s, i)) = Len(s) + 1 /\ Len(<<i>> \o s) = Len(s) + 1
    <2>1. Len(<<i>> \o s) = Len(<<i>>) + Len(s) /\ Len(<<i>>) = 1 /\ Len(s) \in Nat
        BY <1>2, ConcatProperties
    <2> QED  BY <2>1
<1>4. q \in Seq(Ids) /\ Len(q) = Len(names[x]) + 1
    BY <1>1, <1>3, <1>l DEF Inserted
<1>5. Append(<< >>, i) = <<i>> /\ <<i>> \o << >> = <<i>>
    OBVIOUS
<1>6. names[x] = << >> => q = <<i>>
    BY <1>5 DEF Inserted
<1>7. [names EXCEPT ![x] = q] \in [Names -> Seq(Ids)]
    BY <1>4
<1> QED  BY <1>4, <1>6, <1>7

LEMMA EnteredIs ==
    ASSUME IndexTypes, NEW i \in Ids, NEW x \in Names, Entered(i, x)
    PROVE  /\ ht_name' \in [Names -> Seq(Ids)] /\ \A n \in Names : Len(ht_name'[n]) <= MaxList
           /\ \A n \in Names \ {x} : ht_name'[n] = ht_name[n]
           /\ ht_name[x] = << >> => ht_name'[x] = <<i>>
<1>1. ht_name \in [Names -> Seq(Ids)] /\ MaxList \in Nat
    BY NumbersAssumption DEF IndexTypes
<1>2. PICK q \in Inserted(ht_name[x], i) : ht_name' = [ht_name EXCEPT ![x] = q]
    BY DEF Entered
<1>3. /\ q \in Seq(Ids) /\ ht_name' \in [Names -> Seq(Ids)] /\ Len(q) = Len(ht_name[x]) + 1
      /\ ht_name[x] = << >> => q = <<i>>
    BY <1>1, <1>2, InsertedIs
<1>4. ht_name'[x] = q /\ \A n \in Names \ {x} : ht_name'[n] = ht_name[n]
    BY <1>1, <1>2
<1>5. ASSUME NEW n \in Names PROVE Len(ht_name'[n]) <= MaxList
    <2>1. Len(ht_name[n]) \in Nat /\ Len(ht_name[n]) <= MaxList
        BY <1>1 DEF IndexTypes
    <2>2. Len(ht_name[x]) < MaxList
        BY DEF Entered
    <2>3. Len(ht_name[x]) \in Nat
        BY <1>1
    <2>4. CASE n = x
        <3>1. ht_name'[n] = q
            BY <1>4, <2>4
        <3> QED  BY <1>1, <1>3, <2>2, <2>3, <3>1
    <2>5. CASE n # x
        BY <1>4, <2>1, <2>5
    <2> QED  BY <2>4, <2>5
<1> QED  BY <1>3, <1>4, <1>5

LEMMA SetNewTypes ==
    ASSUME IndexTypes, space_idx \in SpaceIds, NEW its, Evaluated(its),
           NEW raw \in Names, NEW off \in Off, SetNew(its, raw, off)
    PROVE  IndexStep
<1>1. PICK i \in Ids \ flags :
         /\ Len(ht_off[off]) < MaxList
         /\ flags' = flags \cup {i}
         /\ items' = [its EXCEPT ![i] = NewItem(raw, off)]
         /\ Entered(i, Filter[raw]) /\ spoilt' = spoilt \cup Taken(Filter[raw])
         /\ ht_off' = [ht_off EXCEPT ![off] = Append(@, i)]
         /\ behind' = behind \cup LeftBehind(its) \cup Misplaced(off)
    BY DEF SetNew, NewItem
<1>2. Filter[raw] \in Names /\ ht_name \in [Names -> Seq(Ids)] /\ ht_off \in Tables /\ its \in Heap
    BY NamesAssumption DEF IndexTypes, Evaluated
<1>3. spoilt' \subseteq Names /\ behind' \subseteq Off
    BY <1>1, <1>2, LeftBehindOff, MisplacedOff DEF IndexTypes, Taken
<1>4. ht_name' \in [Names -> Seq(Ids)] /\ \A n \in Names : Len(ht_name'[n]) <= MaxList
    BY <1>1, <1>2, EnteredIs
<1>5. /\ ht_off' \in Tables /\ \A c \in Off \ {off} : ht_off'[c] = ht_off[c]
      /\ Len(ht_off'[off]) = Len(ht_off[off]) + 1
    <2>1. Appended(ht_off', ht_off, i, off)
        BY <1>1, <1>2, AppendedIs
    <2> QED  BY <2>1 DEF Appended, Longer
<1>6. \A o \in Off : Len(ht_off'[o]) <= MaxList
    <2> SUFFICES ASSUME NEW o \in Off PROVE Len(ht_off'[o]) <= MaxList
        OBVIOUS
    <2>1. MaxList \in Nat /\ Len(ht_off[o]) <= MaxList /\ Len(ht_off[o]) \in Nat
        BY NumbersAssumption DEF IndexTypes, Tables
    <2> QED  BY <2>1, <1>1, <1>5
<1>7. PICK m : m = NewItem(raw, off)
    OBVIOUS
<1>8. m \in Item /\ m.space = space_idx
    BY <1>7, NewItemIs
<1>9. items' = [its EXCEPT ![i] = m]
    BY <1>1, <1>7
<1>10. items' \in Heap /\ items'[i] = m /\ \A j \in Ids \ {i} : items'[j] = its[j]
    BY <1>2, <1>8, <1>9 DEF Heap
<1>11. ASSUME NEW j \in flags'
       PROVE  \/ items'[j].space \in {space_idx, NoSpace}
              \/ j \in flags /\ items'[j].space = items[j].space
    <2>1. j = i \/ (j \in flags /\ j \in Ids)
        BY <1>1 DEF IndexTypes
    <2> QED  BY <1>8, <1>10, <2>1 DEF Evaluated
<1>12. flags' \subseteq Ids
    BY <1>1 DEF IndexTypes
<1> QED  BY <1>3, <1>4, <1>5, <1>6, <1>10, <1>11, <1>12 DEF IndexStep

LEMMA RenameTypes ==
    ASSUME IndexTypes, NEW i \in Ids, NEW raw \in Names, r_flag_rename(i, raw)
    PROVE  IndexStep
<1>1. /\ items' = [items EXCEPT ![i].name = Filter[raw]] /\ UNCHANGED <<flags, ht_off, behind>>
      /\ Entered(i, Filter[raw])
      /\ spoilt' = spoilt \cup {items[i].name} \cup Taken(Filter[raw])
    BY DEF r_flag_rename
<1>2. Filter[raw] \in Names /\ ht_name \in [Names -> Seq(Ids)] /\ items \in Heap
    BY NamesAssumption DEF IndexTypes
<1>3. ht_name' \in [Names -> Seq(Ids)] /\ \A n \in Names : Len(ht_name'[n]) <= MaxList
    BY <1>1, <1>2, EnteredIs
<1>4. items' \in Heap /\ \A j \in Ids : items'[j].space = items[j].space
    <2>1. PICK m : m = [items[i] EXCEPT !.name = Filter[raw]]
        OBVIOUS
    <2>2. items[i] \in Item
        BY <1>2 DEF Heap
    <2>3. m \in Item /\ m.space = items[i].space
        BY <1>2, <2>1, <2>2 DEF Item
    <2>4. items' = [items EXCEPT ![i] = m]
        BY <1>1, <2>1
    <2> QED  BY <1>2, <2>3, <2>4 DEF Heap
<1>5. spoilt' \subseteq Names /\ behind' \subseteq Off
    <2>1. items[i].name \in Names /\ Taken(Filter[raw]) \subseteq Names
        BY <1>2 DEF Heap, Item, Taken
    <2> QED  BY <1>1, <2>1 DEF IndexTypes
<1> QED  BY <1>1, <1>3, <1>4, <1>5 DEF IndexTypes, IndexStep

LEMMA UnsetTypes ==
    ASSUME IndexTypes, NEW its, Evaluated(its), NEW gone, Unset(its, gone)
    PROVE  IndexStep
<1>1. PICK u : u = Unindexed(its, gone)
    OBVIOUS
<1>2. /\ ht_off' = u.off /\ ht_name' = u.name /\ flags' = flags \ gone
      /\ items' = [i \in Ids |-> IF i \in flags \ gone THEN its[i] ELSE Blank]
      /\ behind' = behind \cup LeftBehind(its) /\ spoilt' = spoilt
    BY <1>1 DEF Unset
<1>3. its \in Heap
    BY DEF Evaluated
<1>4. u \in TwoTables /\ Shorter(u.off, ht_off) /\ Fewer(u.name)
    BY <1>1, <1>3, UnindexedTypes
<1>5. ht_name' \in [Names -> Seq(Ids)] /\ ht_off' \in Tables
    BY <1>2, <1>4 DEF TwoTables
<1>n. ASSUME NEW n \in Names PROVE Len(ht_name'[n]) <= MaxList
    <2>1. Len(ht_name'[n]) \in Nat /\ Len(ht_name[n]) \in Nat /\ Len(ht_name[n]) <= MaxList
        BY <1>5 DEF IndexTypes
    <2>2. Len(ht_name'[n]) <= Len(ht_name[n])
        BY <1>2, <1>4 DEF Fewer
    <2> QED  BY <2>1, <2>2, NumbersAssumption
<1>h. spoilt' \subseteq Names /\ behind' \subseteq Off
    BY <1>2, LeftBehindOff DEF IndexTypes
<1>6. ASSUME NEW o \in Off PROVE Len(ht_off'[o]) <= MaxList
    <2>1. Len(ht_off'[o]) \in Nat /\ Len(ht_off[o]) \in Nat /\ Len(ht_off[o]) <= MaxList
        BY <1>5 DEF IndexTypes, Tables
    <2>2. Len(ht_off'[o]) <= Len(ht_off[o])
        BY <1>2, <1>4 DEF Shorter
    <2> QED  BY <2>1, <2>2, NumbersAssumption
<1>7. items' \in Heap
    BY <1>2, <1>3, BlankItem DEF Heap
<1>8. \A j \in flags' : j \in flags /\ j \in Ids /\ items'[j] = its[j]
    BY <1>2 DEF IndexTypes
<1>9. \A j \in flags' : j \in flags /\ items'[j].space = items[j].space
    BY <1>8 DEF Evaluated
<1> QED  BY <1>2, <1>5, <1>6, <1>7, <1>9, <1>n, <1>h DEF IndexStep, IndexTypes

\* Items that are changed in place: names are kept, an item that does not
\* drift is where it was.
InPlace ==
    /\ items' \in Heap /\ UNCHANGED <<flags, ht_name, ht_off>>
    /\ \A j \in Ids : /\ items'[j].name = items[j].name
                      /\ items'[j].space \in {items[j].space, space_idx, NoSpace}
                      /\ ~items'[j].drift => (~items[j].drift /\ items'[j].off = items[j].off)
    /\ spoilt' = spoilt /\ behind' = behind \cup LeftBehind(items')

LEMMA InPlaceTypes == ASSUME IndexTypes, InPlace PROVE IndexStep
<1>1. spoilt' \subseteq Names /\ behind' \subseteq Off
    BY LeftBehindOff DEF InPlace, IndexTypes
<1> QED  BY <1>1, ItemsStep DEF InPlace

LEMMA EvaluatedInPlace ==
    ASSUME Evaluated(items'), UNCHANGED <<flags, ht_name, ht_off, spoilt>>,
           behind' = behind \cup LeftBehind(items')
    PROVE  InPlace
BY DEF Evaluated, InPlace

\* No item leaves its offset when none of them begins to drift.
LEMMA NobodyLeft ==
    ASSUME flags \subseteq Ids, NEW its, \A j \in Ids : its[j].drift => items[j].drift
    PROVE  behind = behind \cup LeftBehind(its)
<1>1. {j \in flags : its[j].drift /\ ~items[j].drift} = {}
    BY Zenon
<1>2. LeftBehind(its) = {}
    BY <1>1 DEF LeftBehind
<1> QED  BY <1>2

LEMMA GetInPlace ==
    ASSUME IndexTypes, NEW i \in Ids, r_flag_get(i)
    PROVE  InPlace
<1>1. items \in Heap /\ Evaluated(items)
    BY EvaluatedItems DEF IndexTypes
<1>2. /\ items' = [items EXCEPT ![i] = evalFlag(i)] /\ UNCHANGED <<flags, ht_name, ht_off, spoilt>>
      /\ behind' = behind \cup LeftBehind(items')
    BY DEF r_flag_get
<1>3. Evaluated(items')
    BY <1>1, <1>2, EvaluatedExcept
<1> QED  BY <1>2, <1>3, EvaluatedInPlace

LEMMA AliasInPlace ==
    ASSUME IndexTypes, NEW i \in Ids, NEW a \in Aliases \cup {NoAlias}, r_flag_item_set_alias(i, a)
    PROVE  InPlace
<1>1. items \in Heap /\ flags \subseteq Ids /\ UNCHANGED <<flags, ht_name, ht_off, spoilt, behind>>
    BY DEF IndexTypes, r_flag_item_set_alias
<1>2. PICK m : m = [items[i] EXCEPT !.alias = a]
    OBVIOUS
<1>3. items[i] \in Item
    BY <1>1 DEF Heap
<1>4. /\ m \in Item /\ m.name = items[i].name /\ m.space = items[i].space
      /\ m.drift = items[i].drift /\ m.off = items[i].off
    BY <1>2, <1>3 DEF Item
<1>5. items' = [items EXCEPT ![i] = m]
    BY <1>2 DEF r_flag_item_set_alias
<1>6. items' \in Heap /\ items'[i] = m /\ \A j \in Ids \ {i} : items'[j] = items[j]
    BY <1>1, <1>4, <1>5 DEF Heap
<1>7. ASSUME NEW j \in Ids
      PROVE  /\ items'[j].name = items[j].name
             /\ items'[j].space \in {items[j].space, space_idx, NoSpace}
             /\ ~items'[j].drift => (~items[j].drift /\ items'[j].off = items[j].off)
    <2>1. CASE j = i
        BY <2>1, <1>4, <1>6, Zenon
    <2>2. CASE j # i
        BY <2>2, <1>6, Zenon
    <2> QED  BY <2>1, <2>2, Zenon
<1>8. \A j \in Ids : items'[j].drift => items[j].drift
    BY <1>4, <1>6, Zenon
<1>9. behind = behind \cup LeftBehind(items')
    BY <1>1, <1>8, NobodyLeft
<1> QED  BY <1>1, <1>6, <1>7, <1>9 DEF InPlace

\* Items that are moved, or not.
LEMMA MovedInPlace ==
    ASSUME IndexTypes, UNCHANGED <<flags, ht_name, ht_off, spoilt>>,
           behind' = behind \cup LeftBehind(items'), NEW C, NEW to \in [Ids -> Nat],
           items' = [i \in Ids |-> IF i \in C THEN Moved(items[i], to[i]) ELSE items[i]]
    PROVE  InPlace
<1>1. ASSUME NEW j \in Ids
      PROVE  /\ items'[j] \in Item /\ items'[j].name = items[j].name
             /\ items'[j].space \in {items[j].space, space_idx, NoSpace}
             /\ ~items'[j].drift => (~items[j].drift /\ items'[j].off = items[j].off)
    <2>1. items[j] \in Item /\ to[j] \in Nat
        BY DEF IndexTypes, Heap
    <2>2. CASE j \in C
        <3>1. items'[j] = Moved(items[j], to[j])
            BY <2>2
        <3> QED  BY <2>1, <3>1, MovedIs
    <2>3. CASE j \notin C
        <3>1. items'[j] = items[j]
            BY <2>3
        <3> QED  BY <2>1, <3>1
    <2> QED  BY <2>2, <2>3
<1>2. items' \in Heap
    <2>1. \A j \in Ids : items'[j] \in Item
        BY <1>1
    <2> QED  BY <2>1 DEF Heap
<1> QED  BY <1>1, <1>2 DEF InPlace

LEMMA ShiftInPlace ==
    ASSUME IndexTypes, NEW glob, NEW b \in Bases, Shift(glob, b)
    PROVE  InPlace
<1>1. PICK C : C = {i \in Ids : i \in flags /\ items[i].name \in glob}
    OBVIOUS
<1>2. PICK to : to = [i \in Ids |-> items[i].off + b]
    OBVIOUS
<1>3. to \in [Ids -> Nat]
    BY <1>2, NumbersAssumption DEF IndexTypes, Heap, Item, Off
<1>4. items' = [i \in Ids |-> IF i \in C THEN Moved(items[i], to[i]) ELSE items[i]]
    BY <1>1, <1>2 DEF Shift
<1>5. UNCHANGED <<flags, ht_name, ht_off, spoilt>> /\ behind' = behind \cup LeftBehind(items')
    BY DEF Shift
<1> QED  BY <1>3, <1>4, <1>5, MovedInPlace

LEMMA RelocateInPlace ==
    ASSUME IndexTypes, NEW off \in InOffs, NEW dst \in InOffs, r_flag_relocate(off, dst)
    PROVE  InPlace
<1>1. PICK C : C = {i \in Ids : i \in flags /\ items[i].off \div Page = off \div Page}
    OBVIOUS
<1>2. PICK to : to = [i \in Ids |-> dst + (items[i].off % Page)]
    OBVIOUS
<1>3. to \in [Ids -> Nat]
    <2>1. \A i \in Ids : items[i].off \in Nat
        BY DEF IndexTypes, Heap, Item, Off
    <2>2. Page \in Nat /\ Page > 0 /\ dst \in Nat
        BY NumbersAssumption DEF Off
    <2> QED  BY <1>2, <2>1, <2>2
<1>4. items' = [i \in Ids |-> IF i \in C THEN Moved(items[i], to[i]) ELSE items[i]]
    BY <1>1, <1>2 DEF r_flag_relocate
<1>5. UNCHANGED <<flags, ht_name, ht_off, spoilt>> /\ behind' = behind \cup LeftBehind(items')
    BY DEF r_flag_relocate
<1> QED  BY <1>3, <1>4, <1>5, MovedInPlace

\* The last item of a list.
LEMMA LastIs ==
    ASSUME IndexTypes, NEW o \in Off, ht_off[o] # << >>, NEW i, i = Last(ht_off[o])
    PROVE  i \in Ids /\ \E w \in 1 .. Len(ht_off[o]) : i = ht_off[o][w]
<1>1. ht_off[o] \in Seq(Ids)
    BY DEF IndexTypes, Tables
<1>2. Len(ht_off[o]) \in 1 .. Len(ht_off[o]) /\ i = ht_off[o][Len(ht_off[o])]
    BY <1>1 DEF Last
<1> QED  BY <1>1, <1>2

LEMMA MoveToSpaceInPlace ==
    ASSUME IndexTypes, space_idx \in SpaceIds, NEW off \in InOffs, MoveToSpace(off)
    PROVE  InPlace
<1>1. off \in Off
    BY NumbersAssumption
<1>2. PICK i : i = Last(ht_off[off])
    OBVIOUS
<1>3. i \in Ids /\ items \in Heap
    BY <1>1, <1>2, LastIs DEF MoveToSpace, IndexTypes
<1>4. PICK e : e = evalFlag(i)
    OBVIOUS
<1>5. /\ e \in Item /\ e.name = items[i].name
      /\ ~e.drift => (~items[i].drift /\ e.off = items[i].off)
    BY <1>3, <1>4, EvalIs
<1>6. PICK m : m = [e EXCEPT !.space = space_idx]
    OBVIOUS
<1>7. /\ m \in Item /\ m.name = e.name /\ m.space = space_idx
      /\ m.drift = e.drift /\ m.off = e.off
    BY <1>5, <1>6 DEF Item, SpaceIds
<1>8. /\ items' = [items EXCEPT ![i] = m] /\ UNCHANGED <<flags, ht_name, ht_off, spoilt>>
      /\ behind' = behind \cup LeftBehind(items')
    BY <1>2, <1>4, <1>6 DEF MoveToSpace
<1>9. items' \in Heap /\ items'[i] = m /\ \A j \in Ids \ {i} : items'[j] = items[j]
    BY <1>3, <1>7, <1>8 DEF Heap
<1>10. ASSUME NEW j \in Ids
       PROVE  /\ items'[j].name = items[j].name
              /\ items'[j].space \in {items[j].space, space_idx, NoSpace}
              /\ ~items'[j].drift => (~items[j].drift /\ items'[j].off = items[j].off)
    <2>1. CASE j = i
        BY <2>1, <1>5, <1>7, <1>9, Zenon
    <2>2. CASE j # i
        BY <2>2, <1>9, Zenon
    <2> QED  BY <2>1, <2>2, Zenon
<1> QED  BY <1>8, <1>9, <1>10 DEF InPlace

LEMMA UnsetSlotsInPlace ==
    ASSUME IndexTypes, NEW gone, UnsetSlots(gone),
           UNCHANGED <<flags, ht_name, ht_off, spoilt, behind>>
    PROVE  InPlace /\ \A j \in flags : items'[j].space \in gone => items'[j].space = NoSpace
<1>1. items \in Heap
    BY DEF IndexTypes
<1>2. items' = [i \in Ids |-> IF i \in flags /\ items[i].space \in gone
                               THEN [items[i] EXCEPT !.space = NoSpace] ELSE items[i]]
    BY DEF UnsetSlots
<1>3. ASSUME NEW j \in Ids
      PROVE  /\ items'[j] \in Item /\ items'[j].name = items[j].name
             /\ items'[j].space \in {items[j].space, space_idx, NoSpace}
             /\ ~items'[j].drift => (~items[j].drift /\ items'[j].off = items[j].off)
             /\ items'[j].drift => items[j].drift
             /\ j \in flags /\ items'[j].space \in gone => items'[j].space = NoSpace
    <2>1. items[j] \in Item
        BY <1>1 DEF Heap
    <2>2. CASE j \in flags /\ items[j].space \in gone
        <3>1. items'[j] = [items[j] EXCEPT !.space = NoSpace]
            BY <1>2, <2>2
        <3>2. /\ items'[j] \in Item /\ items'[j].name = items[j].name /\ items'[j].space = NoSpace
              /\ items'[j].drift = items[j].drift /\ items'[j].off = items[j].off
            BY <2>1, <3>1 DEF Item
        <3> QED  BY <3>2, Zenon
    <2>3. CASE ~(j \in flags /\ items[j].space \in gone)
        <3>1. items'[j] = items[j]
            BY <1>2, <2>3
        <3> QED  BY <2>1, <2>3, <3>1, Zenon
    <2> QED  BY <2>2, <2>3, Zenon
<1>4. items' \in Heap
    <2>1. \A j \in Ids : items'[j] \in Item
        BY <1>3
    <2> QED  BY <1>2, <2>1 DEF Heap
<1>5. behind = behind \cup LeftBehind(items')
    <2>1. flags \subseteq Ids /\ \A j \in Ids : items'[j].drift => items[j].drift
        BY <1>3, Zenon DEF IndexTypes
    <2> QED  BY <2>1, NobodyLeft
<1> QED  BY <1>3, <1>4, <1>5 DEF InPlace, IndexTypes

----------------------------------------------------------------------------
(* Spaces.                                                                 *)

Entry == [slot : SpaceIds, live : BOOLEAN, name : SpaceNames \cup {All}]

SpaceTypes ==
    /\ spaces \in [Slots -> SpaceNames \cup {Free}] /\ space_idx \in SpaceIds
    /\ spacestack \in Seq(Entry) /\ Len(spacestack) <= MaxStack

\* The selected space exists.
SelectedExists == space_idx # NoSpace => spaces[space_idx] # Free

\* A string on the stack that was not freed is the name its space has.
Known(e) == e.live => IF e.slot = NoSpace THEN e.name = All ELSE spaces[e.slot] = e.name

StackInv == \A p \in 1 .. Len(spacestack) : Known(spacestack[p])

SpaceInv == SpaceTypes /\ SelectedExists /\ StackInv

LEMMA Slots0 == NoSpace \notin Slots /\ Slots \subseteq Nat
BY NumbersAssumption DEF NoSpace, Slots

LEMMA NamesApart == All # Free /\ All \notin SpaceNames /\ Free \notin SpaceNames
BY SpacesAssumption DEF All, Free

\* One space has the name.
Only(s, name) == spaces[s] = name /\ \A t \in Slots \ {s} : spaces[t] # name

\* r_flag_space_set: the names of spaces stay, and the space of the name, if
\* there is one and no other has it, is selected.
LEMMA SelectIs ==
    ASSUME SpaceTypes, SelectedExists, NEW name \in SpaceNames \cup {All}, Select(name)
    PROVE  /\ spaces' \in [Slots -> SpaceNames \cup {Free}] /\ space_idx' \in SpaceIds
           /\ SelectedExists'
           /\ \A s \in Slots : spaces[s] # Free => spaces'[s] = spaces[s]
           /\ name = All => space_idx' = NoSpace
           /\ \A s \in Slots : Only(s, name) => space_idx' = s
<1>1. PICK same : same = {s \in Slots : spaces[s] = name}
    OBVIOUS
<1>2. PICK free : free = {s \in Slots : spaces[s] = Free}
    OBVIOUS
<1>3. same \subseteq Nat /\ free \subseteq Nat
    BY <1>1, <1>2, Slots0
<1>4. /\ space_idx' = CASE name = All                         -> NoSpace
                        [] name # All /\ same # {}            -> First(same)
                        [] name # All /\ same = {} /\ free # {} -> First(free)
                        [] OTHER                              -> space_idx
      /\ spaces' = IF name # All /\ same = {} /\ free # {}
                   THEN [spaces EXCEPT ![First(free)] = name] ELSE spaces
    BY <1>1, <1>2 DEF Select
<1>5. spaces \in [Slots -> SpaceNames \cup {Free}] /\ space_idx \in SpaceIds
    BY DEF SpaceTypes
<1>6. \A s \in Slots : spaces[s] # All
    BY <1>5, NamesApart
<1>7. name # Free
    BY NamesApart
<1>8. CASE name = All
    <2>1. space_idx' = NoSpace /\ spaces' = spaces
        BY <1>4, <1>8
    <2> QED  BY <1>5, <1>6, <1>8, <2>1 DEF SelectedExists, SpaceIds, Only
<1>9. CASE name # All /\ same # {}
    <2>1. space_idx' = First(same) /\ spaces' = spaces
        BY <1>4, <1>9
    <2>2. First(same) \in same
        BY <1>3, <1>9, LeastNatural
    <2>3. space_idx' \in Slots /\ spaces[space_idx'] = name
        BY <1>1, <2>1, <2>2
    <2>4. SelectedExists'
        BY <1>7, <2>1, <2>3 DEF SelectedExists
    <2>5. \A s \in Slots : Only(s, name) => space_idx' = s
        BY <2>3 DEF Only
    <2> QED  BY <1>5, <1>9, <2>1, <2>3, <2>4, <2>5 DEF SpaceIds
<1>10. CASE name # All /\ same = {} /\ free # {}
    <2>1. PICK z : z = First(free)
        OBVIOUS
    <2>2. space_idx' = z /\ spaces' = [spaces EXCEPT ![z] = name]
        BY <1>4, <1>10, <2>1
    <2>3. z \in Slots /\ spaces[z] = Free
        BY <1>2, <1>3, <1>10, <2>1, LeastNatural
    <2>4. spaces'[z] = name /\ \A s \in Slots \ {z} : spaces'[s] = spaces[s]
        BY <1>5, <2>2, <2>3
    <2>5. \A s \in Slots : spaces[s] # name
        BY <1>1, <1>10
    <2>6. SelectedExists'
        BY <1>7, <2>2, <2>4 DEF SelectedExists
    <2>7. spaces' \in [Slots -> SpaceNames \cup {Free}]
        BY <1>5, <1>10, <2>2, <2>3
    <2> QED  BY <1>10, <2>2, <2>3, <2>4, <2>5, <2>6, <2>7 DEF SpaceIds, Only
<1>11. CASE name # All /\ same = {} /\ free = {}
    <2>1. space_idx' = space_idx /\ spaces' = spaces
        BY <1>4, <1>11
    <2>2. \A s \in Slots : spaces[s] # name
        BY <1>1, <1>11
    <2> QED  BY <1>5, <1>11, <2>1, <2>2 DEF SelectedExists, Only
<1> QED  BY <1>8, <1>9, <1>10, <1>11

\* When names of spaces stay, so does what is known of the stack.
LEMMA KnownStays ==
    ASSUME SpaceTypes, \A s \in Slots : spaces[s] # Free => spaces'[s] = spaces[s],
           NEW e \in Entry, Known(e)
    PROVE  e.live => IF e.slot = NoSpace THEN e.name = All ELSE spaces'[e.slot] = e.name
<1> SUFFICES ASSUME e.live PROVE IF e.slot = NoSpace THEN e.name = All ELSE spaces'[e.slot] = e.name
    BY Zenon
<1>1. IF e.slot = NoSpace THEN e.name = All ELSE spaces[e.slot] = e.name
    BY DEF Known
<1>2. CASE e.slot = NoSpace
    BY <1>1, <1>2
<1>3. CASE e.slot # NoSpace
    <2>1. e.slot \in Slots /\ e.name # Free
        BY <1>3, NamesApart DEF Entry, SpaceIds
    <2> QED  BY <1>1, <1>3, <2>1
<1> QED  BY <1>2, <1>3

\* The stack when strings were freed.
LEMMA FreedIs ==
    ASSUME SpaceTypes, NEW gone, NEW q, q = Freed(gone)
    PROVE  /\ q \in Seq(Entry) /\ Len(q) = Len(spacestack)
           /\ \A p \in 1 .. Len(spacestack) :
                 q[p].live => (q[p] = spacestack[p] /\ spacestack[p].slot \notin gone)
<1>1. spacestack \in Seq(Entry) /\ Len(spacestack) \in Nat /\ DOMAIN spacestack = 1 .. Len(spacestack)
    BY DEF SpaceTypes
<1>2. q = [p \in 1 .. Len(spacestack) |->
              IF spacestack[p].slot \in gone THEN Dangling ELSE spacestack[p]]
    BY <1>1 DEF Freed
<1>3. Dangling \in Entry /\ ~Dangling.live
    BY DEF Dangling, Entry, SpaceIds
<1>4. ASSUME NEW p \in 1 .. Len(spacestack)
      PROVE  /\ q[p] \in Entry
             /\ q[p].live => (q[p] = spacestack[p] /\ spacestack[p].slot \notin gone)
    <2>1. PICK e \in Entry : e = spacestack[p]
        BY <1>1
    <2>2. CASE e.slot \in gone
        <3>1. q[p] = Dangling
            BY <1>2, <2>1, <2>2
        <3> QED  BY <1>3, <3>1, Zenon
    <2>3. CASE e.slot \notin gone
        <3>1. q[p] = e
            BY <1>2, <2>1, <2>3
        <3> QED  BY <2>1, <2>3, <3>1, Zenon
    <2> QED  BY <2>2, <2>3, Zenon
<1>5. q \in Seq(Entry) /\ Len(q) = Len(spacestack)
    <2>1. \A p \in 1 .. Len(spacestack) : q[p] \in Entry
        BY <1>4
    <2> QED  BY <1>1, <1>2, <2>1
<1> QED  BY <1>4, <1>5

\* No space that exists is removed.
SpacesStay == \A s \in Slots : spaces[s] # Free => spaces'[s] # Free

SpaceStep == SpaceInv' /\ SpacesStay

LEMMA StackIs == ASSUME SpaceTypes PROVE
    /\ spacestack \in Seq(Entry) /\ Len(spacestack) \in Nat /\ Len(spacestack) <= MaxStack
    /\ MaxStack \in Nat /\ \A p \in 1 .. Len(spacestack) : spacestack[p] \in Entry
BY NumbersAssumption DEF SpaceTypes

LEMMA SpaceSetStep ==
    ASSUME SpaceInv, NEW name \in SpaceNames \cup {All}, Select(name), UNCHANGED spacestack
    PROVE  SpaceStep
<1>1. SpaceTypes /\ SelectedExists /\ StackInv
    BY DEF SpaceInv
<1>2. /\ spaces' \in [Slots -> SpaceNames \cup {Free}] /\ space_idx' \in SpaceIds
      /\ SelectedExists'
      /\ \A s \in Slots : spaces[s] # Free => spaces'[s] = spaces[s]
    BY <1>1, SelectIs
<1>3. SpaceTypes'
    BY <1>1, <1>2 DEF SpaceTypes
<1>4. StackInv'
    <2> SUFFICES ASSUME NEW p \in 1 .. Len(spacestack)
                 PROVE  spacestack[p].live =>
                          IF spacestack[p].slot = NoSpace THEN spacestack[p].name = All
                          ELSE spaces'[spacestack[p].slot] = spacestack[p].name
        BY DEF StackInv, Known
    <2>1. spacestack[p] \in Entry /\ Known(spacestack[p])
        BY <1>1, StackIs DEF StackInv
    <2> QED  BY <1>1, <1>2, <2>1, KnownStays
<1> QED  BY <1>2, <1>3, <1>4 DEF SpaceStep, SpaceInv, SpacesStay

LEMMA SpacePushStep ==
    ASSUME SpaceInv, NEW name \in SpaceNames \cup {All}, r_flag_space_push(name)
    PROVE  SpaceStep
<1>1. SpaceTypes /\ SelectedExists /\ StackInv
    BY DEF SpaceInv
<1>2. /\ spaces' \in [Slots -> SpaceNames \cup {Free}] /\ space_idx' \in SpaceIds
      /\ SelectedExists'
      /\ \A s \in Slots : spaces[s] # Free => spaces'[s] = spaces[s]
    BY <1>1, SelectIs DEF r_flag_space_push
<1>3. PICK e : e = [slot |-> space_idx, live |-> TRUE,
                    name |-> IF space_idx = NoSpace THEN All ELSE spaces[space_idx]]
    OBVIOUS
<1>4. e \in Entry
    <2>1. (IF space_idx = NoSpace THEN All ELSE spaces[space_idx]) \in SpaceNames \cup {All}
        BY <1>1 DEF SpaceTypes, SelectedExists, SpaceIds
    <2>2. space_idx \in SpaceIds
        BY <1>1 DEF SpaceTypes
    <2> QED  BY <1>3, <2>1, <2>2 DEF Entry
<1>5. Known(e)
    BY <1>3 DEF Known
<1>6. spacestack' = Append(spacestack, e) /\ Len(spacestack) < MaxStack
    BY <1>3 DEF r_flag_space_push
<1>7. /\ spacestack' \in Seq(Entry) /\ Len(spacestack') = Len(spacestack) + 1
      /\ \A p \in 1 .. Len(spacestack') : spacestack'[p] = IF p = Len(spacestack) + 1 THEN e ELSE spacestack[p]
    BY <1>1, <1>4, <1>6, StackIs
<1>8. SpaceTypes'
    BY <1>1, <1>2, <1>6, <1>7, StackIs DEF SpaceTypes
<1>9. StackInv'
    <2> SUFFICES ASSUME NEW p \in 1 .. Len(spacestack')
                 PROVE  spacestack'[p].live =>
                          IF spacestack'[p].slot = NoSpace THEN spacestack'[p].name = All
                          ELSE spaces'[spacestack'[p].slot] = spacestack'[p].name
        BY DEF StackInv, Known
    <2>1. PICK z : z = spacestack'[p]
        OBVIOUS
    <2>2. z \in Entry /\ Known(z)
        <3>1. CASE p = Len(spacestack) + 1
            BY <3>1, <2>1, <1>4, <1>5, <1>7
        <3>2. CASE p # Len(spacestack) + 1
            <4>1. p \in 1 .. Len(spacestack)
                BY <3>2, <1>1, <1>7, StackIs
            <4> QED  BY <3>2, <4>1, <2>1, <1>1, <1>7, StackIs DEF StackInv
        <3> QED  BY <3>1, <3>2
    <2>3. z.live => IF z.slot = NoSpace THEN z.name = All ELSE spaces'[z.slot] = z.name
        BY <1>1, <1>2, <2>2, KnownStays
    <2> QED  BY <2>1, <2>3
<1> QED  BY <1>2, <1>8, <1>9 DEF SpaceStep, SpaceInv, SpacesStay

LEMMA FrontIs ==
    ASSUME SpaceTypes, spacestack # << >>, NEW q, q = Front(spacestack)
    PROVE  /\ q \in Seq(Entry) /\ Len(q) = Len(spacestack) - 1
           /\ \A p \in 1 .. Len(q) : q[p] = spacestack[p]
           /\ Last(spacestack) = spacestack[Len(spacestack)]
           /\ Len(spacestack) \in 1 .. Len(spacestack)
<1>1. spacestack \in Seq(Entry) /\ Len(spacestack) \in Nat
    BY DEF SpaceTypes
<1>2. q = SubSeq(spacestack, 1, Len(spacestack) - 1)
    BY DEF Front
<1>3. Len(spacestack) # 0
    BY <1>1
<1>4. PICK n \in Nat : n = Len(spacestack) - 1 /\ n <= Len(spacestack)
    <2>1. PICK k \in Nat \ {0} : k = Len(spacestack)
        BY <1>1, <1>3
    <2>2. k - 1 \in Nat /\ k - 1 <= k
        OBVIOUS
    <2> QED  BY <2>1, <2>2
<1>5. /\ SubSeq(spacestack, 1, n) \in Seq(Entry) /\ Len(SubSeq(spacestack, 1, n)) = n
      /\ \A p \in 1 .. n : SubSeq(spacestack, 1, n)[p] = spacestack[p]
    BY <1>1, <1>4
<1>6. Last(spacestack) = spacestack[Len(spacestack)] /\ Len(spacestack) \in 1 .. Len(spacestack)
    BY <1>1, <1>3 DEF Last
<1> QED  BY <1>2, <1>4, <1>5, <1>6

\* A pop selects the space of an entry that was not freed, unless another
\* space has its name.
Restores(top) ==
    (/\ top.live
     /\ \A s \in Slots \ {top.slot} : top.slot # NoSpace => spaces[s] # spaces[top.slot])
    => space_idx' = top.slot

LEMMA SpacePopStep ==
    ASSUME SpaceInv, r_flag_space_pop
    PROVE  SpaceStep /\ Restores(Last(spacestack))
<1>1. SpaceTypes /\ SelectedExists /\ StackInv
    BY DEF SpaceInv
<1>2. spacestack # << >> /\ spacestack' = Front(spacestack)
    BY DEF r_flag_space_pop
<1>3. PICK name \in IF Last(spacestack).live THEN {Last(spacestack).name}
                    ELSE SpaceNames \cup {All, Free} :
          IF name = Free THEN UNCHANGED <<spaces, space_idx>> ELSE Select(name)
    BY DEF r_flag_space_pop
<1>4. /\ spacestack' \in Seq(Entry) /\ Len(spacestack') = Len(spacestack) - 1
      /\ \A p \in 1 .. Len(spacestack') : spacestack'[p] = spacestack[p]
      /\ Last(spacestack) = spacestack[Len(spacestack)]
      /\ Len(spacestack) \in 1 .. Len(spacestack)
    BY <1>1, <1>2, FrontIs
<1>5. PICK e : e = Last(spacestack)
    OBVIOUS
<1>6. e \in Entry /\ Known(e)
    BY <1>1, <1>4, <1>5, StackIs DEF StackInv
<1>7. e.name \in SpaceNames \cup {All} /\ e.name # Free /\ e.slot \in SpaceIds
    BY <1>6, NamesApart DEF Entry
<1>8. CASE name = Free
    <2>1. UNCHANGED <<spaces, space_idx>> /\ ~e.live
        BY <1>3, <1>5, <1>7, <1>8
    <2>2. Restores(e)
        BY <2>1, Zenon DEF Restores
    <2>3. SpaceTypes'
        BY <1>1, <1>4, <2>1, StackIs DEF SpaceTypes
    <2>4. SelectedExists' /\ SpacesStay
        BY <1>1, <2>1 DEF SelectedExists, SpacesStay
    <2>5. StackInv'
        <3>1. \A p \in 1 .. Len(spacestack') : p \in 1 .. Len(spacestack)
            BY <1>1, <1>4, StackIs
        <3> QED  BY <1>1, <1>4, <2>1, <3>1 DEF StackInv, Known
    <2> QED  BY <1>5, <2>2, <2>3, <2>4, <2>5 DEF SpaceStep, SpaceInv
<1>9. CASE name # Free
    <2>1. Select(name) /\ name \in SpaceNames \cup {All}
        BY <1>3, <1>5, <1>7, <1>9
    <2>2. /\ spaces' \in [Slots -> SpaceNames \cup {Free}] /\ space_idx' \in SpaceIds
          /\ SelectedExists'
          /\ \A s \in Slots : spaces[s] # Free => spaces'[s] = spaces[s]
          /\ name = All => space_idx' = NoSpace
          /\ \A s \in Slots : Only(s, name) => space_idx' = s
        BY <1>1, <2>1, SelectIs
    <2>3. SpaceTypes'
        BY <1>1, <1>4, <2>2, StackIs DEF SpaceTypes
    <2>4. StackInv'
        <3> SUFFICES ASSUME NEW p \in 1 .. Len(spacestack')
                     PROVE  spacestack'[p].live =>
                              IF spacestack'[p].slot = NoSpace THEN spacestack'[p].name = All
                              ELSE spaces'[spacestack'[p].slot] = spacestack'[p].name
            BY DEF StackInv, Known
        <3>1. p \in 1 .. Len(spacestack) /\ spacestack'[p] = spacestack[p]
            BY <1>1, <1>4, StackIs
        <3>2. PICK z : z = spacestack'[p]
            OBVIOUS
        <3>3. z \in Entry /\ Known(z)
            BY <1>1, <3>1, <3>2, StackIs DEF StackInv
        <3>4. z.live => IF z.slot = NoSpace THEN z.name = All ELSE spaces'[z.slot] = z.name
            BY <1>1, <2>2, <3>3, KnownStays
        <3> QED  BY <3>2, <3>4
    <2>5. Restores(e)
        <3> SUFFICES ASSUME e.live,
                            \A s \in Slots \ {e.slot} : e.slot # NoSpace => spaces[s] # spaces[e.slot]
                     PROVE  space_idx' = e.slot
            BY Zenon DEF Restores
        <3>1. name = e.name
            BY <1>3, <1>5
        <3>2. IF e.slot = NoSpace THEN e.name = All ELSE spaces[e.slot] = e.name
            BY <1>6 DEF Known
        <3>3. e.slot # NoSpace => e.slot \in Slots
            BY <1>7 DEF SpaceIds
        <3> QED  BY <2>2, <3>1, <3>2, <3>3 DEF Only
    <2> QED  BY <1>5, <2>2, <2>3, <2>4, <2>5 DEF SpaceStep, SpaceInv, SpacesStay
<1> QED  BY <1>8, <1>9

\* Freed strings are not trusted, the other ones keep their names.
LEMMA FreedStack ==
    ASSUME SpaceTypes, StackInv, NEW gone, spacestack' = Freed(gone),
           \A s \in Slots \ gone : spaces'[s] = spaces[s]
    PROVE  /\ spacestack' \in Seq(Entry) /\ Len(spacestack') <= MaxStack
           /\ StackInv'
<1>1. /\ spacestack' \in Seq(Entry) /\ Len(spacestack') = Len(spacestack)
      /\ \A p \in 1 .. Len(spacestack) :
            spacestack'[p].live => (spacestack'[p] = spacestack[p] /\ spacestack[p].slot \notin gone)
    BY FreedIs
<1>2. ASSUME NEW p \in 1 .. Len(spacestack), spacestack'[p].live
      PROVE  IF spacestack'[p].slot = NoSpace THEN spacestack'[p].name = All
             ELSE spaces'[spacestack'[p].slot] = spacestack'[p].name
    <2>1. spacestack'[p] = spacestack[p] /\ spacestack[p].live /\ spacestack[p].slot \notin gone
        BY <1>1, <1>2
    <2>2. PICK e \in Entry : e = spacestack[p]
        BY StackIs
    <2>3. IF e.slot = NoSpace THEN e.name = All ELSE spaces[e.slot] = e.name
        BY <2>1, <2>2 DEF StackInv, Known
    <2>4. e.slot # NoSpace => e.slot \in Slots \ gone
        BY <2>1, <2>2 DEF Entry, SpaceIds
    <2> QED  BY <2>1, <2>2, <2>3, <2>4
<1>3. StackInv'
    BY <1>1, <1>2 DEF StackInv, Known
<1> QED  BY <1>1, <1>3 DEF SpaceTypes

LEMMA UnsetSlotsStep ==
    ASSUME SpaceInv, NEW gone, UnsetSlots(gone)
    PROVE  SpaceInv' /\ \A s \in Slots \ gone : spaces'[s] = spaces[s]
<1>1. SpaceTypes /\ SelectedExists /\ StackInv
    BY DEF SpaceInv
<1>2. /\ spaces' = [s \in Slots |-> IF s \in gone THEN Free ELSE spaces[s]]
      /\ space_idx' = IF space_idx \in gone THEN NoSpace ELSE space_idx
      /\ spacestack' = Freed(gone)
    BY DEF UnsetSlots
<1>3. \A s \in Slots \ gone : spaces'[s] = spaces[s]
    BY <1>2
<1>4. spaces' \in [Slots -> SpaceNames \cup {Free}] /\ space_idx' \in SpaceIds
    BY <1>1, <1>2 DEF SpaceTypes, SpaceIds
<1>5. spacestack' \in Seq(Entry) /\ Len(spacestack') <= MaxStack /\ StackInv'
    BY <1>1, <1>2, <1>3, FreedStack
<1>6. SelectedExists'
    BY <1>1, <1>2 DEF SelectedExists, SpaceTypes, SpaceIds
<1> QED  BY <1>3, <1>4, <1>5, <1>6 DEF SpaceInv, SpaceTypes

LEMMA SpaceRenameStep ==
    ASSUME SpaceInv, NEW old \in SpaceNames, NEW new \in SpaceNames, r_flag_space_rename(old, new)
    PROVE  SpaceInv' /\ SpacesStay
<1>1. SpaceTypes /\ SelectedExists /\ StackInv
    BY DEF SpaceInv
<1>2. PICK same : same = {s \in Slots : spaces[s] = old}
    OBVIOUS
<1>3. PICK z : z = First(same)
    OBVIOUS
<1>4. /\ same # {}
      /\ spaces' = [spaces EXCEPT ![z] = new]
      /\ spacestack' = Freed({z}) /\ space_idx' = space_idx
    BY <1>2, <1>3 DEF r_flag_space_rename
<1>5. z \in Slots
    <2>1. same \subseteq Nat
        BY <1>2, Slots0
    <2> QED  BY <1>2, <1>3, <1>4, <2>1, LeastNatural
<1>6. spaces'[z] = new /\ \A s \in Slots \ {z} : spaces'[s] = spaces[s]
    BY <1>1, <1>4, <1>5 DEF SpaceTypes
<1>7. spaces' \in [Slots -> SpaceNames \cup {Free}] /\ space_idx' \in SpaceIds
    BY <1>1, <1>4, <1>5 DEF SpaceTypes
<1>8. spacestack' \in Seq(Entry) /\ Len(spacestack') <= MaxStack /\ StackInv'
    BY <1>1, <1>4, <1>6, FreedStack
<1>9. SpacesStay
    BY <1>6, NamesApart DEF SpacesStay
<1>10. SelectedExists'
    BY <1>1, <1>4, <1>9 DEF SelectedExists, SpacesStay, SpaceTypes, SpaceIds
<1> QED  BY <1>7, <1>8, <1>9, <1>10 DEF SpaceInv, SpaceTypes

----------------------------------------------------------------------------
(* Types and spaces of every state.                                        *)

\* The space of every flag exists.
FlagSpaces == \A j \in flags : items[j].space # NoSpace => spaces[items[j].space] # Free

BasicInv == IndexTypes /\ SpaceInv /\ FlagSpaces

\* Actions on items leave the spaces alone.
LEMMA IndexBasic ==
    ASSUME BasicInv, IndexStep, UNCHANGED selected, base' \in Bases \cup {0}
    PROVE  BasicInv'
<1>1. IndexTypes /\ SpaceInv /\ FlagSpaces
    BY DEF BasicInv
<1>2. UNCHANGED <<spaces, space_idx, spacestack>>
    BY DEF selected
<1>3. IndexTypes'
    BY DEF IndexStep, IndexTypes
<1>4. SpaceInv'
    BY <1>1, <1>2 DEF SpaceInv, SpaceTypes, SelectedExists, StackInv, Known
<1>5. FlagSpaces'
    BY <1>1, <1>2 DEF FlagSpaces, IndexStep, SpaceInv, SelectedExists
<1> QED  BY <1>3, <1>4, <1>5 DEF BasicInv

\* Actions on spaces that remove none leave the items alone.
LEMMA SpaceBasic ==
    ASSUME BasicInv, SpaceInv', SpacesStay, UNCHANGED <<indexes, base>>
    PROVE  BasicInv'
<1>1. IndexTypes /\ FlagSpaces /\ UNCHANGED <<items, flags, ht_name, ht_off, spoilt, behind, base>>
    BY DEF BasicInv, indexes
<1>2. IndexTypes'
    BY <1>1 DEF IndexTypes
<1>3. FlagSpaces'
    <2> SUFFICES ASSUME NEW j \in flags, items[j].space # NoSpace
                 PROVE  spaces'[items[j].space] # Free
        BY <1>1 DEF FlagSpaces
    <2>1. items[j].space \in Slots
        BY <1>1 DEF IndexTypes, Heap, Item
    <2> QED  BY <1>1, <2>1 DEF FlagSpaces, SpacesStay
<1> QED  BY <1>2, <1>3 DEF BasicInv

\* SetIn of an evaluated heap.
LEMMA SetInTypes ==
    ASSUME IndexTypes, space_idx \in SpaceIds, NEW its, Evaluated(its),
           NEW raw \in Names, NEW off \in Off, SetIn(its, raw, off)
    PROVE  IndexStep
<1>1. CASE ht_name[raw] = << >>
    <2>1. SetNew(its, raw, off)
        BY <1>1 DEF SetIn
    <2> QED  BY <2>1, SetNewTypes
<1>2. CASE ht_name[raw] # << >>
    <2>1. PICK i : i = Head(ht_name[raw])
        OBVIOUS
    <2>2. i \in Ids /\ items \in Heap
        BY <1>2, <2>1 DEF IndexTypes
    <2>3. PICK e : e = [its EXCEPT ![i] = evalFlag(i)]
        OBVIOUS
    <2>4. SetFound(i, e, off)
        BY <1>2, <2>1, <2>3 DEF SetIn
    <2>5. Evaluated(e)
        BY <2>2, <2>3, EvaluatedExcept
    <2> QED  BY <2>2, <2>4, <2>5, SetFoundTypes
<1> QED  BY <1>1, <1>2

LEMMA MoveTypes ==
    ASSUME IndexTypes, space_idx \in SpaceIds, NEW at \in Off, NEW to \in Off, r_flag_move(at, to)
    PROVE  IndexStep
<1>1. PICK i : i = Last(ht_off[at])
    OBVIOUS
<1>2. PICK e : e = [items EXCEPT ![i] = evalFlag(i)]
    OBVIOUS
<1>3. SetIn(e, items[i].name, to) /\ ht_off[at] # << >>
    BY <1>1, <1>2 DEF r_flag_move
<1>4. i \in Ids /\ items \in Heap
    BY <1>1, <1>3, LastIs DEF IndexTypes
<1>5. Evaluated(e) /\ items[i].name \in Names
    BY <1>2, <1>4, EvaluatedItems, EvaluatedExcept DEF Heap, Item
<1> QED  BY <1>3, <1>5, SetInTypes

LEMMA UnsetOffTypes ==
    ASSUME IndexTypes, NEW off \in Off, r_flag_unset_off(off)
    PROVE  IndexStep
<1>1. PICK i : i = Last(ht_off[off])
    OBVIOUS
<1>2. PICK e : e = [items EXCEPT ![i] = evalFlag(i)]
    OBVIOUS
<1>3. Unset(e, {i}) /\ ht_off[off] # << >>
    BY <1>1, <1>2 DEF r_flag_unset_off
<1>4. i \in Ids /\ items \in Heap
    BY <1>1, <1>3, LastIs DEF IndexTypes
<1>5. Evaluated(e)
    BY <1>2, <1>4, EvaluatedItems, EvaluatedExcept
<1> QED  BY <1>3, <1>5, UnsetTypes

\* Every step keeps the types, and the spaces that are referred to.
LEMMA BasicNext ==
    ASSUME BasicInv, [Next]_vars
    PROVE  BasicInv'
<1>1. IndexTypes /\ SpaceInv /\ FlagSpaces
    BY DEF BasicInv
<1>2. space_idx \in SpaceIds /\ base \in Bases \cup {0} /\ items \in Heap
    BY <1>1 DEF SpaceInv, SpaceTypes, IndexTypes
<1>3. InOffs \subseteq Off /\ Evaluated(items)
    BY <1>2, NumbersAssumption, EvaluatedItems
<1>4. ASSUME IndexStep, UNCHANGED <<base, selected>>
      PROVE  BasicInv'
    BY <1>2, <1>4, IndexBasic
<1>5. ASSUME InPlace, UNCHANGED <<base, selected>>
      PROVE  BasicInv'
    BY <1>1, <1>4, <1>5, InPlaceTypes
<1>6. ASSUME SpaceStep, UNCHANGED <<indexes, base>>
      PROVE  BasicInv'
    BY <1>6, SpaceBasic DEF SpaceStep
<1>7. ASSUME NEW n \in Names, NEW o \in InOffs, r_flag_set(n, o)
      PROVE  BasicInv'
    BY <1>1, <1>2, <1>3, <1>4, <1>7, SetInTypes DEF r_flag_set
<1>8. ASSUME NEW i \in Ids, r_flag_get(i)
      PROVE  BasicInv'
    BY <1>1, <1>5, <1>8, GetInPlace DEF r_flag_get
<1>9. ASSUME NEW i \in Ids, NEW a \in Aliases \cup {NoAlias}, r_flag_item_set_alias(i, a)
      PROVE  BasicInv'
    BY <1>1, <1>5, <1>9, AliasInPlace DEF r_flag_item_set_alias
<1>10. ASSUME NEW i \in Ids, NEW n \in Names, r_flag_rename(i, n)
       PROVE  BasicInv'
    BY <1>1, <1>4, <1>10, RenameTypes DEF r_flag_rename
<1>11. ASSUME NEW o \in InOffs, NEW p \in InOffs, r_flag_move(o, p)
       PROVE  BasicInv'
    BY <1>1, <1>2, <1>3, <1>4, <1>11, MoveTypes DEF r_flag_move
<1>12. ASSUME NEW o \in InOffs, NEW p \in InOffs, r_flag_relocate(o, p)
       PROVE  BasicInv'
    BY <1>1, <1>5, <1>12, RelocateInPlace DEF r_flag_relocate
<1>13. ASSUME NEW o \in InOffs, r_flag_unset_off(o)
       PROVE  BasicInv'
    <2>1. UNCHANGED <<base, selected>>
        BY <1>13 DEF r_flag_unset_off, Unset
    <2> QED  BY <1>1, <1>3, <1>4, <1>13, <2>1, UnsetOffTypes
<1>14. ASSUME NEW o \in InOffs, MoveToSpace(o)
       PROVE  BasicInv'
    BY <1>1, <1>2, <1>5, <1>14, MoveToSpaceInPlace DEF MoveToSpace
<1>15. ASSUME NEW gone, Unset(items, gone)
       PROVE  BasicInv'
    <2>1. UNCHANGED <<base, selected>>
        BY <1>15 DEF Unset
    <2> QED  BY <1>1, <1>3, <1>4, <1>15, <2>1, UnsetTypes
<1>16. ASSUME NEW n \in Names, r_flag_unset_name(n)
       PROVE  BasicInv'
    BY <1>15, <1>16 DEF r_flag_unset_name
<1>17. ASSUME NEW glob \in Globs, r_flag_unset_glob(glob)
       PROVE  BasicInv'
    BY <1>15, <1>17 DEF r_flag_unset_glob
<1>18. ASSUME NEW glob \in Globs, NEW b \in Bases, Shift(glob, b)
       PROVE  BasicInv'
    BY <1>1, <1>5, <1>18, ShiftInPlace DEF Shift
<1>19. ASSUME NEW b \in Bases, SetBase(b)
       PROVE  BasicInv'
    <2>1. UNCHANGED <<items, flags, ht_name, ht_off, spoilt, behind>> /\ UNCHANGED selected /\ base' \in Bases \cup {0}
        BY <1>19 DEF SetBase, indexes
    <2>2. IndexStep
        BY <1>1, <2>1, ItemsStep DEF IndexTypes
    <2> QED  BY <2>1, <2>2, IndexBasic
<1>20. ASSUME NEW s \in SpaceNames \cup {All}, r_flag_space_set(s)
       PROVE  BasicInv'
    BY <1>1, <1>6, <1>20, SpaceSetStep DEF r_flag_space_set
<1>21. ASSUME NEW s \in SpaceNames \cup {All}, r_flag_space_push(s)
       PROVE  BasicInv'
    BY <1>1, <1>6, <1>21, SpacePushStep DEF r_flag_space_push
<1>22. ASSUME NEW s \in SpaceNames \cup {All}, r_flag_space_unset(s)
       PROVE  BasicInv'
    <2>1. PICK gone : gone = {t \in Slots : spaces[t] # Free /\ s \in {All, spaces[t]}}
        OBVIOUS
    <2>2. UnsetSlots(gone) /\ UNCHANGED <<flags, ht_name, ht_off, spoilt, behind, base>>
        BY <1>22, <2>1 DEF r_flag_space_unset
    <2>3. SpaceInv' /\ \A t \in Slots \ gone : spaces'[t] = spaces[t]
        BY <1>1, <2>2, UnsetSlotsStep
    <2>4. InPlace /\ \A j \in flags : items'[j].space \in gone => items'[j].space = NoSpace
        BY <1>1, <2>2, UnsetSlotsInPlace
    <2>5. IndexTypes'
        <3>1. IndexStep
            BY <1>1, <2>4, InPlaceTypes
        <3> QED  BY <1>2, <2>2, <3>1 DEF IndexStep, IndexTypes
    <2>6. FlagSpaces'
        <3> SUFFICES ASSUME NEW j \in flags, items'[j].space # NoSpace
                     PROVE  spaces'[items'[j].space] # Free
            BY <2>2 DEF FlagSpaces
        <3>1. j \in Ids /\ items'[j].space \in Slots \ gone
            BY <1>1, <2>2, <2>4, <2>5 DEF IndexTypes, Heap, Item
        <3>2. items'[j].space = items[j].space \/ items'[j].space = space_idx
            BY <2>4, <3>1 DEF InPlace
        <3>3. spaces[items'[j].space] # Free
            BY <1>1, <3>2 DEF FlagSpaces, SpaceInv, SelectedExists
        <3> QED  BY <2>3, <3>1, <3>3
    <2> QED  BY <2>3, <2>5, <2>6 DEF BasicInv
<1>23. ASSUME NEW s \in SpaceNames, NEW t \in SpaceNames, r_flag_space_rename(s, t)
       PROVE  BasicInv'
    <2>1. UNCHANGED <<indexes, base>>
        BY <1>23 DEF r_flag_space_rename
    <2> QED  BY <1>1, <1>23, <2>1, SpaceRenameStep, SpaceBasic
<1>24. ASSUME r_flag_space_pop
       PROVE  BasicInv'
    BY <1>1, <1>6, <1>24, SpacePopStep DEF r_flag_space_pop
<1>25. ASSUME r_flag_unset_all
       PROVE  BasicInv'
    <2>1. /\ items' = [i \in Ids |-> Blank] /\ flags' = {}
          /\ ht_name' = [n \in Names |-> << >>] /\ ht_off' = [o \in Off |-> << >>]
          /\ spaces' = [s \in Slots |-> Free] /\ space_idx' = NoSpace
          /\ spacestack' = Freed(Slots) /\ UNCHANGED base /\ spoilt' = {} /\ behind' = {}
        BY <1>25 DEF r_flag_unset_all
    <2>2. << >> \in Seq(Ids) /\ Len(<< >>) = 0 /\ 0 <= MaxList
        BY NumbersAssumption
    <2>3. IndexTypes'
        <3>1. items' \in Heap /\ ht_name' \in [Names -> Seq(Ids)] /\ ht_off' \in Tables
            BY <2>1, <2>2, BlankItem DEF Heap, Tables
        <3>2. (\A o \in Off : Len(ht_off'[o]) <= MaxList) /\ \A n \in Names : Len(ht_name'[n]) <= MaxList
            BY <2>1, <2>2
        <3> QED  BY <1>2, <2>1, <3>1, <3>2 DEF IndexTypes
    <2>4. spacestack' \in Seq(Entry) /\ Len(spacestack') <= MaxStack /\ StackInv'
        BY <1>1, <2>1, FreedStack DEF SpaceInv
    <2>5. SpaceInv' /\ FlagSpaces'
        BY <2>1, <2>4 DEF SpaceInv, SpaceTypes, SelectedExists, SpaceIds, FlagSpaces
    <2> QED  BY <2>3, <2>5 DEF BasicInv
<1>26. ASSUME UNCHANGED vars
       PROVE  BasicInv'
    <2>1. UNCHANGED <<items, flags, ht_name, ht_off, spoilt, behind>> /\ UNCHANGED <<base, selected>>
        BY <1>26 DEF vars, indexes
    <2>2. IndexStep
        BY <1>1, <2>1, ItemsStep DEF IndexTypes
    <2> QED  BY <1>4, <2>1, <2>2
<1> QED
    BY <1>7, <1>8, <1>9, <1>10, <1>11, <1>12, <1>13, <1>14, <1>16, <1>17, <1>18, <1>19, <1>20,
       <1>21, <1>22, <1>23, <1>24, <1>25, <1>26, Zenon DEF Next

----------------------------------------------------------------------------
(* The indexes.  A name that is not spoilt has the entry of its flag and no *)
(* other one.  The list of an offset that nobody left behind holds flags   *)
(* that are there, each of them once: an item that is unset or moves away  *)
(* leaves one entry less, which must have been its last one.               *)

\* Only listed items are in use.
Blanks == \A i \in Ids \ flags : items[i] = Blank

\* The entries of a name are its flag.
Named(x) == Range(ht_name[x]) = {i \in flags : items[i].name = x} /\ Len(ht_name[x]) <= 1

\* An entry of an item in the list of an offset is right.
There(o, j) == j \in flags /\ items[j].off = o /\ ~items[j].drift /\ Single(ht_off[o], j)

\* The entries of an offset are right.
Sound(o) == \A j \in Ids : ~None(ht_off[o], j) => There(o, j)

\* A flag that does not drift is in the list of its offset.
Listed(j) == ~items[j].drift => ~None(ht_off[items[j].off], j)

OffsetInv == (\A o \in Off \ behind : Sound(o)) /\ (\A j \in flags : Listed(j))

IndexInv == Blanks /\ NameIndex /\ OffsetInv

LEMMA NameIndexIs == NameIndex <=> \A x \in Names \ spoilt : Named(x)
BY DEF NameIndex, Named

\* Items that are not listed are left alone.
Spares(its) == \A j \in Ids \ flags : its[j] = items[j]

\* A flag in the list of an offset that nobody leaves stays there.
LEMMA StaysPut ==
    ASSUME IndexTypes, NEW its, Evaluated(its), NEW o, o \notin LeftBehind(its), NEW j,
           There(o, j)
    PROVE  j \in flags /\ j \in Ids /\ its[j].off = o /\ ~its[j].drift
<1>1. j \in flags /\ j \in Ids /\ items[j].off = o /\ ~items[j].drift
    BY Zenon DEF There, IndexTypes
<1>2. ~its[j].drift
    <2> SUFFICES ASSUME its[j].drift PROVE FALSE
        BY Zenon
    <2>1. j \in {k \in flags : its[k].drift /\ ~items[k].drift}
        BY <1>1, Zenon
    <2>2. o \in LeftBehind(its)
        BY <1>1, <2>1 DEF LeftBehind
    <2> QED  BY <2>2
<1>3. its[j].off = items[j].off
    BY <1>1, <1>2, Zenon DEF Evaluated
<1> QED  BY <1>1, <1>2, <1>3, Zenon

LEMMA InPlaceInv ==
    ASSUME IndexTypes, IndexInv, InPlace, Spares(items')
    PROVE  IndexInv'
<1>1. UNCHANGED <<flags, ht_name, ht_off, spoilt>> /\ flags \subseteq Ids
    BY DEF InPlace, IndexTypes
<1>2. Blanks'
    BY <1>1 DEF IndexInv, Blanks, Spares
<1>3. NameIndex'
    <2>1. \A j \in flags : items'[j].name = items[j].name
        BY <1>1 DEF InPlace
    <2>2. \A x : {i \in flags : items'[i].name = x} = {i \in flags : items[i].name = x}
        BY <2>1
    <2> QED  BY <1>1, <2>2 DEF IndexInv, NameIndex
<1>4. ASSUME NEW o \in Off \ behind', NEW j \in Ids, ~None(ht_off[o], j) PROVE There(o, j)'
    <2>1. o \notin behind /\ o \notin LeftBehind(items')
        BY <1>4 DEF InPlace
    <2>2. There(o, j)
        BY <2>1, <1>4 DEF IndexInv, OffsetInv, Sound
    <2>3. items[j].off = o /\ ~items[j].drift /\ j \in flags
        BY <2>2, Zenon DEF There
    <2>4. ~items'[j].drift
        <3> SUFFICES ASSUME items'[j].drift PROVE FALSE
            BY Zenon
        <3>1. j \in {k \in flags : items'[k].drift /\ ~items[k].drift}
            BY <2>3, Zenon
        <3> QED  BY <2>1, <2>3, <3>1 DEF LeftBehind
    <2>5. items'[j].off = o
        BY <2>3, <2>4, Zenon DEF InPlace
    <2> QED  BY <1>1, <2>2, <2>3, <2>4, <2>5 DEF There
<1>5. ASSUME NEW j \in flags, ~items'[j].drift PROVE ~None(ht_off[items'[j].off], j)
    <2>1. ~items[j].drift /\ items'[j].off = items[j].off
        BY <1>1, <1>5, Zenon DEF InPlace
    <2> QED  BY <2>1 DEF IndexInv, OffsetInv, Listed
<1>6. OffsetInv'
    BY <1>1, <1>4, <1>5 DEF OffsetInv, Sound, Listed
<1> QED  BY <1>2, <1>3, <1>6 DEF IndexInv

LEMMA SetFoundInv ==
    ASSUME IndexTypes, space_idx \in SpaceIds, IndexInv, NEW its, Evaluated(its), Spares(its),
           NEW i \in flags, NEW off \in Off, SetFound(i, its, off)
    PROVE  IndexInv'
<1>1. UNCHANGED <<flags, ht_name, spoilt>> /\ its \in Heap /\ i \in Ids /\ flags \subseteq Ids
    BY DEF SetFound, Evaluated, IndexTypes
<1>2. CASE its[i].off = off
    <2>1. items' = its /\ UNCHANGED ht_off /\ behind' = behind \cup LeftBehind(its)
        BY <1>2 DEF SetFound
    <2>2. InPlace
        BY <1>1, <2>1, EvaluatedInPlace
    <2> QED  BY <2>1, <2>2, InPlaceInv
<1>3. CASE its[i].off # off
    <2>1. PICK t : t = remove_offsetmap(ht_off, i, its[i].off)
        OBVIOUS
    <2>2. /\ ht_off' = [t EXCEPT ![off] = Append(@, i)] /\ items' = [its EXCEPT ![i] = Placed(its[i], off)]
          /\ behind' = behind \cup LeftBehind(its) \cup Misplaced(off)
        BY <1>3, <2>1 DEF SetFound
    <2>3. its[i] \in Item /\ ht_off \in Tables
        BY <1>1 DEF Heap, IndexTypes
    <2>4. PICK from \in Off : from = its[i].off /\ from # off
        BY <1>3, <2>3 DEF Item
    <2>5. t \in Tables /\ (\A c \in Off \ {from} : t[c] = ht_off[c]) /\ Dropped(t[from], ht_off[from], i)
        BY <2>1, <2>3, <2>4, RemoveIs
    <2>6. (\A c \in Off \ {off} : ht_off'[c] = t[c]) /\ Longer(ht_off'[off], t[off], i)
        <3>1. Appended(ht_off', t, i, off)
            BY <1>1, <2>2, <2>5, AppendedIs
        <3> QED  BY <3>1 DEF Appended
    <2>7. /\ ht_off'[from] = t[from] /\ t[off] = ht_off[off]
          /\ \A c \in Off \ {off, from} : ht_off'[c] = ht_off[c]
        BY <2>4, <2>5, <2>6
    <2>8. PICK m : m = Placed(its[i], off)
        OBVIOUS
    <2>9. m.name = its[i].name /\ (~m.drift => base = 0) /\ (base = 0 => (~m.drift /\ m.off = off))
        BY <2>3, <2>8, PlacedIs
    <2>10. items'[i] = m /\ \A j \in Ids \ {i} : items'[j] = its[j]
        BY <1>1, <2>2, <2>8 DEF Heap
    <2>11. Blanks'
        BY <1>1, <2>10 DEF IndexInv, Blanks, Spares
    <2>12. NameIndex'
        <3>1. \A j \in flags : items'[j].name = items[j].name
            BY <1>1, <2>9, <2>10 DEF Evaluated
        <3>2. \A x : {k \in flags : items'[k].name = x} = {k \in flags : items[k].name = x}
            BY <3>1
        <3> QED  BY <1>1, <3>2 DEF IndexInv, NameIndex
    <2>13. ASSUME NEW o \in Off \ behind', NEW j \in Ids, ~None(ht_off'[o], j)
           PROVE  j \in flags /\ items'[j].off = o /\ ~items'[j].drift /\ Single(ht_off'[o], j)
        <3>1. o \notin behind /\ o \notin LeftBehind(its) /\ o \notin Misplaced(off)
            BY <2>2, <2>13
        <3>2. ~None(ht_off[o], j) => There(o, j)
            BY <3>1 DEF IndexInv, OffsetInv, Sound
        <3>3. ASSUME ~None(ht_off[o], j)
              PROVE  /\ j \in flags /\ its[j].off = o /\ ~its[j].drift /\ Single(ht_off[o], j)
                     /\ j = i => o = from
                     /\ j # i => (items'[j].off = o /\ ~items'[j].drift)
            <4>1. There(o, j)
                BY <3>2, <3>3
            <4>2. j \in flags /\ its[j].off = o /\ ~its[j].drift
                BY <4>1, <3>1, StaysPut
            <4>3. Single(ht_off[o], j)
                BY <4>1 DEF There
            <4>4. j = i => o = from
                BY <4>2, <2>4
            <4>5. j # i => items'[j] = its[j]
                BY <2>10
            <4> QED  BY <4>2, <4>3, <4>4, <4>5, Zenon
        <3>4. CASE o = off
            <4>1. base = 0
                BY <3>1, <3>4 DEF Misplaced
            <4>2. Longer(ht_off'[o], ht_off[o], i)
                BY <2>6, <2>7, <3>4
            <4>3. CASE j = i
                <5>1. None(ht_off[o], i)
                    BY <3>3, <3>4, <2>4, <4>3
                <5>2. Single(ht_off'[o], i)
                    BY <4>2, <5>1 DEF Longer
                <5>3. items'[j].off = o /\ ~items'[j].drift
                    BY <2>9, <2>10, <3>4, <4>1, <4>3, Zenon
                <5> QED  BY <4>3, <5>2, <5>3, Zenon
            <4>4. CASE j # i
                <5>1. ~None(ht_off[o], j)
                    BY <4>2, <4>4, <2>13 DEF Longer
                <5>2. Single(ht_off'[o], j)
                    BY <4>2, <4>4, <3>3, <5>1 DEF Longer
                <5> QED  BY <3>3, <4>4, <5>1, <5>2, Zenon
            <4> QED  BY <4>3, <4>4
        <3>5. CASE o = from
            <4>1. Dropped(ht_off'[o], ht_off[o], i)
                BY <2>5, <2>7, <3>5
            <4>2. ~None(ht_off[o], j)
                BY <4>1, <2>13 DEF Dropped
            <4>3. Single(ht_off[o], j)
                BY <3>3, <4>2
            <4>4. j # i
                BY <4>1, <4>3, <2>13 DEF Dropped
            <4>5. Single(ht_off'[o], j)
                BY <4>1, <4>3, <4>4 DEF Dropped
            <4> QED  BY <3>3, <4>2, <4>4, <4>5, Zenon
        <3>6. CASE o # off /\ o # from
            <4>1. ht_off'[o] = ht_off[o]
                BY <2>7, <3>6
            <4>2. ~None(ht_off[o], j) /\ j # i
                BY <2>13, <3>3, <3>6, <4>1
            <4> QED  BY <3>3, <4>1, <4>2, Zenon
        <3> QED  BY <3>4, <3>5, <3>6
    <2>14. ASSUME NEW j \in flags, ~items'[j].drift PROVE ~None(ht_off'[items'[j].off], j)
        <3>1. CASE j = i
            <4>1. items'[j].off = off
                BY <3>1, <2>9, <2>10, <2>14, Zenon
            <4>2. ~None(ht_off'[off], i)
                BY <2>6 DEF Longer
            <4> QED  BY <3>1, <4>1, <4>2
        <3>2. CASE j # i
            <4>1. j \in Ids /\ items'[j] = its[j]
                BY <3>2, <1>1, <2>10
            <4>2. ~its[j].drift
                BY <4>1, <2>14, Zenon
            <4>3. ~items[j].drift /\ its[j].off = items[j].off
                BY <4>1, <4>2, Zenon DEF Evaluated
            <4>4. PICK o \in Off : o = items[j].off
                BY <4>1 DEF IndexTypes, Heap, Item
            <4>5. ~None(ht_off[o], j)
                BY <4>3, <4>4 DEF IndexInv, OffsetInv, Listed
            <4>6. ~None(ht_off'[o], j)
                <5>1. CASE o = off
                    BY <5>1, <4>5, <2>6, <2>7 DEF Longer
                <5>2. CASE o = from
                    BY <5>2, <3>2, <4>5, <2>5, <2>7 DEF Dropped
                <5>3. CASE o # off /\ o # from
                    BY <5>3, <4>5, <2>7
                <5> QED  BY <5>1, <5>2, <5>3
            <4> QED  BY <4>1, <4>3, <4>4, <4>6
        <3> QED  BY <3>1, <3>2
    <2>15. OffsetInv'
        BY <1>1, <2>13, <2>14 DEF OffsetInv, Sound, There, Listed
    <2> QED  BY <2>11, <2>12, <2>15 DEF IndexInv
<1> QED  BY <1>2, <1>3

\* An item that is entered under a name: the name is spoilt, or is the name
\* of that item alone.
LEMMA EnterName ==
    ASSUME IndexTypes, NameIndex, NEW i \in Ids, NEW x \in Names, Entered(i, x),
           Taken(x) \subseteq spoilt', spoilt \subseteq spoilt', i \in flags',
           flags' \subseteq Ids, items'[i].name = x,
           \A j \in Ids \ {i} : (j \in flags' <=> j \in flags) /\ items'[j].name = items[j].name,
           i \in flags => items[i].name \in spoilt'
    PROVE  NameIndex'
<1>1. /\ \A n \in Names \ {x} : ht_name'[n] = ht_name[n]
      /\ ht_name[x] = << >> => ht_name'[x] = <<i>>
    BY EnteredIs
<1>2. flags \subseteq Ids
    BY DEF IndexTypes
<1>3. ASSUME NEW y \in Names \ spoilt'
      PROVE  Range(ht_name'[y]) = {j \in flags' : items'[j].name = y} /\ Len(ht_name'[y]) <= 1
    <2>1. Range(ht_name[y]) = {j \in flags : items[j].name = y} /\ Len(ht_name[y]) <= 1
        BY <1>3 DEF NameIndex
    <2>2. CASE y = x
        <3>1. ht_name[x] = << >>
            BY <1>3, <2>2 DEF Taken
        <3>2. Range(<< >>) = {} /\ Range(<<i>>) = {i} /\ Len(<<i>>) = 1
            BY DEF Range
        <3>3. \A j \in flags : items[j].name # x
            BY <2>1, <2>2, <3>1, <3>2
        <3>4. {j \in flags' : items'[j].name = x} = {i}
            BY <3>3, <1>2
        <3>5. ht_name'[y] = <<i>> /\ 1 <= 1
            BY <1>1, <2>2, <3>1
        <3> QED  BY <2>2, <3>2, <3>4, <3>5
    <2>3. CASE y # x
        <3>1. ht_name'[y] = ht_name[y]
            BY <1>1, <2>3
        <3>2. \A j \in flags' : items'[j].name = y => j # i
            BY <2>3
        <3>3. \A j \in flags : items[j].name = y => j # i
            BY <1>3
        <3>4. {j \in flags' : items'[j].name = y} = {j \in flags : items[j].name = y}
            BY <1>2, <3>2, <3>3
        <3> QED  BY <2>1, <3>1, <3>4
    <2> QED  BY <2>2, <2>3
<1> QED  BY <1>3 DEF NameIndex

LEMMA SetNewInv ==
    ASSUME IndexTypes, space_idx \in SpaceIds, IndexInv, NEW its, Evaluated(its), Spares(its),
           NEW raw \in Names, NEW off \in Off, SetNew(its, raw, off)
    PROVE  IndexInv'
<1>1. PICK i \in Ids \ flags :
         /\ flags' = flags \cup {i}
         /\ items' = [its EXCEPT ![i] = NewItem(raw, off)]
         /\ Entered(i, Filter[raw]) /\ spoilt' = spoilt \cup Taken(Filter[raw])
         /\ ht_off' = [ht_off EXCEPT ![off] = Append(@, i)]
         /\ behind' = behind \cup LeftBehind(its) \cup Misplaced(off)
    BY DEF SetNew, NewItem
<1>2. PICK x \in Names : x = Filter[raw]
    BY NamesAssumption
<1>3. ht_off \in Tables /\ its \in Heap /\ flags \subseteq Ids /\ items \in Heap
    BY DEF IndexTypes, Evaluated
<1>4. PICK m : m = NewItem(raw, off)
    OBVIOUS
<1>5. m.name = x /\ (~m.drift => base = 0) /\ (base = 0 => (~m.drift /\ m.off = off))
    BY <1>2, <1>4, NewItemIs
<1>6. items'[i] = m /\ \A j \in Ids \ {i} : items'[j] = its[j]
    BY <1>1, <1>3, <1>4 DEF Heap
<1>7. Blanks'
    BY <1>1, <1>6 DEF IndexInv, Blanks, Spares
<1>8. NameIndex'
    <2>1. \A j \in Ids \ {i} : items'[j].name = items[j].name
        BY <1>6 DEF Evaluated
    <2>2. \A j \in Ids \ {i} : j \in flags' <=> j \in flags
        BY <1>1
    <2>3. /\ Entered(i, x) /\ Taken(x) \subseteq spoilt' /\ spoilt \subseteq spoilt' /\ i \in flags'
          /\ flags' \subseteq Ids /\ items'[i].name = x /\ NameIndex
        BY <1>1, <1>2, <1>3, <1>5, <1>6 DEF IndexInv
    <2> QED  BY <1>1, <2>1, <2>2, <2>3, EnterName
<1>9. (\A c \in Off \ {off} : ht_off'[c] = ht_off[c]) /\ Longer(ht_off'[off], ht_off[off], i)
    <2>1. Appended(ht_off', ht_off, i, off)
        BY <1>1, <1>3, AppendedIs
    <2> QED  BY <2>1 DEF Appended
<1>10. ASSUME NEW o \in Off \ behind', NEW j \in Ids, ~None(ht_off'[o], j)
       PROVE  j \in flags' /\ items'[j].off = o /\ ~items'[j].drift /\ Single(ht_off'[o], j)
    <2>1. o \notin behind /\ o \notin LeftBehind(its) /\ o \notin Misplaced(off)
        BY <1>1, <1>10
    <2>2. ASSUME ~None(ht_off[o], j)
          PROVE  j \in flags' /\ items'[j].off = o /\ ~items'[j].drift /\ Single(ht_off[o], j) /\ j # i
        <3>1. There(o, j)
            BY <2>1, <2>2 DEF IndexInv, OffsetInv, Sound
        <3>2. j \in flags /\ its[j].off = o /\ ~its[j].drift
            BY <3>1, <2>1, StaysPut
        <3>3. Single(ht_off[o], j)
            BY <3>1 DEF There
        <3>4. j # i /\ j \in flags'
            BY <1>1, <3>2
        <3>5. items'[j] = its[j]
            BY <1>6, <3>4
        <3> QED  BY <3>2, <3>3, <3>4, <3>5, Zenon
    <2>3. CASE o # off
        <3>1. ht_off'[o] = ht_off[o]
            BY <1>9, <2>3
        <3> QED  BY <1>10, <2>2, <3>1
    <2>4. CASE o = off /\ j # i
        <3>1. ~None(ht_off[o], j)
            BY <1>9, <1>10, <2>4 DEF Longer
        <3>2. Single(ht_off'[o], j)
            BY <1>9, <2>2, <2>4, <3>1 DEF Longer
        <3> QED  BY <2>2, <3>1, <3>2, Zenon
    <2>5. CASE o = off /\ j = i
        <3>1. base = 0
            BY <2>1, <2>5 DEF Misplaced
        <3>2. None(ht_off[o], i)
            BY <2>2, <2>5
        <3>3. Single(ht_off'[o], j)
            BY <1>9, <2>5, <3>2 DEF Longer
        <3>4. items'[j].off = o /\ ~items'[j].drift
            BY <1>5, <1>6, <2>5, <3>1, Zenon
        <3>5. j \in flags'
            BY <1>1, <2>5
        <3> QED  BY <3>3, <3>4, <3>5, Zenon
    <2> QED  BY <2>3, <2>4, <2>5
<1>11. ASSUME NEW j \in flags', ~items'[j].drift PROVE ~None(ht_off'[items'[j].off], j)
    <2>1. CASE j = i
        <3>1. items'[j].off = off
            BY <2>1, <1>5, <1>6, <1>11, Zenon
        <3>2. ~None(ht_off'[off], i)
            BY <1>9 DEF Longer
        <3> QED  BY <2>1, <3>1, <3>2
    <2>2. CASE j # i
        <3>1. j \in flags /\ j \in Ids /\ items'[j] = its[j]
            BY <2>2, <1>1, <1>3, <1>6
        <3>2. ~its[j].drift
            BY <3>1, <1>11, Zenon
        <3>3. ~items[j].drift /\ its[j].off = items[j].off
            BY <3>1, <3>2, Zenon DEF Evaluated
        <3>4. PICK o \in Off : o = items[j].off
            BY <3>1, <1>3 DEF Heap, Item
        <3>5. ~None(ht_off[o], j)
            BY <3>1, <3>3, <3>4 DEF IndexInv, OffsetInv, Listed
        <3>6. ~None(ht_off'[o], j)
            BY <3>5, <1>9 DEF Longer
        <3> QED  BY <3>1, <3>3, <3>4, <3>6
    <2> QED  BY <2>1, <2>2
<1>12. OffsetInv'
    BY <1>10, <1>11 DEF OffsetInv, Sound, There, Listed
<1> QED  BY <1>7, <1>8, <1>12 DEF IndexInv

LEMMA RenameInv ==
    ASSUME IndexTypes, IndexInv, NEW i \in Ids, NEW raw \in Names, r_flag_rename(i, raw)
    PROVE  IndexInv'
<1>1. /\ i \in flags /\ UNCHANGED <<flags, ht_off, behind>>
      /\ items' = [items EXCEPT ![i].name = Filter[raw]] /\ Entered(i, Filter[raw])
      /\ spoilt' = spoilt \cup {items[i].name} \cup Taken(Filter[raw])
    BY DEF r_flag_rename
<1>2. PICK x \in Names : x = Filter[raw]
    BY NamesAssumption
<1>3. flags \subseteq Ids /\ items \in Heap
    BY DEF IndexTypes
<1>4. /\ items'[i].name = x /\ items'[i].drift = items[i].drift /\ items'[i].off = items[i].off
      /\ \A j \in Ids \ {i} : items'[j] = items[j]
    <2>1. PICK m : m = [items[i] EXCEPT !.name = x]
        OBVIOUS
    <2>2. items[i] \in Item
        BY <1>3 DEF Heap
    <2>3. m.name = x /\ m.drift = items[i].drift /\ m.off = items[i].off
        BY <2>1, <2>2 DEF Item
    <2>4. items' = [items EXCEPT ![i] = m]
        BY <1>1, <1>2, <2>1
    <2>5. items'[i] = m /\ \A j \in Ids \ {i} : items'[j] = items[j]
        BY <1>3, <2>4 DEF Heap
    <2> QED  BY <2>3, <2>5
<1>5. Blanks'
    BY <1>1, <1>4 DEF IndexInv, Blanks
<1>6. NameIndex'
    <2>1. \A j \in Ids \ {i} : (j \in flags' <=> j \in flags) /\ items'[j].name = items[j].name
        BY <1>1, <1>4
    <2>2. /\ Entered(i, x) /\ Taken(x) \subseteq spoilt' /\ spoilt \subseteq spoilt' /\ i \in flags'
          /\ flags' \subseteq Ids /\ items'[i].name = x /\ NameIndex /\ items[i].name \in spoilt'
        BY <1>1, <1>2, <1>3, <1>4 DEF IndexInv
    <2> QED  BY <2>1, <2>2, EnterName
<1>7. \A j \in flags : items'[j].drift = items[j].drift /\ items'[j].off = items[j].off
    BY <1>3, <1>4, Zenon
<1>8. ASSUME NEW o \in Off \ behind', NEW j \in Ids, ~None(ht_off[o], j)
      PROVE  j \in flags /\ items'[j].off = o /\ ~items'[j].drift /\ Single(ht_off[o], j)
    <2>1. There(o, j)
        BY <1>1, <1>8 DEF IndexInv, OffsetInv, Sound
    <2> QED  BY <1>7, <2>1, Zenon DEF There
<1>9. ASSUME NEW j \in flags, ~items'[j].drift PROVE ~None(ht_off[items'[j].off], j)
    <2>1. ~items[j].drift /\ items'[j].off = items[j].off
        BY <1>7, <1>9, Zenon
    <2>2. ~None(ht_off[items[j].off], j)
        BY <2>1 DEF IndexInv, OffsetInv, Listed
    <2> QED  BY <2>1, <2>2
<1>10. OffsetInv'
    BY <1>1, <1>8, <1>9 DEF OffsetInv, Sound, There, Listed
<1> QED  BY <1>5, <1>6, <1>10 DEF IndexInv

LEMMA UnsetInv ==
    ASSUME IndexTypes, IndexInv, NEW its, Evaluated(its), NEW gone, Unset(its, gone)
    PROVE  IndexInv'
<1>1. PICK u : u = Unindexed(its, gone)
    OBVIOUS
<1>2. /\ ht_off' = u.off /\ ht_name' = u.name /\ flags' = flags \ gone
      /\ items' = [i \in Ids |-> IF i \in flags \ gone THEN its[i] ELSE Blank]
      /\ behind' = behind \cup LeftBehind(its) /\ spoilt' = spoilt /\ gone \subseteq flags
    BY <1>1 DEF Unset
<1>3. its \in Heap /\ flags \subseteq Ids /\ gone \subseteq Ids
    BY <1>2 DEF Evaluated, IndexTypes
<1>4. NamesLeft(u.name, its, gone, MaxItems) /\ OffsetsLeft(u.off, its, gone, MaxItems)
    BY <1>1, <1>3, UnindexedLists
<1>5. \A j \in Ids : j <= MaxItems /\ ~(MaxItems < j)
    BY NumbersAssumption DEF Ids
<1>6. \A j \in flags \ gone : j \in flags /\ j \in Ids /\ items'[j] = its[j]
    BY <1>2, <1>3
<1>7. Blanks'
    BY <1>2 DEF Blanks
<1>8. NameIndex'
    <2> SUFFICES ASSUME NEW y \in Names \ spoilt
                 PROVE  /\ Range(ht_name'[y]) = {j \in flags \ gone : items'[j].name = y}
                        /\ Len(ht_name'[y]) <= 1
        BY <1>2 DEF NameIndex
    <2>1. Range(ht_name[y]) = {j \in flags : items[j].name = y} /\ Len(ht_name[y]) <= 1
        BY DEF IndexInv, NameIndex
    <2>2. ht_name'[y] = IF \E k \in gone : its[k].name = y THEN << >> ELSE ht_name[y]
        <3>1. ht_name'[y] = IF \E k \in gone : k <= MaxItems /\ its[k].name = y THEN << >> ELSE ht_name[y]
            BY <1>2, <1>4, <2>1 DEF NamesLeft
        <3>2. (\E k \in gone : k <= MaxItems /\ its[k].name = y) <=> (\E k \in gone : its[k].name = y)
            BY <1>3, <1>5, Zenon
        <3> QED  BY <3>1, <3>2
    <2>3. \A j \in Ids : its[j].name = items[j].name
        BY DEF Evaluated
    <2>4. \A j \in flags \ gone : items'[j].name = items[j].name
        BY <1>6, <2>3
    <2>5. CASE \E k \in gone : its[k].name = y
        <3>1. PICK k \in gone : its[k].name = y
            BY <2>5
        <3>2. k \in flags /\ items[k].name = y
            BY <1>2, <1>3, <2>3, <3>1
        <3>3. PICK q \in Seq(Ids) : q = ht_name[y]
            BY DEF IndexTypes
        <3>4. \A a, b \in Range(q) : a = b
            <4>1. Len(q) \in Nat /\ Len(q) <= 1 /\ DOMAIN q = 1 .. Len(q)
                BY <2>1, <3>3
            <4>2. \A a \in DOMAIN q : a = 1
                BY <4>1
            <4> QED  BY <4>2 DEF Range
        <3>5. \A j \in flags : items[j].name = y => j = k
            BY <2>1, <3>2, <3>3, <3>4
        <3>6. {j \in flags \ gone : items'[j].name = y} = {}
            BY <2>4, <3>5
        <3>7. ht_name'[y] = << >> /\ Range(<< >>) = {} /\ Len(<< >>) <= 1
            BY <2>2, <2>5 DEF Range
        <3> QED  BY <3>6, <3>7
    <2>6. CASE ~ \E k \in gone : its[k].name = y
        <3>1. \A j \in gone : items[j].name # y
            BY <1>3, <2>3, <2>6
        <3>2. {j \in flags \ gone : items'[j].name = y} = {j \in flags : items[j].name = y}
            BY <2>4, <3>1
        <3> QED  BY <2>1, <2>2, <2>6, <3>2
    <2> QED  BY <2>5, <2>6
<1>9. ASSUME NEW o \in Off \ behind', NEW j \in Ids, ~None(ht_off'[o], j)
      PROVE  j \in flags \ gone /\ items'[j].off = o /\ ~items'[j].drift /\ Single(ht_off'[o], j)
    <2>1. o \notin behind /\ o \notin LeftBehind(its)
        BY <1>2, <1>9
    <2>2. Leaves(ht_off', its, gone, MaxItems, o, j)
        BY <1>2, <1>4 DEF OffsetsLeft
    <2>3. There(o, j)
        BY <1>9, <2>1, <2>2 DEF Leaves, IndexInv, OffsetInv, Sound
    <2>4. j \in flags /\ its[j].off = o /\ ~its[j].drift
        BY <2>1, <2>3, StaysPut
    <2>5. Single(ht_off[o], j)
        BY <2>3 DEF There
    <2>6. j \notin gone
        BY <1>5, <1>9, <2>2, <2>4, <2>5 DEF Leaves
    <2>7. Single(ht_off'[o], j)
        BY <2>2, <2>5, <2>6 DEF Leaves
    <2>8. items'[j] = its[j] /\ j \in flags \ gone
        BY <1>6, <2>4, <2>6
    <2> QED  BY <2>4, <2>7, <2>8, Zenon
<1>10. ASSUME NEW j \in flags \ gone, ~items'[j].drift PROVE ~None(ht_off'[items'[j].off], j)
    <2>1. j \in flags /\ j \in Ids /\ items'[j] = its[j] /\ j \notin gone
        BY <1>6
    <2>2. ~its[j].drift
        BY <1>10, <2>1, Zenon
    <2>3. ~items[j].drift /\ its[j].off = items[j].off
        BY <2>1, <2>2, Zenon DEF Evaluated
    <2>4. PICK o \in Off : o = items[j].off
        BY <2>1 DEF IndexTypes, Heap, Item
    <2>5. ~None(ht_off[o], j)
        BY <2>1, <2>3, <2>4 DEF IndexInv, OffsetInv, Listed
    <2>6. Leaves(ht_off', its, gone, MaxItems, o, j)
        BY <1>2, <1>4, <2>1 DEF OffsetsLeft
    <2>7. ~None(ht_off'[o], j)
        BY <2>1, <2>5, <2>6 DEF Leaves
    <2> QED  BY <2>1, <2>3, <2>4, <2>7
<1>11. OffsetInv'
    BY <1>2, <1>9, <1>10 DEF OffsetInv, Sound, There, Listed
<1> QED  BY <1>7, <1>8, <1>11 DEF IndexInv

LEMMA SparesExcept ==
    ASSUME NEW its, Spares(its), its \in Heap, NEW i \in flags, NEW m
    PROVE  Spares([its EXCEPT ![i] = m])
BY DEF Spares, Heap

LEMMA SetInInv ==
    ASSUME IndexTypes, space_idx \in SpaceIds, IndexInv, NEW its, Evaluated(its), Spares(its),
           NEW raw \in Names, NEW off \in Off, SetIn(its, raw, off)
    PROVE  IndexInv'
<1>1. CASE ht_name[raw] = << >>
    <2>1. SetNew(its, raw, off)
        BY <1>1 DEF SetIn
    <2> QED  BY <2>1, SetNewInv
<1>2. CASE ht_name[raw] # << >>
    <2>1. PICK i \in flags : i = Head(ht_name[raw])
        BY <1>2 DEF SetIn
    <2>2. i \in Ids /\ items \in Heap /\ its \in Heap
        BY DEF IndexTypes, Evaluated
    <2>3. PICK e : e = [its EXCEPT ![i] = evalFlag(i)]
        OBVIOUS
    <2>4. SetFound(i, e, off)
        BY <1>2, <2>1, <2>3 DEF SetIn
    <2>5. Evaluated(e)
        BY <2>2, <2>3, EvaluatedExcept
    <2>6. Spares(e)
        BY <2>2, <2>3, SparesExcept
    <2> QED  BY <2>4, <2>5, <2>6, SetFoundInv
<1> QED  BY <1>1, <1>2

\* The heap with an item evaluated.
LEMMA ItemEvaluated ==
    ASSUME IndexTypes, NEW i \in flags, NEW e, e = [items EXCEPT ![i] = evalFlag(i)]
    PROVE  i \in Ids /\ Evaluated(e) /\ Spares(e)
<1>1. i \in Ids /\ items \in Heap
    BY DEF IndexTypes
<1>2. Evaluated(items) /\ Spares(items)
    BY <1>1, EvaluatedItems DEF Spares
<1>3. Evaluated(e)
    BY <1>1, <1>2, EvaluatedExcept
<1>4. Spares(e)
    BY <1>1, <1>2, SparesExcept
<1> QED  BY <1>1, <1>3, <1>4

\* Every step keeps the indexes.
LEMMA IndexNext ==
    ASSUME BasicInv, IndexInv, [Next]_vars
    PROVE  IndexInv'
<1>1. IndexTypes /\ SpaceInv /\ items \in Heap /\ flags \subseteq Ids
    BY DEF BasicInv, IndexTypes
<1>2. space_idx \in SpaceIds /\ Evaluated(items) /\ Spares(items) /\ InOffs \subseteq Off
    BY <1>1, EvaluatedItems, NumbersAssumption DEF SpaceInv, SpaceTypes, Spares
<1>3. ASSUME NEW n \in Names, NEW o \in InOffs, r_flag_set(n, o) PROVE IndexInv'
    BY <1>1, <1>2, <1>3, SetInInv DEF r_flag_set
<1>4. ASSUME NEW i \in Ids, r_flag_get(i) PROVE IndexInv'
    <2>1. Spares(items')
        BY <1>1, <1>2, <1>4, SparesExcept DEF r_flag_get
    <2> QED  BY <1>1, <1>4, <2>1, GetInPlace, InPlaceInv
<1>5. ASSUME NEW i \in Ids, NEW a \in Aliases \cup {NoAlias}, r_flag_item_set_alias(i, a)
      PROVE  IndexInv'
    <2>1. Spares(items')
        BY <1>1, <1>5 DEF r_flag_item_set_alias, Spares, Heap
    <2> QED  BY <1>1, <1>5, <2>1, AliasInPlace, InPlaceInv
<1>6. ASSUME NEW i \in Ids, NEW n \in Names, r_flag_rename(i, n) PROVE IndexInv'
    BY <1>1, <1>6, RenameInv
<1>7. ASSUME NEW o \in InOffs, NEW p \in InOffs, r_flag_move(o, p) PROVE IndexInv'
    <2>1. PICK i : i = Last(ht_off[o])
        OBVIOUS
    <2>2. PICK e : e = [items EXCEPT ![i] = evalFlag(i)]
        OBVIOUS
    <2>3. i \in flags /\ SetIn(e, items[i].name, p)
        BY <1>7, <2>1, <2>2 DEF r_flag_move
    <2>4. o \in Off /\ p \in Off
        BY <1>2
    <2>5. i \in flags /\ i \in Ids /\ Evaluated(e) /\ Spares(e)
        BY <1>1, <2>2, <2>3, ItemEvaluated
    <2>6. items[i].name \in Names
        BY <1>1, <2>5 DEF Heap, Item
    <2> QED  BY <1>1, <1>2, <2>3, <2>4, <2>5, <2>6, SetInInv
<1>8. ASSUME NEW o \in InOffs, NEW p \in InOffs, r_flag_relocate(o, p) PROVE IndexInv'
    <2>1. Spares(items')
        BY <1>8 DEF r_flag_relocate, Spares
    <2> QED  BY <1>1, <1>8, <2>1, RelocateInPlace, InPlaceInv
<1>9. ASSUME NEW o \in InOffs, r_flag_unset_off(o) PROVE IndexInv'
    <2>1. PICK i : i = Last(ht_off[o])
        OBVIOUS
    <2>2. PICK e : e = [items EXCEPT ![i] = evalFlag(i)]
        OBVIOUS
    <2>3. PICK gone : gone = {i}
        OBVIOUS
    <2>4. Unset(e, gone)
        BY <1>9, <2>1, <2>2, <2>3 DEF r_flag_unset_off
    <2>5. i \in flags
        BY <2>3, <2>4 DEF Unset
    <2>6. Evaluated(e)
        BY <1>1, <2>2, <2>5, ItemEvaluated
    <2> QED  BY <1>1, <2>4, <2>6, UnsetInv
<1>10. ASSUME NEW o \in InOffs, MoveToSpace(o) PROVE IndexInv'
    <2>1. PICK i : i = Last(ht_off[o])
        OBVIOUS
    <2>2. /\ i \in flags
          /\ items' = [items EXCEPT ![i] = [evalFlag(i) EXCEPT !.space = space_idx]]
        BY <1>10, <2>1 DEF MoveToSpace
    <2>3. Spares(items')
        BY <1>1, <1>2, <2>2, SparesExcept
    <2> QED  BY <1>1, <1>2, <1>10, <2>3, MoveToSpaceInPlace, InPlaceInv
<1>11. ASSUME NEW n \in Names, r_flag_unset_name(n) PROVE IndexInv'
    <2>1. PICK gone : gone = {Head(ht_name[n])}
        OBVIOUS
    <2>2. gone \subseteq flags /\ Unset(items, gone)
        BY <1>11, <2>1 DEF r_flag_unset_name, Unset
    <2> QED  BY <1>1, <1>2, <2>2, UnsetInv
<1>12. ASSUME NEW glob \in Globs, r_flag_unset_glob(glob) PROVE IndexInv'
    <2>1. PICK gone : gone = {i \in flags : ~IS_IN_SPACE(i) /\ items[i].name \in glob}
        OBVIOUS
    <2>2. gone \subseteq flags /\ Unset(items, gone)
        BY <1>12, <2>1 DEF r_flag_unset_glob
    <2> QED  BY <1>1, <1>2, <2>2, UnsetInv
<1>13. ASSUME NEW glob \in Globs, NEW b \in Bases, Shift(glob, b) PROVE IndexInv'
    <2>1. Spares(items')
        BY <1>13 DEF Shift, Spares
    <2> QED  BY <1>1, <1>13, <2>1, ShiftInPlace, InPlaceInv
<1>14. ASSUME UNCHANGED indexes PROVE IndexInv'
    BY <1>14 DEF indexes, IndexInv, Blanks, NameIndex, OffsetInv, Sound, There, Listed
<1>15. ASSUME NEW s \in SpaceNames \cup {All}, r_flag_space_unset(s) PROVE IndexInv'
    <2>1. PICK gone : gone = {t \in Slots : spaces[t] # Free /\ s \in {All, spaces[t]}}
        OBVIOUS
    <2>2. UnsetSlots(gone) /\ UNCHANGED <<flags, ht_name, ht_off, spoilt, behind, base>>
        BY <1>15, <2>1 DEF r_flag_space_unset
    <2>3. InPlace
        BY <1>1, <2>2, UnsetSlotsInPlace
    <2>4. Spares(items')
        BY <2>2 DEF UnsetSlots, Spares
    <2> QED  BY <1>1, <2>3, <2>4, InPlaceInv
<1>16. ASSUME r_flag_unset_all PROVE IndexInv'
    <2>1. /\ items' = [i \in Ids |-> Blank] /\ flags' = {}
          /\ ht_name' = [n \in Names |-> << >>] /\ ht_off' = [o \in Off |-> << >>]
        BY <1>16 DEF r_flag_unset_all
    <2>2. Range(<< >>) = {} /\ \A w : w \notin 1 .. Len(<< >>)
        BY DEF Range
    <2>3. OffsetInv'
        BY <2>1, <2>2 DEF OffsetInv, Sound, None
    <2>4. NameIndex'
        BY <2>1, <2>2 DEF NameIndex
    <2> QED  BY <2>1, <2>3, <2>4 DEF IndexInv, Blanks
<1> QED
    BY <1>3, <1>4, <1>5, <1>6, <1>7, <1>8, <1>9, <1>10, <1>11, <1>12, <1>13, <1>14, <1>15, <1>16
    DEF Next, SetBase, r_flag_space_set, r_flag_space_push, r_flag_space_rename,
        r_flag_space_pop, vars

----------------------------------------------------------------------------
(* The theorems.                                                           *)

LEMMA InitInv == Init => BasicInv /\ IndexInv
<1> SUFFICES ASSUME Init PROVE BasicInv /\ IndexInv
    OBVIOUS
<1>1. /\ items = [i \in Ids |-> Blank] /\ flags = {}
      /\ ht_name = [n \in Names |-> << >>] /\ ht_off = [o \in Off |-> << >>] /\ base = 0
      /\ spaces = [s \in Slots |-> Free] /\ space_idx = NoSpace /\ spacestack = << >>
      /\ spoilt = {} /\ behind = {}
    BY DEF Init
<1>2. /\ << >> \in Seq(Ids) /\ << >> \in Seq(Entry) /\ Len(<< >>) = 0 /\ 0 <= MaxList /\ 0 <= MaxStack
      /\ Range(<< >>) = {} /\ \A w : w \notin 1 .. Len(<< >>)
    BY NumbersAssumption DEF Range
<1>3. IndexTypes
    <2>1. items \in Heap /\ ht_name \in [Names -> Seq(Ids)] /\ ht_off \in Tables
        BY <1>1, <1>2, BlankItem DEF Heap, Tables
    <2>2. (\A o \in Off : Len(ht_off[o]) <= MaxList) /\ \A n \in Names : Len(ht_name[n]) <= MaxList
        BY <1>1, <1>2
    <2> QED  BY <1>1, <2>1, <2>2 DEF IndexTypes
<1>4. SpaceInv
    BY <1>1, <1>2 DEF SpaceInv, SpaceTypes, SelectedExists, StackInv, SpaceIds
<1>5. FlagSpaces
    BY <1>1 DEF FlagSpaces
<1>6. OffsetInv
    BY <1>1, <1>2 DEF OffsetInv, Sound, None
<1>7. IndexInv
    <2>1. NameIndex
        BY <1>1, <1>2 DEF NameIndex
    <2> QED  BY <1>1, <1>6, <2>1 DEF IndexInv, Blanks
<1> QED  BY <1>3, <1>4, <1>5, <1>7 DEF BasicInv

\* The states a run can reach.
LEMMA Basic == Spec => []BasicInv
<1>1. Init => BasicInv
    BY InitInv
<1>2. BasicInv /\ [Next]_vars => BasicInv'
    BY BasicNext
<1> QED  BY <1>1, <1>2, PTL DEF Spec

LEMMA Indexes == Spec => []IndexInv
<1>1. Init => IndexInv
    BY InitInv
<1>2. BasicInv /\ IndexInv /\ [Next]_vars => IndexInv'
    BY IndexNext
<1> QED  BY <1>1, <1>2, Basic, PTL DEF Spec

\* The fields of RFlag and of its items always hold what r_flag.h says, and
\* only listed items are in use: no operation writes to an item that
\* r_flag_unset freed.
THEOREM TypeCorrect == Spec => []TypeOK
<1>1. BasicInv /\ IndexInv => TypeOK
    BY DEF BasicInv, IndexInv, Blanks, IndexTypes, Heap, Item, Tables, SpaceInv, SpaceTypes,
           SpaceIds, Entry, TypeOK
<1> QED  BY <1>1, Basic, Indexes, PTL

\* r_flag_get finds by a name the flag that has it, no second one and no item
\* that was freed, after any sequence of sets, renames, moves and removals;
\* the only names that do not are ones a flag was renamed from and ones that
\* were taken when they were entered.
THEOREM NamesFindFlags == Spec => []NameIndex
<1>1. IndexInv => NameIndex
    BY DEF IndexInv
<1> QED  BY <1>1, Indexes, PTL

\* The list of an offset in ht_off holds flags that are at that offset and no
\* item that was freed, unless a flag was left in it when its offset changed
\* otherwise, and every flag whose offset did not is in the list of its
\* offset.
THEOREM OffsetsFindFlags == Spec => []OffsetIndex
<1>1. BasicInv /\ IndexInv => OffsetIndex
    <2> SUFFICES ASSUME BasicInv, IndexInv PROVE OffsetIndex
        OBVIOUS
    <2>1. \A o \in Off : ht_off[o] \in Seq(Ids) /\ DOMAIN ht_off[o] = 1 .. Len(ht_off[o])
        BY DEF BasicInv, IndexTypes, Tables
    <2>2. ASSUME NEW o \in Off, NEW j PROVE j \in Range(ht_off[o]) <=> ~None(ht_off[o], j)
        BY <2>1 DEF Range, None
    <2>3. ASSUME NEW o \in Off \ behind, NEW j \in Range(ht_off[o])
          PROVE  j \in flags /\ items[j].off = o
        <3>1. j \in Ids
            BY <2>1, <2>3 DEF Range
        <3>2. There(o, j)
            BY <2>2, <2>3, <3>1 DEF IndexInv, OffsetInv, Sound
        <3> QED  BY <3>2, Zenon DEF There
    <2>4. ASSUME NEW j \in flags, ~items[j].drift PROVE j \in Range(ht_off[items[j].off])
        <3>1. items[j].off \in Off
            BY DEF BasicInv, IndexTypes, Heap, Item
        <3>2. ~None(ht_off[items[j].off], j)
            BY <2>4 DEF IndexInv, OffsetInv, Listed
        <3> QED  BY <2>2, <3>1, <3>2
    <2> QED  BY <2>3, <2>4 DEF OffsetIndex
<1> QED  BY <1>1, Basic, Indexes, PTL

\* The selected space and the spaces of all flags exist, however spaces are
\* created, removed and renamed.
THEOREM SpacesExist == Spec => []SpaceRefs
<1>1. BasicInv => SpaceRefs
    BY DEF BasicInv, SpaceInv, SelectedExists, FlagSpaces, SpaceRefs
<1> QED  BY <1>1, Basic, PTL

\* Only r_flag_space_pop shortens the stack.
LEMMA OnlyPopShortens ==
    ASSUME SpaceInv, [Next]_vars, Len(spacestack') < Len(spacestack)
    PROVE  r_flag_space_pop
<1>1. SpaceTypes /\ Len(spacestack) \in Nat
    BY StackIs DEF SpaceInv
<1>2. ASSUME UNCHANGED selected PROVE FALSE
    BY <1>1, <1>2 DEF selected
<1>3. ASSUME UNCHANGED spacestack PROVE FALSE
    BY <1>1, <1>3
<1>4. ASSUME NEW gone, spacestack' = Freed(gone) PROVE FALSE
    BY <1>1, <1>4, FreedIs
<1>5. ASSUME NEW s, r_flag_space_push(s) PROVE FALSE
    <2>1. PICK e : spacestack' = Append(spacestack, e)
        BY <1>5 DEF r_flag_space_push
    <2>2. Len(spacestack') = Len(spacestack) + 1
        BY <1>1, <2>1 DEF SpaceTypes
    <2> QED  BY <1>1, <2>2
<1>6. ASSUME NEW n \in Names, NEW o \in InOffs, r_flag_set(n, o) PROVE FALSE
    BY <1>2, <1>6 DEF r_flag_set
<1>7. ASSUME NEW i, r_flag_get(i) \/ (\E a : r_flag_item_set_alias(i, a)) \/ (\E n : r_flag_rename(i, n))
      PROVE  FALSE
    BY <1>2, <1>7 DEF r_flag_get, r_flag_item_set_alias, r_flag_rename
<1>8. ASSUME NEW o, NEW p, r_flag_move(o, p) \/ r_flag_relocate(o, p) PROVE FALSE
    BY <1>2, <1>8 DEF r_flag_move, r_flag_relocate
<1>9. ASSUME NEW its, NEW gone, Unset(its, gone) PROVE FALSE
    BY <1>2, <1>9 DEF Unset
<1>10. ASSUME NEW o, r_flag_unset_off(o) \/ MoveToSpace(o) PROVE FALSE
    BY <1>2, <1>9, <1>10 DEF r_flag_unset_off, MoveToSpace
<1>11. ASSUME NEW n, r_flag_unset_name(n) \/ r_flag_unset_glob(n) PROVE FALSE
    BY <1>9, <1>11 DEF r_flag_unset_name, r_flag_unset_glob
<1>12. ASSUME NEW glob, NEW b, Shift(glob, b) \/ SetBase(b) PROVE FALSE
    BY <1>2, <1>12 DEF Shift, SetBase
<1>13. ASSUME NEW s, r_flag_space_set(s) PROVE FALSE
    BY <1>3, <1>13 DEF r_flag_space_set
<1>14. ASSUME NEW s, r_flag_space_unset(s) PROVE FALSE
    BY <1>4, <1>14 DEF r_flag_space_unset, UnsetSlots
<1>15. ASSUME NEW s, NEW t, r_flag_space_rename(s, t) PROVE FALSE
    BY <1>4, <1>15 DEF r_flag_space_rename
<1>16. ASSUME r_flag_unset_all PROVE FALSE
    BY <1>4, <1>16 DEF r_flag_unset_all
<1>17. ASSUME UNCHANGED vars PROVE FALSE
    BY <1>2, <1>17 DEF vars
<1> QED
    BY <1>5, <1>6, <1>7, <1>8, <1>10, <1>11, <1>12, <1>13, <1>14, <1>15, <1>16, <1>17, Zenon DEF Next

\* r_flag_space_pop selects the space that was selected before the push, for
\* every depth of the stack and whatever happens to other spaces in between,
\* unless the space itself was removed or renamed or another one got its name.
THEOREM PopSelectsPushed == Spec => PopRestores
<1>1. BasicInv /\ [Next]_vars =>
        [Len(spacestack') < Len(spacestack) => Restores(Last(spacestack))]_vars
    <2> SUFFICES ASSUME BasicInv, [Next]_vars, Len(spacestack') < Len(spacestack)
                 PROVE  Restores(Last(spacestack))
        OBVIOUS
    <2>1. SpaceInv
        BY DEF BasicInv
    <2> QED  BY <2>1, OnlyPopShortens, SpacePopStep
<1> QED  BY <1>1, Basic, PTL DEF Spec, PopRestores, Restores
=============================================================================

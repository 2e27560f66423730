------------------------- MODULE BreakpointsProofs -------------------------
(***************************************************************************)
(* Proofs about Breakpoints, for every address space, allocator, set of    *)
(* sizes and growth of the index table.                                    *)
(***************************************************************************)
EXTENDS Breakpoints, BpItemsProofs

----------------------------------------------------------------------------
(* The list and the heap.  Type correctness needs ListSound: a field of an *)
(* item is set through the list, so the list must not lead to freed cells. *)
(* It also needs every software item to have saved as many bytes as it     *)
(* covers: these are the bytes that r_bp_restore writes back.              *)

SavedSizes ==
    \A p \in Ptr : (Allocated(p) /\ ~heap[p].hw) =>
        heap[p].obytes \in [0 .. (heap[p].size - 1) -> Byte]

TypeAndList == TypeOK /\ ListSound /\ SavedSizes

\* Positions of the list and its items.
LEMMA ListPositions ==
    ASSUME TypeAndList
    PROVE  /\ Len(bps) \in Nat /\ DOMAIN bps = 1 .. Len(bps)
           /\ DOMAIN Items = 1 .. Len(bps)
           /\ \A i \in DOMAIN bps : bps[i] \in Ptr /\ Items[i] = heap[bps[i]]
                                    /\ heap[bps[i]] \in Item
<1>1. Len(bps) \in Nat /\ DOMAIN bps = 1 .. Len(bps) /\ \A i \in DOMAIN bps : bps[i] \in Ptr
    BY DEF TypeAndList, TypeOK
<1>2. DOMAIN Items = DOMAIN bps /\ \A i \in DOMAIN bps : Items[i] = heap[bps[i]]
    BY DEF Items
<1>3. ASSUME NEW i \in DOMAIN bps PROVE heap[bps[i]] \in Item
    <2>1. bps[i] \in Listed
        BY DEF Listed
    <2>2. heap[bps[i]] # Free
        BY <2>1, <1>1 DEF TypeAndList, ListSound, Allocated
    <2> QED  BY <2>2, <1>1 DEF TypeAndList, TypeOK
<1> QED  BY <1>1, <1>2, <1>3

\* A lookup that does not fail returns a position of the list.
LEMMA LookupInList ==
    ASSUME TypeAndList, NEW a, NEW prot
    PROVE  /\ r_bp_get_at(Items, a) # NoPos =>
                /\ r_bp_get_at(Items, a) \in DOMAIN bps
                /\ heap[bps[r_bp_get_at(Items, a)]].addr = a
           /\ r_bp_get_in(Items, a, prot) # NoPos =>
                r_bp_get_in(Items, a, prot) \in DOMAIN bps
           /\ r_bp_get_in(Items, a, prot) = NoPos =>
                \A i \in DOMAIN bps : ~ (/\ InRange(heap[bps[i]], a)
                                         /\ MatchProt(heap[bps[i]], prot))
<1> DEFINE S == {i \in DOMAIN Items : Items[i].addr = a}
           R == {i \in DOMAIN Items : InRange(Items[i], a) /\ MatchProt(Items[i], prot)}
<1>1. S \subseteq Nat \ {0} /\ R \subseteq Nat \ {0}
    BY ListPositions
<1>2. r_bp_get_at(Items, a) = First(S) /\ r_bp_get_in(Items, a, prot) = First(R)
    BY DEF r_bp_get_at, r_bp_get_in
<1>3. First(S) # NoPos => First(S) \in S
    BY <1>1, FirstProperties
<1>4. First(R) # NoPos => First(R) \in R
    BY <1>1, FirstProperties
<1>5. First(R) = NoPos => R = {}
    BY <1>1, FirstProperties
<1> QED  BY <1>2, <1>3, <1>4, <1>5, ListPositions

\* The item that r_bp_add fills in is well formed.
LEMMA NewItemType ==
    ASSUME TypeOK, NEW a \in Addr, NEW size \in Nat \ {0}, NEW hw \in BOOLEAN,
           NEW prot \in BOOLEAN, InSpace(a, size)
    PROVE  NewItem(a, size, hw, prot) \in Item
<1>1. delta \in Nat /\ Width \in Nat
    BY SizeAssumption, WidthAssumption DEF TypeOK
<1>2. Plus(a, delta) \in Addr /\ size \in 1 .. Width
    BY <1>1 DEF Plus, InSpace, Addr
<1> DEFINE n == IF hw THEN 0 ELSE size
<1>3. n \in 0 .. Width /\ a + n <= Width
    BY <1>1, <1>2 DEF InSpace, Addr
<1>4. \A k \in 0 .. (n - 1) : mem[a + k] \in Byte
    BY <1>1, <1>3 DEF TypeOK, Addr
<1>5. ReadAt(mem, a, n) \in [0 .. (n - 1) -> Byte]
    BY <1>4 DEF ReadAt
<1>6. ReadAt(mem, a, n) \in UNION {[0 .. (l - 1) -> Byte] : l \in 0 .. Width}
    BY <1>3, <1>5
<1> QED  BY <1>2, <1>6 DEF NewItem, Item

\* r_bp_item_new puts the pointer in a slot and keeps every occupied slot.
LEMMA ItemNewSlots ==
    ASSUME TypeOK, NEW p \in Ptr
    PROVE  /\ r_bp_item_new(p) \in Seq(Ptr \cup {NULL})
           /\ \E i \in DOMAIN r_bp_item_new(p) : r_bp_item_new(p)[i] = p
           /\ \A i \in DOMAIN bps_idx : bps_idx[i] # NULL =>
                /\ i \in DOMAIN r_bp_item_new(p)
                /\ r_bp_item_new(p)[i] = bps_idx[i]
<1> DEFINE N == Len(bps_idx)
<1>1. N \in Nat /\ DOMAIN bps_idx = 1 .. N /\ \A i \in 1 .. N : bps_idx[i] \in Ptr \cup {NULL}
    BY DEF TypeOK
<1>2. CASE EmptySlots # {}
    <2> DEFINE f == First(EmptySlots)
    <2>1. EmptySlots \subseteq Nat \ {0}
        BY <1>1 DEF EmptySlots
    <2>2. f \in EmptySlots
        BY <2>1, <1>2, FirstProperties
    <2>3. f \in 1 .. N /\ bps_idx[f] = NULL
        BY <2>2, <1>1 DEF EmptySlots
    <2>4. r_bp_item_new(p) = [bps_idx EXCEPT ![f] = p]
        BY <1>2 DEF r_bp_item_new
    <2> HIDE DEF f
    <2>5. [bps_idx EXCEPT ![f] = p] \in Seq(Ptr \cup {NULL})
        BY <2>3 DEF TypeOK
    <2> QED  BY <2>3, <2>4, <2>5, <1>1
<1>3. CASE EmptySlots = {}
    <2>1. N + Grow \in Nat /\ N + 1 \in 1 .. (N + Grow) /\ Grow \in Nat
        BY <1>1, GrowAssumption
    <2>2. r_bp_item_new(p) = [Grown EXCEPT ![N + 1] = p]
        BY <1>3 DEF r_bp_item_new
    <2>3. r_bp_item_new(p) = [i \in 1 .. (N + Grow) |->
              IF i = N + 1 THEN p ELSE IF i <= N THEN bps_idx[i] ELSE NULL]
        BY <2>1, <2>2 DEF Grown
    <2>4. \A i \in 1 .. (N + Grow) :
            (IF i = N + 1 THEN p ELSE IF i <= N THEN bps_idx[i] ELSE NULL) \in Ptr \cup {NULL}
        BY <1>1
    <2>5. r_bp_item_new(p) \in Seq(Ptr \cup {NULL})
        BY <2>1, <2>3, <2>4
    <2> QED  BY <2>1, <2>3, <2>5, <1>1
<1> QED  BY <1>2, <1>3

----------------------------------------------------------------------------
(* One lemma per action: TypeAndList is preserved.                         *)

\* The bytes saved by r_bp_add are as many as the item covers.
LEMMA NewItemSaved ==
    ASSUME TypeOK, NEW a \in Addr, NEW size \in Nat \ {0}, NEW prot \in BOOLEAN,
           InSpace(a, size)
    PROVE  LET it == NewItem(a, size, FALSE, prot)
           IN  it.size = size /\ it.obytes = ReadAt(mem, a, size)
               /\ it.obytes \in [0 .. (it.size - 1) -> Byte]
<1>1. \A k \in 0 .. (size - 1) : a + k \in Addr
    BY WidthAssumption DEF InSpace, Addr
<1>2. ReadAt(mem, a, size) \in [0 .. (size - 1) -> Byte]
    BY <1>1 DEF ReadAt, TypeOK
<1> QED  BY <1>2 DEF NewItem

\* r_bp_add links the new item in, or frees it again without linking it.
LEMMA AddPreserves ==
    ASSUME TypeAndList, NEW a \in Addr, NEW size \in Nat \ {0}, NEW hw \in BOOLEAN,
           NEW prot \in BOOLEAN, r_bp_add(a, size, hw, prot)
    PROVE  TypeAndList'
<1> DEFINE it == NewItem(a, size, hw, prot)
<1>1. PICK p \in Ptr :
         /\ heap[p] = Free
         /\ bps_idx' = r_bp_item_new(p)
         /\ IF hw \/ r_bp_get_bytes(size) = size
            THEN heap' = [heap EXCEPT ![p] = it] /\ bps' = Append(bps, p)
            ELSE UNCHANGED <<heap, bps>>
    BY DEF r_bp_add
<1>2. UNCHANGED <<delta, mem, phase>> /\ InSpace(a, size)
    BY DEF r_bp_add
<1>3. it \in Item /\ it # Free
    BY <1>2, NewItemType, FreeAssumption DEF TypeAndList
<1>4. ~hw => it.obytes \in [0 .. (it.size - 1) -> Byte]
    BY <1>2, NewItemSaved DEF TypeAndList
<1>5. it.hw = hw
    BY DEF NewItem
<1>6. bps_idx' \in Seq(Ptr \cup {NULL})
    BY <1>1, ItemNewSlots DEF TypeAndList
<1> HIDE DEF it
<1>7. CASE hw \/ r_bp_get_bytes(size) = size
    <2>1. heap' = [heap EXCEPT ![p] = it] /\ bps' = Append(bps, p)
        BY <1>1, <1>7
    <2>2. TypeOK'
        BY <2>1, <1>2, <1>3, <1>6 DEF TypeAndList, TypeOK
    <2>3. Len(bps') = Len(bps) + 1 /\ DOMAIN bps' = 1 .. (Len(bps) + 1)
          /\ bps'[Len(bps) + 1] = p /\ \A i \in 1 .. Len(bps) : bps'[i] = bps[i]
        BY <2>1 DEF TypeAndList, TypeOK
    <2>4. Listed' = Listed \cup {p}
        BY <2>3, ListPositions DEF Listed
    <2>5. p \notin Listed
        BY <1>1 DEF TypeAndList, ListSound, Allocated
    <2>6. \A q \in Ptr : Allocated(q)' <=> (Allocated(q) \/ q = p)
        BY <2>1, <1>3, <1>1 DEF Allocated, TypeAndList, TypeOK
    <2>7. \A i, j \in DOMAIN bps' : bps'[i] = bps'[j] => i = j
        <3>1. \A i \in 1 .. Len(bps) : bps[i] \in Listed
            BY ListPositions DEF Listed
        <3> QED  BY <2>3, <2>5, <3>1, ListPositions DEF TypeAndList, ListSound
    <2>8. ListSound'
        BY <2>4, <2>6, <2>7 DEF TypeAndList, ListSound
    <2>9. SavedSizes'
        BY <2>1, <2>6, <1>4, <1>5 DEF TypeAndList, SavedSizes, TypeOK
    <2> QED  BY <2>2, <2>8, <2>9 DEF TypeAndList
<1>8. CASE ~ (hw \/ r_bp_get_bytes(size) = size)
    BY <1>1, <1>2, <1>6, <1>8
       DEF TypeAndList, TypeOK, ListSound, SavedSizes, Listed, Allocated
<1> QED  BY <1>7, <1>8

\* r_bp_del frees the item it finds and unlinks that item only.
LEMMA DelPreserves ==
    ASSUME TypeAndList, NEW a \in Addr, r_bp_del(a)
    PROVE  TypeAndList'
<1> DEFINE i == r_bp_get_at(Items, a)
<1>1. i \in DOMAIN bps /\ heap' = [heap EXCEPT ![bps[i]] = Free]
      /\ bps' = Without(bps, i) /\ UNCHANGED <<bps_idx, delta, mem, phase>>
    BY LookupInList DEF r_bp_del
<1> HIDE DEF i
<1>2. i \in 1 .. Len(bps) /\ bps \in Seq(Ptr) /\ bps[i] \in Ptr /\ Len(bps) \in Nat
    BY <1>1, ListPositions DEF TypeAndList, TypeOK
<1>3. bps' \in Seq(Ptr) /\ Len(bps') = Len(bps) - 1
      /\ \A j \in 1 .. (Len(bps) - 1) : bps'[j] = IF j < i THEN bps[j] ELSE bps[j + 1]
    BY <1>1, <1>2, WithoutProperties
<1>4. DOMAIN bps' = 1 .. (Len(bps) - 1)
    BY <1>3
<1>5. TypeOK'
    BY <1>1, <1>2, <1>3 DEF TypeAndList, TypeOK
<1>6. \A k, l \in 1 .. Len(bps) : bps[k] = bps[l] => k = l
    BY ListPositions DEF TypeAndList, ListSound
<1>7. \A k, l \in DOMAIN bps' : bps'[k] = bps'[l] => k = l
    BY <1>2, <1>3, <1>4, <1>6
<1>8. Listed' = Listed \ {bps[i]}
    <2>1. ASSUME NEW k \in DOMAIN bps' PROVE bps'[k] \in Listed \ {bps[i]}
        BY <1>2, <1>3, <1>4, <1>6, ListPositions DEF Listed
    <2>2. ASSUME NEW k \in 1 .. Len(bps), k # i PROVE \E j \in DOMAIN bps' : bps'[j] = bps[k]
        <3>1. CASE k < i
            BY <3>1, <1>2, <1>3, <1>4, <2>2
        <3>2. CASE k > i
            <4>1. k - 1 \in DOMAIN bps' /\ bps'[k - 1] = bps[k]
                BY <3>2, <1>2, <1>3, <1>4
            <4> QED  BY <4>1
        <3> QED  BY <3>1, <3>2, <2>2, <1>2
    <2> QED  BY <2>1, <2>2, ListPositions DEF Listed
<1>9. \A q \in Ptr : Allocated(q)' <=> (Allocated(q) /\ q # bps[i])
    BY <1>1, <1>2 DEF Allocated, TypeAndList, TypeOK
<1>10. ListSound'
    BY <1>7, <1>8, <1>9 DEF TypeAndList, ListSound
<1>11. SavedSizes'
    BY <1>1, <1>2, <1>9 DEF TypeAndList, SavedSizes, TypeOK
<1> QED  BY <1>5, <1>10, <1>11 DEF TypeAndList

\* r_bp_del_all frees what it unlinks: the whole list.
LEMMA DelAllPreserves ==
    ASSUME TypeAndList, r_bp_del_all
    PROVE  TypeAndList'
<1>1. heap' = [p \in Ptr |-> IF p \in Listed THEN Free ELSE heap[p]]
      /\ bps' = << >> /\ UNCHANGED <<bps_idx, delta, mem, phase>>
    BY DEF r_bp_del_all
<1>2. TypeOK'
    BY <1>1 DEF TypeAndList, TypeOK
<1>3. Listed' = {} /\ DOMAIN bps' = {}
    BY <1>1 DEF Listed
<1>4. \A q \in Ptr : ~Allocated(q)'
    BY <1>1 DEF Allocated, TypeAndList, ListSound
<1> QED  BY <1>2, <1>3, <1>4 DEF TypeAndList, ListSound, SavedSizes

\* A change of attributes keeps what the other functions read of an item.
SameShape(it, old) ==
    it.addr = old.addr /\ it.size = old.size /\ it.hw = old.hw /\ it.prot = old.prot
    /\ it.obytes = old.obytes

\* r_bp_enable and r_bp_set_trace leave a well-formed item of the same shape.
LEMMA SetFieldProperties ==
    ASSUME NEW it \in Item, NEW f \in Fields, NEW v \in BOOLEAN
    PROVE  SetField(it, f, v) \in Item /\ SameShape(SetField(it, f, v), it)
BY DEF SetField, Item, SameShape

\* Whenever the list stays and every allocated item keeps its shape.
LEMMA ReshapePreserves ==
    ASSUME TypeAndList, UNCHANGED <<bps, bps_idx, delta, mem, phase>>,
           heap' \in [Ptr -> Item \cup {Free}],
           \A p \in Ptr : heap[p] = Free => heap'[p] = Free,
           \A p \in Ptr : heap[p] # Free => heap'[p] # Free /\ SameShape(heap'[p], heap[p])
    PROVE  TypeAndList'
<1>1. TypeOK'
    BY DEF TypeAndList, TypeOK
<1>2. \A p \in Ptr : Allocated(p)' <=> Allocated(p)
    BY DEF Allocated
<1>3. ListSound'
    BY <1>2 DEF TypeAndList, ListSound, Listed
<1>4. SavedSizes'
    BY <1>2 DEF TypeAndList, SavedSizes, SameShape, Allocated
<1> QED  BY <1>1, <1>3, <1>4 DEF TypeAndList

\* The three ways to set an attribute are such changes.
LEMMA SetReshapes ==
    ASSUME TypeAndList, NEW f \in Fields, NEW v \in BOOLEAN,
           \/ \E a \in Addr : r_bp_set(a, f, v)
           \/ r_bp_set_all(f, v)
           \/ \E i \in 1 .. MaxIdx : SetByIndex(i, f, v)
    PROVE  /\ UNCHANGED <<bps, bps_idx, delta, mem, phase>>
           /\ heap' \in [Ptr -> Item \cup {Free}]
           /\ \A p \in Ptr : heap[p] = Free => heap'[p] = Free
           /\ \A p \in Ptr : heap[p] # Free => heap'[p] # Free /\ SameShape(heap'[p], heap[p])
<1>1. UNCHANGED <<bps, bps_idx, delta, mem, phase>>
    BY DEF r_bp_set, r_bp_set_all, SetByIndex
<1>2. \A p \in Ptr : heap[p] \in Item \cup {Free}
    BY DEF TypeAndList, TypeOK
<1>3. \A p \in Ptr : heap[p] # Free => /\ SetField(heap[p], f, v) \in Item
                                       /\ SetField(heap[p], f, v) # Free
                                       /\ SameShape(SetField(heap[p], f, v), heap[p])
    BY <1>2, SetFieldProperties, FreeAssumption
<1>4. \A p \in Ptr : SameShape(heap[p], heap[p])
    BY DEF SameShape
<1>5. ASSUME NEW q \in Ptr, heap[q] # Free,
             heap' = [heap EXCEPT ![q] = SetField(@, f, v)]
      PROVE  /\ heap' \in [Ptr -> Item \cup {Free}]
             /\ \A p \in Ptr : heap[p] = Free => heap'[p] = Free
             /\ \A p \in Ptr : heap[p] # Free => heap'[p] # Free /\ SameShape(heap'[p], heap[p])
    BY <1>3, <1>4, <1>5 DEF TypeAndList, TypeOK
<1>6. CASE \E a \in Addr : r_bp_set(a, f, v)
    <2>1. PICK a \in Addr : r_bp_set(a, f, v)
        BY <1>6
    <2> DEFINE i == r_bp_get_in(Items, a, FALSE)
    <2>2. i \in DOMAIN bps /\ heap' = [heap EXCEPT ![bps[i]] = SetField(@, f, v)]
        BY <2>1, LookupInList DEF r_bp_set
    <2>3. bps[i] \in Ptr /\ heap[bps[i]] # Free
        BY <2>2, ListPositions, FreeAssumption
    <2> QED  BY <2>2, <2>3, <1>1, <1>5
<1>7. CASE r_bp_set_all(f, v)
    <2>1. heap' = [p \in Ptr |-> IF p \in Listed THEN SetField(heap[p], f, v) ELSE heap[p]]
        BY <1>7 DEF r_bp_set_all
    <2>2. \A p \in Ptr : p \in Listed <=> heap[p] # Free
        BY DEF TypeAndList, ListSound, Allocated
    <2> QED  BY <2>1, <2>2, <1>1, <1>2, <1>3
<1>8. CASE \E i \in 1 .. MaxIdx : SetByIndex(i, f, v)
    <2>1. PICK i \in 1 .. MaxIdx : SetByIndex(i, f, v)
        BY <1>8
    <2>2. bps_idx[i] \in Ptr /\ heap[bps_idx[i]] # Free
          /\ heap' = [heap EXCEPT ![bps_idx[i]] = SetField(@, f, v)]
        BY <2>1 DEF SetByIndex, Allocated
    <2> QED  BY <2>2, <1>1, <1>5
<1> QED  BY <1>6, <1>7, <1>8

\* RestoredByte, for the list of breakpoints.
LEMMA ListRestored ==
    ASSUME TypeAndList, NEW set, NEW except, NEW a \in Addr
    PROVE  /\ Writers(Items, except, a) = {} =>
                r_bp_restore_except(Items, mem, set, except)[a] = mem[a]
           /\ Writers(Items, except, a) # {} =>
                \E i \in Writers(Items, except, a) :
                  r_bp_restore_except(Items, mem, set, except)[a]
                      = RestoreOne(Items[i], set, a)
<1>1. Len(bps) \in Nat /\ DOMAIN Items = 1 .. Len(bps)
    BY ListPositions
<1> QED  BY <1>1, RestoredByte

\* r_bp_restore writes bytes: opcodes, or bytes that an item has saved.
LEMMA RestoreType ==
    ASSUME TypeAndList, NEW set \in BOOLEAN, NEW except
    PROVE  r_bp_restore_except(Items, mem, set, except) \in [Addr -> Byte]
<1> DEFINE r == r_bp_restore_except(Items, mem, set, except)
<1>1. r = [a \in Addr |-> r[a]]
    BY DEF r_bp_restore_except
<1>2. ASSUME NEW a \in Addr PROVE r[a] \in Byte
    <2>1. CASE Writers(Items, except, a) = {}
        <3>1. r[a] = mem[a]
            BY <2>1, ListRestored
        <3> QED  BY <3>1 DEF TypeAndList, TypeOK
    <2>2. CASE Writers(Items, except, a) # {}
        <3>1. PICK i \in Writers(Items, except, a) : r[a] = RestoreOne(Items[i], set, a)
            BY <2>2, ListRestored
        <3>2. i \in DOMAIN bps /\ Items[i] = heap[bps[i]] /\ bps[i] \in Ptr
              /\ heap[bps[i]] \in Item /\ ~heap[bps[i]].hw /\ Covers(heap[bps[i]], a)
            BY ListPositions DEF Writers
        <3>3. heap[bps[i]].obytes \in [0 .. (heap[bps[i]].size - 1) -> Byte]
            BY <3>2, FreeAssumption DEF TypeAndList, SavedSizes, Allocated
        <3>4. a - heap[bps[i]].addr \in 0 .. (heap[bps[i]].size - 1)
            BY <3>2, WidthAssumption DEF Covers, Item, Addr
        <3>5. heap[bps[i]].obytes[a - heap[bps[i]].addr] \in Byte
            BY <3>3, <3>4
        <3> QED  BY <3>1, <3>2, <3>5 DEF RestoreOne, Byte
    <2> QED  BY <2>1, <2>2
<1> HIDE DEF r
<1>3. r \in [Addr -> Byte]
    BY <1>1, <1>2
<1> QED  BY <1>3 DEF r

\* Restoring touches neither the list nor the heap.
LEMMA RestorePreserves ==
    ASSUME TypeAndList, RestoreUnset \/ \E except \in Addr : RestoreSet(except)
    PROVE  TypeAndList'
<1>1. mem' \in [Addr -> Byte]
    BY RestoreType DEF RestoreSet, RestoreUnset, r_bp_restore
<1>2. phase' \in {"in", "out"} /\ UNCHANGED <<heap, bps, bps_idx, delta>>
    BY DEF RestoreSet, RestoreUnset
<1> QED  BY <1>1, <1>2 DEF TypeAndList, TypeOK, ListSound, SavedSizes, Listed, Allocated

\* The table and the list are empty after r_bp_new.
LEMMA InitEstablishes == Init => TypeAndList
<1> SUFFICES ASSUME Init PROVE TypeAndList
    OBVIOUS
<1>1. TypeOK
    <2>1. bps_idx \in Seq(Ptr \cup {NULL})
        BY GrowAssumption DEF Init
    <2>2. mem \in [Addr -> Byte]
        BY DEF Init, Code, Byte
    <2> QED  BY <2>1, <2>2 DEF Init, TypeOK
<1>2. ListSound /\ SavedSizes
    BY DEF Init, ListSound, SavedSizes, Allocated, Listed
<1> QED  BY <1>1, <1>2 DEF TypeAndList

\* The sizes that r_bp_add gets from its two callers are positive.
LEMMA AddCalls ==
    ASSUME NEW a \in Addr, NEW size \in Sizes, NEW prot \in BOOLEAN,
           r_bp_add_sw(a, size, prot) \/ r_bp_add_hw(a, size, prot)
    PROVE  \E n \in Nat \ {0}, hw \in BOOLEAN : r_bp_add(a, n, hw, prot)
<1>1. size \in Nat
    BY SizeAssumption
<1>2. CASE r_bp_add_sw(a, size, prot)
    <2> DEFINE n == IF size < 1 THEN 1 ELSE size
    <2>1. n \in Nat \ {0}
        BY <1>1
    <2>2. r_bp_add(a, n, FALSE, prot)
        BY <1>2 DEF r_bp_add_sw
    <2> HIDE DEF n
    <2> QED  BY <2>1, <2>2
<1>3. CASE r_bp_add_hw(a, size, prot)
    <2>1. size >= 1 /\ r_bp_add(a, size, TRUE, prot)
        BY <1>3 DEF r_bp_add_hw
    <2>2. size \in Nat \ {0}
        BY <1>1, <2>1
    <2> QED  BY <2>1, <2>2
<1> QED  BY <1>2, <1>3

\* Every step of the breakpoint manager keeps the list and the heap in order.
LEMMA NextPreserves == TypeAndList /\ [Next]_vars => TypeAndList'
<1> SUFFICES ASSUME TypeAndList, [Next]_vars PROVE TypeAndList'
    OBVIOUS
<1>1. CASE UNCHANGED vars
    BY <1>1 DEF vars, TypeAndList, TypeOK, ListSound, SavedSizes, Listed, Allocated
<1>2. ASSUME NEW a \in Addr, NEW size \in Sizes, NEW prot \in BOOLEAN,
             r_bp_add_sw(a, size, prot) \/ r_bp_add_hw(a, size, prot)
      PROVE  TypeAndList'
    BY <1>2, AddCalls, AddPreserves
<1>3. ASSUME NEW a \in Addr, r_bp_del(a) PROVE TypeAndList'
    BY <1>3, DelPreserves
<1>4. CASE r_bp_del_all
    BY <1>4, DelAllPreserves
<1>5. ASSUME NEW f \in Fields, NEW v \in BOOLEAN,
             \/ \E a \in Addr : r_bp_set(a, f, v)
             \/ r_bp_set_all(f, v)
             \/ \E i \in 1 .. MaxIdx : SetByIndex(i, f, v)
      PROVE  TypeAndList'
    BY <1>5, SetReshapes, ReshapePreserves
<1>6. ASSUME NEW d \in Deltas, SetDelta(d) PROVE TypeAndList'
    BY <1>6 DEF SetDelta, TypeAndList, TypeOK, ListSound, SavedSizes, Listed, Allocated
<1>7. CASE RestoreUnset \/ \E except \in Addr : RestoreSet(except)
    BY <1>7, RestorePreserves
<1> QED  BY <1>1, <1>2, <1>3, <1>4, <1>5, <1>6, <1>7 DEF Next

\* Every behaviour is type correct: in particular the items, the slots of the
\* index table and the bytes that r_bp_restore writes to the debuggee.
THEOREM TypeCorrect == Spec => []TypeOK
<1>1. TypeAndList => TypeOK
    BY DEF TypeAndList
<1> QED  BY <1>1, InitEstablishes, NextPreserves, PTL DEF Spec

\* No history of r_bp_add, r_bp_del and r_bp_del_all makes the list lead to
\* freed memory, hold an item twice, or lose an item that is still allocated.
THEOREM ListSoundness == Spec => []ListSound
<1>1. TypeAndList => ListSound
    BY DEF TypeAndList
<1> QED  BY <1>1, InitEstablishes, NextPreserves, PTL DEF Spec

----------------------------------------------------------------------------
(* The table of indexes.                                                   *)

\* A successful r_bp_add appends one item, a new one that has a slot; one that
\* fails for want of an opcode leaves the list and the heap as they were.
LEMMA AddEffect ==
    ASSUME TypeAndList, NEW a \in Addr, NEW size \in Nat \ {0}, NEW hw \in BOOLEAN,
           NEW prot \in BOOLEAN, r_bp_add(a, size, hw, prot)
    PROVE  \E p \in Ptr :
             /\ heap[p] = Free /\ p \notin Listed
             /\ bps_idx' = r_bp_item_new(p)
             /\ \/ UNCHANGED <<heap, bps>>
                \/ /\ DOMAIN bps' = 1 .. (Len(bps) + 1)
                   /\ bps'[Len(bps) + 1] = p
                   /\ \A i \in 1 .. Len(bps) : bps'[i] = bps[i]
                   /\ heap'[p] = NewItem(a, size, hw, prot)
                   /\ \A q \in Ptr \ {p} : heap'[q] = heap[q]
<1> DEFINE it == NewItem(a, size, hw, prot)
<1>1. PICK p \in Ptr :
         /\ heap[p] = Free
         /\ bps_idx' = r_bp_item_new(p)
         /\ IF hw \/ r_bp_get_bytes(size) = size
            THEN heap' = [heap EXCEPT ![p] = it] /\ bps' = Append(bps, p)
            ELSE UNCHANGED <<heap, bps>>
    BY DEF r_bp_add
<1>2. p \notin Listed
    BY <1>1 DEF TypeAndList, ListSound, Allocated
<1> HIDE DEF it
<1>3. ASSUME heap' = [heap EXCEPT ![p] = it], bps' = Append(bps, p)
      PROVE  /\ DOMAIN bps' = 1 .. (Len(bps) + 1)
             /\ bps'[Len(bps) + 1] = p
             /\ \A i \in 1 .. Len(bps) : bps'[i] = bps[i]
             /\ heap'[p] = it
             /\ \A q \in Ptr \ {p} : heap'[q] = heap[q]
    BY <1>3 DEF TypeAndList, TypeOK
<1> QED  BY <1>1, <1>2, <1>3 DEF it

\* r_bp_del leaves the other items of the list, in their order and unchanged.
LEMMA DelEffect ==
    ASSUME TypeAndList, NEW a \in Addr, r_bp_del(a)
    PROVE  \E i \in 1 .. Len(bps) :
             /\ DOMAIN bps' = 1 .. (Len(bps) - 1)
             /\ \A j \in 1 .. (Len(bps) - 1) :
                  /\ bps'[j] = bps[IF j < i THEN j ELSE j + 1]
                  /\ heap'[bps'[j]] = heap[bps[IF j < i THEN j ELSE j + 1]]
<1> DEFINE i == r_bp_get_at(Items, a)
<1>1. i \in DOMAIN bps /\ heap' = [heap EXCEPT ![bps[i]] = Free] /\ bps' = Without(bps, i)
    BY LookupInList DEF r_bp_del
<1> HIDE DEF i
<1>2. i \in 1 .. Len(bps) /\ bps \in Seq(Ptr) /\ Len(bps) \in Nat
    BY <1>1, ListPositions DEF TypeAndList, TypeOK
<1>3. /\ DOMAIN bps' = 1 .. (Len(bps) - 1)
      /\ \A j \in 1 .. (Len(bps) - 1) : bps'[j] = IF j < i THEN bps[j] ELSE bps[j + 1]
    BY <1>1, <1>2, WithoutProperties
<1>4. ASSUME NEW j \in 1 .. (Len(bps) - 1)
      PROVE  /\ bps'[j] = bps[IF j < i THEN j ELSE j + 1]
             /\ heap'[bps'[j]] = heap[bps[IF j < i THEN j ELSE j + 1]]
    <2> DEFINE k == IF j < i THEN j ELSE j + 1
    <2>1. k \in 1 .. Len(bps) /\ k # i /\ bps'[j] = bps[k]
        BY <1>2, <1>3
    <2> HIDE DEF k
    <2>2. bps[k] \in Ptr /\ bps[k] # bps[i]
        BY <2>1, <1>2, ListPositions DEF TypeAndList, ListSound
    <2>3. heap'[bps[k]] = heap[bps[k]]
        BY <2>2, <1>1 DEF TypeAndList, TypeOK
    <2> QED  BY <2>1, <2>3 DEF k
<1> QED  BY <1>2, <1>3, <1>4

\* Every step keeps a slot for each listed item.
LEMMA IndexPreserves == TypeAndList /\ IndexComplete /\ [Next]_vars => IndexComplete'
<1> SUFFICES ASSUME TypeAndList, IndexComplete, [Next]_vars PROVE IndexComplete'
    OBVIOUS
<1>1. ASSUME UNCHANGED bps_idx, Listed' \subseteq Listed PROVE IndexComplete'
    BY <1>1 DEF IndexComplete
<1>2. ASSUME UNCHANGED <<bps, bps_idx>> PROVE IndexComplete'
    BY <1>2 DEF IndexComplete, Listed
<1>3. ASSUME NEW a \in Addr, NEW size \in Nat \ {0}, NEW hw \in BOOLEAN,
             NEW prot \in BOOLEAN, r_bp_add(a, size, hw, prot)
      PROVE  IndexComplete'
    <2>1. PICK p \in Ptr :
             /\ bps_idx' = r_bp_item_new(p)
             /\ \/ UNCHANGED <<heap, bps>>
                \/ /\ DOMAIN bps' = 1 .. (Len(bps) + 1)
                   /\ bps'[Len(bps) + 1] = p
                   /\ \A i \in 1 .. Len(bps) : bps'[i] = bps[i]
        BY <1>3, AddEffect
    <2>2. Listed' \subseteq Listed \cup {p}
        BY <2>1, ListPositions DEF Listed
    <2>3. \A q \in Listed : q \in Ptr /\ q # NULL
        BY ListPositions, PtrAssumption DEF Listed
    <2>4. \A q \in Listed \cup {p} : \E i \in DOMAIN bps_idx' : bps_idx'[i] = q
        BY <2>1, <2>3, ItemNewSlots DEF IndexComplete, TypeAndList
    <2> QED  BY <2>2, <2>4 DEF IndexComplete
<1>4. ASSUME NEW a \in Addr, r_bp_del(a) PROVE IndexComplete'
    <2>1. UNCHANGED bps_idx
        BY <1>4 DEF r_bp_del
    <2>2. PICK i \in 1 .. Len(bps) :
             /\ DOMAIN bps' = 1 .. (Len(bps) - 1)
             /\ \A j \in 1 .. (Len(bps) - 1) : bps'[j] = bps[IF j < i THEN j ELSE j + 1]
        BY <1>4, DelEffect
    <2>3. \A j \in DOMAIN bps' : \E k \in DOMAIN bps : bps'[j] = bps[k]
        BY <2>2, ListPositions
    <2>4. Listed' \subseteq Listed
        BY <2>3 DEF Listed
    <2> QED  BY <2>1, <2>4, <1>1
<1>5. CASE r_bp_del_all
    <2>1. Listed' = {} /\ UNCHANGED bps_idx
        BY <1>5 DEF r_bp_del_all, Listed
    <2> QED  BY <2>1, <1>1
<1>6. CASE UNCHANGED vars
    BY <1>6, <1>2 DEF vars
<1>7. ASSUME NEW a \in Addr, NEW size \in Sizes, NEW prot \in BOOLEAN,
             r_bp_add_sw(a, size, prot) \/ r_bp_add_hw(a, size, prot)
      PROVE  IndexComplete'
    BY <1>7, <1>3, AddCalls
<1>8. ASSUME NEW f \in Fields, NEW v \in BOOLEAN,
             \/ \E a \in Addr : r_bp_set(a, f, v)
             \/ r_bp_set_all(f, v)
             \/ \E i \in 1 .. MaxIdx : SetByIndex(i, f, v)
      PROVE  IndexComplete'
    BY <1>8, <1>2 DEF r_bp_set, r_bp_set_all, SetByIndex
<1>9. CASE \/ \E d \in Deltas : SetDelta(d)
           \/ RestoreUnset \/ \E except \in Addr : RestoreSet(except)
    BY <1>9, <1>2 DEF SetDelta, RestoreUnset, RestoreSet
<1> QED  BY <1>4, <1>5, <1>6, <1>7, <1>8, <1>9 DEF Next

\* Every listed breakpoint has a slot in the table of the dbi commands, however
\* often the table was full and had to grow.
THEOREM IndexCompleteness == Spec => []IndexComplete
<1>1. Init => IndexComplete
    BY DEF Init, IndexComplete, Listed
<1> QED  BY <1>1, InitEstablishes, NextPreserves, IndexPreserves, PTL DEF Spec

----------------------------------------------------------------------------
(* The bytes of the debuggee, as long as the list only changes while the   *)
(* traps are out and bp->delta stays 0 (MCBreakpointsDelta.cfg shows what  *)
(* goes wrong otherwise).  CodeIntact alone is not inductive: that         *)
(* restoring gives the program back needs the saved bytes to be the        *)
(* program's (ObytesExact), and every trap to have an owner (TrapOwned).   *)

Clean == ObytesExact /\ CodeIntact /\ TrapOwned

\* A step that keeps the debuggee as it is, and the shape of every item of the
\* list, or drops items while the traps are out.
LEMMA CleanKept ==
    ASSUME TypeAndList, Clean, UNCHANGED <<mem, phase>>,
           \A j \in DOMAIN bps' : \E i \in DOMAIN bps : SameShape(heap'[bps'[j]], heap[bps[i]]),
           \/ phase = "out"
           \/ \A i \in DOMAIN bps : \E j \in DOMAIN bps' : SameShape(heap'[bps'[j]], heap[bps[i]])
    PROVE  Clean'
<1>1. ObytesExact'
    BY DEF Clean, ObytesExact, SameShape
<1>2. CodeIntact'
    BY DEF Clean, CodeIntact
<1>3. CASE phase = "out"
    <2>1. mem' = Code
        BY <1>3 DEF Clean, CodeIntact
    <2>2. TrapOwned'
        BY <2>1 DEF TrapOwned, Code
    <2> QED  BY <2>2, <1>1, <1>2 DEF Clean
<1>4. CASE \A i \in DOMAIN bps : \E j \in DOMAIN bps' : SameShape(heap'[bps'[j]], heap[bps[i]])
    <2>1. TrapOwned'
        BY <1>4 DEF Clean, TrapOwned, SameShape
    <2> QED  BY <2>1, <1>1, <1>2 DEF Clean
<1> QED  BY <1>3, <1>4

\* r_bp_add saves the program's bytes: no trap is in the debuggee then.
LEMMA AddClean ==
    ASSUME TypeAndList, Clean, ~DirtyOps, Deltas = {0},
           NEW a \in Addr, NEW size \in Nat \ {0}, NEW hw \in BOOLEAN,
           NEW prot \in BOOLEAN, r_bp_add(a, size, hw, prot)
    PROVE  Clean'
<1> DEFINE it == NewItem(a, size, hw, prot)
<1>1. phase = "out" /\ UNCHANGED <<mem, phase>> /\ InSpace(a, size)
    BY DEF r_bp_add, MayChange
<1>2. mem = Code /\ mem' = Code
    BY <1>1 DEF Clean, CodeIntact
<1>3. CodeIntact' /\ TrapOwned'
    BY <1>2 DEF CodeIntact, TrapOwned, Code
<1>4. delta = 0 /\ Plus(a, delta) = a
    BY WidthAssumption DEF TypeAndList, TypeOK, Plus, Addr
<1>5. it.addr = a /\ it.size = size /\ it.hw = hw
    BY <1>4 DEF NewItem
<1>6. ~hw => \A k \in 0 .. (size - 1) : it.obytes[k] = a + k
    <2> SUFFICES ASSUME ~hw, NEW k \in 0 .. (size - 1) PROVE it.obytes[k] = a + k
        OBVIOUS
    <2>1. a + k \in Addr
        BY <1>1, WidthAssumption DEF InSpace, Addr
    <2>2. it.obytes = ReadAt(mem, a, size)
        BY DEF NewItem
    <2>3. it.obytes[k] = mem[a + k]
        BY <2>2 DEF ReadAt
    <2> QED  BY <2>1, <2>3, <1>2 DEF Code
<1> HIDE DEF it
<1>7. PICK p \in Ptr :
         /\ p \notin Listed
         /\ \/ UNCHANGED <<heap, bps>>
            \/ /\ DOMAIN bps' = 1 .. (Len(bps) + 1)
               /\ bps'[Len(bps) + 1] = p
               /\ \A i \in 1 .. Len(bps) : bps'[i] = bps[i]
               /\ heap'[p] = it
               /\ \A q \in Ptr \ {p} : heap'[q] = heap[q]
    BY AddEffect DEF it
<1>8. \A i \in DOMAIN bps : bps[i] \in Ptr \ {p}
    BY <1>7, ListPositions DEF Listed
<1>9. \A j \in DOMAIN bps' : \/ heap'[bps'[j]] = it
                              \/ \E i \in DOMAIN bps : heap'[bps'[j]] = heap[bps[i]]
    BY <1>7, <1>8, ListPositions
<1>10. ObytesExact'
    BY <1>9, <1>5, <1>6 DEF Clean, ObytesExact
<1> QED  BY <1>3, <1>10 DEF Clean

\* Setting the traps: what is not a trap of this call was clean or owned before.
LEMMA SetClean ==
    ASSUME TypeAndList, Clean, NEW except \in Addr, RestoreSet(except)
    PROVE  Clean'
<1>1. mem' = r_bp_restore_except(Items, mem, TRUE, except)
      /\ phase' = "in" /\ UNCHANGED <<heap, bps>>
    BY DEF RestoreSet
<1>2. ObytesExact' /\ CodeIntact'
    BY <1>1 DEF Clean, ObytesExact, CodeIntact
<1>3. ASSUME NEW a \in Addr, mem'[a] # a
      PROVE  \E i \in DOMAIN bps : /\ ~heap[bps[i]].hw
                                    /\ heap[bps[i]].addr <= a
                                    /\ a < heap[bps[i]].addr + heap[bps[i]].size
    <2>1. CASE Writers(Items, except, a) = {}
        <3>1. mem'[a] = mem[a]
            BY <2>1, <1>1, ListRestored
        <3> QED  BY <3>1, <1>3 DEF Clean, TrapOwned
    <2>2. CASE Writers(Items, except, a) # {}
        <3>1. PICK i \in Writers(Items, except, a) : TRUE
            BY <2>2
        <3>2. i \in DOMAIN bps /\ ~heap[bps[i]].hw /\ Covers(heap[bps[i]], a)
              /\ heap[bps[i]] \in Item
            BY ListPositions DEF Writers
        <3>3. heap[bps[i]].addr <= a /\ a < heap[bps[i]].addr + heap[bps[i]].size
            BY <3>2 DEF Covers, Item, Addr
        <3> QED  BY <3>2, <3>3
    <2> QED  BY <2>1, <2>2
<1>4. TrapOwned'
    BY <1>1, <1>3 DEF TrapOwned
<1> QED  BY <1>2, <1>4 DEF Clean

\* Taking the traps out leaves the program: a byte that some item covers is
\* written back from what that item saved, and every other one was the program's.
LEMMA UnsetClean ==
    ASSUME TypeAndList, Clean, RestoreUnset
    PROVE  Clean'
<1>1. mem' = r_bp_restore_except(Items, mem, FALSE, 0) /\ UNCHANGED <<heap, bps>>
    BY DEF RestoreUnset, r_bp_restore
<1>2. ObytesExact'
    BY <1>1 DEF Clean, ObytesExact
<1>3. ASSUME NEW a \in Addr PROVE mem'[a] = a
    <2>1. CASE Writers(Items, 0, a) = {}
        <3>1. mem'[a] = mem[a]
            BY <2>1, <1>1, ListRestored
        <3>2. ASSUME NEW i \in DOMAIN bps, ~heap[bps[i]].hw, heap[bps[i]].addr <= a,
                     a < heap[bps[i]].addr + heap[bps[i]].size
              PROVE  FALSE
            <4>1. heap[bps[i]] \in Item /\ Items[i] = heap[bps[i]] /\ i \in DOMAIN Items
                BY ListPositions
            <4>2. Covers(heap[bps[i]], a)
                BY <3>2, <4>1 DEF Covers, Item, Addr
            <4>3. i \in Writers(Items, 0, a)
                BY <4>1, <4>2, <3>2 DEF Writers, Skipped
            <4> QED  BY <4>3, <2>1
        <3> QED  BY <3>1, <3>2 DEF Clean, TrapOwned
    <2>2. CASE Writers(Items, 0, a) # {}
        <3>1. PICK i \in Writers(Items, 0, a) : mem'[a] = RestoreOne(Items[i], FALSE, a)
            BY <2>2, <1>1, ListRestored
        <3> DEFINE b == heap[bps[i]]
        <3>2. i \in DOMAIN bps /\ Items[i] = b /\ b \in Item /\ ~b.hw /\ Covers(b, a)
            BY ListPositions DEF Writers
        <3>3. a - b.addr \in 0 .. (b.size - 1) /\ b.addr + (a - b.addr) = a
            BY <3>2, WidthAssumption DEF Covers, Item, Addr
        <3>4. b.obytes[a - b.addr] = b.addr + (a - b.addr)
            BY <3>2, <3>3 DEF Clean, ObytesExact
        <3> QED  BY <3>1, <3>2, <3>3, <3>4 DEF RestoreOne
    <2> QED  BY <2>1, <2>2
<1>4. mem' = Code
    <2>1. mem' = [a \in Addr |-> mem'[a]]
        BY <1>1 DEF r_bp_restore_except
    <2> QED  BY <2>1, <1>3 DEF Code
<1>5. CodeIntact' /\ TrapOwned'
    BY <1>3, <1>4 DEF CodeIntact, TrapOwned
<1> QED  BY <1>2, <1>5 DEF Clean

\* Every step of the breakpoint manager keeps the debuggee clean.
LEMMA CleanPreserves ==
    ASSUME ~DirtyOps, Deltas = {0}
    PROVE  TypeAndList /\ Clean /\ [Next]_vars => Clean'
<1> SUFFICES ASSUME TypeAndList, Clean, [Next]_vars PROVE Clean'
    OBVIOUS
<1>0. ASSUME NEW x PROVE SameShape(x, x)
    BY DEF SameShape
<1>1. ASSUME UNCHANGED <<heap, bps, mem, phase>> PROVE Clean'
    BY <1>1, <1>0, CleanKept
<1>2. ASSUME NEW a \in Addr, NEW size \in Sizes, NEW prot \in BOOLEAN,
             r_bp_add_sw(a, size, prot) \/ r_bp_add_hw(a, size, prot)
      PROVE  Clean'
    BY <1>2, AddCalls, AddClean
<1>3. ASSUME NEW a \in Addr, r_bp_del(a) PROVE Clean'
    <2>1. phase = "out" /\ UNCHANGED <<mem, phase>>
        BY <1>3 DEF r_bp_del, MayChange
    <2>2. PICK i \in 1 .. Len(bps) :
             /\ DOMAIN bps' = 1 .. (Len(bps) - 1)
             /\ \A j \in 1 .. (Len(bps) - 1) :
                    heap'[bps'[j]] = heap[bps[IF j < i THEN j ELSE j + 1]]
        BY <1>3, DelEffect
    <2>3. ASSUME NEW j \in DOMAIN bps' PROVE \E k \in DOMAIN bps : heap'[bps'[j]] = heap[bps[k]]
        <3> DEFINE k == IF j < i THEN j ELSE j + 1
        <3>1. Len(bps) \in Nat /\ DOMAIN bps = 1 .. Len(bps)
            BY ListPositions
        <3>2. k \in DOMAIN bps
            BY <2>2, <3>1
        <3>3. heap'[bps'[j]] = heap[bps[k]]
            BY <2>2
        <3> QED  BY <3>2, <3>3
    <2> QED  BY <2>1, <2>3, <1>0, CleanKept
<1>4. CASE r_bp_del_all
    <2>1. phase = "out" /\ UNCHANGED <<mem, phase>> /\ DOMAIN bps' = {}
        BY <1>4 DEF r_bp_del_all, MayChange
    <2> QED  BY <2>1, CleanKept
<1>5. ASSUME NEW f \in Fields, NEW v \in BOOLEAN,
             \/ \E a \in Addr : r_bp_set(a, f, v)
             \/ r_bp_set_all(f, v)
             \/ \E i \in 1 .. MaxIdx : SetByIndex(i, f, v)
      PROVE  Clean'
    <2>1. /\ UNCHANGED <<bps, mem, phase>>
          /\ \A p \in Ptr : heap[p] # Free => SameShape(heap'[p], heap[p])
        BY <1>5, SetReshapes
    <2>2. \A i \in DOMAIN bps : SameShape(heap'[bps[i]], heap[bps[i]])
        BY <2>1, ListPositions, FreeAssumption
    <2> QED  BY <2>1, <2>2, CleanKept
<1>6. CASE UNCHANGED vars \/ \E d \in Deltas : SetDelta(d)
    BY <1>6, <1>1 DEF vars, SetDelta
<1>7. CASE RestoreUnset \/ \E except \in Addr : RestoreSet(except)
    BY <1>7, UnsetClean, SetClean
<1> QED  BY <1>2, <1>3, <1>4, <1>5, <1>6, <1>7 DEF Next

\* No trap is written before the first breakpoint is set.
LEMMA InitClean == Init => Clean
<1> SUFFICES ASSUME Init PROVE Clean
    OBVIOUS
<1> QED  BY DEF Init, Clean, ObytesExact, CodeIntact, TrapOwned, Code

\* Breakpoints never damage the program: after r_bp_restore (bp, false) the
\* debuggee holds its own bytes, for any overlap of the breakpoints and any
\* order of setting and deleting them.
THEOREM CodeSafety ==
    ASSUME ~DirtyOps, Deltas = {0}
    PROVE  Spec => []CodeIntact
<1>1. Clean => CodeIntact
    BY DEF Clean
<1>2. TypeAndList /\ Clean /\ [Next]_vars => Clean'
    BY CleanPreserves
<1> QED  BY <1>1, <1>2, InitEstablishes, InitClean, NextPreserves, PTL DEF Spec

\* The bytes an item has saved are the program's, never those of another
\* breakpoint.
THEOREM ObytesSafety ==
    ASSUME ~DirtyOps, Deltas = {0}
    PROVE  Spec => []ObytesExact
<1>1. Clean => ObytesExact
    BY DEF Clean
<1>2. TypeAndList /\ Clean /\ [Next]_vars => Clean'
    BY CleanPreserves
<1> QED  BY <1>1, <1>2, InitEstablishes, InitClean, NextPreserves, PTL DEF Spec

\* Every trap in the debuggee belongs to a listed software breakpoint.
THEOREM TrapOwnership ==
    ASSUME ~DirtyOps, Deltas = {0}
    PROVE  Spec => []TrapOwned
<1>1. Clean => TrapOwned
    BY DEF Clean
<1>2. TypeAndList /\ Clean /\ [Next]_vars => Clean'
    BY CleanPreserves
<1> QED  BY <1>1, <1>2, InitEstablishes, InitClean, NextPreserves, PTL DEF Spec
=============================================================================

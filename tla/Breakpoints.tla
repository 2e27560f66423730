---------------------------- MODULE Breakpoints ----------------------------
(***************************************************************************)
(* RBreakpoint (libr/bp/bp.c, libr/bp/io.c): the list of breakpoints, the  *)
(* table of indexes that the dbi commands use, the heap the items live in, *)
(* and the bytes of the debuggee that the breakpoints overwrite.           *)
(***************************************************************************)
EXTENDS BpItems

CONSTANTS
    Ptr, NULL,   \* heap addresses of RBreakpointItem
    Free,        \* heap contents that are not an item
    Sizes,       \* sizes callers ask for
    Fields,      \* attributes the commands set: "enabled", "trace"
    Deltas,      \* values of bp->delta (the dbb command)
    Grow,        \* bps_idx grows by this many slots: 16 in the code
    MaxIdx,      \* bound: bps_idx stops growing at this length
    DirtyOps     \* may the list change while traps are in the debuggee?

ASSUME PtrAssumption  == NULL \notin Ptr
ASSUME SizeAssumption ==
    /\ Sizes \subseteq Nat /\ Deltas \subseteq Nat /\ DirtyOps \in BOOLEAN
    /\ Fields \subseteq {"enabled", "trace"}
ASSUME GrowAssumption == Grow \in Nat \ {0} /\ MaxIdx \in Nat

VARIABLES
    heap,       \* what each heap address holds
    bps,        \* bp->bps: list of pointers
    bps_idx,    \* bp->bps_idx; slot i of the code is position i+1
    delta,      \* bp->delta
    mem,        \* bytes of the debuggee
    phase       \* "in" from r_bp_restore(set) to the next r_bp_restore(unset)

vars == <<heap, bps, bps_idx, delta, mem, phase>>

Item == [addr : Addr, size : 1 .. Width, hw : BOOLEAN, prot : BOOLEAN,
         enabled : BOOLEAN, trace : BOOLEAN,
         obytes : UNION {[0 .. (n - 1) -> Byte] : n \in 0 .. Width}]

ASSUME FreeAssumption == Free \notin Item

Allocated(p) == p \in Ptr /\ heap[p] # Free

\* The items of the list, in its order.
Items == [i \in DOMAIN bps |-> heap[bps[i]]]

\* r_bp_new
Init ==
    /\ heap = [p \in Ptr |-> Free]
    /\ bps = << >>
    /\ bps_idx = [i \in 1 .. Grow |-> NULL]
    /\ delta = 0
    /\ mem = Code
    /\ phase = "out"

MayChange == DirtyOps \/ phase = "out"

----------------------------------------------------------------------------
(* r_bp_item_new: the first empty slot of bps_idx, or one of Grow new ones.*)

EmptySlots == {i \in DOMAIN bps_idx : bps_idx[i] = NULL}

Grown == [i \in 1 .. (Len(bps_idx) + Grow) |->
             IF i <= Len(bps_idx) THEN bps_idx[i] ELSE NULL]

CanIndex == EmptySlots # {} \/ Len(bps_idx) + Grow <= MaxIdx

\* Mutated: a full table gives its first slot away.
ItemNewFull(p) ==
    [bps_idx EXCEPT ![IF EmptySlots # {} THEN First(EmptySlots) ELSE 1] = p]

r_bp_item_new(p) ==
    IF EmptySlots # {} THEN [bps_idx EXCEPT ![First(EmptySlots)] = p]
                       ELSE [Grown EXCEPT ![Len(bps_idx) + 1] = p]

NewItem(a, size, hw, prot) ==
    [addr |-> Plus(a, delta), size |-> size, hw |-> hw, prot |-> prot,
     enabled |-> TRUE, trace |-> FALSE,
     obytes |-> ReadAt(mem, a, IF hw THEN 0 ELSE size)]

\* Input bound: ranges that lie in the address space, before and after delta.
InSpace(a, size) == a + size <= Width /\ Plus(a, delta) + size <= Width

(* r_bp_add.  The last address (UT64_MAX) and an address inside a listed   *)
(* item are refused.  The saved bytes and the lookup use the address as    *)
(* given, the item the address plus delta.  When there is no opcode of the *)
(* size, the item is freed, but its slot keeps pointing to it.             *)
Accepted(a, prot) == a # Width - 1 /\ r_bp_get_in(Items, a, prot) = NoPos

r_bp_add(a, size, hw, prot) ==
    /\ MayChange
    /\ InSpace(a, size)
    /\ Accepted(a, prot)
    /\ CanIndex
    /\ \E p \in Ptr :
         /\ heap[p] = Free
         /\ bps_idx' = r_bp_item_new(p)
         /\ IF hw \/ r_bp_get_bytes(size) = size
            THEN /\ heap' = [heap EXCEPT ![p] = NewItem(a, size, hw, prot)]
                 /\ bps' = Append(bps, p)
            ELSE UNCHANGED <<heap, bps>>
    /\ UNCHANGED <<delta, mem, phase>>

\* r_bp_add_sw raises a size below 1 to 1, r_bp_add_hw hands it to r_bp_add,
\* which refuses it.
r_bp_add_sw(a, size, prot) ==
    r_bp_add(a, IF size < 1 THEN 1 ELSE size, FALSE, prot)
\* Mutated: an empty hardware breakpoint is not refused.
AddHwAnySize(a, size, prot) == r_bp_add(a, size, TRUE, prot)

r_bp_add_hw(a, size, prot) == size >= 1 /\ r_bp_add(a, size, TRUE, prot)

----------------------------------------------------------------------------
(* Removal frees the items and unlinks them.  Neither function looks at    *)
(* bps_idx, or at what is written in the debuggee.                         *)

\* Mutated: the item is freed and stays in the list.
DelStillListed(a) ==
    LET i == r_bp_get_at(Items, a)
    IN  /\ MayChange /\ i # NoPos
        /\ heap' = [heap EXCEPT ![bps[i]] = Free]
        /\ UNCHANGED <<bps, bps_idx, delta, mem, phase>>

r_bp_del(a) ==
    LET i == r_bp_get_at(Items, a)
    IN  /\ MayChange
        /\ i # NoPos
        /\ heap' = [heap EXCEPT ![bps[i]] = Free]
        /\ bps' = Without(bps, i)
        /\ UNCHANGED <<bps_idx, delta, mem, phase>>

Listed == {bps[i] : i \in DOMAIN bps}

r_bp_del_all ==
    /\ MayChange
    /\ bps # << >>
    /\ heap' = [p \in Ptr |-> IF p \in Listed THEN Free ELSE heap[p]]
    /\ bps' = << >>
    /\ UNCHANGED <<bps_idx, delta, mem, phase>>

----------------------------------------------------------------------------
(* Attributes.  r_bp_enable and r_bp_set_trace take the first item that    *)
(* contains the address; the _all forms take every item; the dbi commands  *)
(* go through r_bp_get_index and write to whatever the slot points to.     *)

SetField(it, f, v) ==
    IF f = "enabled" THEN [it EXCEPT !.enabled = v] ELSE [it EXCEPT !.trace = v]

r_bp_set(a, f, v) ==
    LET i == r_bp_get_in(Items, a, FALSE)
    IN  /\ i # NoPos
        /\ heap' = [heap EXCEPT ![bps[i]] = SetField(@, f, v)]
        /\ UNCHANGED <<bps, bps_idx, delta, mem, phase>>

r_bp_set_all(f, v) ==
    /\ bps # << >>
    /\ heap' = [p \in Ptr |-> IF p \in Listed THEN SetField(heap[p], f, v)
                                              ELSE heap[p]]
    /\ UNCHANGED <<bps, bps_idx, delta, mem, phase>>

\* A slot whose item was freed: the write lands in freed memory and no item
\* sees it, unless the allocator has handed the address out again.
SetByIndex(i, f, v) ==
    /\ i \in DOMAIN bps_idx
    /\ Allocated(bps_idx[i])
    /\ heap' = [heap EXCEPT ![bps_idx[i]] = SetField(@, f, v)]
    /\ UNCHANGED <<bps, bps_idx, delta, mem, phase>>

\* The dbb command.
SetDelta(d) == delta' = d /\ UNCHANGED <<heap, bps, bps_idx, mem, phase>>

----------------------------------------------------------------------------
(* r_bp_restore and r_bp_restore_except, as r_debug_bps_enable (set),      *)
(* r_debug_recoil (set, except bp_addr) and r_debug_bp_hit (unset) call    *)
(* them.                                                                   *)

RestoreSet(except) ==
    /\ mem' = r_bp_restore_except(Items, mem, TRUE, except)
    /\ phase' = "in"
    /\ UNCHANGED <<heap, bps, bps_idx, delta>>

RestoreUnset ==
    /\ mem' = r_bp_restore(Items, mem, FALSE)
    /\ phase' = "out"
    /\ UNCHANGED <<heap, bps, bps_idx, delta>>

Next ==
    \/ \E a \in Addr, size \in Sizes, prot \in BOOLEAN :
          r_bp_add_sw(a, size, prot) \/ r_bp_add_hw(a, size, prot)
    \/ \E a \in Addr : r_bp_del(a)
    \/ r_bp_del_all
    \/ \E a \in Addr, f \in Fields, v \in BOOLEAN : r_bp_set(a, f, v)
    \/ \E f \in Fields, v \in BOOLEAN : r_bp_set_all(f, v)
    \/ \E i \in 1 .. MaxIdx, f \in Fields, v \in BOOLEAN : SetByIndex(i, f, v)
    \/ \E d \in Deltas : SetDelta(d)
    \/ \E except \in Addr : RestoreSet(except)
    \/ RestoreUnset

Spec == Init /\ [][Next]_vars

----------------------------------------------------------------------------
(* Properties.                                                             *)

TypeOK ==
    /\ heap \in [Ptr -> Item \cup {Free}]
    /\ bps \in Seq(Ptr)
    /\ bps_idx \in Seq(Ptr \cup {NULL})
    /\ delta \in Deltas \cup {0}
    /\ mem \in [Addr -> Byte]
    /\ phase \in {"in", "out"}

\* The list and the heap agree, whatever the order of r_bp_add, r_bp_del and
\* r_bp_del_all: no item is listed twice, every listed item is allocated (no
\* walk of the list reads freed memory), and no item outlives its listing.
ListSound ==
    /\ \A i, j \in DOMAIN bps : bps[i] = bps[j] => i = j
    /\ \A p \in Ptr : Allocated(p) <=> p \in Listed

\* Every listed breakpoint can be reached by the dbi commands: r_bp_item_new
\* never gives an occupied slot away, also when bps_idx has to grow.
IndexComplete ==
    \A p \in Listed : \E i \in DOMAIN bps_idx : bps_idx[i] = p

\* What r_bp_add saves are the program's own bytes at the breakpoint's
\* address (r_bp.h: "original bytes"), never those of another breakpoint.
ObytesExact ==
    \A i \in DOMAIN bps : LET b == heap[bps[i]] IN
        ~b.hw => \A k \in 0 .. (b.size - 1) : b.obytes[k] = b.addr + k

\* After r_bp_restore (bp, false) the debuggee holds exactly the program,
\* although breakpoints may overlap and are restored in list order.
CodeIntact == phase = "out" => mem = Code

\* A byte that is not the program's belongs to a listed software breakpoint,
\* so the next r_bp_restore (bp, false) takes it out again.
TrapOwned ==
    \A a \in Addr : mem[a] # a =>
        \E i \in DOMAIN bps : LET b == heap[bps[i]] IN
            ~b.hw /\ b.addr <= a /\ a < b.addr + b.size

\* Every index that dbi lists ("List breakpoint indexes") is a breakpoint.
SlotsLive ==
    \A i \in DOMAIN bps_idx : bps_idx[i] # NULL => bps_idx[i] \in Listed
=============================================================================

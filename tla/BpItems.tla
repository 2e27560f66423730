------------------------------ MODULE BpItems ------------------------------
(***************************************************************************)
(* The pure part of libr/bp: what the functions of bp.c and io.c compute   *)
(* from a list of RBreakpointItem and from the bytes of the debuggee.      *)
(*                                                                         *)
(* Addresses are 0 .. Width-1, a small ut64: sums wrap.  The byte that the *)
(* program has at address a is a itself, so that all the program's bytes   *)
(* differ and a byte restored to the wrong place is seen; every byte of a  *)
(* breakpoint instruction is Trap.                                         *)
(***************************************************************************)
EXTENDS Integers, Sequences

CONSTANTS
    Width,     \* number of addresses, 2^64 in the code
    ArchLens   \* lengths of the breakpoint opcodes of bp->cur, in its order

ASSUME WidthAssumption == Width \in Nat \ {0}
ASSUME ArchAssumption  == ArchLens \in Seq(Nat \ {0})

Addr  == 0 .. (Width - 1)
Trap  == -1
Byte  == Addr \cup {Trap}
NoPos == 0     \* "no such item" for the lookups, which return list positions

\* The program as it was loaded, before any breakpoint is written to it.
Code  == [a \in Addr |-> a]

\* ut64 addition.
Plus(x, y) == IF x + y >= Width THEN x + y - Width ELSE x + y

First(S) == IF S = {} THEN NoPos ELSE CHOOSE i \in S : \A j \in S : i <= j
Last(S)  == CHOOSE i \in S : \A j \in S : j <= i

----------------------------------------------------------------------------
(* Lookups.  The list is walked from its head: the first match wins.       *)

InRange(b, a)      == a >= b.addr /\ a < Plus(b.addr, b.size)
MatchProt(b, prot) == prot => b.prot

r_bp_get_at(s, a)       == First({i \in DOMAIN s : s[i].addr = a})
r_bp_get_in(s, a, prot) ==
    First({i \in DOMAIN s : InRange(s[i], a) /\ MatchProt(s[i], prot)})

\* The list without its i-th element, and with one more at its end.
Without(s, i) == [j \in 1 .. (Len(s) - 1) |-> IF j < i THEN s[j] ELSE s[j + 1]]

----------------------------------------------------------------------------
(* The length r_bp_get_bytes returns for a request of len bytes: an opcode *)
(* of that length, else one of length 4, else the first opcode as padding. *)

HasLen(len) == \E i \in DOMAIN ArchLens : ArchLens[i] = len

r_bp_get_bytes(len) ==
    CASE ArchLens = << >>             -> 0
      [] ArchLens # << >> /\ HasLen(len)                          -> len
      [] ArchLens # << >> /\ ~HasLen(len) /\ HasLen(4)            -> 4
      [] ArchLens # << >> /\ ~HasLen(len) /\ ~HasLen(4)
         /\ 4 % ArchLens[1] # 0                                   -> 0
      [] OTHER                                                    -> ArchLens[1]

\* Mutated: the bytes in the wrong order, and one byte too many.
ReadAtReversed(m, a, size) == [k \in 0 .. (size - 1) |-> m[a + size - 1 - k]]
ReadAtOverrun(m, a, size)  == [k \in 0 .. size |-> m[a + k]]

\* bp->iob.read_at: the size bytes of the debuggee from address a.
ReadAt(m, a, size) == [k \in 0 .. (size - 1) |-> m[a + k]]

----------------------------------------------------------------------------
(* r_bp_restore_except writes, item after item, the opcode (set) or the    *)
(* saved bytes (not set) of every software item whose address is not       *)
(* except; an except of 0 excludes nothing.  The last item of the list     *)
(* that covers an address decides what is left there.                      *)

Covers(b, a) == a >= b.addr /\ a < b.addr + b.size

Skipped(b, except) == except # 0 /\ b.addr = except

Writers(s, except, a) ==
    {i \in DOMAIN s : ~s[i].hw /\ Covers(s[i], a) /\ ~Skipped(s[i], except)}

\* Mutated: always the first of the saved bytes.
RestoreOneFirst(b, set, a) == IF set THEN Trap ELSE b.obytes[0]

RestoreOne(b, set, a) == IF set THEN Trap ELSE b.obytes[a - b.addr]

\* Mutated: the opcode is written one byte too long.
RestoreOverrun(s, m, set, except) ==
    [a \in Addr |->
        LET W == Writers(s, except, a)
        IN  IF W # {} THEN RestoreOne(s[Last(W)], set, a)
            ELSE IF set /\ a > 0 /\ Writers(s, except, a - 1) # {} THEN Trap
            ELSE m[a]]

r_bp_restore_except(s, m, set, except) ==
    [a \in Addr |->
        LET W == Writers(s, except, a)
        IN  IF W = {} THEN m[a] ELSE RestoreOne(s[Last(W)], set, a)]

r_bp_restore(s, m, set) == r_bp_restore_except(s, m, set, 0)
=============================================================================

--------------------------- MODULE MCBreakpoints ---------------------------
(***************************************************************************)
(* Small instances of Breakpoints: x86 opcodes (one and two bytes), an     *)
(* allocator of MaxPtr items, a table of indexes that grows by two.        *)
(***************************************************************************)
EXTENDS Breakpoints, TLC

X86Lens == <<1, 2>>
PtrSymmetry == Permutations(Ptr)
=============================================================================

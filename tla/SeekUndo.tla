------------------------------ MODULE SeekUndo ------------------------------
(***************************************************************************)
(* The seek history of libr/io/undo.c: a ring of R_IO_UNDOS entries with   *)
(* an index and two counters, and the commands of libr/core that use it.   *)
(* s_enable is set by r_core_init and never reset.                         *)
(***************************************************************************)
EXTENDS Naturals, Sequences

CONSTANTS
    Offsets,      \* values of core->offset
    Cursors,      \* values of core->print->cur
    R_IO_UNDOS,   \* size of the ring (64 in r_io.h)
    Borders       \* subset of AllBorders

\* A push meets an entry that equals it and is not the latest undo.
AllBorders == {"stale_equal"}

ASSUME SeekAssumption ==
    /\ R_IO_UNDOS \in Nat \ {0, 1}
    /\ Cursors \subseteq Nat /\ 0 \in Cursors
    /\ Offsets # {}
    /\ Borders \subseteq AllBorders

Slots == 0 .. R_IO_UNDOS - 1
Entry == [off : Offsets, cursor : Cursors]

VARIABLES
    offset,    \* core->offset
    cursor,    \* core->print->cur
    seek,      \* io->undo.seek
    idx,       \* io->undo.idx
    undos,     \* io->undo.undos
    redos,     \* io->undo.redos
    went       \* history: the last command has called r_io_sundo_push

place == <<offset, cursor>>
vars  == <<place, seek, idx, undos, redos, went>>

Within(border, condition) == condition => border \in Borders

\* r_io_undo_init; the ring holds zeroes, any entry will do.
Init ==
    /\ offset \in Offsets /\ cursor = 0
    /\ \E o \in Offsets : seek = [i \in Slots |-> [off |-> o, cursor |-> 0]]
    /\ idx = 0 /\ undos = 0 /\ redos = 0 /\ went = FALSE

Before(i) == (i + R_IO_UNDOS - 1) % R_IO_UNDOS
After(i)  == (i + 1) % R_IO_UNDOS

----------------------------------------------------------------------------

\* The first test of r_io_sundo_push, which knows nothing of the counters.
Equal(off, cur) == idx > 0 /\ seek[idx - 1] = [off |-> off, cursor |-> cur]

\* Mutated: all entries of the ring count as undos.
PushFull(off, cur) ==
    IF Equal(off, cur) THEN UNCHANGED <<seek, idx, undos, redos>>
    ELSE /\ seek' = [seek EXCEPT ![idx] = [off |-> off, cursor |-> cur]]
         /\ idx' = After(idx)
         /\ undos' = IF undos < R_IO_UNDOS THEN undos + 1 ELSE undos
         /\ redos' = 0

\* Mutated: the redos stay.
PushKeepsRedos(off, cur) ==
    IF Equal(off, cur) THEN UNCHANGED <<seek, idx, undos, redos>>
    ELSE /\ seek' = [seek EXCEPT ![idx] = [off |-> off, cursor |-> cur]]
         /\ idx' = After(idx)
         /\ undos' = IF undos + redos < R_IO_UNDOS - 1 THEN undos + 1 ELSE undos
         /\ UNCHANGED redos

\* One entry less than the ring has is used: r_io_sundo stores the current
\* place in the last one.
r_io_sundo_push(off, cur) ==
    IF Equal(off, cur) THEN UNCHANGED <<seek, idx, undos, redos>>
    ELSE /\ seek' = [seek EXCEPT ![idx] = [off |-> off, cursor |-> cur]]
         /\ idx' = After(idx)
         /\ undos' = IF undos < R_IO_UNDOS - 1 THEN undos + 1 ELSE undos
         /\ redos' = 0

\* s addr, s++, sn, sb and the visual mode: remember the place and leave it.
CmdSeek(to, cur) ==
    /\ Within("stale_equal", Equal(offset, cursor) /\ (undos = 0 \/ redos > 0))
    /\ r_io_sundo_push(offset, cursor)
    /\ offset' = to /\ cursor' = cur /\ went' = TRUE

\* sf and other users of r_core_seek, and the cursor keys.
CmdMove(to, cur) ==
    /\ offset' = to /\ cursor' = cur /\ went' = FALSE
    /\ UNCHANGED <<seek, idx, undos, redos>>

\* s-, and u in the visual mode, which restores the cursor as well.
r_io_sundo(visual) ==
    /\ undos > 0 /\ went' = FALSE
    /\ seek' = IF redos > 0 THEN seek
               ELSE [seek EXCEPT ![idx] = [off |-> offset, cursor |-> 0]]
    /\ idx' = Before(idx) /\ undos' = undos - 1 /\ redos' = redos + 1
    /\ offset' = seek'[idx'].off
    /\ cursor' = IF visual THEN seek'[idx'].cursor ELSE cursor

\* s+, and U in the visual mode, which resets the cursor.
r_io_sundo_redo(visual) ==
    /\ redos > 0 /\ went' = FALSE
    /\ idx' = After(idx) /\ undos' = undos + 1 /\ redos' = redos - 1
    /\ offset' = seek[idx'].off
    /\ cursor' = IF visual THEN 0 ELSE cursor
    /\ UNCHANGED seek

r_io_sundo_reset ==
    /\ idx' = 0 /\ undos' = 0 /\ redos' = 0 /\ went' = FALSE
    /\ UNCHANGED <<place, seek>>

Next ==
    \/ \E to \in Offsets, cur \in Cursors : CmdSeek(to, cur) \/ CmdMove(to, cur)
    \/ \E visual \in BOOLEAN : r_io_sundo(visual) \/ r_io_sundo_redo(visual)
    \/ r_io_sundo_reset

Spec == Init /\ [][Next]_vars

----------------------------------------------------------------------------
(* Properties.                                                             *)

\* The undos, the redos and the entry between them fit in the ring.
TypeOK ==
    /\ offset \in Offsets /\ cursor \in Cursors
    /\ seek \in [Slots -> Entry] /\ idx \in Slots
    /\ went \in BOOLEAN
    /\ undos \in Nat /\ redos \in Nat /\ undos + redos <= R_IO_UNDOS - 1

Past   == [i \in 1 .. undos |-> seek[(idx + R_IO_UNDOS + i - undos - 1) % R_IO_UNDOS].off]
Future == [i \in 1 .. redos |-> seek[(idx + i) % R_IO_UNDOS].off]

Log == INSTANCE SeekLog WITH
    Capacity <- R_IO_UNDOS - 1,
    here     <- offset,
    past     <- Past,
    present  <- IF redos > 0 THEN <<seek[idx].off>> ELSE << >>,
    future   <- Future

\* The ring implements SeekLog: no wrap of the index shows, undo and redo
\* return to the places that were left, in order, and "after this new
\* possible undo, all redos are lost" (r_io_sundo_push).
LogSpec == Log!Spec
=============================================================================

--------------------------- MODULE SeekUndoProofs ---------------------------
(***************************************************************************)
(* The ring of the seek history is what SeekLog says, for every size of    *)
(* the ring: the counters never outgrow it, and no wrap of the index is    *)
(* seen from outside.                                                      *)
(***************************************************************************)
EXTENDS SeekUndo, TLAPS

----------------------------------------------------------------------------
(* The ring: the slots k steps before and after an index.                  *)

Back(ix, k)  == IF ix < k THEN ix + R_IO_UNDOS - k ELSE ix - k
Ahead(ix, k) == IF ix + k < R_IO_UNDOS THEN ix + k ELSE ix + k - R_IO_UNDOS

\* One reduction takes an index of two rounds back into the ring.
LEMMA WrapOnce ==
    ASSUME NEW x \in 0 .. 2 * R_IO_UNDOS - 1
    PROVE  x % R_IO_UNDOS = IF x < R_IO_UNDOS THEN x ELSE x - R_IO_UNDOS
<1>1. ASSUME NEW R \in Nat \ {0}, NEW y \in 0 .. R - 1 PROVE y % R = y
    OBVIOUS
<1>2. ASSUME NEW R \in Nat \ {0}, NEW y \in R .. 2 * R - 1 PROVE y % R = y - R
    OBVIOUS
<1>3. R_IO_UNDOS \in Nat \ {0}
    BY SeekAssumption
<1> QED  BY <1>1, <1>2, <1>3

\* The indexes that SeekUndo computes with % are those slots.
LEMMA BackIsMod ==
    ASSUME NEW ix \in Slots, NEW u \in 0 .. R_IO_UNDOS - 1, NEW i \in 1 .. u
    PROVE  (ix + R_IO_UNDOS + i - u - 1) % R_IO_UNDOS = Back(ix, u + 1 - i)
<1>1. R_IO_UNDOS \in Nat \ {0, 1} /\ ix \in 0 .. R_IO_UNDOS - 1
    BY SeekAssumption DEF Slots
<1>2. PICK x \in 0 .. 2 * R_IO_UNDOS - 1 : x = ix + R_IO_UNDOS + i - u - 1
    BY <1>1
<1>3. x % R_IO_UNDOS = IF x < R_IO_UNDOS THEN x ELSE x - R_IO_UNDOS
    BY WrapOnce
<1>4. x % R_IO_UNDOS = Back(ix, u + 1 - i)
    BY <1>1, <1>2, <1>3 DEF Back
<1> QED  BY <1>2, <1>4

LEMMA AheadIsMod ==
    ASSUME NEW ix \in Slots, NEW i \in 1 .. R_IO_UNDOS - 1
    PROVE  (ix + i) % R_IO_UNDOS = Ahead(ix, i)
<1>1. R_IO_UNDOS \in Nat \ {0, 1} /\ ix \in 0 .. R_IO_UNDOS - 1
    BY SeekAssumption DEF Slots
<1>2. ix + i \in 0 .. 2 * R_IO_UNDOS - 1
    BY <1>1
<1> QED  BY <1>1, <1>2, WrapOnce DEF Ahead

\* Before and After go one step.
LEMMA OneStep ==
    ASSUME NEW ix \in Slots
    PROVE  Before(ix) = Back(ix, 1) /\ After(ix) = Ahead(ix, 1)
<1>1. R_IO_UNDOS \in Nat \ {0, 1} /\ ix \in 0 .. R_IO_UNDOS - 1
    BY SeekAssumption DEF Slots
<1>2. ix + R_IO_UNDOS - 1 \in 0 .. 2 * R_IO_UNDOS - 1 /\ ix + 1 \in 0 .. 2 * R_IO_UNDOS - 1
    BY <1>1
<1> QED  BY <1>1, <1>2, WrapOnce DEF Before, After, Back, Ahead

\* Less than a round never comes back to where it started.
LEMMA InRing ==
    ASSUME NEW ix \in Slots, NEW k \in 1 .. R_IO_UNDOS - 1
    PROVE  /\ Back(ix, k) \in Slots /\ Back(ix, k) # ix
           /\ Ahead(ix, k) \in Slots /\ Ahead(ix, k) # ix
<1>1. R_IO_UNDOS \in Nat \ {0, 1} /\ ix \in 0 .. R_IO_UNDOS - 1
    BY SeekAssumption DEF Slots
<1> QED  BY <1>1 DEF Back, Ahead, Slots

\* Steps along the ring add up.
LEMMA Walk ==
    ASSUME NEW ix \in Slots, NEW k \in 1 .. R_IO_UNDOS - 2
    PROVE  /\ Back(Ahead(ix, 1), k + 1) = Back(ix, k)
           /\ Back(Back(ix, 1), k) = Back(ix, k + 1)
           /\ Ahead(Back(ix, 1), k + 1) = Ahead(ix, k)
           /\ Ahead(Ahead(ix, 1), k) = Ahead(ix, k + 1)
<1>1. R_IO_UNDOS \in Nat \ {0, 1} /\ ix \in 0 .. R_IO_UNDOS - 1
    BY SeekAssumption DEF Slots
<1> QED  BY <1>1 DEF Back, Ahead

LEMMA ThereAndBack ==
    ASSUME NEW ix \in Slots
    PROVE  Back(Ahead(ix, 1), 1) = ix /\ Ahead(Back(ix, 1), 1) = ix
<1>1. R_IO_UNDOS \in Nat \ {0, 1} /\ ix \in 0 .. R_IO_UNDOS - 1
    BY SeekAssumption DEF Slots
<1> QED  BY <1>1 DEF Back, Ahead

----------------------------------------------------------------------------
(* The undos and redos of a ring, for any of its states.                   *)

PastOf(sk, ix, u)   == [i \in 1 .. u |-> sk[(ix + R_IO_UNDOS + i - u - 1) % R_IO_UNDOS].off]
FutureOf(sk, ix, r) == [i \in 1 .. r |-> sk[(ix + i) % R_IO_UNDOS].off]

LEMMA PastSeq ==
    ASSUME NEW sk \in [Slots -> Entry], NEW ix \in Slots, NEW u \in 0 .. R_IO_UNDOS - 1
    PROVE  /\ PastOf(sk, ix, u) \in Seq(Offsets) /\ Len(PastOf(sk, ix, u)) = u
           /\ \A i \in 1 .. u : PastOf(sk, ix, u)[i] = sk[Back(ix, u + 1 - i)].off
<1>1. u \in Nat /\ R_IO_UNDOS \in Nat
    BY SeekAssumption
<1>2. ASSUME NEW i \in 1 .. u
      PROVE  sk[(ix + R_IO_UNDOS + i - u - 1) % R_IO_UNDOS].off = sk[Back(ix, u + 1 - i)].off
    BY BackIsMod
<1>3. ASSUME NEW i \in 1 .. u PROVE sk[Back(ix, u + 1 - i)].off \in Offsets
    <2>1. Back(ix, u + 1 - i) \in Slots
        BY <1>1, InRing
    <2> QED  BY <2>1 DEF Entry
<1>4. PastOf(sk, ix, u) = [i \in 1 .. u |-> sk[Back(ix, u + 1 - i)].off]
    BY <1>2, Zenon DEF PastOf
<1> QED  BY <1>1, <1>3, <1>4

LEMMA FutureSeq ==
    ASSUME NEW sk \in [Slots -> Entry], NEW ix \in Slots, NEW r \in 0 .. R_IO_UNDOS - 1
    PROVE  /\ FutureOf(sk, ix, r) \in Seq(Offsets) /\ Len(FutureOf(sk, ix, r)) = r
           /\ \A i \in 1 .. r : FutureOf(sk, ix, r)[i] = sk[Ahead(ix, i)].off
<1>1. r \in Nat /\ \A i \in 1 .. r : i \in 1 .. R_IO_UNDOS - 1
    BY SeekAssumption
<1>2. ASSUME NEW i \in 1 .. r PROVE sk[(ix + i) % R_IO_UNDOS].off = sk[Ahead(ix, i)].off
    BY <1>1, AheadIsMod
<1>3. ASSUME NEW i \in 1 .. r PROVE sk[Ahead(ix, i)].off \in Offsets
    <2>1. Ahead(ix, i) \in Slots
        BY <1>1, InRing
    <2> QED  BY <2>1 DEF Entry
<1>4. FutureOf(sk, ix, r) = [i \in 1 .. r |-> sk[Ahead(ix, i)].off]
    BY <1>2, Zenon DEF FutureOf
<1> QED  BY <1>1, <1>3, <1>4

\* Sequences of the same length and with the same elements are equal.
LEMMA SameSeq ==
    ASSUME NEW S, NEW s \in Seq(S), NEW t \in Seq(S), Len(s) = Len(t),
           \A i \in 1 .. Len(s) : s[i] = t[i]
    PROVE  s = t
OBVIOUS

\* r_io_sundo_push writes a new last undo, and so does a step forward.
LEMMA PushPast ==
    ASSUME NEW sk \in [Slots -> Entry], NEW ix \in Slots, NEW e \in Entry,
           NEW u \in 0 .. R_IO_UNDOS - 2
    PROVE  PastOf([sk EXCEPT ![ix] = e], After(ix), u + 1) = Append(PastOf(sk, ix, u), e.off)
<1> DEFINE sk2 == [sk EXCEPT ![ix] = e]
           old == PastOf(sk, ix, u)
           new == PastOf(sk2, After(ix), u + 1)
<1>1. /\ R_IO_UNDOS \in Nat \ {0, 1}
      /\ u \in 0 .. R_IO_UNDOS - 1 /\ u + 1 \in 0 .. R_IO_UNDOS - 1
    BY SeekAssumption
<1>2. sk2 \in [Slots -> Entry] /\ e.off \in Offsets
    BY DEF Entry
<1>3. After(ix) = Ahead(ix, 1) /\ After(ix) \in Slots
    BY <1>1, OneStep, InRing
<1>4. /\ old \in Seq(Offsets) /\ Len(old) = u
      /\ \A i \in 1 .. u : old[i] = sk[Back(ix, u + 1 - i)].off
    BY <1>1, PastSeq
<1>5. /\ new \in Seq(Offsets) /\ Len(new) = u + 1
      /\ \A i \in 1 .. u + 1 : new[i] = sk2[Back(After(ix), u + 1 + 1 - i)].off
    BY <1>1, <1>2, <1>3, PastSeq
<1>6. ASSUME NEW i \in 1 .. u PROVE new[i] = old[i]
    <2>1. PICK k \in 1 .. R_IO_UNDOS - 2 : k = u + 1 - i
        BY <1>1
    <2>2. Back(After(ix), k + 1) = Back(ix, k) /\ Back(ix, k) \in Slots /\ Back(ix, k) # ix
        BY <1>1, <1>3, <2>1, Walk, InRing
    <2>3. u + 1 + 1 - i = k + 1 /\ i \in 1 .. u + 1
        BY <1>1, <2>1
    <2> QED  BY <1>4, <1>5, <2>1, <2>2, <2>3
<1>7. new[u + 1] = e.off
    <2>1. u + 1 + 1 - (u + 1) = 1 /\ u + 1 \in 1 .. u + 1
        BY <1>1
    <2>2. Back(After(ix), 1) = ix
        BY <1>3, ThereAndBack
    <2> QED  BY <1>5, <2>1, <2>2
<1> HIDE DEF new, old
<1>8. /\ Append(old, e.off) \in Seq(Offsets) /\ Len(Append(old, e.off)) = u + 1
      /\ \A i \in 1 .. u + 1 : new[i] = Append(old, e.off)[i]
    BY <1>1, <1>2, <1>4, <1>6, <1>7
<1>9. new = Append(old, e.off)
    BY <1>5, <1>8, SameSeq
<1> QED  BY <1>9 DEF new, old

\* In a full ring the oldest undo is overwritten by the slot after it.
LEMMA PushFullPast ==
    ASSUME NEW sk \in [Slots -> Entry], NEW ix \in Slots, NEW e \in Entry
    PROVE  PastOf([sk EXCEPT ![ix] = e], After(ix), R_IO_UNDOS - 1) =
           SubSeq(Append(PastOf(sk, ix, R_IO_UNDOS - 1), e.off), 2, R_IO_UNDOS)
<1> DEFINE sk2 == [sk EXCEPT ![ix] = e]
           u   == R_IO_UNDOS - 1
           old == PastOf(sk, ix, u)
           new == PastOf(sk2, After(ix), u)
           longer == Append(old, e.off)
<1>1. R_IO_UNDOS \in Nat \ {0, 1} /\ u \in 0 .. R_IO_UNDOS - 1
    BY SeekAssumption
<1>2. sk2 \in [Slots -> Entry] /\ e.off \in Offsets
    BY DEF Entry
<1>3. After(ix) = Ahead(ix, 1) /\ After(ix) \in Slots
    BY <1>1, OneStep, InRing
<1>4. /\ old \in Seq(Offsets) /\ Len(old) = u
      /\ \A i \in 1 .. u : old[i] = sk[Back(ix, u + 1 - i)].off
    BY <1>1, PastSeq
<1>5. /\ new \in Seq(Offsets) /\ Len(new) = u
      /\ \A i \in 1 .. u : new[i] = sk2[Back(After(ix), u + 1 - i)].off
    BY <1>1, <1>2, <1>3, PastSeq
<1>6. ASSUME NEW i \in 1 .. u - 1 PROVE new[i] = old[i + 1]
    <2>1. PICK k \in 1 .. R_IO_UNDOS - 2 : k = u - i
        BY <1>1
    <2>2. Back(After(ix), k + 1) = Back(ix, k) /\ Back(ix, k) \in Slots /\ Back(ix, k) # ix
        BY <1>1, <1>3, <2>1, Walk, InRing
    <2>3. u + 1 - i = k + 1 /\ u + 1 - (i + 1) = k /\ i \in 1 .. u /\ i + 1 \in 1 .. u
        BY <1>1, <2>1
    <2> QED  BY <1>4, <1>5, <2>2, <2>3
<1>7. new[u] = e.off
    <2>1. u + 1 - u = 1 /\ u \in 1 .. u
        BY <1>1
    <2>2. Back(After(ix), 1) = ix
        BY <1>3, ThereAndBack
    <2> QED  BY <1>5, <2>1, <2>2
<1> HIDE DEF new, old
<1>8. longer \in Seq(Offsets) /\ Len(longer) = R_IO_UNDOS
    BY <1>1, <1>2, <1>4
<1>9. /\ SubSeq(longer, 2, R_IO_UNDOS) \in Seq(Offsets)
      /\ Len(SubSeq(longer, 2, R_IO_UNDOS)) = u
      /\ \A i \in 1 .. u : SubSeq(longer, 2, R_IO_UNDOS)[i] = longer[i + 1]
    BY <1>1, <1>8
<1>10. \A i \in 1 .. u : new[i] = longer[i + 1]
    BY <1>1, <1>2, <1>4, <1>6, <1>7
<1> HIDE DEF longer
<1>11. new = SubSeq(longer, 2, R_IO_UNDOS)
    BY <1>5, <1>9, <1>10, SameSeq
<1> QED  BY <1>11 DEF new, old, longer

\* The latest undo is in the slot before the index.
LEMMA LastPast ==
    ASSUME NEW sk \in [Slots -> Entry], NEW ix \in Slots, NEW u \in 1 .. R_IO_UNDOS - 1
    PROVE  /\ PastOf(sk, ix, u) # << >>
           /\ PastOf(sk, ix, u)[Len(PastOf(sk, ix, u))] = sk[Before(ix)].off
<1>1. R_IO_UNDOS \in Nat \ {0, 1} /\ u \in 0 .. R_IO_UNDOS - 1
    BY SeekAssumption
<1>2. /\ PastOf(sk, ix, u) \in Seq(Offsets) /\ Len(PastOf(sk, ix, u)) = u
      /\ \A i \in 1 .. u : PastOf(sk, ix, u)[i] = sk[Back(ix, u + 1 - i)].off
    BY <1>1, PastSeq
<1>3. u + 1 - u = 1 /\ u \in 1 .. u
    BY <1>1
<1>4. PastOf(sk, ix, u)[u] = sk[Back(ix, 1)].off
    BY <1>2, <1>3
<1> QED  BY <1>1, <1>2, <1>4, OneStep

\* r_io_sundo takes the latest undo away, whatever it stores at the index.
LEMMA FrontPast ==
    ASSUME NEW sk \in [Slots -> Entry], NEW sk2 \in [Slots -> Entry], NEW ix \in Slots,
           \A j \in Slots \ {ix} : sk2[j] = sk[j],
           NEW u \in 1 .. R_IO_UNDOS - 1
    PROVE  PastOf(sk2, Before(ix), u - 1) =
           SubSeq(PastOf(sk, ix, u), 1, Len(PastOf(sk, ix, u)) - 1)
<1> DEFINE old == PastOf(sk, ix, u)
           new == PastOf(sk2, Before(ix), u - 1)
<1>1. /\ R_IO_UNDOS \in Nat \ {0, 1}
      /\ u \in 0 .. R_IO_UNDOS - 1 /\ u - 1 \in 0 .. R_IO_UNDOS - 1
    BY SeekAssumption
<1>2. Before(ix) = Back(ix, 1) /\ Before(ix) \in Slots
    BY <1>1, OneStep, InRing
<1>3. /\ old \in Seq(Offsets) /\ Len(old) = u
      /\ \A i \in 1 .. u : old[i] = sk[Back(ix, u + 1 - i)].off
    BY <1>1, PastSeq
<1>4. /\ new \in Seq(Offsets) /\ Len(new) = u - 1
      /\ \A i \in 1 .. u - 1 : new[i] = sk2[Back(Before(ix), u - 1 + 1 - i)].off
    BY <1>1, <1>2, PastSeq
<1>5. ASSUME NEW i \in 1 .. u - 1 PROVE new[i] = old[i]
    <2>1. PICK k \in 1 .. R_IO_UNDOS - 2 : k = u - i
        BY <1>1
    <2>2. Back(Before(ix), k) = Back(ix, k + 1)
        BY <1>2, Walk
    <2>3. Back(ix, k + 1) \in Slots \ {ix}
        BY <1>1, <2>1, InRing
    <2>4. u - 1 + 1 - i = k /\ u + 1 - i = k + 1 /\ i \in 1 .. u
        BY <1>1, <2>1
    <2> QED  BY <1>3, <1>4, <2>2, <2>3, <2>4
<1> HIDE DEF new, old
<1>6. /\ SubSeq(old, 1, Len(old) - 1) \in Seq(Offsets)
      /\ Len(SubSeq(old, 1, Len(old) - 1)) = u - 1
      /\ \A i \in 1 .. u - 1 : SubSeq(old, 1, Len(old) - 1)[i] = old[i]
    BY <1>1, <1>3
<1>7. new = SubSeq(old, 1, Len(old) - 1)
    BY <1>4, <1>5, <1>6, SameSeq
<1> QED  BY <1>7 DEF new, old

\* r_io_sundo makes the entry at the index the next redo.
LEMMA UndoFuture ==
    ASSUME NEW sk \in [Slots -> Entry], NEW ix \in Slots, NEW r \in 0 .. R_IO_UNDOS - 2
    PROVE  FutureOf(sk, Before(ix), r + 1) = <<sk[ix].off>> \o FutureOf(sk, ix, r)
<1> DEFINE old == FutureOf(sk, ix, r)
           new == FutureOf(sk, Before(ix), r + 1)
<1>1. /\ R_IO_UNDOS \in Nat \ {0, 1}
      /\ r \in 0 .. R_IO_UNDOS - 1 /\ r + 1 \in 0 .. R_IO_UNDOS - 1
    BY SeekAssumption
<1>2. Before(ix) = Back(ix, 1) /\ Before(ix) \in Slots
    BY <1>1, OneStep, InRing
<1>3. /\ old \in Seq(Offsets) /\ Len(old) = r
      /\ \A i \in 1 .. r : old[i] = sk[Ahead(ix, i)].off
    BY <1>1, FutureSeq
<1>4. /\ new \in Seq(Offsets) /\ Len(new) = r + 1
      /\ \A i \in 1 .. r + 1 : new[i] = sk[Ahead(Before(ix), i)].off
    BY <1>1, <1>2, FutureSeq
<1>5. new[1] = sk[ix].off
    BY <1>1, <1>2, <1>4, ThereAndBack
<1>6. ASSUME NEW i \in 1 .. r PROVE new[i + 1] = old[i]
    <2>1. i \in 1 .. R_IO_UNDOS - 2 /\ i + 1 \in 1 .. r + 1
        BY <1>1
    <2>2. Ahead(Before(ix), i + 1) = Ahead(ix, i)
        BY <1>2, <2>1, Walk
    <2> QED  BY <1>3, <1>4, <2>1, <2>2
<1>7. sk[ix].off \in Offsets
    BY DEF Entry
<1> HIDE DEF new, old
<1>8. /\ <<sk[ix].off>> \o old \in Seq(Offsets) /\ Len(<<sk[ix].off>> \o old) = r + 1
      /\ \A i \in 1 .. r + 1 : new[i] = (<<sk[ix].off>> \o old)[i]
    BY <1>1, <1>3, <1>5, <1>6, <1>7
<1>9. new = <<sk[ix].off>> \o old
    BY <1>4, <1>8, SameSeq
<1> QED  BY <1>9 DEF new, old

\* r_io_sundo_redo goes to the next redo and takes it away.
LEMMA RedoFuture ==
    ASSUME NEW sk \in [Slots -> Entry], NEW ix \in Slots, NEW r \in 1 .. R_IO_UNDOS - 1
    PROVE  /\ FutureOf(sk, ix, r) # << >>
           /\ Head(FutureOf(sk, ix, r)) = sk[After(ix)].off
           /\ FutureOf(sk, After(ix), r - 1) = Tail(FutureOf(sk, ix, r))
           /\ Len(Tail(FutureOf(sk, ix, r))) = r - 1
<1> DEFINE old == FutureOf(sk, ix, r)
           new == FutureOf(sk, After(ix), r - 1)
<1>1. /\ R_IO_UNDOS \in Nat \ {0, 1}
      /\ r \in 0 .. R_IO_UNDOS - 1 /\ r - 1 \in 0 .. R_IO_UNDOS - 1
    BY SeekAssumption
<1>2. After(ix) = Ahead(ix, 1) /\ After(ix) \in Slots
    BY <1>1, OneStep, InRing
<1>3. /\ old \in Seq(Offsets) /\ Len(old) = r
      /\ \A i \in 1 .. r : old[i] = sk[Ahead(ix, i)].off
    BY <1>1, FutureSeq
<1>4. /\ new \in Seq(Offsets) /\ Len(new) = r - 1
      /\ \A i \in 1 .. r - 1 : new[i] = sk[Ahead(After(ix), i)].off
    BY <1>1, <1>2, FutureSeq
<1>5. ASSUME NEW i \in 1 .. r - 1 PROVE new[i] = old[i + 1]
    <2>1. i \in 1 .. R_IO_UNDOS - 2 /\ i + 1 \in 1 .. r
        BY <1>1
    <2>2. Ahead(After(ix), i) = Ahead(ix, i + 1)
        BY <1>2, <2>1, Walk
    <2> QED  BY <1>3, <1>4, <2>1, <2>2
<1>6. old[1] = sk[After(ix)].off
    BY <1>1, <1>2, <1>3
<1> HIDE DEF new, old
<1>7. /\ old # << >> /\ Head(old) = old[1]
      /\ Tail(old) \in Seq(Offsets) /\ Len(Tail(old)) = r - 1
      /\ \A i \in 1 .. r - 1 : Tail(old)[i] = old[i + 1]
    BY <1>1, <1>3
<1>8. new = Tail(old)
    BY <1>4, <1>5, <1>7, SameSeq
<1> QED  BY <1>6, <1>7, <1>8 DEF new, old

----------------------------------------------------------------------------
(* Type correctness.                                                       *)

\* r_io_sundo_push leaves the ring in order: one entry is never an undo.
LEMMA PushType ==
    ASSUME TypeOK, NEW off \in Offsets, NEW cur \in Cursors, r_io_sundo_push(off, cur)
    PROVE  /\ seek' \in [Slots -> Entry] /\ idx' \in Slots
           /\ undos' \in Nat /\ redos' \in Nat /\ undos' + redos' <= R_IO_UNDOS - 1
<1>1. CASE Equal(off, cur)
    BY <1>1 DEF TypeOK, r_io_sundo_push
<1>2. CASE ~Equal(off, cur)
    <2>1. [off |-> off, cursor |-> cur] \in Entry
        BY DEF Entry
    <2>2. After(idx) \in Slots
        BY OneStep, InRing, SeekAssumption DEF TypeOK
    <2> QED  BY <1>2, <2>1, <2>2, SeekAssumption DEF TypeOK, r_io_sundo_push
<1> QED  BY <1>1, <1>2

\* The counters and the index of the ring stay in their bounds through every
\* command of the seek history (r_io_sundo_push, r_io_sundo, r_io_sundo_redo
\* and r_io_sundo_reset), with or without borders.
THEOREM TypeCorrect == Spec => []TypeOK
<1>1. Init => TypeOK
    <2> SUFFICES ASSUME Init PROVE TypeOK
        OBVIOUS
    <2>1. offset \in Offsets /\ cursor \in Cursors /\ went \in BOOLEAN
        BY SeekAssumption DEF Init
    <2>2. seek \in [Slots -> Entry]
        BY SeekAssumption DEF Init, Entry
    <2>3. idx \in Slots /\ undos = 0 /\ redos = 0 /\ 0 <= R_IO_UNDOS - 1
        BY SeekAssumption DEF Init, Slots
    <2> QED  BY <2>1, <2>2, <2>3 DEF TypeOK
<1>2. TypeOK /\ [Next]_vars => TypeOK'
    <2> SUFFICES ASSUME TypeOK, [Next]_vars
                 PROVE  TypeOK'
        OBVIOUS
    <2>1. ASSUME NEW to \in Offsets, NEW cur \in Cursors, CmdSeek(to, cur)
          PROVE  TypeOK'
        <3>1. offset \in Offsets /\ cursor \in Cursors /\ r_io_sundo_push(offset, cursor)
            BY <2>1 DEF CmdSeek, TypeOK
        <3> QED  BY <2>1, <3>1, PushType DEF CmdSeek, TypeOK
    <2>2. ASSUME NEW to \in Offsets, NEW cur \in Cursors, CmdMove(to, cur)
          PROVE  TypeOK'
        BY <2>2 DEF CmdMove, TypeOK
    <2>3. ASSUME NEW visual \in BOOLEAN, r_io_sundo(visual)
          PROVE  TypeOK'
        <3>1. idx' \in Slots
            BY <2>3, OneStep, InRing, SeekAssumption DEF TypeOK, r_io_sundo
        <3>2. seek' \in [Slots -> Entry]
            <4>1. [off |-> offset, cursor |-> 0] \in Entry
                BY SeekAssumption DEF Entry, TypeOK
            <4> QED  BY <2>3, <4>1 DEF TypeOK, r_io_sundo
        <3>3. seek'[idx'] \in Entry
            BY <3>1, <3>2
        <3>4. offset' \in Offsets /\ cursor' \in Cursors
            BY <2>3, <3>3 DEF TypeOK, r_io_sundo, Entry
        <3>5. went' \in BOOLEAN
            BY <2>3 DEF r_io_sundo
        <3>6. undos' \in Nat /\ redos' \in Nat /\ undos' + redos' <= R_IO_UNDOS - 1
            BY <2>3, SeekAssumption DEF TypeOK, r_io_sundo
        <3> QED  BY <3>1, <3>2, <3>4, <3>5, <3>6 DEF TypeOK
    <2>4. ASSUME NEW visual \in BOOLEAN, r_io_sundo_redo(visual)
          PROVE  TypeOK'
        <3>1. idx' \in Slots
            BY <2>4, OneStep, InRing, SeekAssumption DEF TypeOK, r_io_sundo_redo
        <3>2. offset' \in Offsets /\ cursor' \in Cursors
            BY <2>4, <3>1, SeekAssumption DEF TypeOK, r_io_sundo_redo, Entry
        <3>3. went' \in BOOLEAN /\ seek' = seek
            BY <2>4 DEF r_io_sundo_redo
        <3>4. undos' \in Nat /\ redos' \in Nat /\ undos' + redos' <= R_IO_UNDOS - 1
            BY <2>4, SeekAssumption DEF TypeOK, r_io_sundo_redo
        <3> QED  BY <3>1, <3>2, <3>3, <3>4 DEF TypeOK
    <2>5. ASSUME r_io_sundo_reset
          PROVE  TypeOK'
        <3>1. went' \in BOOLEAN /\ UNCHANGED <<offset, cursor, seek>>
            BY <2>5 DEF r_io_sundo_reset, place
        <3>2. idx' \in Slots /\ undos' = 0 /\ redos' = 0 /\ 0 <= R_IO_UNDOS - 1
            BY <2>5, SeekAssumption DEF r_io_sundo_reset, Slots
        <3> QED  BY <3>1, <3>2 DEF TypeOK
    <2>6. ASSUME UNCHANGED vars
          PROVE  TypeOK'
        BY <2>6 DEF vars, place, TypeOK
    <2> QED  BY <2>1, <2>2, <2>3, <2>4, <2>5, <2>6 DEF Next
<1> QED  BY <1>1, <1>2, PTL DEF Spec

----------------------------------------------------------------------------
(* The refinement.                                                         *)

\* The refinement mapping in terms of the operators of the lemmas.
LEMMA Mapping ==
    /\ Past = PastOf(seek, idx, undos) /\ Future = FutureOf(seek, idx, redos)
    /\ Past' = PastOf(seek', idx', undos') /\ Future' = FutureOf(seek', idx', redos')
BY DEF Past, Future, PastOf, FutureOf

\* Going somewhere pushes the place that is left.
LEMMA SeekGoes ==
    ASSUME "stale_equal" \notin Borders, TypeOK,
           NEW to \in Offsets, NEW cur \in Cursors, CmdSeek(to, cur)
    PROVE  Log!Go(to)
<1>1. CASE Equal(offset, cursor)
    <2>1. undos > 0 /\ redos = 0
        BY <1>1 DEF CmdSeek, Within, TypeOK
    <2>2. /\ seek' = seek /\ idx' = idx /\ undos' = undos /\ redos' = redos
          /\ offset' = to /\ went' = TRUE
        BY <1>1 DEF CmdSeek, r_io_sundo_push
    <2>3. undos \in 1 .. R_IO_UNDOS - 1 /\ seek \in [Slots -> Entry] /\ idx \in Slots
        BY <2>1, SeekAssumption DEF TypeOK
    <2>4. Before(idx) = idx - 1
        BY <1>1, <2>3, OneStep, SeekAssumption DEF Equal, Back, Slots
    <2>5. Past # << >> /\ Past[Len(Past)] = offset
        BY <1>1, <2>3, <2>4, LastPast, Mapping DEF Equal
    <2>6. Past' = Past /\ Future' = << >>
        BY <2>1, <2>2, Mapping DEF FutureOf
    <2> QED  BY <2>1, <2>2, <2>5, <2>6 DEF Log!Go, Log!Remembered, Log!Last
<1>2. CASE ~Equal(offset, cursor)
    <2> DEFINE e == [off |-> offset, cursor |-> cursor]
    <2>1. /\ seek' = [seek EXCEPT ![idx] = e] /\ idx' = After(idx)
          /\ undos' = IF undos < R_IO_UNDOS - 1 THEN undos + 1 ELSE undos
          /\ redos' = 0 /\ offset' = to /\ went' = TRUE
        BY <1>2 DEF CmdSeek, r_io_sundo_push
    <2>2. /\ seek \in [Slots -> Entry] /\ idx \in Slots /\ e \in Entry /\ e.off = offset
          /\ undos \in 0 .. R_IO_UNDOS - 1 /\ R_IO_UNDOS \in Nat \ {0, 1}
        BY SeekAssumption DEF TypeOK, Entry
    <2>3. Past \in Seq(Offsets) /\ Len(Past) = undos
        BY <2>2, PastSeq, Mapping
    <2>4. Future' = << >>
        BY <2>1, Mapping DEF FutureOf
    <2>5. Len(Append(Past, offset)) = undos + 1
        BY <2>3
    <2>6. CASE undos < R_IO_UNDOS - 1
        <3>1. undos \in 0 .. R_IO_UNDOS - 2 /\ undos' = undos + 1
            BY <2>1, <2>2, <2>6
        <3>2. Past' = Append(Past, offset)
            <4>1. PastOf([seek EXCEPT ![idx] = e], After(idx), undos + 1)
                     = Append(PastOf(seek, idx, undos), e.off)
                BY <2>2, <3>1, PushPast
            <4> QED  BY <2>1, <2>2, <3>1, <4>1, Mapping
        <3> QED  BY <2>1, <2>2, <2>4, <2>5, <2>6, <3>2 DEF Log!Go, Log!Remembered
    <2>7. CASE undos = R_IO_UNDOS - 1
        <3>1. undos' = R_IO_UNDOS - 1
            BY <2>1, <2>2, <2>7
        <3>2. Past' = SubSeq(Append(Past, offset), 2, R_IO_UNDOS)
            BY <2>1, <2>2, <2>7, <3>1, PushFullPast, Mapping
        <3>3. 1 + Len(Append(Past, offset)) - (R_IO_UNDOS - 1) = 2
              /\ Len(Append(Past, offset)) = R_IO_UNDOS /\ R_IO_UNDOS > R_IO_UNDOS - 1
            BY <2>2, <2>5, <2>7
        <3>4. Past' \in Log!Remembered(offset)
            BY <3>2, <3>3 DEF Log!Remembered
        <3>5. ~(redos' > 0)
            BY <2>1
        <3> QED  BY <2>1, <2>4, <3>4, <3>5 DEF Log!Go
    <2> QED  BY <2>2, <2>6, <2>7
<1> QED  BY <1>1, <1>2

\* r_io_sundo is a step back along the line.
LEMMA UndoGoesBack ==
    ASSUME TypeOK, NEW visual \in BOOLEAN, r_io_sundo(visual)
    PROVE  Log!Undo
<1>1. /\ seek \in [Slots -> Entry] /\ idx \in Slots /\ R_IO_UNDOS \in Nat \ {0, 1}
      /\ undos \in 1 .. R_IO_UNDOS - 1 /\ redos \in 0 .. R_IO_UNDOS - 2
    BY SeekAssumption DEF TypeOK, r_io_sundo
<1>2. /\ idx' = Before(idx) /\ undos' = undos - 1 /\ redos' = redos + 1
      /\ offset' = seek'[idx'].off /\ went' = FALSE
      /\ seek' = IF redos > 0 THEN seek
                 ELSE [seek EXCEPT ![idx] = [off |-> offset, cursor |-> 0]]
    BY DEF r_io_sundo
<1>3. seek' \in [Slots -> Entry] /\ \A j \in Slots \ {idx} : seek'[j] = seek[j]
    <2>1. [off |-> offset, cursor |-> 0] \in Entry
        BY SeekAssumption DEF Entry, TypeOK
    <2> QED  BY <1>1, <1>2, <2>1
<1>4. Before(idx) \in Slots \ {idx}
    BY <1>1, OneStep, InRing
<1>5. Past # << >> /\ Past[Len(Past)] = seek[Before(idx)].off
    BY <1>1, LastPast, Mapping
<1>6. offset' = Past[Len(Past)] /\ seek'[idx'].off = Past[Len(Past)]
    BY <1>2, <1>3, <1>4, <1>5
<1>7. Past' = SubSeq(Past, 1, Len(Past) - 1)
    <2>1. PastOf(seek', Before(idx), undos - 1) =
             SubSeq(PastOf(seek, idx, undos), 1, Len(PastOf(seek, idx, undos)) - 1)
        BY <1>1, <1>3, FrontPast
    <2> QED  BY <1>2, <2>1, Mapping
<1>8. Future' = <<seek'[idx].off>> \o FutureOf(seek', idx, redos)
    <2>1. FutureOf(seek', Before(idx), redos + 1) =
             <<seek'[idx].off>> \o FutureOf(seek', idx, redos)
        BY <1>1, <1>3, UndoFuture
    <2> QED  BY <1>2, <2>1, Mapping
<1>9. redos' > 0
    BY <1>1, <1>2
<1>10. CASE redos > 0
    <2>1. seek' = seek /\ Future # << >>
        BY <1>1, <1>2, <1>10, RedoFuture, Mapping
    <2>2. Future' = <<seek[idx].off>> \o Future
        BY <1>8, <2>1, Mapping
    <2> QED  BY <1>2, <1>5, <1>6, <1>7, <1>9, <1>10, <2>1, <2>2
             DEF Log!Undo, Log!Last, Log!Front
<1>11. CASE redos = 0
    <2>1. ~(redos > 0)
        BY <1>11
    <2>2. seek'[idx].off = offset
        BY <1>1, <1>2, <2>1
    <2>3. Future = << >> /\ FutureOf(seek', idx, redos) = << >>
        BY <1>11, Mapping DEF FutureOf
    <2>4. Future' = <<offset>> \o Future
        BY <1>8, <2>2, <2>3
    <2> QED  BY <1>2, <1>5, <1>6, <1>7, <1>9, <2>1, <2>3, <2>4
             DEF Log!Undo, Log!Last, Log!Front
<1> QED  BY <1>1, <1>10, <1>11

\* r_io_sundo_redo is a step forward.
LEMMA RedoGoesOn ==
    ASSUME TypeOK, NEW visual \in BOOLEAN, r_io_sundo_redo(visual)
    PROVE  Log!Redo
<1>1. /\ seek \in [Slots -> Entry] /\ idx \in Slots /\ R_IO_UNDOS \in Nat \ {0, 1}
      /\ undos \in 0 .. R_IO_UNDOS - 2 /\ redos \in 1 .. R_IO_UNDOS - 1
    BY SeekAssumption DEF TypeOK, r_io_sundo_redo
<1>2. /\ idx' = After(idx) /\ undos' = undos + 1 /\ redos' = redos - 1
      /\ offset' = seek[idx'].off /\ went' = FALSE /\ seek' = seek /\ redos > 0
    BY DEF r_io_sundo_redo
<1>3. /\ Future # << >> /\ Head(Future) = seek[After(idx)].off
      /\ Future' = Tail(Future) /\ Len(Tail(Future)) = redos - 1
    BY <1>1, <1>2, RedoFuture, Mapping
<1>4. Past' = Past \o <<seek[idx].off>>
    <2>1. [seek EXCEPT ![idx] = seek[idx]] = seek /\ seek[idx] \in Entry
        BY <1>1
    <2>2. PastOf(seek, After(idx), undos + 1) = Append(PastOf(seek, idx, undos), seek[idx].off)
        BY <1>1, <2>1, PushPast
    <2>3. Past \in Seq(Offsets) /\ seek[idx].off \in Offsets
        BY <1>1, PastSeq, Mapping DEF Entry
    <2>4. Append(Past, seek[idx].off) = Past \o <<seek[idx].off>>
        BY <2>3
    <2> QED  BY <1>2, <2>2, <2>4, Mapping
<1>5. Tail(Future) = << >> <=> ~(redos' > 0)
    <2>1. Tail(Future) \in Seq(Offsets)
        <3>1. FutureOf(seek, After(idx), redos - 1) \in Seq(Offsets)
            BY <1>1, FutureSeq, OneStep, InRing
        <3> QED  BY <1>2, <1>3, <3>1, Mapping
    <2>2. \A q \in Seq(Offsets) : q = << >> <=> Len(q) = 0
        OBVIOUS
    <2>3. Tail(Future) = << >> <=> redos - 1 = 0
        BY <1>3, <2>1, <2>2, Zenon
    <2> QED  BY <1>1, <1>2, <2>3
<1>6. offset' = Head(Future) /\ seek'[idx'].off = Head(Future)
    BY <1>2, <1>3
<1> QED  BY <1>2, <1>3, <1>4, <1>5, <1>6 DEF Log!Redo

\* The ring implements SeekLog, whatever its size: r_io_sundo and
\* r_io_sundo_redo go along the places that were left, in order, and a new
\* seek drops the redos.  Outside the border a push is never dropped wrongly.
THEOREM RingImplementsLog ==
    ASSUME "stale_equal" \notin Borders
    PROVE  Spec => LogSpec
<1>1. Init => Log!Init
    BY DEF Init, Log!Init, Past, Future
<1>2. TypeOK /\ [Next]_vars => [Log!Next]_(Log!vars)
    <2> SUFFICES ASSUME TypeOK, [Next]_vars
                 PROVE  [Log!Next]_(Log!vars)
        OBVIOUS
    <2>1. ASSUME NEW to \in Offsets, NEW cur \in Cursors, CmdSeek(to, cur)
          PROVE  Log!Next
        BY <2>1, SeekGoes DEF Log!Next
    <2>2. ASSUME NEW to \in Offsets, NEW cur \in Cursors, CmdMove(to, cur)
          PROVE  Log!Move(to)
        BY <2>2 DEF CmdMove, Log!Move, Past, Future
    <2>3. ASSUME NEW visual \in BOOLEAN, r_io_sundo(visual)
          PROVE  Log!Undo
        BY <2>3, UndoGoesBack
    <2>4. ASSUME NEW visual \in BOOLEAN, r_io_sundo_redo(visual)
          PROVE  Log!Redo
        BY <2>4, RedoGoesOn
    <2>5. ASSUME r_io_sundo_reset
          PROVE  Log!Forget
        BY <2>5 DEF r_io_sundo_reset, Log!Forget, Past, Future, place
    <2>6. ASSUME UNCHANGED vars
          PROVE  UNCHANGED Log!vars
        BY <2>6 DEF vars, place, Log!vars, Past, Future
    <2> QED  BY <2>1, <2>2, <2>3, <2>4, <2>5, <2>6 DEF Next, Log!Next
<1> QED  BY <1>1, <1>2, TypeCorrect, PTL DEF Spec, LogSpec, Log!Spec

=============================================================================

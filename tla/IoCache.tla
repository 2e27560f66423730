------------------------------ MODULE IoCache ------------------------------
(***************************************************************************)
(* The write cache of libr/io/cache.c: with io.cache set, r_io_write_at    *)
(* appends to a list of changes that r_io_read_at lays over the file, and  *)
(* the wc commands commit, drop or take back what is in it.  One file      *)
(* without maps and sections; addresses have a width.                      *)
(***************************************************************************)
EXTENDS Integers, Sequences, SequencesExt, FiniteSetsExt

CONSTANTS
    Width,      \* number of addresses, 2^64 in the code
    Byte,
    MaxLen,     \* longest write
    MaxCache,   \* bound on the changes in the cache
    Borders     \* subset of AllBorders

AllBorders == {
    "top",       \* a change ends at the last address
    "beneath"}   \* io.cache is set after writes beneath changes it kept

ASSUME IoAssumption ==
    /\ {Width, MaxLen, MaxCache} \subseteq Nat \ {0} /\ MaxLen <= Width
    /\ Borders \subseteq AllBorders

Addr == 0 .. Width - 1
Data == UNION {[1 .. n -> Byte] : n \in 1 .. MaxLen}

VARIABLES
    file,       \* the bytes of the file
    writable,   \* it can be written
    cache,      \* io->cache
    cached,     \* io->cached, 0 or 1 between two calls
    \* history, read by the properties only
    fresh,      \* what the user has written last, and not taken back
    beneath,    \* addresses written to the file beneath changes of the cache
    committed   \* wci was given after the last write

vars == <<file, writable, cache, cached, fresh, beneath, committed>>

Within(border, condition) == condition => border \in Borders

\* r_io_new, with a file.
Init ==
    /\ file \in [Addr -> Byte] /\ fresh = file
    /\ writable \in BOOLEAN
    /\ cache = << >> /\ cached = 0
    /\ beneath = {} /\ committed = FALSE

----------------------------------------------------------------------------
(* Reading.                                                                *)

\* c->to, which wraps.
End(c) == (c.from + Len(c.data)) % Width

\* r_range_overlap (addr, addr + len - 1, c->from, c->to, &ret).
Overlap(addr, len, c) == ~(addr + len - 1 < c.from \/ addr > End(c))

\* Mutated: a change that starts before the read is copied from its start.
CopyNoSkip(addr, len, buf, c) ==
    LET ret == c.from - addr
        da  == Max({ret, 0})
        db  == 0
        l   == Min({Len(c.data) - db, len - da})
    IN  IF ~Overlap(addr, len, c) \/ l < 1 THEN buf
        ELSE [i \in DOMAIN buf |->
                IF i \in da .. da + l - 1 THEN c.data[db + i - da + 1] ELSE buf[i]]

\* The body of the loop of r_io_cache_read for the change c: l bytes from db
\* in the change to da in the buffer.
Copy(addr, len, buf, c) ==
    LET ret == c.from - addr
        da  == Max({ret, 0})
        db  == Max({-ret, 0})
        l   == Min({Len(c.data) - db, len - da})
    IN  IF ~Overlap(addr, len, c) \/ l < 1 THEN buf
        ELSE [i \in DOMAIN buf |->
                IF i \in da .. da + l - 1 THEN c.data[db + i - da + 1] ELSE buf[i]]

\* The changes s are copied in the order of the list.
r_io_cache_read(s, addr, len, buf) ==
    LET read[n \in 0 .. Len(s)] == IF n = 0 THEN buf ELSE Copy(addr, len, read[n - 1], s[n])
    IN  read[Len(s)]

FileRead(addr, len) == [i \in 0 .. len - 1 |-> file[addr + i]]

r_io_read_at(addr, len) ==
    IF cached # 0 THEN r_io_cache_read(cache, addr, len, FileRead(addr, len))
    ELSE FileRead(addr, len)

----------------------------------------------------------------------------
(* Writing.  A state of files and changes is [file, cache]; mode is        *)
(* io->cached, which commit and invalidate set to 2 for their own writes.  *)

Fits(addr, data) == addr + Len(data) <= Width

WriteFile(f, addr, data) ==
    [a \in Addr |-> IF a \in addr .. addr + Len(data) - 1 THEN data[a - addr + 1] ELSE f[a]]

\* Mutated: only one old byte is kept.
CacheWriteOneOld(mode, s, addr, data) ==
    IF mode = 2 THEN [done |-> FALSE, state |-> s]
    ELSE [done  |-> TRUE,
          state |-> [s EXCEPT !.cache = Append(@,
                        [from |-> addr, data |-> data, written |-> FALSE,
                         odata |-> <<s.file[addr]>>])]]

\* r_io_cache_write does nothing in mode 2; the old bytes come from the file.
r_io_cache_write(mode, s, addr, data) ==
    IF mode = 2 THEN [done |-> FALSE, state |-> s]
    ELSE [done  |-> TRUE,
          state |-> [s EXCEPT !.cache = Append(@,
                        [from |-> addr, data |-> data, written |-> FALSE,
                         odata |-> [i \in DOMAIN data |-> s.file[addr + i - 1]]])]]

\* The first change that lies in a range, 0 without one.
FirstIn(s, from, to) ==
    LET in == {i \in DOMAIN s : s[i].from >= from /\ End(s[i]) <= to}
    IN  IF in = {} THEN 0 ELSE Min(in)

\* r_io_cache_invalidate: writing the old bytes back fails in mode 2, and the
\* change is dropped unless it was committed.  The code clears c->written in
\* a dropped change too, after r_list_delete has freed it; nothing reads it.
r_io_cache_invalidate(s, from, to) ==
    LET i    == FirstIn(s.cache, from, to)
        c    == s.cache[i]
        back == r_io_cache_write(2, s, c.from, c.odata).state
    IN  IF from >= to \/ i = 0 THEN s
        ELSE IF c.written THEN [back EXCEPT !.cache[i].written = FALSE]
        ELSE [back EXCEPT !.cache = RemoveAt(@, i)]

\* r_io_write_at with r_io_write; a failed write takes back a change of one
\* byte at the same address.
r_io_write_at(mode, s, addr, data) ==
    IF mode # 0 THEN r_io_cache_write(mode, s, addr, data)
    ELSE IF writable THEN [done  |-> TRUE,
                           state |-> [s EXCEPT !.file = WriteFile(@, addr, data)]]
    ELSE [done |-> FALSE, state |-> r_io_cache_invalidate(s, addr, (addr + 1) % Width)]

\* r_io_cache_commit: the first change of the range.
r_io_cache_commit(s, from, to) ==
    LET i == FirstIn(s.cache, from, to)
        w == r_io_write_at(2, s, s.cache[i].from, s.cache[i].data)
    IN  IF i = 0 THEN s
        ELSE [w.state EXCEPT !.cache[i].written = @ \/ w.done]

----------------------------------------------------------------------------
(* The commands.                                                           *)

Here == [file |-> file, cache |-> cache]
Becomes(s) == file' = s.file /\ cache' = s.cache

\* What the list of changes s shows of the file f, by definition: at every
\* address the latest change that covers it.
Covers(c, a) == a \in c.from .. c.from + Len(c.data) - 1
Layered(f, s) == [a \in Addr |->
    LET on == {i \in DOMAIN s : Covers(s[i], a)}
    IN  IF on = {} THEN f[a] ELSE s[Max(on)].data[a - s[Max(on)].from + 1]]

Shown(s, mode) == IF mode = 0 THEN s.file ELSE Layered(s.file, s.cache)

CmdWrite(addr, data) ==
    LET w == r_io_write_at(cached, Here, addr, data)
    IN  /\ Fits(addr, data) /\ Len(cache) < MaxCache
        /\ Within("top", cached # 0 /\ addr + Len(data) = Width)
        /\ Becomes(w.state)
        /\ fresh' = IF w.done THEN WriteFile(fresh, addr, data) ELSE fresh
        /\ beneath' = IF cached = 0 /\ w.done
                      THEN beneath \cup {a \in addr .. addr + Len(data) - 1 :
                                           \E i \in DOMAIN cache : Covers(cache[i], a)}
                      ELSE beneath
        /\ committed' = FALSE
        /\ UNCHANGED <<writable, cached>>

\* wci (the range of all addresses) and wc+.
CmdCommit(from, to) ==
    /\ Becomes(r_io_cache_commit(Here, from, to))
    /\ committed' = (from = 0 /\ to = Width - 1)
    /\ UNCHANGED <<writable, cached, fresh, beneath>>

\* wc-, which takes one change back, the oldest of the range.
CmdInvalidate(from, to) ==
    LET s == r_io_cache_invalidate(Here, from, to)
    IN  /\ Becomes(s) /\ fresh' = Shown(s, cached)
        /\ UNCHANGED <<writable, cached, beneath, committed>>

\* wcr and wc-*, which also turn the cache on, whatever io.cache says.
CmdReset ==
    /\ cache' = << >> /\ cached' = 1
    /\ fresh' = file /\ beneath' = {}
    /\ UNCHANGED <<file, writable, committed>>

\* What the user expects to see then: kept changes show again, except beneath
\* what was written to the file in the meantime.
Expected(on) == [a \in Addr |-> IF on = 0 \/ a \in beneath THEN file[a]
                                ELSE Layered(file, cache)[a]]

\* e io.cache: r_io_cache_enable.  The changes are kept, and not shown while
\* it is not set.  The node is a boolean (SETCB ("io.cache", "false")), so
\* r_config_set hands cb_iocache 0 or 1, and never the negative value for
\* which it would reset the cache.
r_io_cache_enable(on) ==
    /\ Within("beneath", on = 1 /\ beneath # {})
    /\ cached' = on
    /\ fresh' = Expected(on)
    /\ UNCHANGED <<file, writable, cache, beneath, committed>>

Next ==
    \/ \E addr \in Addr, data \in Data : CmdWrite(addr, data)
    \/ \E from, to \in Addr : CmdCommit(from, to) \/ CmdInvalidate(from, to)
    \/ CmdReset
    \/ \E on \in {0, 1} : r_io_cache_enable(on)

Spec == Init /\ [][Next]_vars

----------------------------------------------------------------------------
(* Properties.                                                             *)

Change == [from : Addr, data : Data, odata : Data, written : BOOLEAN]

\* Changes are within the address space and know as many old bytes as new ones.
TypeOK ==
    /\ file \in [Addr -> Byte] /\ fresh \in [Addr -> Byte]
    /\ writable \in BOOLEAN /\ cached \in {0, 1}
    /\ cache \in Seq(Change) /\ Len(cache) <= MaxCache
    /\ \A i \in DOMAIN cache :
          Fits(cache[i].from, cache[i].data) /\ Len(cache[i].odata) = Len(cache[i].data)

\* A read of any length (the arithmetic of r_io_cache_read) returns at every
\* address what was written there last, whatever writes, commits, undone
\* changes and changes of io.cache came before.
LastWrite ==
    \A addr \in Addr, len \in 1 .. Width : addr + len <= Width =>
        \A i \in 0 .. len - 1 : r_io_read_at(addr, len)[i] = fresh[addr + i]

\* After wci ("commit write cache") the file holds what was written.
WciCommits == (committed /\ writable) => file = fresh
=============================================================================

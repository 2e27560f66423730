--------------------------- MODULE IoCacheProofs ---------------------------
(***************************************************************************)
(* Theorems about IoCache for every width of addresses, length of writes   *)
(* and number of changes: types, that a read returns what was written      *)
(* last, and that the file does while io.cache is not set.                 *)
(*                                                                         *)
(* Facts about a list of changes are inductions on its length; they are    *)
(* proofs that the least length at which they fail does not exist.         *)
(***************************************************************************)
EXTENDS IoCache, TLAPS, WellFoundedInduction, SequenceTheorems

----------------------------------------------------------------------------
(* Numbers, data and lists.                                                *)

\* A non-empty set of naturals has a least element.
LEMMA LeastNatural ==
    ASSUME NEW S, S \subseteq Nat, S # {}
    PROVE  \E i \in S : \A j \in S : i <= j
<1>1. PICK i \in S : \A j \in S : ~ (<<j, i>> \in OpToRel(<, Nat))
    BY NatLessThanWellFounded, WFMin
<1>2. \A j \in S : ~ (j < i)
    BY <1>1 DEF OpToRel
<1> QED  BY <1>2

\* A non-empty set of numbers from 1 to n has a greatest element, and Max
\* finds it.
LEMMA GreatestUpTo ==
    ASSUME NEW n \in Nat, NEW S, S \subseteq 1 .. n, S # {}
    PROVE  Max(S) \in S /\ \A j \in S : j <= Max(S)
<1> DEFINE T == {k \in Nat : n - k \in S}
<1>1. PICK s \in S : TRUE
    OBVIOUS
<1>2. n - s \in T
    OBVIOUS
<1>3. PICK k \in T : \A l \in T : k <= l
    BY <1>2, LeastNatural
<1>4. n - k \in S
    OBVIOUS
<1>5. ASSUME NEW j \in S PROVE j <= n - k
    <2>1. n - j \in T
        OBVIOUS
    <2>2. k <= n - j
        BY <2>1, <1>3
    <2>3. k \in Nat /\ j \in Nat
        OBVIOUS
    <2> HIDE DEF T
    <2> QED  BY <2>2, <2>3
<1>6. \E i \in S : \A j \in S : i >= j
    <2>1. \A j \in S : n - k >= j
        BY <1>4, <1>5
    <2> QED  BY <1>4, <2>1
<1>7. Max(S) \in S /\ \A j \in S : Max(S) >= j
    BY <1>6 DEF Max
<1> QED  BY <1>7

LEMMA LeastOf ==
    ASSUME NEW S, S \subseteq Nat, S # {}
    PROVE  Min(S) \in S /\ \A j \in S : Min(S) <= j
BY LeastNatural DEF Min

\* R_MIN and R_MAX.
LEMMA MaxOfTwo ==
    ASSUME NEW a \in Int, NEW b \in Int
    PROVE  Max({a, b}) = IF a >= b THEN a ELSE b
<1>1. \E x \in {a, b} : \A y \in {a, b} : x >= y
    OBVIOUS
<1>2. Max({a, b}) \in {a, b} /\ \A y \in {a, b} : Max({a, b}) >= y
    BY <1>1 DEF Max
<1> QED  BY <1>2

LEMMA MinOfTwo ==
    ASSUME NEW a \in Int, NEW b \in Int
    PROVE  Min({a, b}) = IF a <= b THEN a ELSE b
<1>1. \E x \in {a, b} : \A y \in {a, b} : x <= y
    OBVIOUS
<1>2. Min({a, b}) \in {a, b} /\ \A y \in {a, b} : Min({a, b}) <= y
    BY <1>1 DEF Min
<1> QED  BY <1>2

LEMMA DataIs ==
    ASSUME NEW d \in Data
    PROVE  /\ d \in Seq(Byte) /\ Len(d) \in 1 .. MaxLen /\ DOMAIN d = 1 .. Len(d)
           /\ \A i \in 1 .. Len(d) : d[i] \in Byte
<1>1. PICK n \in 1 .. MaxLen : d \in [1 .. n -> Byte]
    BY DEF Data
<1>2. n \in Nat
    OBVIOUS
<1>3. d \in Seq(Byte)
    BY <1>1, <1>2, SeqDef
<1>4. DOMAIN d = 1 .. Len(d) /\ Len(d) \in Nat
    BY <1>3
<1>5. Len(d) = n
    BY <1>1, <1>2, <1>4
<1> QED  BY <1>1, <1>3, <1>5

LEMMA DataOf ==
    ASSUME NEW n \in 1 .. MaxLen, NEW d \in [1 .. n -> Byte]
    PROVE  d \in Data /\ Len(d) = n
<1>1. d \in Data
    BY DEF Data
<1>2. DOMAIN d = 1 .. Len(d) /\ Len(d) \in Nat /\ DOMAIN d = 1 .. n /\ n \in Nat
    BY <1>1, DataIs
<1> QED  BY <1>1, <1>2

\* Removing a position leaves elements of the list.
LEMMA RemoveAtIs ==
    ASSUME NEW T, NEW s \in Seq(T), NEW i \in 1 .. Len(s)
    PROVE  /\ RemoveAt(s, i) \in Seq(T)
           /\ Len(RemoveAt(s, i)) = Len(s) - 1
           /\ \A j \in 1 .. (Len(s) - 1) : \E l \in 1 .. Len(s) : RemoveAt(s, i)[j] = s[l]
<1> DEFINE a == SubSeq(s, 1, i - 1)
           b == SubSeq(s, i + 1, Len(s))
<1>1. a \in Seq(T) /\ Len(a) = i - 1 /\ \A j \in 1 .. (i - 1) : a[j] = s[j]
    OBVIOUS
<1>2. b \in Seq(T) /\ Len(b) = Len(s) - i /\ \A j \in 1 .. (Len(s) - i) : b[j] = s[j + i]
    OBVIOUS
<1>3. RemoveAt(s, i) = a \o b
    BY DEF RemoveAt
<1> HIDE DEF a, b
<1>4. a \o b \in Seq(T) /\ Len(a \o b) = Len(a) + Len(b)
    BY <1>1, <1>2, ConcatProperties
<1>5. \A j \in 1 .. Len(a) + Len(b) : (a \o b)[j] = IF j <= Len(a) THEN a[j] ELSE b[j - Len(a)]
    BY <1>1, <1>2
<1>6. ASSUME NEW j \in 1 .. (Len(s) - 1) PROVE \E l \in 1 .. Len(s) : (a \o b)[j] = s[l]
    <2>1. CASE j < i
        <3>1. (a \o b)[j] = s[j]
            BY <2>1, <1>1, <1>2, <1>5
        <3> QED  BY <3>1
    <2>2. CASE ~(j < i)
        <3>1. (a \o b)[j] = b[j - (i - 1)]
            BY <2>2, <1>1, <1>2, <1>5
        <3>2. j - (i - 1) \in 1 .. (Len(s) - i)
            BY <2>2
        <3>3. (a \o b)[j] = s[(j - (i - 1)) + i]
            BY <3>1, <3>2, <1>2
        <3>4. (j - (i - 1)) + i \in 1 .. Len(s)
            BY <2>2
        <3> QED  BY <3>3, <3>4
    <2> QED  BY <2>1, <2>2
<1>7. Len(a \o b) = Len(s) - 1
    BY <1>1, <1>2, <1>4
<1> QED  BY <1>3, <1>4, <1>6, <1>7

----------------------------------------------------------------------------
(* Type correctness.                                                       *)

\* What TypeOK says of one change.
WholeChange(c) == c \in Change /\ Fits(c.from, c.data) /\ Len(c.odata) = Len(c.data)

CacheOK(q) ==
    /\ q \in Seq(Change) /\ Len(q) <= MaxCache
    /\ \A i \in 1 .. Len(q) : WholeChange(q[i])

LEMMA Typed ==
    TypeOK <=> /\ file \in [Addr -> Byte] /\ fresh \in [Addr -> Byte]
               /\ writable \in BOOLEAN /\ cached \in {0, 1}
               /\ CacheOK(cache)
<1>1. ASSUME cache \in Seq(Change)
      PROVE  /\ DOMAIN cache = 1 .. Len(cache)
             /\ \A i \in 1 .. Len(cache) : cache[i] \in Change
    BY <1>1
<1> QED  BY <1>1 DEF TypeOK, CacheOK, WholeChange

LEMMA TypedNext ==
    TypeOK' <=> /\ file' \in [Addr -> Byte] /\ fresh' \in [Addr -> Byte]
                /\ writable' \in BOOLEAN /\ cached' \in {0, 1}
                /\ CacheOK(cache')
<1>1. ASSUME cache' \in Seq(Change)
      PROVE  /\ DOMAIN cache' = 1 .. Len(cache')
             /\ \A i \in 1 .. Len(cache') : cache'[i] \in Change
    BY <1>1
<1> QED  BY <1>1 DEF TypeOK, CacheOK, WholeChange, Change, Fits, Data, Addr

LEMMA Numbers ==
    /\ Width \in Nat \ {0} /\ MaxLen \in Nat \ {0} /\ MaxCache \in Nat \ {0} /\ MaxLen <= Width
    /\ Addr = 0 .. Width - 1
BY IoAssumption DEF Addr

\* p is q after one change was dropped, or forgot that it was committed.
TakenBack(p, q) ==
    \/ p = q
    \/ \E i \in 1 .. Len(q) : \/ p = RemoveAt(q, i)
                              \/ p = [q EXCEPT ![i].written = FALSE]

\* r_io_cache_invalidate leaves the file alone: its write fails.  It drops
\* one change, or forgets that it was committed.
LEMMA InvalidateEffect ==
    ASSUME NEW f, NEW q, CacheOK(q), NEW from, NEW to, NEW r,
           r = r_io_cache_invalidate([file |-> f, cache |-> q], from, to)
    PROVE  r.file = f /\ TakenBack(r.cache, q)
<1> DEFINE in == {i \in DOMAIN q : q[i].from >= from /\ End(q[i]) <= to}
           s == [file |-> f, cache |-> q]
           i == FirstIn(q, from, to)
<1>1. DOMAIN q = 1 .. Len(q) /\ Len(q) \in Nat
    BY DEF CacheOK
<1>2. i = 0 \/ i \in 1 .. Len(q)
    <2>1. in \subseteq Nat /\ in \subseteq 1 .. Len(q)
        BY <1>1
    <2>2. in # {} => Min(in) \in in
        BY <2>1, LeastOf
    <2> HIDE DEF in
    <2>3. i = IF in = {} THEN 0 ELSE Min(in)
        BY DEF FirstIn, in
    <2> QED  BY <2>1, <2>2, <2>3
<1>3. \A addr, data : r_io_cache_write(2, s, addr, data).state = s
    BY DEF r_io_cache_write
<1> HIDE DEF i, in
<1>4. r = IF from >= to \/ i = 0 THEN s
          ELSE IF q[i].written THEN [s EXCEPT !.cache[i].written = FALSE]
          ELSE [s EXCEPT !.cache = RemoveAt(@, i)]
    BY <1>3 DEF r_io_cache_invalidate, i
<1>5. CASE from >= to \/ i = 0
    BY <1>4, <1>5 DEF TakenBack
<1>6. CASE ~(from >= to \/ i = 0) /\ q[i].written
    BY <1>2, <1>4, <1>6 DEF TakenBack
<1>7. CASE ~(from >= to \/ i = 0) /\ ~q[i].written
    BY <1>2, <1>4, <1>7 DEF TakenBack
<1> QED  BY <1>5, <1>6, <1>7

\* r_io_cache_commit writes nothing: its write fails, and the change is not
\* marked.
LEMMA CommitEffect ==
    ASSUME NEW f, NEW q, CacheOK(q), NEW from, NEW to, NEW r,
           r = r_io_cache_commit([file |-> f, cache |-> q], from, to)
    PROVE  r.file = f /\ r.cache = q
<1> DEFINE s == [file |-> f, cache |-> q]
           i == FirstIn(q, from, to)
<1>1. \A addr, data : r_io_write_at(2, s, addr, data) = [done |-> FALSE, state |-> s]
    BY DEF r_io_write_at, r_io_cache_write
<1>2. r = IF i = 0 THEN s ELSE [s EXCEPT !.cache[i].written = @ \/ FALSE]
    <2>1. PICK w : w = r_io_write_at(2, s, s.cache[i].from, s.cache[i].data)
        OBVIOUS
    <2>2. w.done = FALSE /\ w.state = s
        BY <1>1, <2>1
    <2>3. r = IF i = 0 THEN s ELSE [w.state EXCEPT !.cache[i].written = @ \/ w.done]
        BY <2>1 DEF r_io_cache_commit
    <2> HIDE DEF s, i
    <2> QED  BY <2>2, <2>3
<1>3. [q EXCEPT ![i].written = @ \/ FALSE] = q
    <2>1. CASE i \in DOMAIN q
        <3>1. q[i] \in Change
            BY <2>1 DEF CacheOK
        <3>2. q[i].written \in BOOLEAN
            BY <3>1 DEF Change
        <3>3. (q[i].written \/ FALSE) = q[i].written
            BY <3>2
        <3>4. [q[i] EXCEPT !.written = q[i].written] = q[i]
            BY <3>1 DEF Change
        <3>5. [q EXCEPT ![i] = q[i]] = q
            BY DEF CacheOK
        <3>6. [q EXCEPT ![i].written = @ \/ FALSE] = [q EXCEPT ![i] = [q[i] EXCEPT !.written = q[i].written \/ FALSE]]
            OBVIOUS
        <3> QED  BY <3>3, <3>4, <3>5, <3>6
    <2>2. CASE i \notin DOMAIN q
        BY <2>2 DEF CacheOK
    <2> QED  BY <2>1, <2>2
<1> HIDE DEF i
<1> QED  BY <1>2, <1>3

LEMMA InvalidateType ==
    ASSUME NEW q, CacheOK(q), NEW p, TakenBack(p, q)
    PROVE  CacheOK(p)
<1>0. q \in Seq(Change) /\ Len(q) \in Nat /\ Len(q) <= MaxCache
    BY DEF CacheOK
<1>1. CASE p = q
    BY <1>1
<1>2. ASSUME NEW i \in 1 .. Len(q), p = RemoveAt(q, i) PROVE CacheOK(p)
    <2>1. /\ p \in Seq(Change) /\ Len(p) = Len(q) - 1
          /\ \A j \in 1 .. (Len(q) - 1) : \E l \in 1 .. Len(q) : p[j] = q[l]
        <3>1. PICK T : T = Change
            OBVIOUS
        <3>2. q \in Seq(T)
            BY <1>0, <3>1
        <3>3. /\ RemoveAt(q, i) \in Seq(T)
              /\ Len(RemoveAt(q, i)) = Len(q) - 1
              /\ \A j \in 1 .. (Len(q) - 1) : \E l \in 1 .. Len(q) : RemoveAt(q, i)[j] = q[l]
            BY <3>2, RemoveAtIs
        <3> QED  BY <1>2, <3>1, <3>3
    <2>2. \A j \in 1 .. Len(p) : WholeChange(p[j])
        BY <2>1 DEF CacheOK
    <2>3. Len(p) <= MaxCache
        BY <2>1, <1>0, Numbers
    <2> QED  BY <2>1, <2>2, <2>3 DEF CacheOK
<1>3. ASSUME NEW i \in 1 .. Len(q), p = [q EXCEPT ![i].written = FALSE] PROVE CacheOK(p)
    <2>1. PICK c : c = [q[i] EXCEPT !.written = FALSE]
        OBVIOUS
    <2>2. WholeChange(q[i])
        BY DEF CacheOK
    <2>3. c \in Change /\ c.from = q[i].from /\ c.data = q[i].data /\ c.odata = q[i].odata
        BY <2>1, <2>2 DEF WholeChange, Change
    <2>4. WholeChange(c)
        BY <2>2, <2>3 DEF WholeChange
    <2>5. p = [q EXCEPT ![i] = c]
        BY <1>3, <2>1
    <2>6. p \in Seq(Change) /\ Len(p) = Len(q) /\ \A j \in 1 .. Len(q) : p[j] = IF j = i THEN c ELSE q[j]
        BY <2>3, <2>5, <1>0
    <2> QED  BY <2>4, <2>6, <1>0 DEF CacheOK
<1> QED  BY <1>1, <1>2, <1>3 DEF TakenBack

\* A change that is appended to the cache.
NewChange(addr, data) ==
    [from |-> addr, data |-> data, written |-> FALSE,
     odata |-> [i \in DOMAIN data |-> file[addr + i - 1]]]

LEMMA NewChangeType ==
    ASSUME file \in [Addr -> Byte], NEW addr \in Addr, NEW data \in Data, Fits(addr, data)
    PROVE  WholeChange(NewChange(addr, data))
<1>1. Len(data) \in 1 .. MaxLen /\ DOMAIN data = 1 .. Len(data)
    BY DataIs
<1>2. PICK n \in 1 .. MaxLen : n = Len(data)
    BY <1>1
<1>3. addr + n <= Width /\ addr \in Nat /\ n \in Nat /\ Width \in Nat
    BY <1>2, Numbers DEF Fits
<1>4. \A i \in 1 .. n : addr + i - 1 \in Addr
    BY <1>3, Numbers
<1>5. PICK o : o = [i \in DOMAIN data |-> file[addr + i - 1]]
    OBVIOUS
<1>6. o \in [1 .. n -> Byte]
    BY <1>1, <1>2, <1>4, <1>5
<1>7. o \in Data /\ Len(o) = Len(data)
    BY <1>2, <1>6, DataOf
<1>8. NewChange(addr, data) = [from |-> addr, data |-> data, written |-> FALSE, odata |-> o]
    BY <1>5 DEF NewChange
<1> QED  BY <1>7, <1>8 DEF WholeChange, Change

\* The three things that a write can do.
LEMMA WriteEffect ==
    ASSUME TypeOK, NEW addr \in Addr, NEW data \in Data, CmdWrite(addr, data)
    PROVE  /\ UNCHANGED <<writable, cached>> /\ Fits(addr, data) /\ Len(cache) < MaxCache
           /\ \/ /\ cached = 1 /\ file' = file
                 /\ cache' = Append(cache, NewChange(addr, data))
                 /\ fresh' = WriteFile(fresh, addr, data)
              \/ /\ cached = 0 /\ file' = WriteFile(file, addr, data) /\ cache' = cache
                 /\ fresh' = WriteFile(fresh, addr, data)
              \/ /\ cached = 0 /\ file' = file /\ fresh' = fresh
                 /\ TakenBack(cache', cache)
<1> DEFINE w == r_io_write_at(cached, Here, addr, data)
<1>1. /\ UNCHANGED <<writable, cached>> /\ Fits(addr, data) /\ Len(cache) < MaxCache
      /\ file' = w.state.file /\ cache' = w.state.cache
      /\ fresh' = IF w.done THEN WriteFile(fresh, addr, data) ELSE fresh
    BY DEF CmdWrite, Becomes
<1>2. CASE cached = 1
    <2>1. w = [done |-> TRUE, state |-> [Here EXCEPT !.cache = Append(@, NewChange(addr, data))]]
        BY <1>2 DEF r_io_write_at, r_io_cache_write, NewChange, Here
    <2> QED  BY <1>1, <1>2, <2>1 DEF Here
<1>3. CASE cached = 0 /\ writable
    <2>1. w = [done |-> TRUE, state |-> [Here EXCEPT !.file = WriteFile(@, addr, data)]]
        BY <1>3 DEF r_io_write_at
    <2> QED  BY <1>1, <1>3, <2>1 DEF Here
<1>4. CASE cached = 0 /\ ~writable
    <2>0. PICK to : to = (addr + 1) % Width
        OBVIOUS
    <2>1. PICK r : r = r_io_cache_invalidate([file |-> file, cache |-> cache], addr, to)
        OBVIOUS
    <2>2. w = [done |-> FALSE, state |-> r]
        BY <1>4, <2>0, <2>1 DEF r_io_write_at, Here
    <2>3. CacheOK(cache)
        BY Typed
    <2>4. r.file = file /\ TakenBack(r.cache, cache)
        BY <2>1, <2>3, InvalidateEffect
    <2> QED  BY <1>1, <1>4, <2>2, <2>4
<1> QED  BY <1>2, <1>3, <1>4, Typed

----------------------------------------------------------------------------
(* Changes laid over the file.                                             *)

\* What the first n changes of q show at an address.
On(q, n, a) == {i \in 1 .. n : Covers(q[i], a)}

LayeredTo(f, q, n, a) ==
    IF On(q, n, a) = {} THEN f[a]
    ELSE q[Max(On(q, n, a))].data[a - q[Max(On(q, n, a))].from + 1]

LEMMA LayeredIs ==
    ASSUME NEW f, NEW q, DOMAIN q = 1 .. Len(q), NEW a \in Addr
    PROVE  Layered(f, q)[a] = LayeredTo(f, q, Len(q), a)
BY DEF Layered, LayeredTo, On

LEMMA LayerNone ==
    ASSUME NEW f, NEW q, NEW a
    PROVE  LayeredTo(f, q, 0, a) = f[a]
BY DEF LayeredTo, On

LEMMA LayerStep ==
    ASSUME NEW f, NEW q, NEW n \in Nat \ {0}, NEW a
    PROVE  LayeredTo(f, q, n, a) = IF Covers(q[n], a) THEN q[n].data[a - q[n].from + 1]
                                   ELSE LayeredTo(f, q, n - 1, a)
<1>0. n \in Nat /\ n \in 1 .. n
    OBVIOUS
<1>1. CASE Covers(q[n], a)
    <2>1. n \in On(q, n, a) /\ On(q, n, a) \subseteq 1 .. n
        BY <1>0, <1>1 DEF On
    <2>2. Max(On(q, n, a)) \in On(q, n, a) /\ \A j \in On(q, n, a) : j <= Max(On(q, n, a))
        BY <1>0, <2>1, GreatestUpTo
    <2>3. Max(On(q, n, a)) = n
        BY <1>0, <2>1, <2>2
    <2> QED  BY <1>1, <2>1, <2>3 DEF LayeredTo
<1>2. CASE ~Covers(q[n], a)
    <2>1. On(q, n, a) = On(q, n - 1, a)
        BY <1>0, <1>2 DEF On
    <2> QED  BY <1>2, <2>1 DEF LayeredTo
<1> QED  BY <1>1, <1>2

\* The first n changes do not depend on those that follow.
LEMMA LayerSame ==
    ASSUME NEW f, NEW q, NEW p, NEW n \in Nat, \A i \in 1 .. n : p[i] = q[i], NEW a
    PROVE  LayeredTo(f, p, n, a) = LayeredTo(f, q, n, a)
<1>1. On(p, n, a) = On(q, n, a)
    BY DEF On
<1>2. CASE On(q, n, a) = {}
    BY <1>1, <1>2 DEF LayeredTo
<1>3. CASE On(q, n, a) # {}
    <2>1. On(q, n, a) \subseteq 1 .. n
        BY DEF On
    <2>2. Max(On(q, n, a)) \in 1 .. n
        BY <1>3, <2>1, GreatestUpTo
    <2>3. PICK m \in 1 .. n : m = Max(On(q, n, a))
        BY <2>2
    <2>4. LayeredTo(f, q, n, a) = q[m].data[a - q[m].from + 1]
        BY <1>3, <2>3 DEF LayeredTo
    <2>5. LayeredTo(f, p, n, a) = p[m].data[a - p[m].from + 1]
        BY <1>1, <1>3, <2>3 DEF LayeredTo
    <2> QED  BY <2>4, <2>5
<1> QED  BY <1>2, <1>3

\* A byte of a change.
LEMMA CoveredByte ==
    ASSUME NEW c, WholeChange(c), NEW a \in Addr, Covers(c, a)
    PROVE  c.data[a - c.from + 1] \in Byte /\ a - c.from + 1 \in 1 .. Len(c.data)
<1>1. c.data \in Data /\ c.from \in Addr
    BY DEF WholeChange, Change
<1>2. Len(c.data) \in Nat /\ \A i \in 1 .. Len(c.data) : c.data[i] \in Byte
    BY <1>1, DataIs, Numbers
<1>3. a \in Nat /\ c.from \in Nat /\ a >= c.from /\ a <= c.from + Len(c.data) - 1
    BY <1>1, <1>2, Numbers DEF Covers
<1>4. a - c.from + 1 \in 1 .. Len(c.data)
    BY <1>2, <1>3
<1> QED  BY <1>2, <1>4

LEMMA LayeredType ==
    ASSUME NEW f \in [Addr -> Byte], NEW q, CacheOK(q)
    PROVE  Layered(f, q) \in [Addr -> Byte]
<1>1. ASSUME NEW a \in Addr PROVE LayeredTo(f, q, Len(q), a) \in Byte
    <2>1. Len(q) \in Nat /\ On(q, Len(q), a) \subseteq 1 .. Len(q)
        BY DEF On, CacheOK
    <2>2. CASE On(q, Len(q), a) = {}
        BY <2>2 DEF LayeredTo
    <2>3. CASE On(q, Len(q), a) # {}
        <3>1. Max(On(q, Len(q), a)) \in On(q, Len(q), a)
            BY <2>1, <2>3, GreatestUpTo
        <3>2. PICK m : m = Max(On(q, Len(q), a))
            OBVIOUS
        <3>3. m \in 1 .. Len(q) /\ Covers(q[m], a)
            BY <3>1, <3>2 DEF On
        <3>4. WholeChange(q[m])
            BY <3>3 DEF CacheOK
        <3>5. q[m].data[a - q[m].from + 1] \in Byte
            BY <3>3, <3>4, CoveredByte
        <3> QED  BY <2>3, <3>2, <3>5 DEF LayeredTo
    <2> QED  BY <2>2, <2>3
<1>2. DOMAIN q = 1 .. Len(q)
    BY DEF CacheOK
<1>3. \A a \in Addr : Layered(f, q)[a] \in Byte
    BY <1>1, <1>2, LayeredIs
<1>4. Layered(f, q) = [a \in Addr |-> Layered(f, q)[a]]
    BY DEF Layered
<1> QED  BY <1>3, <1>4

LEMMA WriteFileType ==
    ASSUME NEW f \in [Addr -> Byte], NEW addr \in Addr, NEW data \in Data
    PROVE  WriteFile(f, addr, data) \in [Addr -> Byte]
<1>1. ASSUME NEW a \in Addr, a \in addr .. addr + Len(data) - 1
      PROVE  data[a - addr + 1] \in Byte
    <2>1. Len(data) \in Nat /\ \A i \in 1 .. Len(data) : data[i] \in Byte
        BY DataIs, Numbers
    <2>2. a \in Nat /\ addr \in Nat
        BY Numbers
    <2>3. a - addr + 1 \in 1 .. Len(data)
        BY <1>1, <2>1, <2>2
    <2> QED  BY <2>1, <2>3
<1> QED  BY <1>1 DEF WriteFile

LEMMA TypeNext == TypeOK /\ [Next]_vars => TypeOK'
<1> SUFFICES ASSUME TypeOK, [Next]_vars PROVE TypeOK'
    OBVIOUS
<1> USE Typed
<1>1. ASSUME NEW addr \in Addr, NEW data \in Data, CmdWrite(addr, data)
      PROVE  TypeOK'
    <2>1. /\ UNCHANGED <<writable, cached>> /\ Fits(addr, data) /\ Len(cache) < MaxCache
          /\ \/ /\ cached = 1 /\ file' = file
                /\ cache' = Append(cache, NewChange(addr, data))
                /\ fresh' = WriteFile(fresh, addr, data)
             \/ /\ cached = 0 /\ file' = WriteFile(file, addr, data) /\ cache' = cache
                /\ fresh' = WriteFile(fresh, addr, data)
             \/ /\ cached = 0 /\ file' = file /\ fresh' = fresh
                /\ TakenBack(cache', cache)
        BY <1>1, WriteEffect
    <2>2. file' \in [Addr -> Byte] /\ fresh' \in [Addr -> Byte]
        BY <2>1, WriteFileType
    <2>3. ASSUME cache' = Append(cache, NewChange(addr, data)) PROVE CacheOK(cache')
        <3>1. PICK c : c = NewChange(addr, data)
            OBVIOUS
        <3>2. WholeChange(c) /\ c \in Change
            BY <2>1, <3>1, NewChangeType DEF WholeChange
        <3>3. cache \in Seq(Change) /\ Len(cache) \in Nat /\ MaxCache \in Nat
            BY Numbers DEF CacheOK
        <3>4. /\ cache' \in Seq(Change) /\ Len(cache') = Len(cache) + 1
              /\ \A i \in 1 .. Len(cache) + 1 : cache'[i] = IF i = Len(cache) + 1 THEN c ELSE cache[i]
            BY <2>3, <3>1, <3>2, <3>3
        <3>5. \A i \in 1 .. Len(cache') : WholeChange(cache'[i])
            BY <3>2, <3>3, <3>4 DEF CacheOK
        <3> QED  BY <2>1, <3>3, <3>4, <3>5 DEF CacheOK
    <2>4. CacheOK(cache')
        BY <2>1, <2>3, InvalidateType
    <2> QED  BY <2>1, <2>2, <2>4, TypedNext
<1>2. ASSUME NEW from \in Addr, NEW to \in Addr, CmdCommit(from, to)
      PROVE  TypeOK'
    <2>1. PICK r : r = r_io_cache_commit([file |-> file, cache |-> cache], from, to)
        OBVIOUS
    <2>2. r.file = file /\ r.cache = cache
        BY <2>1, CommitEffect
    <2>3. file' = file /\ cache' = cache /\ UNCHANGED <<writable, cached, fresh>>
        BY <1>2, <2>1, <2>2 DEF CmdCommit, Becomes, Here
    <2> QED  BY <2>3, TypedNext
<1>3. ASSUME NEW from \in Addr, NEW to \in Addr, CmdInvalidate(from, to)
      PROVE  TypeOK'
    <2>1. PICK r : r = r_io_cache_invalidate([file |-> file, cache |-> cache], from, to)
        OBVIOUS
    <2>2. r.file = file /\ TakenBack(r.cache, cache)
        BY <2>1, InvalidateEffect
    <2>3. /\ file' = r.file /\ cache' = r.cache /\ fresh' = Shown(r, cached)
          /\ UNCHANGED <<writable, cached>>
        BY <1>3, <2>1 DEF CmdInvalidate, Becomes, Here
    <2>4. CacheOK(r.cache)
        BY <2>2, InvalidateType
    <2>5. Shown(r, cached) \in [Addr -> Byte]
        BY <2>2, <2>4, LayeredType DEF Shown
    <2> QED  BY <2>2, <2>3, <2>4, <2>5, TypedNext
<1>4. ASSUME CmdReset PROVE TypeOK'
    <2>1. CacheOK(<< >>)
        BY Numbers DEF CacheOK
    <2> QED  BY <1>4, <2>1, TypedNext DEF CmdReset
<1>5. ASSUME NEW on \in {0, 1}, r_io_cache_enable(on) PROVE TypeOK'
    <2>1. Layered(file, cache) \in [Addr -> Byte]
        BY LayeredType
    <2>2. Expected(on) \in [Addr -> Byte]
        BY <2>1 DEF Expected
    <2> QED  BY <1>5, <2>2, TypedNext DEF r_io_cache_enable
<1>6. CASE UNCHANGED vars
    BY <1>6, TypedNext DEF vars
<1> QED  BY <1>1, <1>2, <1>3, <1>4, <1>5, <1>6 DEF Next

\* Changes are within the address space and know as many old bytes as new
\* ones, through writes, commits, undone changes and resets of any cache.
THEOREM TypeCorrect == Spec => []TypeOK
<1>1. Init => TypeOK
    <2>1. CacheOK(<< >>)
        BY Numbers DEF CacheOK
    <2> QED  BY <2>1, Typed DEF Init
<1> QED  BY <1>1, TypeNext, PTL DEF Spec

----------------------------------------------------------------------------
(* Reading.                                                                *)

\* A change that ends before the last address, so that c->to does not wrap.
Below(c) == c.from + Len(c.data) < Width

\* The arithmetic of r_io_cache_read: l bytes from db in a change of n bytes
\* go to da in a buffer of len bytes.
CopyPlan(from, n, addr, len, da, db, l) ==
    /\ from \in Int /\ n \in Int /\ addr \in Int /\ len \in Int
    /\ da \in Int /\ db \in Int /\ l \in Int
    /\ n >= 1 /\ len >= 1
    /\ from >= addr => da = from - addr /\ db = 0
    /\ from < addr => da = 0 /\ db = addr - from
    /\ l <= n - db /\ l <= len - da /\ (l = n - db \/ l = len - da)

LEMMA CopyRange ==
    ASSUME NEW from, NEW n, NEW addr, NEW len, NEW i \in Int, NEW da, NEW db, NEW l,
           CopyPlan(from, n, addr, len, da, db, l), i >= 0, i <= len - 1
    PROVE  /\ db + i - da + 1 = (addr + i) - from + 1
           /\ addr + len - 1 < from \/ addr > from + n \/ l < 1
                 => ~(from <= addr + i /\ addr + i <= from + n - 1)
           /\ (da <= i /\ i <= da + l - 1) <=> (from <= addr + i /\ addr + i <= from + n - 1)
<1>1. CASE from >= addr
    BY <1>1 DEF CopyPlan
<1>2. CASE from < addr
    BY <1>2 DEF CopyPlan
<1> QED  BY <1>1, <1>2 DEF CopyPlan

\* The body of the loop of r_io_cache_read copies the bytes of the change
\* that the read asks for, and no others.
LEMMA CopyIs ==
    ASSUME NEW c, WholeChange(c), Below(c), NEW addr \in Addr, NEW len \in 1 .. Width,
           NEW buf, DOMAIN buf = 0 .. len - 1, NEW r, r = Copy(addr, len, buf, c)
    PROVE  /\ DOMAIN r = 0 .. len - 1
           /\ \A i \in 0 .. len - 1 :
                r[i] = IF Covers(c, addr + i) THEN c.data[(addr + i) - c.from + 1] ELSE buf[i]
<1>1. c.data \in Data /\ c.from \in Addr
    BY DEF WholeChange, Change
<1>2. PICK n \in Nat, from \in Nat : n = Len(c.data) /\ from = c.from /\ n >= 1
    BY <1>1, DataIs, Numbers
<1>3. Width \in Nat /\ addr \in Nat /\ len \in Nat /\ len >= 1
    BY Numbers
<1>4. End(c) = from + n
    <2>1. from + n \in Nat /\ from + n < Width /\ Width > 0
        BY <1>2, <1>3 DEF Below
    <2>2. (from + n) % Width = from + n
        BY <1>3, <2>1
    <2> QED  BY <1>2, <2>2 DEF End
<1>5. PICK da \in Int, db \in Int :
          /\ da = Max({c.from - addr, 0}) /\ db = Max({-(c.from - addr), 0})
          /\ from >= addr => da = from - addr /\ db = 0
          /\ from < addr => da = 0 /\ db = addr - from
    <2>1. PICK ret \in Int : ret = c.from - addr
        BY <1>2, <1>3
    <2>2. Max({ret, 0}) = IF ret >= 0 THEN ret ELSE 0
        BY MaxOfTwo
    <2>3. -ret \in Int /\ Max({-ret, 0}) = IF -ret >= 0 THEN -ret ELSE 0
        BY MaxOfTwo
    <2>4. ret = from - addr
        BY <1>2, <2>1
    <2>5. Max({ret, 0}) \in Int /\ Max({-ret, 0}) \in Int
        BY <2>2, <2>3
    <2>6. from >= addr => Max({ret, 0}) = from - addr /\ Max({-ret, 0}) = 0
        BY <1>2, <1>3, <2>2, <2>3, <2>4
    <2>7. from < addr => Max({ret, 0}) = 0 /\ Max({-ret, 0}) = addr - from
        BY <1>2, <1>3, <2>2, <2>3, <2>4
    <2> QED  BY <2>1, <2>5, <2>6, <2>7
<1>6. PICK l \in Int : /\ l = Min({Len(c.data) - db, len - da})
                       /\ l <= n - db /\ l <= len - da /\ l \in {n - db, len - da}
    <2>1. PICK x \in Int, y \in Int : x = Len(c.data) - db /\ y = len - da
        BY <1>2, <1>3
    <2>2. Min({x, y}) = IF x <= y THEN x ELSE y
        BY MinOfTwo
    <2> QED  BY <1>2, <2>1, <2>2
<1>7. r = IF ~Overlap(addr, len, c) \/ l < 1 THEN buf
          ELSE [i \in DOMAIN buf |->
                  IF i \in da .. da + l - 1 THEN c.data[db + i - da + 1] ELSE buf[i]]
    BY <1>5, <1>6 DEF Copy
<1>8. Overlap(addr, len, c) <=> ~(addr + len - 1 < from \/ addr > from + n)
    BY <1>2, <1>4 DEF Overlap
<1>9. DOMAIN r = 0 .. len - 1
    BY <1>7
<1>10. ASSUME NEW i \in 0 .. len - 1
       PROVE  r[i] = IF Covers(c, addr + i) THEN c.data[(addr + i) - c.from + 1] ELSE buf[i]
    <2>0. i \in Int /\ i >= 0 /\ i <= len - 1
        BY <1>3
    <2>1. Covers(c, addr + i) <=> from <= addr + i /\ addr + i <= from + n - 1
        BY <1>2, <1>3, <2>0 DEF Covers
    <2>a. /\ db + i - da + 1 = (addr + i) - from + 1
          /\ addr + len - 1 < from \/ addr > from + n \/ l < 1
                => ~(from <= addr + i /\ addr + i <= from + n - 1)
          /\ (da <= i /\ i <= da + l - 1) <=> (from <= addr + i /\ addr + i <= from + n - 1)
        <3>1. from \in Int /\ n \in Int /\ addr \in Int /\ len \in Int /\ (l = n - db \/ l = len - da)
            BY <1>2, <1>3, <1>6
        <3>2. CopyPlan(from, n, addr, len, da, db, l)
            BY <1>2, <1>3, <1>5, <1>6, <3>1 DEF CopyPlan
        <3> QED  BY <2>0, <3>2, CopyRange
    <2>2. CASE ~Overlap(addr, len, c) \/ l < 1
        <3>1. r[i] = buf[i]
            BY <1>7, <2>2
        <3>2. ~Covers(c, addr + i)
            BY <1>8, <2>1, <2>2, <2>a
        <3> QED  BY <3>1, <3>2
    <2>3. CASE Overlap(addr, len, c) /\ ~(l < 1)
        <3>1. r[i] = IF i \in da .. da + l - 1 THEN c.data[db + i - da + 1] ELSE buf[i]
            BY <1>7, <2>3
        <3>2. i \in da .. da + l - 1 <=> da <= i /\ i <= da + l - 1
            BY <2>0, <1>5, <1>6
        <3> QED  BY <1>2, <2>1, <2>a, <3>1, <3>2
    <2> QED  BY <2>2, <2>3
<1> QED  BY <1>9, <1>10

\* r_io_cache_read, whatever the length of the read and of the list: every
\* byte is the one of the latest change that covers it.
LEMMA CacheReadIs ==
    ASSUME NEW f \in [Addr -> Byte], NEW q, CacheOK(q), \A j \in 1 .. Len(q) : Below(q[j]),
           NEW addr \in Addr, NEW len \in 1 .. Width, addr + len <= Width,
           NEW buf, buf = [i \in 0 .. len - 1 |-> f[addr + i]]
    PROVE  \A i \in 0 .. len - 1 :
              r_io_cache_read(q, addr, len, buf)[i] = Layered(f, q)[addr + i]
<1> DEFINE show(n) == [i \in 0 .. len - 1 |-> LayeredTo(f, q, n, addr + i)]
           IsRead(g) == g = [n \in 0 .. Len(q) |-> IF n = 0 THEN buf
                                                   ELSE Copy(addr, len, g[n - 1], q[n])]
           all == [n \in 0 .. Len(q) |-> show(n)]
<1>0. Len(q) \in Nat /\ Width \in Nat /\ DOMAIN q = 1 .. Len(q)
    BY Numbers DEF CacheOK
<1>1. show(0) = buf
    BY LayerNone
<1>2. ASSUME NEW n \in 1 .. Len(q) PROVE show(n) = Copy(addr, len, show(n - 1), q[n])
    <2>1. n \in Nat \ {0} /\ WholeChange(q[n]) /\ Below(q[n])
        BY <1>0 DEF CacheOK
    <2>2. PICK b : b = show(n - 1)
        OBVIOUS
    <2>3. /\ DOMAIN b = 0 .. len - 1 /\ b = [i \in DOMAIN b |-> b[i]]
          /\ \A i \in 0 .. len - 1 : b[i] = LayeredTo(f, q, n - 1, addr + i)
        BY <2>2
    <2>4. PICK r : r = Copy(addr, len, b, q[n])
        OBVIOUS
    <2>5. /\ DOMAIN r = 0 .. len - 1
          /\ \A i \in 0 .. len - 1 :
                r[i] = IF Covers(q[n], addr + i) THEN q[n].data[(addr + i) - q[n].from + 1] ELSE b[i]
        BY <2>1, <2>3, <2>4, CopyIs
    <2>6. \A i \in 0 .. len - 1 : r[i] = LayeredTo(f, q, n, addr + i)
        <3> TAKE i \in 0 .. len - 1
        <3>1. PICK a : a = addr + i
            OBVIOUS
        <3>2. LayeredTo(f, q, n, a) = IF Covers(q[n], a) THEN q[n].data[a - q[n].from + 1]
                                      ELSE LayeredTo(f, q, n - 1, a)
            BY <2>1, LayerStep
        <3> QED  BY <2>3, <2>5, <3>1, <3>2
    <2>7. r = [i \in 0 .. len - 1 |-> r[i]]
        <3>1. r = b \/ \E da, db, l : r = [i \in DOMAIN b |->
                  IF i \in da .. da + l - 1 THEN q[n].data[db + i - da + 1] ELSE b[i]]
            BY <2>4 DEF Copy
        <3>2. r = [i \in DOMAIN r |-> r[i]]
            BY <2>3, <3>1
        <3> QED  BY <2>5, <3>2
    <2>8. r = show(n)
        BY <2>6, <2>7
    <2> QED  BY <2>2, <2>4, <2>8
<1> HIDE DEF show
<1>3. IsRead(all)
    <2>1. ASSUME NEW n \in 0 .. Len(q)
          PROVE  show(n) = IF n = 0 THEN buf ELSE Copy(addr, len, all[n - 1], q[n])
        <3>1. CASE n = 0
            BY <1>1, <3>1
        <3>2. CASE n # 0
            <4>1. n \in 1 .. Len(q) /\ n - 1 \in 0 .. Len(q)
                BY <1>0, <3>2
            <4>2. all[n - 1] = show(n - 1)
                BY <4>1
            <4> QED  BY <1>2, <3>2, <4>1, <4>2
        <3> QED  BY <3>1, <3>2
    <2>2. PICK g : g = all
        OBVIOUS
    <2>3. g = [n \in 0 .. Len(q) |-> show(n)]
        BY <2>2
    <2>4. \A n \in 0 .. Len(q) : show(n) = IF n = 0 THEN buf ELSE Copy(addr, len, g[n - 1], q[n])
        BY <2>1, <2>2
    <2>5. g = [n \in 0 .. Len(q) |-> IF n = 0 THEN buf ELSE Copy(addr, len, g[n - 1], q[n])]
        BY <2>3, <2>4
    <2> QED  BY <2>2, <2>5
<1>4. PICK g : g = CHOOSE h : IsRead(h)
    OBVIOUS
<1>5. r_io_cache_read(q, addr, len, buf) = g[Len(q)]
    BY <1>4 DEF r_io_cache_read
<1>6. IsRead(g)
    <2> HIDE DEF IsRead, all
    <2> QED  BY <1>3, <1>4
<1>7. /\ g[0] = buf
      /\ \A n \in 1 .. Len(q) : g[n] = Copy(addr, len, g[n - 1], q[n])
    <2>1. \A n \in 0 .. Len(q) : g[n] = IF n = 0 THEN buf ELSE Copy(addr, len, g[n - 1], q[n])
        BY <1>6
    <2> QED  BY <1>0, <2>1
<1>8. g[Len(q)] = show(Len(q))
    <2> DEFINE S == {n \in 0 .. Len(q) : g[n] # show(n)}
    <2>1. SUFFICES ASSUME S # {} PROVE FALSE
        BY <1>0
    <2>2. S \subseteq Nat
        OBVIOUS
    <2>3. PICK n \in S : \A m \in S : n <= m
        BY <2>1, <2>2, LeastNatural
    <2>4. n # 0
        BY <1>1, <1>7, <2>3
    <2>5. n \in 1 .. Len(q) /\ n - 1 \in 0 .. Len(q) /\ ~ (n <= n - 1)
        BY <1>0, <2>3, <2>4
    <2>6. g[n - 1] = show(n - 1)
        BY <2>3, <2>5
    <2> QED  BY <1>2, <1>7, <2>3, <2>5, <2>6
<1>9. ASSUME NEW i \in 0 .. len - 1
      PROVE  show(Len(q))[i] = Layered(f, q)[addr + i]
    <2>1. addr + i \in Addr
        BY <1>0, Numbers
    <2>2. show(Len(q))[i] = LayeredTo(f, q, Len(q), addr + i)
        BY DEF show
    <2> QED  BY <1>0, <2>1, <2>2, LayeredIs
<1> QED  BY <1>5, <1>8, <1>9

\* A change more is a write to what is shown.
LEMMA LayeredAppend ==
    ASSUME NEW f \in [Addr -> Byte], NEW q \in Seq(Change), NEW c \in Change
    PROVE  Layered(f, Append(q, c)) = WriteFile(Layered(f, q), c.from, c.data)
<1>1. PICK p : p = Append(q, c)
    OBVIOUS
<1>2. PICK n \in Nat : n = Len(q)
    OBVIOUS
<1>3. /\ DOMAIN p = 1 .. Len(p) /\ Len(p) = n + 1 /\ p[n + 1] = c
      /\ DOMAIN q = 1 .. Len(q) /\ \A i \in 1 .. n : p[i] = q[i]
    BY <1>1, <1>2
<1>4. ASSUME NEW a \in Addr
      PROVE  Layered(f, p)[a] = WriteFile(Layered(f, q), c.from, c.data)[a]
    <2>1. PICK m \in Nat \ {0} : m = n + 1 /\ m - 1 = n
        OBVIOUS
    <2>2. Layered(f, p)[a] = LayeredTo(f, p, m, a)
        BY <1>3, <2>1, LayeredIs
    <2>3. LayeredTo(f, p, m, a) = IF Covers(c, a) THEN c.data[a - c.from + 1]
                                  ELSE LayeredTo(f, p, m - 1, a)
        <3>1. p[m] = c
            BY <1>3, <2>1
        <3> QED  BY <2>1, <3>1, LayerStep
    <2>4. LayeredTo(f, p, n, a) = LayeredTo(f, q, n, a)
        BY <1>3, LayerSame
    <2>5. Layered(f, q)[a] = LayeredTo(f, q, n, a)
        BY <1>2, <1>3, LayeredIs
    <2>6. WriteFile(Layered(f, q), c.from, c.data)[a]
             = IF Covers(c, a) THEN c.data[a - c.from + 1] ELSE Layered(f, q)[a]
        BY DEF WriteFile, Covers
    <2> QED  BY <2>1, <2>2, <2>3, <2>4, <2>5, <2>6
<1>5. Layered(f, p) = [a \in Addr |-> Layered(f, p)[a]]
    BY DEF Layered
<1>6. PICK w : w = WriteFile(Layered(f, q), c.from, c.data)
    OBVIOUS
<1>7. w = [a \in Addr |-> w[a]]
    BY <1>6 DEF WriteFile
<1> QED  BY <1>1, <1>4, <1>5, <1>6, <1>7

----------------------------------------------------------------------------
(* What was written last.                                                  *)

\* fresh is what the file and, with the cache on, its changes show, and no
\* change reaches the last address.
ShownInv ==
    /\ \A i \in 1 .. Len(cache) : Below(cache[i])
    /\ fresh = Shown(Here, cached)

\* Changes that are taken back leave the others where they are.
LEMMA TakenBackBelow ==
    ASSUME NEW q, CacheOK(q), \A i \in 1 .. Len(q) : Below(q[i]), NEW p, TakenBack(p, q)
    PROVE  \A i \in 1 .. Len(p) : Below(p[i])
<1>0. q \in Seq(Change) /\ Len(q) \in Nat
    BY DEF CacheOK
<1>1. CASE p = q
    BY <1>1
<1>2. ASSUME NEW i \in 1 .. Len(q), p = RemoveAt(q, i)
      PROVE  \A j \in 1 .. Len(p) : Below(p[j])
    <2>1. PICK T : T = Change
        OBVIOUS
    <2>2. q \in Seq(T)
        BY <1>0, <2>1
    <2>3. /\ Len(RemoveAt(q, i)) = Len(q) - 1
          /\ \A j \in 1 .. (Len(q) - 1) : \E l \in 1 .. Len(q) : RemoveAt(q, i)[j] = q[l]
        BY <2>2, RemoveAtIs
    <2> QED  BY <1>2, <2>3
<1>3. ASSUME NEW i \in 1 .. Len(q), p = [q EXCEPT ![i].written = FALSE]
      PROVE  \A j \in 1 .. Len(p) : Below(p[j])
    <2>1. PICK c : c = [q[i] EXCEPT !.written = FALSE]
        OBVIOUS
    <2>2. q[i] \in Change
        BY <1>0
    <2>3. c \in Change /\ c.from = q[i].from /\ c.data = q[i].data
        BY <2>1, <2>2 DEF Change
    <2>4. Below(c)
        BY <2>3 DEF Below
    <2>5. p = [q EXCEPT ![i] = c]
        BY <1>3, <2>1
    <2>6. Len(p) = Len(q) /\ \A j \in 1 .. Len(q) : p[j] = IF j = i THEN c ELSE q[j]
        BY <2>3, <2>5, <1>0
    <2> QED  BY <2>4, <2>6
<1> QED  BY <1>1, <1>2, <1>3 DEF TakenBack

LEMMA ShownNext ==
    ASSUME Borders = {}, TypeOK, ShownInv, [Next]_vars
    PROVE  ShownInv'
<1> USE Typed
<1>0. CacheOK(cache) /\ cache \in Seq(Change) /\ Len(cache) \in Nat
    BY DEF CacheOK
<1>1. ASSUME NEW addr \in Addr, NEW data \in Data, CmdWrite(addr, data)
      PROVE  ShownInv'
    <2>1. UNCHANGED <<writable, cached>> /\ Fits(addr, data)
        BY <1>1, WriteEffect
    <2>2. CASE /\ cached = 1 /\ file' = file
               /\ cache' = Append(cache, NewChange(addr, data))
               /\ fresh' = WriteFile(fresh, addr, data)
        <3>1. PICK c : c = NewChange(addr, data)
            OBVIOUS
        <3>2. WholeChange(c) /\ c \in Change
            BY <2>1, <3>1, NewChangeType DEF WholeChange
        <3>3. c.from = addr /\ c.data = data
            BY <3>1 DEF NewChange
        <3>4. Below(c)
            <4>1. addr + Len(data) # Width
                BY <1>1, <2>2 DEF CmdWrite, Within
            <4>2. Len(data) \in Nat /\ addr \in Nat /\ Width \in Nat
                BY DataIs, Numbers
            <4> QED  BY <2>1, <3>3, <4>1, <4>2 DEF Below, Fits
        <3>5. /\ Len(cache') = Len(cache) + 1
              /\ \A i \in 1 .. Len(cache) + 1 : cache'[i] = IF i = Len(cache) + 1 THEN c ELSE cache[i]
            BY <1>0, <2>2, <3>1, <3>2
        <3>6. \A i \in 1 .. Len(cache') : Below(cache'[i])
            BY <1>0, <3>4, <3>5 DEF ShownInv
        <3>7. Layered(file, Append(cache, c)) = WriteFile(Layered(file, cache), addr, data)
            BY <1>0, <3>2, <3>3, LayeredAppend
        <3>8. fresh = Layered(file, cache)
            BY <2>2 DEF ShownInv, Shown, Here
        <3>9. fresh' = Layered(file, cache')
            BY <2>2, <3>1, <3>7, <3>8
        <3>10. Shown(Here, cached)' = Layered(file, cache')
            <4>1. cached' # 0 /\ file' = file
                BY <2>1, <2>2
            <4> QED  BY <4>1 DEF Shown, Here, Layered, Covers, Addr
        <3> QED  BY <2>1, <2>2, <3>6, <3>9, <3>10 DEF ShownInv, Below
    <2>3. CASE /\ cached = 0 /\ file' = WriteFile(file, addr, data) /\ cache' = cache
               /\ fresh' = WriteFile(fresh, addr, data)
        BY <2>1, <2>3 DEF ShownInv, Shown, Here, Below
    <2>4. CASE /\ cached = 0 /\ file' = file /\ fresh' = fresh
               /\ TakenBack(cache', cache)
        <3>1. \A i \in 1 .. Len(cache') : Below(cache'[i])
            BY <2>4, TakenBackBelow DEF ShownInv
        <3> QED  BY <2>1, <2>4, <3>1 DEF ShownInv, Shown, Here, Below
    <2> QED  BY <1>1, <2>2, <2>3, <2>4, WriteEffect
<1>2. ASSUME UNCHANGED <<file, cache, cached, fresh>>
      PROVE  ShownInv'
    BY <1>2 DEF ShownInv, Shown, Here, Below, Layered, Covers, Addr
<1>3. ASSUME NEW from \in Addr, NEW to \in Addr, CmdCommit(from, to)
      PROVE  ShownInv'
    <2>1. PICK r : r = r_io_cache_commit([file |-> file, cache |-> cache], from, to)
        OBVIOUS
    <2>2. r.file = file /\ r.cache = cache
        BY <2>1, CommitEffect
    <2>3. UNCHANGED <<file, cache, cached, fresh>>
        BY <1>3, <2>1, <2>2 DEF CmdCommit, Becomes, Here
    <2> QED  BY <1>2, <2>3
<1>4. ASSUME NEW from \in Addr, NEW to \in Addr, CmdInvalidate(from, to)
      PROVE  ShownInv'
    <2>1. PICK r : r = r_io_cache_invalidate([file |-> file, cache |-> cache], from, to)
        OBVIOUS
    <2>2. r.file = file /\ TakenBack(r.cache, cache)
        BY <2>1, InvalidateEffect
    <2>3. /\ file' = r.file /\ cache' = r.cache /\ fresh' = Shown(r, cached)
          /\ UNCHANGED <<cached>>
        BY <1>4, <2>1 DEF CmdInvalidate, Becomes, Here
    <2>4. \A i \in 1 .. Len(cache') : Below(cache'[i])
        BY <1>0, <2>2, <2>3, TakenBackBelow DEF ShownInv
    <2>5. Shown(Here, cached)' = Shown(r, cached)
        BY <2>3 DEF Shown, Here, Layered, Covers, Addr
    <2> QED  BY <2>3, <2>4, <2>5 DEF ShownInv, Below
<1>5. ASSUME CmdReset PROVE ShownInv'
    <2>1. /\ cache' = << >> /\ cached' = 1 /\ fresh' = file /\ file' = file
        BY <1>5 DEF CmdReset
    <2>2. ASSUME NEW a \in Addr PROVE Layered(file, << >>)[a] = file[a]
        <3>1. DOMAIN << >> = 1 .. Len(<< >>) /\ Len(<< >>) = 0
            OBVIOUS
        <3>2. Layered(file, << >>)[a] = LayeredTo(file, << >>, 0, a)
            BY <3>1, LayeredIs
        <3> QED  BY <3>2, LayerNone
    <2>3. Layered(file, << >>) = [a \in Addr |-> Layered(file, << >>)[a]]
        BY DEF Layered
    <2>4. Layered(file, << >>) = [a \in Addr |-> file[a]]
        BY <2>2, <2>3
    <2>5. Layered(file, << >>) = file
        BY <2>4
    <2>6. Shown(Here, cached)' = Layered(file, << >>)
        BY <2>1 DEF Shown, Here, Layered, Covers, Addr
    <2>7. \A i \in 1 .. Len(cache') : Below(cache'[i])
        BY <2>1
    <2> QED  BY <2>1, <2>5, <2>6, <2>7 DEF ShownInv, Below
<1>6. ASSUME NEW on \in {0, 1}, r_io_cache_enable(on) PROVE ShownInv'
    <2>1. /\ cached' = on /\ fresh' = Expected(on)
          /\ UNCHANGED <<file, cache>>
          /\ on = 1 => beneath = {}
        BY <1>6 DEF r_io_cache_enable, Within
    <2>2. CASE on = 0
        <3>1. Expected(on) = [a \in Addr |-> file[a]]
            BY <2>2 DEF Expected
        <3>2. Expected(on) = file
            BY <3>1
        <3> QED  BY <2>1, <2>2, <3>2 DEF ShownInv, Shown, Here, Below
    <2>3. CASE on = 1
        <3>1. Expected(on) = [a \in Addr |-> Layered(file, cache)[a]]
            BY <2>1, <2>3 DEF Expected
        <3>2. Layered(file, cache) = [a \in Addr |-> Layered(file, cache)[a]]
            BY DEF Layered
        <3>3. Expected(on) = Layered(file, cache)
            BY <3>1, <3>2
        <3>4. Shown(Here, cached)' = Layered(file, cache)
            BY <2>1, <2>3 DEF Shown, Here, Layered, Covers, Addr
        <3> QED  BY <2>1, <2>3, <3>3, <3>4 DEF ShownInv, Below
    <2> QED  BY <2>2, <2>3
<1>7. CASE UNCHANGED vars
    BY <1>2, <1>7 DEF vars
<1> QED  BY <1>1, <1>3, <1>4, <1>5, <1>6, <1>7 DEF Next

LEMMA ShownInvariant ==
    ASSUME Borders = {}
    PROVE  Spec => [](TypeOK /\ ShownInv)
<1>1. Init => ShownInv
    BY DEF Init, ShownInv, Shown, Here
<1>2. TypeOK /\ ShownInv /\ [Next]_vars => ShownInv'
    BY ShownNext
<1> QED  BY <1>1, <1>2, TypeCorrect, PTL DEF Spec

\* A read of any length at any address, for caches of any number of changes,
\* returns what was written last and not taken back (r_io_cache_read).
THEOREM ReadsReturnLastWrite ==
    ASSUME Borders = {}
    PROVE  Spec => []LastWrite
<1>1. TypeOK /\ ShownInv => LastWrite
    <2> SUFFICES ASSUME TypeOK, ShownInv, NEW addr \in Addr, NEW len \in 1 .. Width,
                        addr + len <= Width, NEW i \in 0 .. len - 1
                 PROVE  r_io_read_at(addr, len)[i] = fresh[addr + i]
        BY DEF LastWrite
    <2>1. PICK buf : buf = FileRead(addr, len)
        OBVIOUS
    <2>2. buf = [j \in 0 .. len - 1 |-> file[addr + j]]
        BY <2>1 DEF FileRead
    <2>3. CASE cached = 0
        BY <2>1, <2>2, <2>3 DEF r_io_read_at, ShownInv, Shown, Here
    <2>4. CASE cached # 0
        <3>1. file \in [Addr -> Byte] /\ CacheOK(cache)
            BY Typed
        <3>2. \A j \in 1 .. Len(cache) : Below(cache[j])
            BY DEF ShownInv
        <3>3. \A j \in 0 .. len - 1 :
                 r_io_cache_read(cache, addr, len, buf)[j] = Layered(file, cache)[addr + j]
            BY <2>2, <3>1, <3>2, CacheReadIs
        <3> QED  BY <2>1, <2>4, <3>3 DEF r_io_read_at, ShownInv, Shown, Here
    <2> QED  BY <2>3, <2>4
<1> QED  BY <1>1, ShownInvariant, PTL
=============================================================================

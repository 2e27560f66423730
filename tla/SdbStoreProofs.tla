--------------------------- MODULE SdbStoreProofs ---------------------------
(***************************************************************************)
(* Theorems about SdbStore for every set of keys and values and journals   *)
(* of any length: types, that the journal holds every change, that a sync  *)
(* replaces the file by one that holds every change, and that the store    *)
(* implements KvStore.                                                     *)
(*                                                                         *)
(* Facts about the replay of a journal are inductions on its lines; they   *)
(* are proofs that the least line at which they fail does not exist.       *)
(***************************************************************************)
EXTENDS SdbStore, TLAPS, WellFoundedInduction

\* A non-empty set of naturals has a least element.
LEMMA LeastNatural ==
    ASSUME NEW S, S \subseteq Nat, S # {}
    PROVE  \E i \in S : \A j \in S : i <= j
<1>1. PICK i \in S : \A j \in S : ~ (<<j, i>> \in OpToRel(<, Nat))
    BY NatLessThanWellFounded, WFMin
<1>2. \A j \in S : ~ (j < i)
    BY <1>1 DEF OpToRel
<1> QED  BY <1>2

----------------------------------------------------------------------------
(* The replay of a journal.                                                *)

\* The value in the last of the first n lines of j that are about a key.
LinesIn(j, n, k) == {i \in 1 .. n : j[i][1] = k}

LastIn(j, n, k) ==
    IF LinesIn(j, n, k) = {} THEN None
    ELSE j[CHOOSE i \in LinesIn(j, n, k) : \A l \in LinesIn(j, n, k) : l <= i][2]

LastVal(k) == LastIn(journal, Len(journal), k)

\* Memory and the replay of the journal agree about a key.
Agree(k) ==
    IF FoundOnDisk(k) THEN mem.val[k] = Replay.val[k]
    ELSE Firm(k) => \/ mem.val[k] = Replay.val[k]
                    \/ {mem.val[k], Replay.val[k]} \subseteq {None, Removed}

\* The last line about a key is what memory holds.
Logged(k) ==
    \/ LastVal(k) \in {None, mem.val[k]}
    \/ LastVal(k) = Removed /\ mem.val[k] = None /\ file[k] = None

\* The new file is complete: it agrees with the journal, and with the
\* entries that stay in memory.
Dumped(k) ==
    IF Firm(k)
    THEN /\ (logging /\ k \notin replayed) => tmp[k] = ViewOf(Replay, k)
         /\ LastVal(k) \in {None, tmp[k]} \/ (LastVal(k) = Removed /\ tmp[k] = None)
         /\ mem.val[k] = None \/ (mem.val[k] = Removed /\ tmp[k] = None)
    ELSE file[k] = None /\ tmp[k] = None

\* The new file is in place: replaying the journal over it changes nothing.
Renamed(k) ==
    IF Firm(k)
    THEN /\ ViewOf(Replay, k) = file[k]
         /\ mem.val[k] = None \/ (mem.val[k] = Removed /\ file[k] = None)
    ELSE file[k] = None

\* What holds of every key while the process runs.
OpenKey(k) == Logged(k) /\ (logging /\ k \notin replayed => Agree(k))

\* The journal is replayed and logged a second time: replaying it again would
\* give a key of the file the same value, and leave out all other keys.
LoadedKey(k) ==
    /\ Firm(k) /\ (k \notin replayed => mem.val[k] = None)
    /\ IF FoundOnDisk(k) THEN mem.val[k] = Replay.val[k] ELSE Replay.val[k] = None

\* What holds at every step of the process when none of the borders is met.
StoreInv ==
    /\ pc = "down" => mem = NoMem /\ ~logging /\ replayed = {}
    /\ pc # "down" /\ ~logging => journal = << >>
    /\ pc = "loaded" => logging /\ \A k \in Keys : LoadedKey(k)
    /\ pc = "open" => \A k \in Keys : OpenKey(k)
    /\ pc = "dumped" => \A k \in Keys : Dumped(k)
    /\ pc = "renamed" => exists /\ \A k \in Keys : Renamed(k)

\* The steps of sdb_journal_load over the lines of the journal.
Step(m, n) == SetMem(m, journal[n][1], journal[n][2], "any")

Loads(f, n) ==
    /\ DOMAIN f = 0 .. n
    /\ f[0] = NoMem
    /\ \A i \in 1 .. n : f[i] = Step(f[i - 1], i)

LEMMA LoadsUnique ==
    ASSUME NEW f, NEW g, NEW m \in Nat, NEW n \in Nat, Loads(f, m), Loads(g, n), m <= n
    PROVE  \A i \in 0 .. m : f[i] = g[i]
<1> DEFINE S == {i \in 0 .. m : f[i] # g[i]}
<1>1. SUFFICES ASSUME S # {} PROVE FALSE
    OBVIOUS
<1>2. S \subseteq Nat
    OBVIOUS
<1>3. PICK i \in S : \A j \in S : i <= j
    BY <1>1, <1>2, LeastNatural
<1>4. i # 0
    BY <1>3 DEF Loads
<1>5. i \in 1 .. m /\ i \in 1 .. n /\ i - 1 \in 0 .. m /\ ~ (i <= i - 1)
    BY <1>3, <1>4
<1>6. f[i - 1] = g[i - 1]
    BY <1>3, <1>5
<1>7. f[i] = Step(f[i - 1], i) /\ g[i] = Step(g[i - 1], i)
    BY <1>5 DEF Loads
<1> QED  BY <1>3, <1>6, <1>7

LEMMA LoadsExist ==
    ASSUME NEW n \in Nat
    PROVE  \E f : Loads(f, n)
<1> DEFINE S == {i \in Nat : ~ \E f : Loads(f, i)}
<1>1. SUFFICES ASSUME S # {} PROVE FALSE
    OBVIOUS
<1>2. S \subseteq Nat
    OBVIOUS
<1>3. PICK i \in S : \A j \in S : i <= j
    BY <1>1, <1>2, LeastNatural
<1>4. i # 0
    <2>1. Loads([j \in 0 .. 0 |-> NoMem], 0)
        BY DEF Loads
    <2> QED  BY <2>1
<1>5. i \in Nat /\ i - 1 \in Nat /\ ~ (i <= i - 1)
    BY <1>3, <1>4
<1>6. PICK f : Loads(f, i - 1)
    BY <1>3, <1>5
<1> DEFINE g == [j \in 0 .. i |-> IF j = i THEN Step(f[i - 1], i) ELSE f[j]]
<1>7. Loads(g, i)
    <2>1. DOMAIN g = 0 .. i /\ g[0] = NoMem
        BY <1>4, <1>5, <1>6 DEF Loads
    <2>2. ASSUME NEW j \in 1 .. i PROVE g[j] = Step(g[j - 1], j)
        <3>1. g[j - 1] = f[j - 1]
            BY <1>5
        <3>2. CASE j = i
            BY <3>1, <3>2, <1>5
        <3>3. CASE j # i
            <4>1. j \in 1 .. (i - 1)
                BY <3>3, <1>5
            <4>2. f[j] = Step(f[j - 1], j) /\ g[j] = f[j]
                BY <4>1, <1>6, <1>5 DEF Loads
            <4> QED  BY <3>1, <4>2
        <3> QED  BY <3>2, <3>3
    <2> HIDE DEF g
    <2> QED  BY <2>1, <2>2 DEF Loads
<1> QED  BY <1>3, <1>7

\* Loaded is what its definition says: sdb_journal_load line by line.
LoadedLineByLine ==
    /\ Loaded[0] = NoMem
    /\ \A n \in Nat \ {0} : Loaded[n] = Step(Loaded[n - 1], n)

LEMMA LoadedIs == LoadedLineByLine
<1> DEFINE of(n) == CHOOSE f : Loads(f, n)
           all == [n \in Nat |-> of(n)[n]]
<1>1. \A n \in Nat : Loads(of(n), n)
    BY LoadsExist
<1>2. ASSUME NEW n \in Nat PROVE all[n] = of(n)[n]
    OBVIOUS
<1>3. all[0] = NoMem
    BY <1>1, <1>2 DEF Loads
<1>4. ASSUME NEW n \in Nat \ {0} PROVE all[n] = Step(all[n - 1], n)
    <2>1. n - 1 \in Nat /\ n - 1 <= n /\ n - 1 \in 0 .. (n - 1) /\ n \in 1 .. n /\ n \in Nat
        OBVIOUS
    <2>2. Loads(of(n), n) /\ Loads(of(n - 1), n - 1)
        BY <2>1, <1>1
    <2> HIDE DEF of
    <2>3. of(n - 1)[n - 1] = of(n)[n - 1]
        BY <2>1, <2>2, LoadsUnique
    <2>4. of(n)[n] = Step(of(n)[n - 1], n)
        BY <2>1, <2>2 DEF Loads
    <2> QED  BY <2>1, <2>3, <2>4
<1> DEFINE IsLoaded(f) == f = [n \in Nat |-> IF n = 0 THEN NoMem
                                             ELSE SetMem(f[n - 1], journal[n][1], journal[n][2], "any")]
<1>5. IsLoaded(all)
    <2>1. ASSUME NEW n \in Nat
          PROVE  all[n] = IF n = 0 THEN NoMem
                          ELSE SetMem(all[n - 1], journal[n][1], journal[n][2], "any")
        <3> HIDE DEF all
        <3> QED  BY <1>3, <1>4 DEF Step
    <2>2. all = [n \in Nat |-> all[n]]
        OBVIOUS
    <2> HIDE DEF all
    <2> QED  BY <2>1, <2>2
<1>6. Loaded = CHOOSE f : IsLoaded(f)
    BY DEF Loaded
<1>7. IsLoaded(Loaded)
    <2> HIDE DEF IsLoaded, all
    <2> QED  BY <1>5, <1>6
<1>8. ASSUME NEW n \in Nat
      PROVE  Loaded[n] = IF n = 0 THEN NoMem
                         ELSE SetMem(Loaded[n - 1], journal[n][1], journal[n][2], "any")
    <2> DEFINE L == Loaded
    <2>1. L = [i \in Nat |-> IF i = 0 THEN NoMem
                             ELSE SetMem(L[i - 1], journal[i][1], journal[i][2], "any")]
        BY <1>7
    <2> HIDE DEF L
    <2>2. L[n] = IF n = 0 THEN NoMem
                 ELSE SetMem(L[n - 1], journal[n][1], journal[n][2], "any")
        BY <2>1
    <2> QED  BY <2>2 DEF L
<1> QED  BY <1>8 DEF LoadedLineByLine, Step


\* A non-empty set of numbers from 1 to n has a greatest element.
LEMMA GreatestUpTo ==
    ASSUME NEW n \in Nat, NEW S, S \subseteq 1 .. n, S # {}
    PROVE  \E i \in S : \A j \in S : j <= i
<1> DEFINE T == {k \in Nat : n - k \in S}
<1>1. PICK s \in S : TRUE
    OBVIOUS
<1>2. n - s \in T
    OBVIOUS
<1>3. PICK k \in T : \A l \in T : k <= l
    BY <1>2, LeastNatural
<1>4. n - k \in S
    OBVIOUS
<1>5. ASSUME NEW j \in S PROVE j <= n - k
    <2>1. n - j \in T
        OBVIOUS
    <2>2. k <= n - j
        BY <2>1, <1>3
    <2>3. k \in Nat /\ j \in Nat
        OBVIOUS
    <2> HIDE DEF T
    <2> QED  BY <2>2, <2>3
<1> QED  BY <1>4, <1>5

\* Where LastIn looks.
LEMMA LastAt ==
    ASSUME NEW j, NEW n \in Nat, NEW k, LinesIn(j, n, k) # {}
    PROVE  \E i \in LinesIn(j, n, k) :
              /\ \A l \in LinesIn(j, n, k) : l <= i
              /\ LastIn(j, n, k) = j[i][2]
<1>1. LinesIn(j, n, k) \subseteq 1 .. n
    BY DEF LinesIn
<1>2. \E i \in LinesIn(j, n, k) : \A l \in LinesIn(j, n, k) : l <= i
    BY <1>1, GreatestUpTo
<1> QED  BY <1>2 DEF LastIn

LEMMA LastSame ==
    ASSUME NEW j, NEW h, NEW n \in Nat, NEW k, \A i \in 1 .. n : h[i] = j[i]
    PROVE  LastIn(h, n, k) = LastIn(j, n, k)
<1>1. LinesIn(h, n, k) = LinesIn(j, n, k)
    BY DEF LinesIn
<1>2. CASE LinesIn(j, n, k) = {}
    BY <1>1, <1>2 DEF LastIn
<1>3. CASE LinesIn(j, n, k) # {}
    <2>1. PICK i \in LinesIn(j, n, k) : /\ \A l \in LinesIn(j, n, k) : l <= i
                                        /\ LastIn(j, n, k) = j[i][2]
        BY <1>3, LastAt
    <2>2. PICK g \in LinesIn(h, n, k) : /\ \A l \in LinesIn(h, n, k) : l <= g
                                        /\ LastIn(h, n, k) = h[g][2]
        BY <1>1, <1>3, LastAt
    <2>3. i \in 1 .. n /\ g \in 1 .. n /\ i <= g /\ g <= i
        BY <2>1, <2>2, <1>1 DEF LinesIn
    <2>4. i = g
        BY <2>3
    <2> QED  BY <2>1, <2>2, <2>3, <2>4
<1> QED  BY <1>2, <1>3

LEMMA LastStep ==
    ASSUME NEW j, NEW n \in Nat \ {0}, NEW k
    PROVE  LastIn(j, n, k) = IF j[n][1] = k THEN j[n][2] ELSE LastIn(j, n - 1, k)
<1>0. n \in Nat /\ n - 1 \in Nat /\ n \in 1 .. n
    OBVIOUS
<1>1. CASE j[n][1] = k
    <2>1. n \in LinesIn(j, n, k)
        BY <1>0, <1>1 DEF LinesIn
    <2>2. PICK i \in LinesIn(j, n, k) : /\ \A l \in LinesIn(j, n, k) : l <= i
                                        /\ LastIn(j, n, k) = j[i][2]
        BY <2>1, <1>0, LastAt
    <2>3. i = n
        BY <2>1, <2>2, <1>0 DEF LinesIn
    <2> QED  BY <2>2, <2>3, <1>1
<1>2. CASE j[n][1] # k
    <2>1. LinesIn(j, n, k) = LinesIn(j, n - 1, k)
        BY <1>0, <1>2 DEF LinesIn
    <2> QED  BY <2>1, <1>2 DEF LastIn
<1> QED  BY <1>1, <1>2

LEMMA LastNone ==
    ASSUME NEW j, NEW k
    PROVE  LastIn(j, 0, k) = None
BY DEF LastIn, LinesIn

----------------------------------------------------------------------------
(* What a replay gives.                                                    *)

Mem == [val : [Keys -> Vals \cup {None, Removed}],
        exp : [Keys -> {"no", "later", "passed"}]]

\* sdb_set_internal on one key and its neighbours.
LEMMA SetMemType ==
    ASSUME NEW m \in Mem, NEW k \in Keys, NEW v \in Vals \cup {Removed}, NEW cas
    PROVE  SetMem(m, k, v, cas) \in Mem
BY DEF SetMem, Mem

LEMMA SetMemKey ==
    ASSUME NEW m \in Mem, NEW k \in Keys, NEW v \in Vals \cup {Removed}, NEW cas,
           NEW s, s = SetMem(m, k, v, cas)
    PROVE  /\ s.val[k] = IF m.val[k] = None THEN v
                         ELSE IF ~FoundOnDisk(k) THEN None
                         ELSE IF cas = "stale" THEN m.val[k] ELSE v
           /\ s.exp[k] = IF m.val[k] = None \/ FoundOnDisk(k) THEN m.exp[k] ELSE "no"
           /\ \A x \in Keys \ {k} : s.val[x] = m.val[x] /\ s.exp[x] = m.exp[x]
<1>1. CASE m.val[k] = None
    BY <1>1 DEF SetMem, Mem, Has
<1>2. CASE m.val[k] # None /\ ~FoundOnDisk(k)
    BY <1>2 DEF SetMem, Mem, Has
<1>3. CASE m.val[k] # None /\ FoundOnDisk(k) /\ cas = "stale"
    BY <1>3 DEF SetMem, Mem, Has
<1>4. CASE m.val[k] # None /\ FoundOnDisk(k) /\ cas # "stale"
    BY <1>4 DEF SetMem, Mem, Has
<1> QED  BY <1>1, <1>2, <1>3, <1>4

\* A replay gives a key the value of its last line, or none; and always
\* that value when the file has the key.  No key expires.
ReplayForm ==
    /\ Replay \in Mem
    /\ journal = << >> => Replay = NoMem
    /\ \A k \in Keys : /\ Replay.exp[k] = "no"
                       /\ Replay.val[k] \in {None, LastVal(k)}
                       /\ FoundOnDisk(k) => Replay.val[k] = LastVal(k)

LEMMA ReplayIs == TypeOK => ReplayForm
<1> SUFFICES ASSUME TypeOK PROVE ReplayForm
    OBVIOUS
<1> DEFINE Good(m, n) == /\ m \in Mem
                         /\ \A k \in Keys : /\ m.exp[k] = "no"
                                            /\ m.val[k] \in {None, LastIn(journal, n, k)}
                                            /\ FoundOnDisk(k) => m.val[k] = LastIn(journal, n, k)
           S == {n \in 0 .. Len(journal) : ~ Good(Loaded[n], n)}
<1>1. journal \in Seq(Line) /\ Len(journal) \in Nat
    BY DEF TypeOK
<1>2. NoMem \in Mem /\ \A k \in Keys : NoMem.val[k] = None /\ NoMem.exp[k] = "no"
    BY DEF NoMem, Mem
<1>3. Good(Loaded[0], 0)
    <2>1. Loaded[0] = NoMem
        BY LoadedIs DEF LoadedLineByLine
    <2> QED  BY <2>1, <1>2, LastNone
<1>4. ASSUME NEW n \in 1 .. Len(journal), Good(Loaded[n - 1], n - 1)
      PROVE  Good(Loaded[n], n)
    <2>1. n \in Nat \ {0} /\ journal[n] \in Line
        BY <1>1
    <2>2. PICK x \in Keys, v \in Vals \cup {Removed} : journal[n] = <<x, v>>
        BY <2>1 DEF Line
    <2>3. PICK m \in Mem : m = Loaded[n - 1]
        BY <1>4
    <2>4. PICK s : s = SetMem(m, x, v, "any")
        OBVIOUS
    <2>5. Loaded[n] = s
        BY <2>1, <2>2, <2>3, <2>4, LoadedIs DEF LoadedLineByLine, Step
    <2>6. s \in Mem
        BY <2>4, SetMemType
    <2>7. /\ s.val[x] = IF m.val[x] = None THEN v
                        ELSE IF ~FoundOnDisk(x) THEN None
                        ELSE IF "any" = "stale" THEN m.val[x] ELSE v
          /\ s.exp[x] = IF m.val[x] = None \/ FoundOnDisk(x) THEN m.exp[x] ELSE "no"
          /\ \A y \in Keys \ {x} : s.val[y] = m.val[y] /\ s.exp[y] = m.exp[y]
        BY <2>4, SetMemKey
    <2>8. ASSUME NEW k \in Keys
          PROVE  /\ s.exp[k] = "no"
                 /\ s.val[k] \in {None, LastIn(journal, n, k)}
                 /\ FoundOnDisk(k) => s.val[k] = LastIn(journal, n, k)
        <3>1. LastIn(journal, n, k) = IF k = x THEN v ELSE LastIn(journal, n - 1, k)
            BY <2>1, <2>2, LastStep
        <3>2. /\ m.exp[k] = "no"
              /\ m.val[k] \in {None, LastIn(journal, n - 1, k)}
              /\ FoundOnDisk(k) => m.val[k] = LastIn(journal, n - 1, k)
            BY <1>4, <2>3
        <3>3. CASE k = x
            BY <2>7, <3>1, <3>2, <3>3
        <3>4. CASE k # x
            BY <2>7, <3>1, <3>2, <3>4
        <3> QED  BY <3>3, <3>4
    <2> QED  BY <2>5, <2>6, <2>8
<1>5. Good(Loaded[Len(journal)], Len(journal))
    <2> HIDE DEF Good
    <2>1. SUFFICES ASSUME S # {} PROVE FALSE
        BY <1>1
    <2>2. S \subseteq Nat
        OBVIOUS
    <2>3. PICK n \in S : \A i \in S : n <= i
        BY <2>1, <2>2, LeastNatural
    <2>4. n # 0
        BY <2>3, <1>3
    <2>5. n \in 1 .. Len(journal) /\ n - 1 \in 0 .. Len(journal) /\ ~ (n <= n - 1)
        BY <2>3, <2>4, <1>1
    <2>6. Good(Loaded[n - 1], n - 1)
        BY <2>3, <2>5
    <2> QED  BY <2>3, <2>5, <2>6, <1>4
<1>6. ASSUME journal = << >> PROVE Replay = NoMem
    BY <1>6, LoadedIs DEF Replay, LoadedLineByLine
<1> QED  BY <1>5, <1>6 DEF ReplayForm, Replay, LastVal

LEMMA ReplayIsNext == TypeOK' => ReplayForm'
BY ReplayIs, PTL

LEMMA LoadedIsNext == LoadedLineByLine'
BY LoadedIs, PTL

\* Lines that stay as they are load as they did.
LEMMA LoadedSame ==
    ASSUME NEW n \in Nat, \A i \in 1 .. n : journal'[i] = journal[i], UNCHANGED <<file, exists>>
    PROVE  Loaded'[n] = Loaded[n]
<1> DEFINE S == {i \in 0 .. n : Loaded'[i] # Loaded[i]}
<1>1. SUFFICES ASSUME S # {} PROVE FALSE
    OBVIOUS
<1>2. S \subseteq Nat
    OBVIOUS
<1>3. PICK i \in S : \A l \in S : i <= l
    BY <1>1, <1>2, LeastNatural
<1>4. i # 0
    BY <1>3, LoadedIs, LoadedIsNext DEF LoadedLineByLine, NoMem
<1>5. i \in 1 .. n /\ i \in Nat \ {0} /\ i - 1 \in 0 .. n /\ ~ (i <= i - 1)
    BY <1>3, <1>4
<1>6. Loaded'[i - 1] = Loaded[i - 1]
    BY <1>3, <1>5
<1>7. Loaded[i] = SetMem(Loaded[i - 1], journal[i][1], journal[i][2], "any")
    BY <1>5, LoadedIs DEF LoadedLineByLine, Step
<1>8. Loaded'[i] = SetMem(Loaded[i - 1], journal[i][1], journal[i][2], "any")
    BY <1>5, <1>6, LoadedIsNext DEF LoadedLineByLine, Step, SetMem, FoundOnDisk, Has
<1> QED  BY <1>3, <1>7, <1>8

LEMMA ReplaySame ==
    ASSUME TypeOK, journal' = journal
    PROVE  /\ UNCHANGED <<file, exists>> => Replay' = Replay
           /\ \A x \in Keys : LastVal(x)' = LastVal(x)
<1>1. Len(journal) \in Nat
    BY DEF TypeOK
<1>2. UNCHANGED <<file, exists>> => Loaded'[Len(journal)] = Loaded[Len(journal)]
    BY <1>1, LoadedSame
<1> QED  BY <1>2 DEF Replay, LastVal

\* A line more changes the replay as sdb_set changes memory.
LEMMA ReplayLine ==
    ASSUME TypeOK, NEW k \in Keys, NEW v \in Vals \cup {Removed},
           journal' = Append(journal, <<k, v>>), UNCHANGED <<file, exists>>
    PROVE  /\ Replay' = SetMem(Replay, k, v, "any")
           /\ LastVal(k)' = v
           /\ \A x \in Keys \ {k} : LastVal(x)' = LastVal(x)
<1> DEFINE n == Len(journal)
<1>1. journal \in Seq(Line) /\ n \in Nat
    BY DEF TypeOK
<1>2. /\ Len(journal') = n + 1
      /\ journal'[n + 1] = <<k, v>>
      /\ \A i \in 1 .. n : journal'[i] = journal[i]
    BY <1>1
<1> HIDE DEF n
<1>4. Loaded'[n] = Loaded[n]
    BY <1>1, <1>2, LoadedSame
<1>5. Replay' = SetMem(Replay, k, v, "any")
    <2>1. n + 1 \in Nat \ {0} /\ (n + 1) - 1 = n
        BY <1>1
    <2>2. PICK p \in Nat \ {0} : p = n + 1 /\ p - 1 = n
        BY <2>1
    <2>3. journal'[p][1] = k /\ journal'[p][2] = v /\ Loaded'[p - 1] = Loaded[n]
        BY <2>2, <1>2, <1>4
    <2>4. Loaded'[p] = SetMem(Loaded'[p - 1], journal'[p][1], journal'[p][2], "any")
        BY LoadedIsNext DEF LoadedLineByLine, Step, SetMem, FoundOnDisk, Has
    <2>5. Loaded'[p] = SetMem(Loaded[n], k, v, "any")
        BY <2>3, <2>4
    <2> QED  BY <2>2, <2>5, <1>2 DEF Replay, n
<1>6. ASSUME NEW x \in Keys PROVE LastVal(x)' = IF x = k THEN v ELSE LastVal(x)
    <2>1. n + 1 \in Nat \ {0} /\ (n + 1) - 1 = n
        BY <1>1
    <2>2. LastIn(journal', n + 1, x) = IF x = k THEN v ELSE LastIn(journal', n, x)
        <3>1. PICK p \in Nat \ {0} : p = n + 1 /\ p - 1 = n
            BY <2>1
        <3>2. LastIn(journal', p, x) = IF journal'[p][1] = x THEN journal'[p][2]
                                       ELSE LastIn(journal', p - 1, x)
            BY LastStep
        <3> QED  BY <3>1, <3>2, <1>2
    <2>3. LastIn(journal', n, x) = LastIn(journal, n, x)
        BY <1>1, <1>2, LastSame
    <2>4. LastVal(x)' = LastIn(journal', n + 1, x)
        BY <1>2 DEF LastVal
    <2> QED  BY <2>2, <2>3, <2>4 DEF LastVal, n
<1> QED  BY <1>5, <1>6

\* Every line about a key that is not on disk puts the key in or takes it out.
Toggles ==
    /\ \A k \in Keys : Loaded[0].val[k] = None
    /\ \A m \in 1 .. Len(journal), k \in Keys : ~FoundOnDisk(k) =>
          (Loaded[m].val[k] = None <=> IF journal[m][1] = k THEN Loaded[m - 1].val[k] # None
                                                            ELSE Loaded[m - 1].val[k] = None)

LEMMA TogglesIs == TypeOK => Toggles
<1> SUFFICES ASSUME TypeOK PROVE Toggles
    OBVIOUS
<1>1. journal \in Seq(Line) /\ Len(journal) \in Nat
    BY DEF TypeOK
<1>2. Loaded[0] = NoMem /\ NoMem \in Mem /\ \A k \in Keys : NoMem.val[k] = None
    BY LoadedIs DEF LoadedLineByLine, NoMem, Mem
<1>3. ASSUME NEW m \in 1 .. Len(journal), Loaded[m - 1] \in Mem
      PROVE  /\ Loaded[m] \in Mem
             /\ \A k \in Keys : ~FoundOnDisk(k) =>
                   (Loaded[m].val[k] = None
                      <=> IF journal[m][1] = k THEN Loaded[m - 1].val[k] # None
                                               ELSE Loaded[m - 1].val[k] = None)
    <2>1. m \in Nat \ {0} /\ journal[m] \in Line
        BY <1>1
    <2>2. PICK x \in Keys, v \in Vals \cup {Removed} : journal[m] = <<x, v>>
        BY <2>1 DEF Line
    <2>3. PICK q \in Mem : q = Loaded[m - 1]
        BY <1>3
    <2>4. PICK s : s = SetMem(q, x, v, "any")
        OBVIOUS
    <2>5. Loaded[m] = s
        BY <2>1, <2>2, <2>3, <2>4, LoadedIs DEF LoadedLineByLine, Step
    <2>6. s \in Mem
        BY <2>4, SetMemType
    <2>7. /\ s.val[x] = IF q.val[x] = None THEN v
                        ELSE IF ~FoundOnDisk(x) THEN None
                        ELSE IF "any" = "stale" THEN q.val[x] ELSE v
          /\ \A y \in Keys \ {x} : s.val[y] = q.val[y]
        BY <2>4, SetMemKey
    <2>8. v # None
        BY ValsAssumption DEF None, Removed
    <2>9. ASSUME NEW k \in Keys, ~FoundOnDisk(k)
          PROVE  s.val[k] = None <=> IF x = k THEN q.val[k] # None ELSE q.val[k] = None
        BY <2>7, <2>8, <2>9
    <2> QED  BY <2>2, <2>3, <2>5, <2>6, <2>9
<1> DEFINE S == {m \in 0 .. Len(journal) : Loaded[m] \notin Mem}
<1>4. S = {}
    <2>1. SUFFICES ASSUME S # {} PROVE FALSE
        OBVIOUS
    <2>2. S \subseteq Nat
        OBVIOUS
    <2>3. PICK m \in S : \A i \in S : m <= i
        BY <2>1, <2>2, LeastNatural
    <2>4. m # 0
        BY <2>3, <1>2
    <2>5. m \in 1 .. Len(journal) /\ m - 1 \in 0 .. Len(journal) /\ ~ (m <= m - 1)
        BY <2>3, <2>4, <1>1
    <2> QED  BY <2>3, <2>5, <1>3
<1>5. \A m \in 1 .. Len(journal) : m - 1 \in 0 .. Len(journal)
    BY <1>1
<1>6. \A m \in 1 .. Len(journal) : Loaded[m - 1] \in Mem
    BY <1>4, <1>5
<1> QED  BY <1>2, <1>3, <1>6 DEF Toggles

LEMMA TogglesNext == TypeOK' => Toggles'
BY TogglesIs, PTL

\* The last line about a key of a journal that is logged a second time.
LEMMA LastDoubled ==
    ASSUME NEW j, NEW d, NEW n \in Nat, NEW k,
           \A i \in 1 .. n : d[i] = j[i] /\ d[n + i] = j[i]
    PROVE  LastIn(d, n + n, k) = LastIn(j, n, k)
<1>0. n + n \in Nat
    OBVIOUS
<1>1. ASSUME NEW i \in LinesIn(d, n + n, k)
      PROVE  i \in LinesIn(j, n, k) \/ i - n \in LinesIn(j, n, k)
    <2>1. i \in 1 .. n + n /\ d[i][1] = k
        BY DEF LinesIn
    <2>2. CASE i <= n
        BY <2>1, <2>2 DEF LinesIn
    <2>3. CASE ~(i <= n)
        <3>1. i - n \in 1 .. n /\ n + (i - n) = i
            BY <2>1, <2>3
        <3> QED  BY <2>1, <3>1 DEF LinesIn
    <2> QED  BY <2>2, <2>3
<1>2. ASSUME NEW i \in LinesIn(j, n, k)
      PROVE  n + i \in LinesIn(d, n + n, k) /\ i \in 1 .. n
    BY DEF LinesIn
<1>3. CASE LinesIn(j, n, k) = {}
    <2>1. LinesIn(d, n + n, k) = {}
        BY <1>1, <1>3
    <2> QED  BY <1>3, <2>1 DEF LastIn
<1>4. CASE LinesIn(j, n, k) # {}
    <2>1. PICK i \in LinesIn(j, n, k) : /\ \A l \in LinesIn(j, n, k) : l <= i
                                        /\ LastIn(j, n, k) = j[i][2]
        BY <1>4, LastAt
    <2>2. n + i \in LinesIn(d, n + n, k) /\ i \in 1 .. n
        BY <1>2
    <2>3. PICK g \in LinesIn(d, n + n, k) : /\ \A l \in LinesIn(d, n + n, k) : l <= g
                                            /\ LastIn(d, n + n, k) = d[g][2]
        BY <1>0, <2>2, LastAt
    <2>4. n + i <= g /\ g \in 1 .. n + n
        BY <2>2, <2>3 DEF LinesIn
    <2>5. g - n \in LinesIn(j, n, k)
        <3>1. g \notin LinesIn(j, n, k)
            BY <2>2, <2>4 DEF LinesIn
        <3> QED  BY <1>1, <3>1
    <2>6. g - n <= i
        BY <2>1, <2>5
    <2>7. g = n + i
        BY <2>2, <2>4, <2>6
    <2> QED  BY <2>1, <2>2, <2>3, <2>7
<1> QED  BY <1>3, <1>4

\* A journal that sdb_journal_load has logged a second time gives a key of the
\* file the same value; for the other keys the second copy undoes the first.
LEMMA Doubled ==
    ASSUME TypeOK, TypeOK', journal' = journal \o journal, UNCHANGED <<file, exists>>,
           NEW k \in Keys
    PROVE  IF FoundOnDisk(k) THEN Replay'.val[k] = Replay.val[k] ELSE Replay'.val[k] = None
<1>1. PICK n \in Nat : n = Len(journal)
    BY DEF TypeOK
<1>2. /\ Len(journal') = n + n
      /\ \A i \in 1 .. n : journal'[i] = journal[i] /\ journal'[n + i] = journal[i]
    <2>1. journal \in Seq(Line)
        BY DEF TypeOK
    <2> QED  BY <1>1, <2>1
<1>3. FoundOnDisk(k)' <=> FoundOnDisk(k)
    BY DEF FoundOnDisk
<1>4. CASE FoundOnDisk(k)
    <2>1. Replay.val[k] = LastIn(journal, n, k)
        BY <1>1, <1>4, ReplayIs DEF ReplayForm, LastVal
    <2>2. Replay'.val[k] = LastIn(journal', n + n, k)
        BY <1>2, <1>3, <1>4, ReplayIsNext DEF ReplayForm, LastVal
    <2>3. LastIn(journal', n + n, k) = LastIn(journal, n, k)
        BY <1>2, LastDoubled
    <2> QED  BY <1>4, <2>1, <2>2, <2>3
<1>5. CASE ~FoundOnDisk(k)
    <2> DEFINE A == {i \in 0 .. n : Loaded[i].val[k] # None}
               B == {i \in 0 .. n : Loaded'[n + i].val[k] # None}
               S == {i \in 0 .. n : ~ (i \in B <=> ~ (n \in A <=> i \in A))}
    <2>1. 0 \notin A
        BY TogglesIs DEF Toggles
    <2>2. 0 \in B <=> n \in A
        <3>1. Loaded'[n] = Loaded[n] /\ n + 0 = n /\ {0, n} \subseteq 0 .. n
            BY <1>2, LoadedSame
        <3> QED  BY <3>1
    <2>3. ASSUME NEW i \in 1 .. n
          PROVE  /\ i \in A <=> IF journal[i][1] = k THEN i - 1 \notin A ELSE i - 1 \in A
                 /\ i \in B <=> IF journal[i][1] = k THEN i - 1 \notin B ELSE i - 1 \in B
        <3>1. /\ i \in 1 .. Len(journal) /\ n + i \in 1 .. Len(journal')
              /\ (n + i) - 1 = n + (i - 1) /\ journal'[n + i] = journal[i]
              /\ i \in 0 .. n /\ i - 1 \in 0 .. n
            BY <1>1, <1>2
        <3>2. Loaded[i].val[k] = None <=>
                 IF journal[i][1] = k THEN Loaded[i - 1].val[k] # None
                                      ELSE Loaded[i - 1].val[k] = None
            BY <1>5, <3>1, TogglesIs DEF Toggles
        <3>3. Loaded'[n + i].val[k] = None <=>
                 IF journal'[n + i][1] = k THEN Loaded'[(n + i) - 1].val[k] # None
                                           ELSE Loaded'[(n + i) - 1].val[k] = None
            BY <1>3, <1>5, <3>1, TogglesNext DEF Toggles
        <3> QED  BY <3>1, <3>2, <3>3
    <2> HIDE DEF A, B
    <2>4. S = {}
        <3>1. SUFFICES ASSUME S # {} PROVE FALSE
            OBVIOUS
        <3>2. S \subseteq Nat
            OBVIOUS
        <3>3. PICK i \in S : \A l \in S : i <= l
            BY <3>1, <3>2, LeastNatural
        <3>4. i # 0
            BY <3>3, <2>1, <2>2
        <3>5. i \in 1 .. n /\ i - 1 \in 0 .. n /\ ~ (i <= i - 1)
            BY <3>3, <3>4
        <3>6. i - 1 \in B <=> ~ (n \in A <=> i - 1 \in A)
            BY <3>3, <3>5
        <3> QED  BY <3>3, <3>5, <3>6, <2>3
    <2>5. n \in 0 .. n /\ n \notin B
        <3>1. n \in 0 .. n
            OBVIOUS
        <3> QED  BY <2>4, <3>1
    <2> QED  BY <1>2, <1>5, <2>5 DEF B, Replay
<1> QED  BY <1>4, <1>5

----------------------------------------------------------------------------
(* Type correctness.                                                       *)

LEMMA Typed ==
    TypeOK <=> /\ mem \in Mem
               /\ \A k \in Keys : mem.exp[k] # "no" => mem.val[k] # None
               /\ file \in [Keys -> Vals \cup {None}] /\ tmp \in [Keys -> Vals \cup {None}]
               /\ exists \in BOOLEAN /\ (~exists => file = NoPairs)
               /\ journal \in Seq(Line) /\ Len(journal) <= 2 * MaxJournal
               /\ logging \in BOOLEAN /\ replayed \subseteq Keys
               /\ pc \in {"down", "loaded", "open", "dumped", "renamed"}
BY DEF TypeOK, Mem, Has

LEMMA TypedNext ==
    TypeOK' <=> /\ mem' \in Mem
                /\ \A k \in Keys : mem'.exp[k] # "no" => mem'.val[k] # None
                /\ file' \in [Keys -> Vals \cup {None}] /\ tmp' \in [Keys -> Vals \cup {None}]
                /\ exists' \in BOOLEAN /\ (~exists' => file' = NoPairs)
                /\ journal' \in Seq(Line) /\ Len(journal') <= 2 * MaxJournal
                /\ logging' \in BOOLEAN /\ replayed' \subseteq Keys
                /\ pc' \in {"down", "loaded", "open", "dumped", "renamed"}
BY DEF TypeOK, Mem, Has, NoPairs, Line

LEMMA LogType ==
    ASSUME TypeOK, Running, NEW k \in Keys, NEW v \in Vals \cup {Removed},
           sdb_journal_log(k, v)
    PROVE  journal' \in Seq(Line) /\ Len(journal') <= 2 * MaxJournal
<1>1. journal \in Seq(Line) /\ Len(journal) < MaxJournal /\ MaxJournal \in Nat
    BY BoundsAssumption DEF TypeOK, Running
<1>2. PICK w \in Vals \cup {Removed} : w = IF v = Removed THEN v ELSE FirstLine[v]
    BY ValsAssumption
<1>3. <<k, w>> \in Line
    BY DEF Line
<1>4. journal' = journal \/ journal' = Append(journal, <<k, w>>)
    BY <1>2 DEF sdb_journal_log
<1>5. CASE journal' = journal
    BY <1>1, <1>5
<1>6. CASE journal' = Append(journal, <<k, w>>)
    BY <1>1, <1>3, <1>6
<1> QED  BY <1>4, <1>5, <1>6

LEMMA SetMemExpiry ==
    ASSUME TypeOK, NEW k \in Keys, NEW v \in Vals \cup {Removed}, NEW cas,
           NEW s, s = SetMem(mem, k, v, cas)
    PROVE  s \in Mem /\ \A x \in Keys : s.exp[x] # "no" => s.val[x] # None
<1>1. mem \in Mem /\ \A x \in Keys : mem.exp[x] # "no" => mem.val[x] # None
    BY Typed
<1>2. s \in Mem
    BY <1>1, SetMemType
<1>3. /\ s.val[k] = IF mem.val[k] = None THEN v
                    ELSE IF ~FoundOnDisk(k) THEN None
                    ELSE IF cas = "stale" THEN mem.val[k] ELSE v
      /\ s.exp[k] = IF mem.val[k] = None \/ FoundOnDisk(k) THEN mem.exp[k] ELSE "no"
      /\ \A x \in Keys \ {k} : s.val[x] = mem.val[x] /\ s.exp[x] = mem.exp[x]
    BY <1>1, SetMemKey
<1>4. v # None
    BY ValsAssumption DEF None, Removed
<1> QED  BY <1>1, <1>2, <1>3, <1>4

LEMMA DumpType ==
    ASSUME TypeOK, NEW k \in Keys
    PROVE  Dump(k) \in Vals \cup {None}
BY DEF TypeOK, Dump, Has

LEMMA TypeNext == TypeOK /\ [Next]_vars => TypeOK'
<1> SUFFICES ASSUME TypeOK, [Next]_vars PROVE TypeOK'
    OBVIOUS
<1> USE Typed
<1>1. ASSUME NEW k \in Keys, NEW v \in Vals \cup {Removed}, NEW cas \in {"any", "stale"},
             sdb_set(k, v, cas)
      PROVE  TypeOK'
    <2>1. mem' \in Mem /\ \A x \in Keys : mem'.exp[x] # "no" => mem'.val[x] # None
        <3>1. PICK s : s = SetMem(mem, k, v, cas)
            OBVIOUS
        <3>2. s \in Mem /\ \A x \in Keys : s.exp[x] # "no" => s.val[x] # None
            BY <3>1, SetMemExpiry
        <3> QED  BY <1>1, <3>1, <3>2 DEF sdb_set
    <2>2. journal' \in Seq(Line) /\ Len(journal') <= 2 * MaxJournal
        BY <1>1, LogType DEF sdb_set
    <2> QED  BY <2>1, <2>2, <1>1, TypedNext DEF sdb_set, disk
<1>2. ASSUME NEW k \in Keys, sdb_const_get(k)
      PROVE  TypeOK'
    <2>1. mem' \in Mem /\ \A x \in Keys : mem'.exp[x] # "no" => mem'.val[x] # None
        <3>1. PICK s : s = SetMem(mem, k, Removed, "any")
            OBVIOUS
        <3>2. s \in Mem /\ \A x \in Keys : s.exp[x] # "no" => s.val[x] # None
            BY <3>1, SetMemExpiry
        <3> QED  BY <1>2, <3>1, <3>2 DEF sdb_const_get
    <2>2. journal' \in Seq(Line) /\ Len(journal') <= 2 * MaxJournal
        BY <1>2, LogType DEF sdb_const_get
    <2> QED  BY <2>1, <2>2, <1>2, TypedNext DEF sdb_const_get, disk
<1>3. ASSUME NEW k \in Keys, TimePasses(k)
      PROVE  TypeOK'
    <2>1. mem' \in Mem /\ \A x \in Keys : mem'.exp[x] # "no" => mem'.val[x] # None
        BY <1>3 DEF TimePasses, Mem
    <2> QED  BY <2>1, <1>3, TypedNext DEF TimePasses, disk
<1>4. ASSUME NEW k \in Keys, NEW e \in {"no", "later"}, sdb_expire_set(k, e)
      PROVE  TypeOK'
    <2>1. mem.val[k] = None => file[k] \in Vals
        BY <1>4 DEF sdb_expire_set, ViewOf, Has
    <2>2. mem' \in Mem /\ \A x \in Keys : mem'.exp[x] # "no" => mem'.val[x] # None
        <3>1. PICK w \in Vals \cup {Removed} : w = IF Has(mem, k) THEN mem.val[k] ELSE file[k]
            BY <2>1 DEF Has, Mem
        <3>2. mem' = [mem EXCEPT !.val[k] = w, !.exp[k] = e]
            BY <1>4, <3>1 DEF sdb_expire_set, Mem
        <3>3. w # None
            BY ValsAssumption DEF None, Removed
        <3> QED  BY <3>2, <3>3 DEF Mem
    <2>3. journal' \in Seq(Line) /\ Len(journal') <= 2 * MaxJournal
        <3>1. CASE Has(mem, k)
            BY <1>4, <3>1 DEF sdb_expire_set
        <3>2. CASE ~Has(mem, k)
            BY <1>4, <2>1, <3>2, LogType DEF sdb_expire_set, Has
        <3> QED  BY <3>1, <3>2
    <2> QED  BY <2>2, <2>3, <1>4, TypedNext DEF sdb_expire_set, disk
<1>5. ASSUME sdb_sync
      PROVE  TypeOK'
    <2>1. PICK short \in BOOLEAN, failed \in SUBSET {k \in Keys : file[k] = None} :
              /\ tmp' = IF short THEN NoPairs ELSE [k \in Keys |-> Dump(k)]
              /\ mem' = [val |-> [k \in Keys |-> IF Unwritten(k) \/ k \in failed
                                                 THEN mem.val[k] ELSE None],
                         exp |-> [k \in Keys |-> IF Unwritten(k) \/ k \in failed
                                                 THEN mem.exp[k] ELSE "no"]]
        BY <1>5 DEF sdb_sync
    <2>2. mem' \in Mem /\ \A x \in Keys : mem'.exp[x] # "no" => mem'.val[x] # None
        BY <2>1 DEF Mem
    <2>3. tmp' \in [Keys -> Vals \cup {None}]
        BY <2>1, DumpType DEF NoPairs
    <2> QED  BY <2>2, <2>3, <1>5, TypedNext DEF sdb_sync
<1>6. ASSUME sdb_disk_finish
      PROVE  TypeOK'
    <2>1. NoPairs \in [Keys -> Vals \cup {None}]
        BY DEF NoPairs
    <2> QED  BY <2>1, <1>6, TypedNext DEF sdb_disk_finish
<1>7. ASSUME sdb_journal_clear
      PROVE  TypeOK'
    <2>1. << >> \in Seq(Line) /\ Len(<< >>) <= 2 * MaxJournal
        BY BoundsAssumption
    <2> QED  BY <2>1, <1>7, TypedNext DEF sdb_journal_clear, disk
<1>8. ASSUME NEW journaled \in BOOLEAN, sdb_config(journaled)
      PROVE  TypeOK'
    <2>1. NoMem \in Mem /\ \A x \in Keys : NoMem.exp[x] = "no"
        BY DEF NoMem, Mem
    <2>2. Replay \in Mem /\ \A x \in Keys : Replay.exp[x] = "no"
        BY ReplayIs DEF ReplayForm
    <2>3. journal \o journal \in Seq(Line) /\ Len(journal \o journal) = Len(journal) + Len(journal)
        OBVIOUS
    <2>4. journal' \in Seq(Line) /\ Len(journal') <= 2 * MaxJournal
        <3>1. Len(journal) \in Nat /\ MaxJournal \in Nat /\ Len(journal) <= MaxJournal
            BY <1>8, BoundsAssumption DEF sdb_config
        <3>2. journal' = journal \o journal \/ journal' = journal
            BY <1>8 DEF sdb_config
        <3>3. Len(journal) + Len(journal) <= 2 * MaxJournal /\ Len(journal) <= 2 * MaxJournal
            BY <3>1
        <3>4. CASE journal' = journal \o journal
            BY <2>3, <3>3, <3>4
        <3>5. CASE journal' = journal
            BY <3>3, <3>5
        <3> QED  BY <3>2, <3>4, <3>5
    <2>5. mem' \in Mem /\ \A x \in Keys : mem'.exp[x] = "no"
        BY <2>1, <2>2, <1>8 DEF sdb_config
    <2> QED  BY <2>4, <2>5, <1>8, TypedNext DEF sdb_config, disk
<1>9. ASSUME ConfigClear
      PROVE  TypeOK'
    <2>1. << >> \in Seq(Line) /\ Len(<< >>) <= 2 * MaxJournal
        BY BoundsAssumption
    <2> QED  BY <2>1, <1>9, TypedNext DEF ConfigClear, disk
<1>10. ASSUME sdb_fini \/ Crash
       PROVE  TypeOK'
    <2>1. NoMem \in Mem /\ \A x \in Keys : NoMem.exp[x] = "no"
        BY DEF NoMem, Mem
    <2>2. << >> \in Seq(Line) /\ Len(<< >>) <= 2 * MaxJournal
        BY BoundsAssumption
    <2> QED  BY <2>1, <2>2, <1>10, TypedNext DEF sdb_fini, Crash, disk
<1>11. CASE UNCHANGED vars
    BY <1>11, TypedNext DEF vars, disk
<1> QED  BY <1>1, <1>2, <1>3, <1>4, <1>5, <1>6, <1>7, <1>8, <1>9, <1>10, <1>11 DEF Next

\* Every copy of the data holds keys and values, only entries have an expiry
\* time, and a file that does not exist holds nothing, whatever fails.
THEOREM TypeCorrect == Spec => []TypeOK
<1>1. Init => TypeOK
    <2>1. << >> \in Seq(Line) /\ Len(<< >>) <= 2 * MaxJournal
        BY BoundsAssumption
    <2>2. NoMem \in Mem /\ \A x \in Keys : NoMem.exp[x] = "no"
        BY DEF NoMem, Mem
    <2>3. NoPairs \in [Keys -> Vals \cup {None}]
        BY DEF NoPairs
    <2> QED  BY <2>1, <2>2, <2>3, Typed DEF Init
<1> QED  BY <1>1, TypeNext, PTL DEF Spec

----------------------------------------------------------------------------
(* The store without its borders.                                          *)

\* The instances in which the store keeps its promises: none of the borders
\* is met, and values have one line.
Promised == Borders = {} /\ \A v \in Vals : FirstLine[v] = v

LEMMA Distinct ==
    /\ None # Removed /\ None # Volatile
    /\ \A v \in Vals : v # None /\ v # Removed /\ v # Volatile
BY ValsAssumption DEF None, Removed, Volatile

\* What a change writes to the journal.
LEMMA LogLine ==
    ASSUME Promised, TypeOK, NEW k \in Keys, NEW v \in Vals \cup {Removed},
           sdb_journal_log(k, v), UNCHANGED <<file, exists>>
    PROVE  /\ logging => /\ Replay' = SetMem(Replay, k, v, "any")
                         /\ LastVal(k)' = v
                         /\ \A x \in Keys \ {k} : LastVal(x)' = LastVal(x)
           /\ ~logging => journal' = journal
<1>1. ASSUME logging PROVE journal' = Append(journal, <<k, v>>)
    BY <1>1, Distinct DEF sdb_journal_log, Promised
<1>2. ASSUME ~logging PROVE journal' = journal
    BY <1>2 DEF sdb_journal_log
<1>3. logging => /\ Replay' = SetMem(Replay, k, v, "any")
                 /\ LastVal(k)' = v
                 /\ \A x \in Keys \ {k} : LastVal(x)' = LastVal(x)
    BY <1>1, ReplayLine
<1> QED  BY <1>2, <1>3

LEMMA EmptyJournal ==
    ASSUME TypeOK', journal' = << >>, NEW k \in Keys
    PROVE  LastVal(k)' = None /\ Replay'.val[k] = None /\ Replay'.exp[k] = "no" /\ Replay' = NoMem
<1>1. Replay' = NoMem
    BY ReplayIsNext DEF ReplayForm, NoMem
<1>2. LastIn(<< >>, 0, k) = None
    BY LastNone
<1>3. LastVal(k)' = None
    BY <1>2 DEF LastVal
<1> QED  BY <1>1, <1>3 DEF NoMem

\* Keys that a step leaves alone.
LEMMA OpenKeySame ==
    ASSUME NEW k \in Keys, OpenKey(k), UNCHANGED <<file, exists, logging>>,
           k \in replayed' <=> k \in replayed,
           mem'.val[k] = mem.val[k], mem'.exp[k] = mem.exp[k] \/ (mem.exp[k] # "no" /\ mem'.exp[k] # "no"),
           Replay'.val[k] = Replay.val[k], LastVal(k)' = LastVal(k)
    PROVE  OpenKey(k)'
<1>1. FoundOnDisk(k)' <=> FoundOnDisk(k)
    BY DEF FoundOnDisk
<1>2. Firm(k)' <=> Firm(k)
    BY DEF Firm
<1>3. Agree(k) => Agree(k)'
    BY <1>1, <1>2 DEF Agree
<1>4. Logged(k)'
    BY DEF Logged, OpenKey
<1> QED  BY <1>3, <1>4 DEF OpenKey

\* A set or a removal of key k, with or without a journal.
LEMMA OpenKeySet ==
    ASSUME Promised, TypeOK, TypeOK', NEW k \in Keys, NEW v \in Vals \cup {Removed},
           OpenKey(k), ~logging => journal = << >>,
           v # Removed /\ ~FoundOnDisk(k) => mem.val[k] = None /\ LastVal(k) = None,
           sdb_journal_log(k, v), mem' = SetMem(mem, k, v, "any"),
           replayed' = replayed \ {k}, UNCHANGED <<file, exists, logging>>
    PROVE  \A x \in Keys : OpenKey(x) => OpenKey(x)'
<1>1. mem \in Mem /\ Replay \in Mem
    BY Typed, ReplayIs DEF ReplayForm
<1>2. /\ mem'.val[k] = IF mem.val[k] = None THEN v
                       ELSE IF ~FoundOnDisk(k) THEN None
                       ELSE IF "any" = "stale" THEN mem.val[k] ELSE v
      /\ mem'.exp[k] = IF mem.val[k] = None \/ FoundOnDisk(k) THEN mem.exp[k] ELSE "no"
      /\ \A x \in Keys \ {k} : mem'.val[x] = mem.val[x] /\ mem'.exp[x] = mem.exp[x]
    <2>1. PICK s : s = SetMem(mem, k, v, "any")
        OBVIOUS
    <2>2. PICK m \in Mem : m = mem
        BY <1>1
    <2>3. s = SetMem(m, k, v, "any")
        BY <2>1, <2>2
    <2>4. /\ s.val[k] = IF m.val[k] = None THEN v
                        ELSE IF ~FoundOnDisk(k) THEN None
                        ELSE IF "any" = "stale" THEN m.val[k] ELSE v
          /\ s.exp[k] = IF m.val[k] = None \/ FoundOnDisk(k) THEN m.exp[k] ELSE "no"
          /\ \A x \in Keys \ {k} : s.val[x] = m.val[x] /\ s.exp[x] = m.exp[x]
        BY <2>3, SetMemKey
    <2> QED  BY <2>1, <2>2, <2>4
<1>3. CASE ~logging
    <2>1. journal' = journal /\ journal' = << >>
        BY <1>3 DEF sdb_journal_log
    <2> SUFFICES ASSUME NEW x \in Keys PROVE OpenKey(x)'
        OBVIOUS
    <2>2. LastVal(x)' = None
        BY <2>1, EmptyJournal
    <2> QED  BY <2>2, <1>3 DEF OpenKey, Logged
<1>4. CASE logging
    <2>1. /\ Replay' = SetMem(Replay, k, v, "any")
          /\ LastVal(k)' = v
          /\ \A x \in Keys \ {k} : LastVal(x)' = LastVal(x)
        BY <1>4, LogLine
    <2>2. /\ Replay'.val[k] = IF Replay.val[k] = None THEN v
                              ELSE IF ~FoundOnDisk(k) THEN None
                              ELSE IF "any" = "stale" THEN Replay.val[k] ELSE v
          /\ \A x \in Keys \ {k} : Replay'.val[x] = Replay.val[x]
        <3>1. PICK s : s = SetMem(Replay, k, v, "any")
            OBVIOUS
        <3> QED  BY <3>1, <2>1, <1>1, SetMemKey
    <2>3. ASSUME NEW x \in Keys \ {k}, OpenKey(x) PROVE OpenKey(x)'
        <3>1. x \in replayed' <=> x \in replayed
            OBVIOUS
        <3> QED  BY <2>1, <2>2, <2>3, <1>2, <3>1, OpenKeySame
    <2>4. OpenKey(k)'
        <3>1. FoundOnDisk(k)' <=> FoundOnDisk(k)
            BY DEF FoundOnDisk
        <3>2. Replay.val[k] \in {None, LastVal(k)}
            BY ReplayIs DEF ReplayForm
        <3>3. v # None /\ None # Removed
            BY Distinct
        <3>4. Logged(k)'
            BY <1>2, <2>1, <3>3 DEF Logged, FoundOnDisk
        <3>5. Agree(k)'
            <4>1. CASE FoundOnDisk(k)
                BY <4>1, <3>1, <3>3, <1>2, <2>2 DEF Agree
            <4>2. CASE ~FoundOnDisk(k) /\ v = Removed
                BY <4>2, <3>1, <3>3, <1>2, <2>2 DEF Agree
            <4>3. CASE ~FoundOnDisk(k) /\ v # Removed
                BY <4>3, <3>1, <3>2, <3>3, <1>2, <2>2 DEF Agree
            <4> QED  BY <4>1, <4>2, <4>3
        <3> QED  BY <3>4, <3>5 DEF OpenKey
    <2> QED  BY <2>3, <2>4
<1>5. logging \in BOOLEAN
    BY Typed
<1> QED  BY <1>3, <1>4, <1>5

\* While the process runs, only what its steps touch matters.
LEMMA StillOpen ==
    ASSUME StoreInv, pc = "open", pc' = "open", UNCHANGED logging,
           ~logging => journal' = journal, \A x \in Keys : OpenKey(x)'
    PROVE  StoreInv'
<1>1. ~logging' => journal' = << >>
    BY DEF StoreInv
<1> QED  BY <1>1 DEF StoreInv

LEMMA SetKeeps ==
    ASSUME Promised, TypeOK, TypeOK', StoreInv,
           NEW k \in Keys, NEW v \in Vals \cup {Removed}, NEW cas \in {"any", "stale"},
           sdb_set(k, v, cas)
    PROVE  StoreInv'
<1>1. cas = "any"
    BY DEF sdb_set, Within, Promised
<1>2. v # Removed /\ ~FoundOnDisk(k) => mem.val[k] = None /\ LastVal(k) = None
    <2>1. SUFFICES ASSUME v # Removed /\ ~FoundOnDisk(k)
                   PROVE  mem.val[k] = None /\ LastVal(k) = None
        OBVIOUS
    <2>2. ~ChangedSinceSync(k)
        BY <2>1 DEF sdb_set, Within, Promised
    <2>3. \A i \in 1 .. Len(journal) : journal[i] \in Range(journal)
        BY DEF Range, TypeOK
    <2>4. LinesIn(journal, Len(journal), k) = {}
        BY <2>2, <2>3 DEF ChangedSinceSync, LinesIn
    <2> QED  BY <2>2, <2>4 DEF ChangedSinceSync, Has, LastVal, LastIn
<1>3. /\ pc = "open" /\ pc' = "open" /\ mem' = SetMem(mem, k, v, "any")
      /\ sdb_journal_log(k, v) /\ replayed' = replayed \ {k}
      /\ UNCHANGED <<file, exists, logging>>
    BY <1>1 DEF sdb_set, disk, Running
<1>4. /\ \A x \in Keys : OpenKey(x)
      /\ ~logging => journal = << >>
    BY <1>3 DEF StoreInv
<1>5. \A x \in Keys : OpenKey(x) => OpenKey(x)'
    BY <1>2, <1>3, <1>4, OpenKeySet
<1>6. ~logging => journal' = journal
    BY <1>3 DEF sdb_journal_log
<1> QED  BY <1>3, <1>4, <1>5, <1>6, StillOpen

LEMMA GetKeeps ==
    ASSUME Promised, TypeOK, TypeOK', StoreInv, NEW k \in Keys, sdb_const_get(k)
    PROVE  StoreInv'
<1>3. /\ pc = "open" /\ pc' = "open" /\ mem' = SetMem(mem, k, Removed, "any")
      /\ sdb_journal_log(k, Removed) /\ replayed' = replayed \ {k}
      /\ UNCHANGED <<file, exists, logging>>
    BY DEF sdb_const_get, disk, Running
<1>4. /\ \A x \in Keys : OpenKey(x)
      /\ ~logging => journal = << >>
    BY <1>3 DEF StoreInv
<1>5. \A x \in Keys : OpenKey(x) => OpenKey(x)'
    <2>1. PICK v \in Vals \cup {Removed} : v = Removed
        OBVIOUS
    <2> QED  BY <2>1, <1>3, <1>4, OpenKeySet
<1>6. ~logging => journal' = journal
    BY <1>3 DEF sdb_journal_log
<1> QED  BY <1>3, <1>4, <1>5, <1>6, StillOpen

LEMMA TimeKeeps ==
    ASSUME TypeOK, TypeOK', StoreInv, NEW k \in Keys, TimePasses(k)
    PROVE  StoreInv'
<1>1. /\ pc = "open" /\ pc' = "open" /\ UNCHANGED <<file, exists, journal, logging, replayed>>
      /\ \A x \in Keys : /\ mem'.val[x] = mem.val[x]
                         /\ mem'.exp[x] = mem.exp[x] \/ (mem.exp[x] # "no" /\ mem'.exp[x] # "no")
    BY Typed DEF TimePasses, disk, Mem
<1>2. Replay' = Replay /\ \A x \in Keys : LastVal(x)' = LastVal(x)
    BY <1>1, ReplaySame
<1>3. \A x \in Keys : OpenKey(x)
    BY <1>1 DEF StoreInv
<1>4. ASSUME NEW x \in Keys PROVE OpenKey(x)'
    BY <1>1, <1>2, <1>3, OpenKeySame
<1> QED  BY <1>1, <1>4, StillOpen

LEMMA ExpireKeeps ==
    ASSUME Promised, TypeOK, TypeOK', StoreInv,
           NEW k \in Keys, NEW e \in {"no", "later"}, sdb_expire_set(k, e)
    PROVE  StoreInv'
<1>1. e = "later"
    BY DEF sdb_expire_set, Within, Promised
<1>2. pc = "open" /\ pc' = "open" /\ UNCHANGED <<file, exists, logging, replayed>>
    BY DEF sdb_expire_set, disk, Running
<1>3. /\ \A x \in Keys : OpenKey(x)
      /\ ~logging => journal = << >>
    BY <1>2 DEF StoreInv
<1>4. \A x \in Keys \ {k} : mem'.val[x] = mem.val[x] /\ mem'.exp[x] = mem.exp[x]
    BY Typed DEF sdb_expire_set, Mem
<1>5. mem'.exp[k] = "later" /\ mem'.val[k] = IF mem.val[k] = None THEN file[k] ELSE mem.val[k]
    BY <1>1, Typed DEF sdb_expire_set, Mem, Has
<1>6. FoundOnDisk(k)' <=> FoundOnDisk(k)
    BY <1>2 DEF FoundOnDisk
<1>7. ASSUME mem.val[k] # None
      PROVE  (\A x \in Keys : OpenKey(x)') /\ journal' = journal
    <2>1. journal' = journal
        BY <1>7 DEF sdb_expire_set, Has
    <2>2. Replay' = Replay /\ \A x \in Keys : LastVal(x)' = LastVal(x)
        BY <1>2, <2>1, ReplaySame
    <2>3. ASSUME NEW x \in Keys \ {k} PROVE OpenKey(x)'
        BY <1>2, <1>3, <1>4, <2>2, OpenKeySame
    <2>4. OpenKey(k)'
        <3>1. Logged(k)'
            BY <1>3, <1>5, <1>7, <2>2 DEF OpenKey, Logged
        <3>2. Agree(k) => Agree(k)'
            BY <1>5, <1>6, <1>7, <2>2 DEF Agree, Firm
        <3> QED  BY <1>2, <1>3, <3>1, <3>2 DEF OpenKey
    <2> QED  BY <2>1, <2>3, <2>4
<1>8. ASSUME mem.val[k] = None
      PROVE  (\A x \in Keys : OpenKey(x)') /\ (~logging => journal' = journal)
    <2>1. file[k] \in Vals
        BY <1>8, Typed DEF sdb_expire_set, ViewOf, Has
    <2>2. sdb_journal_log(k, file[k])
        BY <1>8 DEF sdb_expire_set, Has
    <2>3. CASE ~logging
        <3>1. journal' = journal /\ journal' = << >>
            BY <1>3, <2>2, <2>3 DEF sdb_journal_log
        <3>2. ASSUME NEW x \in Keys PROVE OpenKey(x)'
            <4>1. LastVal(x)' = None
                BY <3>1, EmptyJournal
            <4> QED  BY <4>1, <2>3, <1>2 DEF OpenKey, Logged
        <3> QED  BY <3>1, <3>2
    <2>4. CASE logging
        <3>1. /\ Replay' = SetMem(Replay, k, file[k], "any")
              /\ LastVal(k)' = file[k]
              /\ \A x \in Keys \ {k} : LastVal(x)' = LastVal(x)
            BY <1>2, <2>1, <2>2, <2>4, LogLine
        <3>2. Replay \in Mem
            BY ReplayIs DEF ReplayForm
        <3>3. /\ Replay'.val[k] = IF Replay.val[k] = None THEN file[k]
                                  ELSE IF ~FoundOnDisk(k) THEN None
                                  ELSE IF "any" = "stale" THEN Replay.val[k] ELSE file[k]
              /\ \A x \in Keys \ {k} : Replay'.val[x] = Replay.val[x]
            <4>1. PICK v \in Vals \cup {Removed} : v = file[k]
                BY <2>1
            <4>2. PICK s : s = SetMem(Replay, k, v, "any")
                OBVIOUS
            <4> QED  BY <4>1, <4>2, <3>1, <3>2, SetMemKey
        <3>4. ASSUME NEW x \in Keys \ {k} PROVE OpenKey(x)'
            BY <3>1, <3>3, <1>2, <1>3, <1>4, OpenKeySame
        <3>5. FoundOnDisk(k)
            BY <2>1, Distinct DEF FoundOnDisk
        <3>6. Agree(k)'
            BY <3>3, <3>5, <1>5, <1>6, <1>8 DEF Agree
        <3>7. Logged(k)'
            BY <3>1, <1>5, <1>8 DEF Logged
        <3> QED  BY <3>4, <3>6, <3>7, <2>4 DEF OpenKey
    <2>5. logging \in BOOLEAN
        BY Typed
    <2> QED  BY <2>3, <2>4, <2>5
<1>9. (\A x \in Keys : OpenKey(x)') /\ (~logging => journal' = journal)
    BY <1>7, <1>8
<1> QED  BY <1>2, <1>9, StillOpen

\* What sdb_sync writes, and what it leaves in memory.
LEMMA SyncEffect ==
    ASSUME Promised, TypeOK, sdb_sync, NEW k \in Keys
    PROVE  /\ tmp'[k] = Dump(k)
           /\ mem'.val[k] = IF Unwritten(k) THEN mem.val[k] ELSE None
           /\ mem'.exp[k] = IF Unwritten(k) THEN mem.exp[k] ELSE "no"
<1>1. PICK short \in BOOLEAN, failed \in SUBSET {x \in Keys : file[x] = None} :
          /\ Within("short_write", short) /\ (~short => failed = {})
          /\ tmp' = IF short THEN NoPairs ELSE [x \in Keys |-> Dump(x)]
          /\ mem' = [val |-> [x \in Keys |-> IF Unwritten(x) \/ x \in failed
                                             THEN mem.val[x] ELSE None],
                     exp |-> [x \in Keys |-> IF Unwritten(x) \/ x \in failed
                                             THEN mem.exp[x] ELSE "no"]]
    BY DEF sdb_sync
<1>2. ~short /\ failed = {}
    BY <1>1 DEF Within, Promised
<1> QED  BY <1>1, <1>2

\* What a key of the replay is worth, without the record.
LEMMA ReplayView ==
    ASSUME TypeOK, NEW k \in Keys
    PROVE  ViewOf(Replay, k) = IF Replay.val[k] = None THEN file[k]
                               ELSE IF Replay.val[k] = Removed THEN None ELSE Replay.val[k]
BY ReplayIs DEF ReplayForm, ViewOf, Has

LEMMA ReplayViewNext ==
    ASSUME TypeOK', NEW k \in Keys
    PROVE  ViewOf(Replay, k)' = IF Replay'.val[k] = None THEN file'[k]
                                ELSE IF Replay'.val[k] = Removed THEN None ELSE Replay'.val[k]
BY ReplayIsNext DEF ReplayForm, ViewOf, Has

LEMMA SyncKeeps ==
    ASSUME Promised, TypeOK, TypeOK', StoreInv, sdb_sync
    PROVE  StoreInv'
<1>1. /\ pc = "open" /\ pc' = "dumped"
      /\ UNCHANGED <<file, exists, journal, logging, replayed>>
    BY DEF sdb_sync
<1>2. Replay' = Replay /\ \A x \in Keys : LastVal(x)' = LastVal(x)
    BY <1>1, ReplaySame
<1>3. ASSUME NEW k \in Keys PROVE Dumped(k)'
    <2>1. OpenKey(k)
        BY <1>1 DEF StoreInv
    <2>2. /\ tmp'[k] = Dump(k)
          /\ mem'.val[k] = IF Unwritten(k) THEN mem.val[k] ELSE None
          /\ mem'.exp[k] = IF Unwritten(k) THEN mem.exp[k] ELSE "no"
        BY SyncEffect
    <2>3. ViewOf(Replay, k)' = IF Replay.val[k] = None THEN file[k]
                               ELSE IF Replay.val[k] = Removed THEN None ELSE Replay.val[k]
        BY <1>1, <1>2, ReplayViewNext
    <2>4. /\ mem.val[k] \in Vals \cup {None, Removed} /\ file[k] \in Vals \cup {None}
          /\ mem.exp[k] # "no" => mem.val[k] # None
        BY Typed DEF Mem
    <2>5. Dump(k) = IF file[k] # None
                    THEN IF mem.val[k] = None THEN file[k]
                         ELSE IF mem.val[k] = Removed THEN None ELSE mem.val[k]
                    ELSE IF mem.val[k] # Removed /\ mem.exp[k] = "no" THEN mem.val[k] ELSE None
        BY DEF Dump, Has
    <2>6. Unwritten(k) <=> file[k] = None /\ Dump(k) = None
        BY DEF Unwritten
    <2>7. None # Removed /\ \A v \in Vals : v # None /\ v # Removed
        BY Distinct
    <2>8. ASSUME mem'.exp[k] = "no", logging /\ k \notin replayed
          PROVE  tmp'[k] = ViewOf(Replay, k)'
        <3>1. Agree(k)
            BY <2>1, <2>8 DEF OpenKey
        <3>2. CASE FoundOnDisk(k)
            <4>1. mem.val[k] = Replay.val[k]
                BY <3>1, <3>2 DEF Agree
            <4> QED  BY <4>1, <2>2, <2>3, <2>4, <2>5, <2>6, <2>7, <2>8
        <3>3. CASE ~FoundOnDisk(k)
            <4>1. file[k] = None
                BY <3>3 DEF FoundOnDisk
            <4>2. mem.exp[k] = "no"
                BY <4>1, <2>2, <2>4, <2>5, <2>6, <2>8
            <4>3. mem.val[k] = Replay.val[k] \/ {mem.val[k], Replay.val[k]} \subseteq {None, Removed}
                BY <3>1, <3>3, <4>2 DEF Agree, Firm
            <4> QED  BY <4>1, <4>2, <4>3, <2>2, <2>3, <2>4, <2>5, <2>6, <2>7
        <3> QED  BY <3>2, <3>3
    <2>9. ASSUME mem'.exp[k] = "no"
          PROVE  /\ \/ LastVal(k) \in {None, tmp'[k]}
                    \/ LastVal(k) = Removed /\ tmp'[k] = None
                 /\ mem'.val[k] = None \/ (mem'.val[k] = Removed /\ tmp'[k] = None)
        <3>1. \/ LastVal(k) \in {None, mem.val[k]}
              \/ LastVal(k) = Removed /\ mem.val[k] = None /\ file[k] = None
            BY <2>1 DEF OpenKey, Logged
        <3> QED  BY <3>1, <2>2, <2>4, <2>5, <2>6, <2>7, <2>9
    <2>10. ASSUME mem'.exp[k] # "no"
           PROVE  file[k] = None /\ tmp'[k] = None
        BY <2>2, <2>6, <2>10
    <2> QED  BY <1>1, <1>2, <2>8, <2>9, <2>10 DEF Dumped, Firm
<1>4. ~logging' => journal' = << >>
    BY <1>1 DEF StoreInv
<1> QED  BY <1>1, <1>3, <1>4 DEF StoreInv

LEMMA FinishEffect ==
    ASSUME Promised, sdb_disk_finish
    PROVE  /\ pc = "dumped" /\ pc' = "renamed" /\ file' = tmp /\ exists'
           /\ replayed' = {} /\ UNCHANGED <<mem, journal, logging>>
BY DEF sdb_disk_finish, Within, Promised

LEMMA FinishKeeps ==
    ASSUME Promised, TypeOK, TypeOK', StoreInv, sdb_disk_finish
    PROVE  StoreInv'
<1>1. /\ pc = "dumped" /\ pc' = "renamed" /\ file' = tmp /\ exists'
      /\ replayed' = {} /\ UNCHANGED <<mem, journal, logging>>
    BY FinishEffect
<1>2. \A x \in Keys : LastVal(x)' = LastVal(x)
    BY <1>1, ReplaySame
<1>3. ASSUME NEW k \in Keys PROVE Renamed(k)'
    <2>1. Dumped(k)
        BY <1>1 DEF StoreInv
    <2>2. /\ Replay'.val[k] \in {None, LastVal(k)}
          /\ FoundOnDisk(k)' => Replay'.val[k] = LastVal(k)
        BY <1>2, ReplayIsNext DEF ReplayForm
    <2>3. FoundOnDisk(k)' <=> tmp[k] # None
        BY <1>1 DEF FoundOnDisk
    <2>4. ViewOf(Replay, k)' = IF Replay'.val[k] = None THEN tmp[k]
                               ELSE IF Replay'.val[k] = Removed THEN None ELSE Replay'.val[k]
        BY <1>1, ReplayViewNext
    <2>5. tmp[k] \in Vals \cup {None} /\ None # Removed /\ \A v \in Vals : v # None /\ v # Removed
        BY Typed, Distinct
    <2>6. ASSUME Firm(k) PROVE ViewOf(Replay, k)' = tmp[k]
        <3>1. LastVal(k) \in {None, tmp[k]} \/ (LastVal(k) = Removed /\ tmp[k] = None)
            BY <2>1, <2>6 DEF Dumped
        <3> QED  BY <3>1, <2>2, <2>3, <2>4, <2>5
    <2>7. Firm(k)' <=> Firm(k)
        BY <1>1 DEF Firm
    <2> QED  BY <1>1, <2>1, <2>6, <2>7 DEF Dumped, Renamed
<1>4. ~logging' => journal' = << >>
    BY <1>1 DEF StoreInv
<1> QED  BY <1>1, <1>3, <1>4 DEF StoreInv

LEMMA ClearKeeps ==
    ASSUME TypeOK, TypeOK', StoreInv, sdb_journal_clear
    PROVE  StoreInv'
<1>1. pc = "renamed" /\ pc' = "open" /\ UNCHANGED <<mem, file, exists, logging>>
    BY DEF sdb_journal_clear, disk
<1>2. journal' = << >>
    BY <1>1 DEF sdb_journal_clear, StoreInv
<1>3. ASSUME NEW k \in Keys PROVE OpenKey(k)'
    <2>1. LastVal(k)' = None /\ Replay'.val[k] = None
        BY <1>2, EmptyJournal
    <2>2. Renamed(k) /\ exists
        BY <1>1 DEF StoreInv
    <2>3. FoundOnDisk(k)' <=> file[k] # None
        BY <1>1, <2>2 DEF FoundOnDisk
    <2>4. Firm(k)' <=> Firm(k)
        BY <1>1 DEF Firm
    <2>5. Agree(k)'
        BY <1>1, <2>1, <2>2, <2>3, <2>4 DEF Agree, Renamed
    <2> QED  BY <2>1, <2>5 DEF OpenKey, Logged
<1> QED  BY <1>1, <1>2, <1>3 DEF StoreInv

LEMMA ConfigKeeps ==
    ASSUME Promised, TypeOK, TypeOK', StoreInv, NEW journaled \in BOOLEAN, sdb_config(journaled)
    PROVE  StoreInv'
<1>1. pc = "down" /\ logging' = journaled /\ UNCHANGED <<file, exists>>
    BY DEF sdb_config, disk
<1>2. ASSUME journaled PROVE StoreInv'
    <2>1. /\ mem' = Replay /\ journal' = journal \o journal /\ pc' = "loaded"
          /\ replayed' = {k \in Keys : Has(Replay, k)}
        BY <1>2 DEF sdb_config
    <2>2. ASSUME NEW k \in Keys PROVE LoadedKey(k)'
        <3>1. mem'.exp[k] = "no" /\ (k \notin replayed' => mem'.val[k] = None)
            BY <2>1, ReplayIs DEF ReplayForm, Has
        <3>2. FoundOnDisk(k)' <=> FoundOnDisk(k)
            BY <1>1 DEF FoundOnDisk
        <3> QED  BY <1>1, <2>1, <3>1, <3>2, Doubled DEF LoadedKey, Firm
    <2> QED  BY <1>1, <1>2, <2>1, <2>2 DEF StoreInv
<1>3. ASSUME ~journaled PROVE StoreInv'
    <2>1. mem' = NoMem /\ journal' = << >> /\ pc' = "open"
        BY <1>3 DEF sdb_config, Within, Promised
    <2>2. ASSUME NEW k \in Keys PROVE OpenKey(k)'
        <3>1. LastVal(k)' = None
            BY <2>1, EmptyJournal
        <3> QED  BY <3>1, <1>1, <1>3 DEF OpenKey, Logged
    <2> QED  BY <1>1, <2>1, <2>2 DEF StoreInv
<1> QED  BY <1>2, <1>3

LEMMA ConfigClearKeeps ==
    ASSUME TypeOK, TypeOK', StoreInv, ConfigClear
    PROVE  StoreInv'
<1>1. /\ pc = "loaded" /\ pc' = "open" /\ journal' = << >>
      /\ UNCHANGED <<mem, file, exists, logging, replayed>>
    BY DEF ConfigClear, disk
<1>2. ASSUME NEW k \in Keys PROVE OpenKey(k)'
    <2>1. LastVal(k)' = None /\ Replay'.val[k] = None
        BY <1>1, EmptyJournal
    <2>2. k \notin replayed' => mem'.val[k] = None
        BY <1>1 DEF StoreInv, LoadedKey
    <2>3. k \notin replayed' => Agree(k)'
        BY <2>1, <2>2 DEF Agree
    <2> QED  BY <2>1, <2>3 DEF OpenKey, Logged
<1> QED  BY <1>1, <1>2 DEF StoreInv

LEMMA EndKeeps ==
    ASSUME sdb_fini \/ Crash
    PROVE  StoreInv'
BY DEF sdb_fini, Crash, StoreInv, NoMem

LEMMA StoreNext ==
    ASSUME Promised, TypeOK, StoreInv, [Next]_vars
    PROVE  StoreInv'
<1>1. TypeOK'
    BY TypeNext
<1>2. CASE UNCHANGED vars
    <2>1. UNCHANGED <<mem, file, exists, tmp, journal, logging, pc, replayed>>
        BY <1>2 DEF vars, disk
    <2>2. Replay' = Replay /\ \A x \in Keys : LastVal(x)' = LastVal(x)
        BY <2>1, ReplaySame
    <2>3. \A k \in Keys : (FoundOnDisk(k)' <=> FoundOnDisk(k)) /\ (Firm(k)' <=> Firm(k))
        BY <2>1 DEF FoundOnDisk, Firm
    <2>4. \A k \in Keys : ViewOf(Replay, k)' = ViewOf(Replay, k)
        BY <2>1, <2>2 DEF ViewOf, Has
    <2>5. ASSUME NEW k \in Keys
          PROVE  /\ LoadedKey(k) => LoadedKey(k)'
                 /\ OpenKey(k) => OpenKey(k)'
                 /\ Dumped(k) => Dumped(k)'
                 /\ Renamed(k) => Renamed(k)'
        <3>1. Agree(k) => Agree(k)'
            BY <2>1, <2>2, <2>3 DEF Agree
        <3>2. Logged(k) => Logged(k)'
            BY <2>1, <2>2 DEF Logged
        <3>3. OpenKey(k) => OpenKey(k)'
            BY <2>1, <3>1, <3>2 DEF OpenKey
        <3>4. Dumped(k) => Dumped(k)'
            BY <2>1, <2>2, <2>3, <2>4 DEF Dumped
        <3>5. Renamed(k) => Renamed(k)'
            BY <2>1, <2>2, <2>3, <2>4 DEF Renamed
        <3>6. LoadedKey(k) => LoadedKey(k)'
            BY <2>1, <2>2, <2>3 DEF LoadedKey
        <3> QED  BY <3>3, <3>4, <3>5, <3>6
    <2> QED  BY <2>1, <2>5 DEF StoreInv, NoMem
<1>3. CASE \E k \in Keys, v \in Vals \cup {Removed}, cas \in {"any", "stale"} : sdb_set(k, v, cas)
    BY <1>1, <1>3, SetKeeps
<1>4. CASE \E k \in Keys : sdb_const_get(k) \/ TimePasses(k)
    BY <1>1, <1>4, GetKeeps, TimeKeeps
<1>5. CASE \E k \in Keys, e \in {"no", "later"} : sdb_expire_set(k, e)
    BY <1>1, <1>5, ExpireKeeps
<1>6. CASE sdb_sync \/ sdb_disk_finish \/ sdb_journal_clear
    BY <1>1, <1>6, SyncKeeps, FinishKeeps, ClearKeeps
<1>7. CASE \E journaled \in BOOLEAN : sdb_config(journaled)
    BY <1>1, <1>7, ConfigKeeps
<1>8. CASE ConfigClear \/ sdb_fini \/ Crash
    BY <1>1, <1>8, ConfigClearKeeps, EndKeeps
<1> QED  BY <1>2, <1>3, <1>4, <1>5, <1>6, <1>7, <1>8 DEF Next

LEMMA StoreInvariant ==
    ASSUME Promised
    PROVE  Spec => [](TypeOK /\ StoreInv)
<1>1. Init => StoreInv
    BY DEF Init, StoreInv
<1>2. TypeOK /\ StoreInv /\ [Next]_vars => StoreInv'
    BY StoreNext
<1> QED  BY <1>1, <1>2, TypeCorrect, PTL DEF Spec

\* While the process runs with a journal, a replay of the journal gives every
\* key without expiry time the value that sdb_get returns, for journals of
\* any length.
THEOREM JournalHoldsChanges ==
    ASSUME Promised
    PROVE  Spec => []JournalExact
<1>1. TypeOK /\ StoreInv => JournalExact
    <2> SUFFICES ASSUME TypeOK, StoreInv, pc = "open", logging,
                        NEW k \in Keys \ replayed, Firm(k)
                 PROVE  ViewOf(Replay, k) = ViewOf(mem, k)
        BY DEF JournalExact
    <2>1. Agree(k)
        BY DEF StoreInv, OpenKey
    <2>2. ViewOf(mem, k) = IF mem.val[k] = None THEN file[k]
                           ELSE IF mem.val[k] = Removed THEN None ELSE mem.val[k]
        BY DEF ViewOf, Has, Firm
    <2>3. ~FoundOnDisk(k) => file[k] = None
        BY DEF FoundOnDisk
    <2> QED  BY <2>1, <2>2, <2>3, ReplayView DEF Agree
<1> QED  BY <1>1, StoreInvariant, PTL

\* The file that sdb_disk_finish puts in place of the old one holds every
\* change of a key without expiry time that the journal holds.
THEOREM SyncIsAtomic ==
    ASSUME Promised
    PROVE  Spec => SyncAtomic
<1>1. TypeOK /\ StoreInv /\ [Next]_vars
         => [file' # file => (logging =>
                \A k \in Keys \ replayed : Firm(k) => file'[k] = ViewOf(Replay, k))]_vars
    <2> SUFFICES ASSUME TypeOK, StoreInv, [Next]_vars, file' # file, logging,
                        NEW k \in Keys \ replayed, Firm(k)
                 PROVE  file'[k] = ViewOf(Replay, k)
        OBVIOUS
    <2>1. sdb_disk_finish
        BY DEF Next, vars, disk, sdb_set, sdb_const_get, TimePasses, sdb_expire_set, sdb_sync,
               sdb_journal_clear, sdb_config, ConfigClear, sdb_fini, Crash
    <2>2. pc = "dumped" /\ file' = tmp
        BY <2>1, FinishEffect
    <2>3. Dumped(k)
        BY <2>2 DEF StoreInv
    <2> QED  BY <2>2, <2>3 DEF Dumped
<1> QED  BY <1>1, StoreInvariant, PTL DEF SyncAtomic, Spec

----------------------------------------------------------------------------
(* The store implements KvStore.                                           *)

LEMMA MapOf ==
    ASSUME TypeOK, NEW k \in Keys
    PROVE  MapView[k] = IF ~Firm(k) THEN Volatile
                        ELSE IF pc \in {"loaded", "open"} THEN ViewOf(mem, k)
                        ELSE IF pc = "dumped" THEN tmp[k] ELSE ViewOf(Replay, k)
<1>1. pc \in {"down", "loaded", "open", "dumped", "renamed"}
    BY Typed
<1> QED  BY <1>1 DEF MapView

LEMMA MapOfNext ==
    ASSUME TypeOK', NEW k \in Keys
    PROVE  MapView'[k] = IF ~Firm(k)' THEN Volatile
                         ELSE IF pc' \in {"loaded", "open"} THEN ViewOf(mem, k)'
                         ELSE IF pc' = "dumped" THEN tmp'[k] ELSE ViewOf(Replay, k)'
<1>1. pc' \in {"down", "loaded", "open", "dumped", "renamed"}
    BY TypedNext
<1> QED  BY <1>1 DEF MapView

LEMMA MapDomain ==
    /\ MapView = [k \in Keys |-> MapView[k]]
    /\ MapView' = [k \in Keys |-> MapView'[k]]
<1> DEFINE of(k) == CASE ~Firm(k)                             -> Volatile
                      [] Firm(k) /\ pc \in {"loaded", "open"}  -> ViewOf(mem, k)
                      [] Firm(k) /\ pc = "dumped"              -> tmp[k]
                      [] Firm(k) /\ pc \in {"renamed", "down"} -> ViewOf(Replay, k)
<1>1. MapView = [k \in Keys |-> of(k)]
    BY DEF MapView
<1>2. MapView' = [k \in Keys |-> of(k)']
    BY DEF MapView
<1> HIDE DEF of
<1>3. MapView = [k \in Keys |-> MapView[k]]
    BY <1>1
<1>4. MapView' = [k \in Keys |-> MapView'[k]]
    BY <1>2
<1> QED  BY <1>3, <1>4

\* What memory shows of a key without expiry time.
LEMMA MemView ==
    ASSUME NEW k \in Keys, Firm(k)
    PROVE  ViewOf(mem, k) = IF mem.val[k] = None THEN file[k]
                            ELSE IF mem.val[k] = Removed THEN None ELSE mem.val[k]
BY DEF ViewOf, Has, Firm

LEMMA MemViewNext ==
    ASSUME NEW k \in Keys, Firm(k)'
    PROVE  ViewOf(mem, k)' = IF mem'.val[k] = None THEN file'[k]
                             ELSE IF mem'.val[k] = Removed THEN None ELSE mem'.val[k]
BY DEF ViewOf, Has, Firm

\* A change of one key.
LEMMA PutStep ==
    ASSUME TypeOK, TypeOK', NEW k \in Keys, pc = "open",
           UNCHANGED <<file, exists, tmp, logging, pc>>,
           replayed' = replayed \ {k} \/ (UNCHANGED replayed /\ mem'.exp[k] # "no"),
           \A x \in Keys \ {k} : mem'.val[x] = mem.val[x] /\ mem'.exp[x] = mem.exp[x],
           mem'.exp[k] # "no" => MapView[k] # None
    PROVE  Kv!Put(k)
<1>1. ASSUME NEW x \in Keys \ {k} PROVE MapView'[x] = MapView[x]
    <2>1. Firm(x)' <=> Firm(x)
        BY DEF Firm
    <2>2. Firm(x) => ViewOf(mem, x)' = ViewOf(mem, x)
        BY <2>1, MemView, MemViewNext
    <2> QED  BY <2>1, <2>2, MapOf, MapOfNext
<1>2. MapView'[k] \in Vals \cup {None, Volatile} /\ (MapView'[k] = Volatile => MapView[k] # None)
    <2>1. CASE Firm(k)'
        <3>1. MapView'[k] = ViewOf(mem, k)'
            BY <2>1, MapOfNext
        <3>2. mem'.val[k] \in Vals \cup {None, Removed} /\ file'[k] \in Vals \cup {None}
            BY TypedNext DEF Mem
        <3> QED  BY <2>1, <3>1, <3>2, MemViewNext, Distinct
    <2>2. CASE ~Firm(k)'
        BY <2>2, MapOfNext DEF Firm
    <2> QED  BY <2>1, <2>2
<1>3. MapView' = [MapView EXCEPT ![k] = MapView'[k]]
    <2>1. PICK m : m = MapView
        OBVIOUS
    <2>2. PICK n : n = MapView'
        OBVIOUS
    <2>3. m = [x \in Keys |-> m[x]] /\ n = [x \in Keys |-> n[x]]
        BY <2>1, <2>2, MapDomain
    <2>4. \A x \in Keys \ {k} : n[x] = m[x]
        BY <1>1, <2>1, <2>2
    <2>5. n = [m EXCEPT ![k] = n[k]]
        BY <2>3, <2>4
    <2> QED  BY <2>1, <2>2, <2>5
<1>4. /\ replayed' \in {replayed, replayed \ {k}}
      /\ MapView'[k] # Volatile => k \notin replayed'
    BY MapOfNext DEF Firm
<1> QED  BY <1>2, <1>3, <1>4 DEF Kv!Put

LEMMA StutterStep ==
    ASSUME \A k \in Keys : MapView'[k] = MapView[k], UNCHANGED <<file, logging, replayed>>,
           pc # "down", pc' # "down"
    PROVE  UNCHANGED Kv!vars
<1>1. MapView' = MapView
    <2>1. [k \in Keys |-> MapView'[k]] = [k \in Keys |-> MapView[k]]
        OBVIOUS
    <2> QED  BY <2>1, MapDomain
<1> QED  BY <1>1 DEF Kv!vars

LEMMA SetPuts ==
    ASSUME Promised, TypeOK, TypeOK', NEW k \in Keys, NEW v \in Vals \cup {Removed}, NEW cas,
           pc = "open", mem' = SetMem(mem, k, v, cas), replayed' = replayed \ {k},
           UNCHANGED <<file, exists, tmp, logging, pc>>
    PROVE  Kv!Put(k)
<1>1. mem \in Mem
    BY Typed
<1>2. /\ mem'.exp[k] = IF mem.val[k] = None \/ FoundOnDisk(k) THEN mem.exp[k] ELSE "no"
      /\ \A x \in Keys \ {k} : mem'.val[x] = mem.val[x] /\ mem'.exp[x] = mem.exp[x]
    <2>1. PICK s : s = SetMem(mem, k, v, cas)
        OBVIOUS
    <2> QED  BY <2>1, <1>1, SetMemKey
<1>3. mem'.exp[k] # "no" => MapView[k] = Volatile
    BY <1>2, MapOf DEF Firm
<1> QED  BY <1>2, <1>3, PutStep, Distinct

LEMMA ExpirePuts ==
    ASSUME Promised, TypeOK, TypeOK', NEW k \in Keys, NEW e \in {"no", "later"},
           sdb_expire_set(k, e)
    PROVE  Kv!Put(k)
<1>1. pc = "open" /\ UNCHANGED <<file, exists, tmp, logging, pc, replayed>>
    BY DEF sdb_expire_set, disk, Running
<1>2. \A x \in Keys \ {k} : mem'.val[x] = mem.val[x] /\ mem'.exp[x] = mem.exp[x]
    BY Typed DEF sdb_expire_set, Mem
<1>3. MapView[k] # None
    <2>1. CASE ~Firm(k)
        BY <2>1, MapOf, Distinct
    <2>2. CASE Firm(k)
        <3>1. MapView[k] = ViewOf(mem, k)
            BY <1>1, <2>2, MapOf
        <3>2. ViewOf(mem, k) # None \/ (mem.val[k] # None /\ mem.val[k] # Removed)
            BY DEF sdb_expire_set, Has
        <3> QED  BY <2>2, <3>1, <3>2, MemView
    <2> QED  BY <2>1, <2>2
<1>4. mem'.exp[k] = "later"
    BY Typed DEF sdb_expire_set, Within, Promised, Mem
<1> QED  BY <1>1, <1>2, <1>3, <1>4, PutStep

LEMMA TimeStutters ==
    ASSUME TypeOK, TypeOK', NEW k \in Keys, TimePasses(k)
    PROVE  UNCHANGED Kv!vars
<1>1. /\ pc = "open" /\ UNCHANGED <<file, logging, pc, replayed>>
      /\ \A x \in Keys : /\ mem'.val[x] = mem.val[x]
                         /\ mem'.exp[x] = mem.exp[x] \/ (mem.exp[x] # "no" /\ mem'.exp[x] # "no")
    BY Typed DEF TimePasses, disk, Mem
<1>2. ASSUME NEW x \in Keys PROVE MapView'[x] = MapView[x]
    <2>1. Firm(x)' <=> Firm(x)
        BY <1>1 DEF Firm
    <2>2. Firm(x) => ViewOf(mem, x)' = ViewOf(mem, x)
        BY <1>1, <2>1, MemView, MemViewNext
    <2> QED  BY <1>1, <2>1, <2>2, MapOf, MapOfNext
<1> QED  BY <1>1, <1>2, StutterStep

LEMMA SyncSettles ==
    ASSUME Promised, TypeOK, TypeOK', sdb_sync
    PROVE  Kv!Settle
<1>1. pc = "open" /\ pc' = "dumped" /\ UNCHANGED <<file, logging, replayed>>
    BY DEF sdb_sync
<1>2. ASSUME NEW k \in Keys, MapView[k] # Volatile
      PROVE  MapView'[k] = MapView[k]
    <2>1. Firm(k)
        BY <1>2, MapOf
    <2>2. /\ tmp'[k] = Dump(k)
          /\ mem'.exp[k] = IF Unwritten(k) THEN mem.exp[k] ELSE "no"
        BY SyncEffect
    <2>3. Firm(k)'
        BY <2>1, <2>2 DEF Firm
    <2>4. Dump(k) = ViewOf(mem, k)
        BY <2>1, MemView, Distinct DEF Dump, Has, Firm
    <2> QED  BY <1>1, <2>1, <2>2, <2>3, <2>4, MapOf, MapOfNext
<1> QED  BY <1>1, <1>2 DEF Kv!Settle, Kv!Keeps

LEMMA FinishSaves ==
    ASSUME Promised, TypeOK, TypeOK', StoreInv, StoreInv', sdb_disk_finish
    PROVE  Kv!Save
<1>1. /\ pc = "dumped" /\ pc' = "renamed" /\ file' = tmp
      /\ replayed' = {} /\ UNCHANGED <<mem, logging>>
    BY FinishEffect
<1>2. ASSUME NEW k \in Keys, MapView[k] # Volatile
      PROVE  MapView'[k] = MapView[k] /\ file'[k] = MapView[k]
    <2>1. Firm(k)
        BY <1>2, MapOf
    <2>2. Firm(k)'
        BY <1>1, <2>1 DEF Firm
    <2>3. MapView[k] = tmp[k]
        BY <1>1, <2>1, MapOf
    <2>4. Renamed(k)'
        BY <1>1 DEF StoreInv
    <2>5. MapView'[k] = file'[k]
        BY <1>1, <2>2, <2>4, MapOfNext DEF Renamed
    <2> QED  BY <1>1, <2>3, <2>5
<1> QED  BY <1>1, <1>2 DEF Kv!Save, Kv!Keeps

LEMMA ClearStutters ==
    ASSUME TypeOK, TypeOK', StoreInv, sdb_journal_clear
    PROVE  UNCHANGED Kv!vars
<1>1. pc = "renamed" /\ pc' = "open" /\ UNCHANGED <<mem, file, exists, logging, replayed>>
    BY DEF sdb_journal_clear, disk
<1>2. ASSUME NEW k \in Keys PROVE MapView'[k] = MapView[k]
    <2>1. Firm(k)' <=> Firm(k)
        BY <1>1 DEF Firm
    <2>2. Renamed(k)
        BY <1>1 DEF StoreInv
    <2>3. CASE Firm(k)
        <3>1. MapView[k] = file[k]
            BY <1>1, <2>2, <2>3, MapOf DEF Renamed
        <3>2. mem.val[k] = None \/ (mem.val[k] = Removed /\ file[k] = None)
            BY <2>2, <2>3 DEF Renamed
        <3>3. MapView'[k] = ViewOf(mem, k)'
            BY <1>1, <2>1, <2>3, MapOfNext
        <3> QED  BY <1>1, <2>1, <2>3, <3>1, <3>2, <3>3, MemViewNext
    <2>4. CASE ~Firm(k)
        BY <2>1, <2>4, MapOf, MapOfNext
    <2> QED  BY <2>3, <2>4
<1> QED  BY <1>1, <1>2, StutterStep

LEMMA ConfigOpens ==
    ASSUME Promised, TypeOK, TypeOK', StoreInv, NEW journaled \in BOOLEAN, sdb_config(journaled)
    PROVE  Kv!Open
<1>1. /\ pc = "down" /\ pc' \in {"loaded", "open"} /\ logging' = journaled
      /\ UNCHANGED <<file, exists>> /\ mem = NoMem
    BY DEF sdb_config, disk, StoreInv
<1>2. mem' = Replay
    <2>1. CASE journaled
        BY <2>1 DEF sdb_config
    <2>2. CASE ~journaled
        <3>1. mem' = NoMem /\ journal = << >>
            BY <2>2 DEF sdb_config, Within, Promised
        <3> QED  BY <3>1, ReplayIs DEF ReplayForm
    <2> QED  BY <2>1, <2>2
<1>3. ASSUME NEW k \in Keys PROVE MapView'[k] = MapView[k]
    <2>1. Firm(k)
        BY <1>1 DEF Firm, NoMem
    <2>2. Firm(k)'
        BY <1>2, ReplayIs DEF ReplayForm, Firm
    <2>3. MapView[k] = ViewOf(Replay, k)
        BY <1>1, <2>1, MapOf
    <2>4. MapView'[k] = ViewOf(mem, k)'
        BY <1>1, <2>2, MapOfNext
    <2>5. ViewOf(mem, k)' = ViewOf(Replay, k)
        BY <1>1, <1>2, <2>2, MemViewNext, ReplayView
    <2> QED  BY <2>3, <2>4, <2>5
<1>4. MapView' = MapView
    <2>1. [k \in Keys |-> MapView'[k]] = [k \in Keys |-> MapView[k]]
        BY <1>3
    <2> QED  BY <2>1, MapDomain
<1>5. replayed' \subseteq Keys
    BY TypedNext
<1> QED  BY <1>1, <1>4, <1>5 DEF Kv!Open

LEMMA ConfigClearStutters ==
    ASSUME TypeOK, TypeOK', ConfigClear
    PROVE  UNCHANGED Kv!vars
<1>1. pc = "loaded" /\ pc' = "open" /\ UNCHANGED <<mem, file, exists, logging, replayed>>
    BY DEF ConfigClear, disk
<1>2. ASSUME NEW k \in Keys PROVE MapView'[k] = MapView[k]
    <2>1. (Firm(k)' <=> Firm(k)) /\ ViewOf(mem, k)' = ViewOf(mem, k)
        BY <1>1 DEF Firm, ViewOf, Has
    <2> QED  BY <1>1, <2>1, MapOf, MapOfNext
<1> QED  BY <1>1, <1>2, StutterStep

\* The map that a process leaves behind.
LEMMA DownMap ==
    ASSUME TypeOK', pc' = "down", mem' = NoMem, NEW k \in Keys
    PROVE  /\ MapView'[k] = ViewOf(Replay, k)'
           /\ journal' = << >> => MapView'[k] = file'[k]
<1>1. Firm(k)'
    BY DEF Firm, NoMem
<1>2. MapView'[k] = ViewOf(Replay, k)'
    BY <1>1, MapOfNext
<1>3. ASSUME journal' = << >> PROVE ViewOf(Replay, k)' = file'[k]
    <2>1. Replay'.val[k] = None
        BY <1>3, EmptyJournal
    <2> QED  BY <2>1, ReplayViewNext
<1> QED  BY <1>2, <1>3

\* A process that leaves its journal loses at most what it had recovered.
LEMMA JournalKeeps ==
    ASSUME TypeOK, TypeOK', StoreInv, pc # "down", pc' = "down", mem' = NoMem,
           UNCHANGED <<file, exists, journal>>, logging,
           NEW k \in Keys, MapView[k] # Volatile
    PROVE  MapView'[k] = MapView[k] \/ (k \in replayed /\ MapView'[k] = file[k])
<1>1. Firm(k)
    BY MapOf
<1>2. Replay' = Replay
    BY ReplaySame
<1>3. ViewOf(Replay, k)' = ViewOf(Replay, k)
    BY <1>2, ReplayView, ReplayViewNext
<1>4. MapView'[k] = ViewOf(Replay, k)
    BY <1>3, DownMap
<1>5. CASE pc = "renamed"
    BY <1>1, <1>4, <1>5, MapOf
<1>6. CASE pc = "dumped"
    <2>1. Dumped(k) /\ MapView[k] = tmp[k]
        BY <1>1, <1>6, MapOf DEF StoreInv
    <2>2. Replay.val[k] \in {None, LastVal(k)}
        BY ReplayIs DEF ReplayForm
    <2>3. tmp[k] # Removed
        BY Typed, Distinct
    <2> QED  BY <1>1, <1>4, <2>1, <2>2, <2>3, ReplayView DEF Dumped
<1>7. CASE pc = "open"
    <2>1. Logged(k) /\ (k \notin replayed => Agree(k))
        BY <1>7 DEF StoreInv, OpenKey
    <2>2. ~FoundOnDisk(k) => file[k] = None
        BY DEF FoundOnDisk
    <2>3. MapView[k] = ViewOf(mem, k)
        BY <1>1, <1>7, MapOf
    <2>4. Replay.val[k] \in {None, LastVal(k)}
        BY ReplayIs DEF ReplayForm
    <2>5. CASE k \in replayed
        BY <1>1, <1>4, <2>1, <2>3, <2>4, <2>5, MemView, ReplayView DEF Logged
    <2>6. CASE k \notin replayed
        BY <1>1, <1>4, <2>1, <2>2, <2>3, <2>6, MemView, ReplayView DEF Agree
    <2> QED  BY <2>5, <2>6
<1>8. CASE pc = "loaded"
    <2>1. LoadedKey(k)
        BY <1>8 DEF StoreInv
    <2>2. MapView[k] = ViewOf(mem, k)
        BY <1>1, <1>8, MapOf
    <2> QED  BY <1>1, <1>4, <2>1, <2>2, MemView, ReplayView DEF LoadedKey
<1> QED  BY <1>5, <1>6, <1>7, <1>8, Typed

LEMMA FiniCloses ==
    ASSUME Promised, TypeOK, TypeOK', StoreInv, sdb_fini
    PROVE  Kv!Close
<1>1. /\ pc = "open" /\ pc' = "down" /\ mem' = NoMem /\ logging' = FALSE
      /\ replayed' = {} /\ UNCHANGED <<file, exists>>
    BY DEF sdb_fini, disk
<1>2. CASE journal' = << >>
    <2>1. \A k \in Keys : MapView'[k] = file[k]
        BY <1>1, <1>2, DownMap
    <2>2. MapView' = [k \in Keys |-> file[k]]
        BY <2>1, MapDomain
    <2>3. file = [k \in Keys |-> file[k]]
        BY Typed
    <2>4. MapView' = file
        BY <2>2, <2>3
    <2> QED  BY <1>1, <2>4 DEF Kv!Close, Kv!Stop
<1>3. CASE journal' # << >>
    <2>1. journal' = journal
        BY <1>3 DEF sdb_fini
    <2>2. logging
        BY <1>1, <1>3, <2>1 DEF StoreInv
    <2>3. \A k \in Keys : MapView[k] # Volatile =>
             MapView'[k] = MapView[k] \/ (k \in replayed /\ MapView'[k] = file[k])
        BY <1>1, <2>1, <2>2, JournalKeeps
    <2> QED  BY <1>1, <2>2, <2>3 DEF Kv!Close, Kv!Stop, Kv!Survives
<1> QED  BY <1>2, <1>3

LEMMA CrashCrashes ==
    ASSUME Promised, TypeOK, TypeOK', StoreInv, Crash
    PROVE  Kv!Crash
<1>1. /\ pc # "down" /\ pc' = "down" /\ mem' = NoMem /\ logging' = FALSE
      /\ replayed' = {} /\ UNCHANGED <<file, exists, journal>>
    BY DEF Crash, disk
<1>2. CASE ~logging
    <2>1. \A k \in Keys : MapView'[k] = file[k]
        BY <1>1, <1>2, DownMap DEF StoreInv
    <2>2. MapView' = [k \in Keys |-> file[k]]
        BY <2>1, MapDomain
    <2>3. file = [k \in Keys |-> file[k]]
        BY Typed
    <2>4. MapView' = file
        BY <2>2, <2>3
    <2> QED  BY <1>1, <1>2, <2>4 DEF Kv!Crash, Kv!Stop
<1>3. CASE logging
    <2>1. \A k \in Keys : MapView[k] # Volatile =>
             MapView'[k] = MapView[k] \/ (k \in replayed /\ MapView'[k] = file[k])
        BY <1>1, <1>3, JournalKeeps
    <2> QED  BY <1>1, <1>3, <2>1 DEF Kv!Crash, Kv!Stop, Kv!Survives
<1> QED  BY <1>2, <1>3

\* The store implements KvStore, for any keys, values and journals and any
\* order of changes, syncs, crashes and restarts: a sync is all or nothing,
\* and a crash loses no change that the crashed process has journaled, but
\* may lose, key by key, what it had recovered from an earlier journal and
\* not synced yet (sdb_config clears what it has replayed).
THEOREM StoreImplementsMap ==
    ASSUME Promised
    PROVE  Spec => StoreSpec
<1>1. TypeOK /\ Init => Kv!Init
    <2> SUFFICES ASSUME TypeOK, Init PROVE Kv!Init
        OBVIOUS
    <2>1. pc = "down" /\ mem = NoMem /\ journal = << >> /\ logging = FALSE /\ replayed = {}
        BY DEF Init
    <2>2. ASSUME NEW k \in Keys PROVE MapView[k] = file[k]
        <3>1. Firm(k)
            BY <2>1 DEF Firm, NoMem
        <3>2. Replay.val[k] = None
            BY <2>1, ReplayIs DEF ReplayForm, NoMem
        <3> QED  BY <2>1, <3>1, <3>2, MapOf, ReplayView
    <2>3. MapView = [k \in Keys |-> file[k]]
        BY <2>2, MapDomain
    <2>4. file \in [Keys -> Vals \cup {None}]
        BY Typed
    <2>5. MapView = file
        BY <2>3, <2>4
    <2> QED  BY <2>1, <2>4, <2>5 DEF Kv!Init
<1>2. TypeOK /\ StoreInv /\ [Next]_vars => [Kv!Next]_(Kv!vars)
    <2> SUFFICES ASSUME TypeOK, StoreInv, [Next]_vars PROVE [Kv!Next]_(Kv!vars)
        OBVIOUS
    <2>1. TypeOK'
        BY TypeNext
    <2>2. StoreInv'
        BY StoreNext
    <2>3. ASSUME NEW k \in Keys, NEW v \in Vals \cup {Removed}, NEW cas \in {"any", "stale"},
                 sdb_set(k, v, cas)
          PROVE  Kv!Put(k)
        BY <2>1, <2>3, SetPuts DEF sdb_set, disk, Running
    <2>4. ASSUME NEW k \in Keys, sdb_const_get(k)
          PROVE  Kv!Put(k)
        BY <2>1, <2>4, SetPuts DEF sdb_const_get, disk, Running
    <2>5. ASSUME NEW k \in Keys, TimePasses(k)
          PROVE  UNCHANGED Kv!vars
        BY <2>1, <2>5, TimeStutters
    <2>6. ASSUME NEW k \in Keys, NEW e \in {"no", "later"}, sdb_expire_set(k, e)
          PROVE  Kv!Put(k)
        BY <2>1, <2>6, ExpirePuts
    <2>7. sdb_sync => Kv!Settle
        BY <2>1, SyncSettles
    <2>8. sdb_disk_finish => Kv!Save
        BY <2>1, <2>2, FinishSaves
    <2>9. sdb_journal_clear \/ ConfigClear => UNCHANGED Kv!vars
        BY <2>1, ClearStutters, ConfigClearStutters
    <2>10. ASSUME NEW journaled \in BOOLEAN, sdb_config(journaled)
           PROVE  Kv!Open
        BY <2>1, <2>10, ConfigOpens
    <2>11. sdb_fini => Kv!Close
        BY <2>1, FiniCloses
    <2>12. Crash => Kv!Crash
        BY <2>1, CrashCrashes
    <2>13. ASSUME UNCHANGED vars
           PROVE  UNCHANGED Kv!vars
        <3>1. UNCHANGED <<mem, file, exists, tmp, journal, logging, pc, replayed>>
            BY <2>13 DEF vars, disk
        <3>2. Replay' = Replay
            BY <3>1, ReplaySame
        <3>3. MapView' = MapView
            BY <3>1, <3>2 DEF MapView, Firm, ViewOf, Has
        <3> QED  BY <3>1, <3>3 DEF Kv!vars
    <2> QED
        BY <2>3, <2>4, <2>5, <2>6, <2>7, <2>8, <2>9, <2>10, <2>11, <2>12, <2>13
        DEF Next, Kv!Next
<1> QED  BY <1>1, <1>2, StoreInvariant, PTL DEF Spec, StoreSpec, Kv!Spec
=============================================================================

------------------------------ MODULE SdbStore ------------------------------
(***************************************************************************)
(* A database of shlr/sdb with its three copies of the data: the hash      *)
(* table of changes in memory, the cdb file that sdb_sync replaces, and    *)
(* the journal that sdb_config replays after a crash.  The process that    *)
(* has it open may crash between any two system calls.                     *)
(*                                                                         *)
(* Keys and values are opaque; a removed key has the value "" in memory    *)
(* and in the journal.  Borders names the situations in which the store    *)
(* does not keep its promises; an instance without them shows that it      *)
(* keeps them everywhere else.                                             *)
(***************************************************************************)
EXTENDS Naturals, Sequences, SequencesExt

CONSTANTS
    Keys,
    Vals,         \* nonempty values
    FirstLine,    \* [Vals -> Vals], a value up to its first newline
    Borders,      \* subset of AllBorders
    MaxJournal    \* bound on the changes between two syncs

None     == "none"
Removed  == ""
Volatile == "volatile"

AllBorders == {
    "reset",        \* a key that is not in the file is set after another change
    "stale_cas",    \* a change is refused because its cas is old
    "unexpire",     \* the expiry time of a key is removed
    "unlogged",     \* the database is opened without the journal it has
    "short_write",  \* the disk is full while a sync writes the new file
    "no_rename"}    \* the new file cannot replace the old one

ASSUME ValsAssumption ==
    /\ Vals \cap {None, Removed, Volatile} = {}
    /\ FirstLine \in [Vals -> Vals]
    /\ \A v \in Vals : FirstLine[FirstLine[v]] = FirstLine[v]
ASSUME BoundsAssumption == Borders \subseteq AllBorders /\ MaxJournal \in Nat

VARIABLES
    mem,       \* s->ht: value and expiry of every key, None without an entry
    file,      \* contents of the file s->dir
    exists,    \* that file exists (s->fd != -1 while the process runs)
    tmp,       \* contents of the file s->ndump
    journal,   \* lines of the journal file, <<key, value>>
    logging,   \* s->journal != -1
    pc,        \* where the process is, "down" without one
    replayed   \* keys with a value out of a replayed journal, neither synced
               \* nor changed since (history, read by the properties only)

disk == <<file, exists, tmp>>
vars == <<mem, disk, journal, logging, pc, replayed>>

Within(border, condition) == condition => border \in Borders

NoMem   == [val |-> [k \in Keys |-> None], exp |-> [k \in Keys |-> "no"]]
NoPairs == [k \in Keys |-> None]

Init ==
    /\ mem = NoMem /\ tmp = NoPairs /\ journal = << >>
    /\ exists \in BOOLEAN
    /\ file \in [Keys -> Vals \cup {None}] /\ (~exists => file = NoPairs)
    /\ logging = FALSE /\ pc = "down" /\ replayed = {}

----------------------------------------------------------------------------
(* Reading and changing one key.                                           *)

Has(m, k) == m.val[k] # None

\* sdb_const_get_len, with memory m.
ViewOf(m, k) ==
    IF Has(m, k)
    THEN IF m.val[k] = Removed \/ m.exp[k] = "passed" THEN None ELSE m.val[k]
    ELSE file[k]

\* cdb_findnext is "true" for a key of the file, and when there is no file.
FoundOnDisk(k) == ~exists \/ file[k] # None

\* Mutated: deleting an entry leaves its expiry time behind.
SetMemKeepsExpiry(m, k, v, cas) ==
    IF ~Has(m, k) THEN [m EXCEPT !.val[k] = v]
    ELSE IF ~FoundOnDisk(k) THEN [m EXCEPT !.val[k] = None]
    ELSE IF cas = "stale" THEN m ELSE [m EXCEPT !.val[k] = v]

\* The hash table after sdb_set_internal: an entry that is not on disk is
\* deleted, and the new value with it.
SetMem(m, k, v, cas) ==
    IF ~Has(m, k) THEN [m EXCEPT !.val[k] = v]
    ELSE IF ~FoundOnDisk(k) THEN [m EXCEPT !.val[k] = None, !.exp[k] = "no"]
    ELSE IF cas = "stale" THEN m ELSE [m EXCEPT !.val[k] = v]

\* Mutated: removals are not worth a line of the journal.
LogSetsOnly(k, v) ==
    journal' = IF logging /\ v # Removed THEN Append(journal, <<k, FirstLine[v]>>)
               ELSE journal

\* A value is read back from the journal up to its first newline.
sdb_journal_log(k, v) ==
    journal' = IF logging
               THEN Append(journal, <<k, IF v = Removed THEN v ELSE FirstLine[v]>>)
               ELSE journal

Running == pc = "open" /\ Len(journal) < MaxJournal

ChangedSinceSync(k) == Has(mem, k) \/ \E line \in Range(journal) : line[1] = k

\* sdb_set, sdb_set_owned and sdb_unset.  The journal comes first.
sdb_set(k, v, cas) ==
    /\ Running
    /\ Within("reset", v # Removed /\ ~FoundOnDisk(k) /\ ChangedSinceSync(k))
    /\ Within("stale_cas", cas = "stale")
    /\ sdb_journal_log(k, v)
    /\ mem' = SetMem(mem, k, v, cas)
    /\ replayed' = replayed \ {k}
    /\ UNCHANGED <<disk, logging, pc>>

\* A read removes the key when its time has passed; all others change nothing.
sdb_const_get(k) ==
    /\ Running
    /\ mem.val[k] \notin {None, Removed} /\ mem.exp[k] = "passed"
    /\ sdb_journal_log(k, Removed)
    /\ mem' = SetMem(mem, k, Removed, "any")
    /\ replayed' = replayed \ {k}
    /\ UNCHANGED <<disk, logging, pc>>

\* A key of the file is first set to its own value, to have an entry.
sdb_expire_set(k, e) ==
    /\ Running
    /\ ViewOf(mem, k) # None \/ (Has(mem, k) /\ mem.val[k] # Removed)
    /\ Within("unexpire", e = "no")
    /\ IF Has(mem, k) THEN UNCHANGED journal ELSE sdb_journal_log(k, file[k])
    /\ mem' = [mem EXCEPT !.val[k] = IF Has(mem, k) THEN @ ELSE file[k],
                          !.exp[k] = e]
    /\ UNCHANGED <<disk, logging, pc, replayed>>

\* sdb_now () passes the expiry time of a key.
TimePasses(k) ==
    /\ pc = "open" /\ mem.exp[k] = "later"
    /\ mem' = [mem EXCEPT !.exp[k] = "passed"]
    /\ UNCHANGED <<disk, journal, logging, pc, replayed>>

----------------------------------------------------------------------------
(* sdb_sync, one action for each of the steps a crash can fall between.    *)

\* Mutated: a key of the file is written even when it was removed.
DumpKeepsRemoved(k) ==
    IF file[k] # None
    THEN IF Has(mem, k) /\ mem.val[k] # Removed THEN mem.val[k] ELSE file[k]
    ELSE IF mem.val[k] # Removed /\ mem.exp[k] = "no" THEN mem.val[k] ELSE None

\* What sdb_sync writes for a key: keys of the file with their value in
\* memory or in the file, then new keys unless they expire.
Dump(k) ==
    IF file[k] # None
    THEN IF ~Has(mem, k) THEN file[k]
         ELSE IF mem.val[k] = Removed THEN None ELSE mem.val[k]
    ELSE IF mem.val[k] # Removed /\ mem.exp[k] = "no" THEN mem.val[k] ELSE None

\* Entries that are not written stay in memory.
Unwritten(k) == file[k] = None /\ Dump(k) = None

\* sdb_disk_create and the loops of sdb_sync.  A new file that could not be
\* written has no header, and reads as a database without keys; insertions
\* that failed leave their entry in memory.
sdb_sync ==
    /\ pc = "open" /\ pc' = "dumped"
    /\ \E short \in BOOLEAN, failed \in SUBSET {k \in Keys : file[k] = None} :
          /\ Within("short_write", short) /\ (~short => failed = {})
          /\ tmp' = IF short THEN NoPairs ELSE [k \in Keys |-> Dump(k)]
          /\ LET stays(k) == Unwritten(k) \/ k \in failed
             IN  mem' = [val |-> [k \in Keys |-> IF stays(k) THEN mem.val[k] ELSE None],
                         exp |-> [k \in Keys |-> IF stays(k) THEN mem.exp[k] ELSE "no"]]
    /\ UNCHANGED <<file, exists, journal, logging, replayed>>

\* Mutated: the journal is cleared as soon as the new file is written.
DiskFinishClears ==
    /\ pc = "dumped" /\ pc' = "open"
    /\ journal' = << >> /\ replayed' = {}
    /\ UNCHANGED <<mem, disk, logging>>

\* The new file replaces the old one whether or not it is complete, and the
\* caller goes on whether or not it did.
sdb_disk_finish ==
    /\ pc = "dumped" /\ pc' = "renamed"
    /\ \E done \in BOOLEAN :
          /\ Within("no_rename", ~done)
          /\ file' = IF done THEN tmp ELSE file
          /\ exists' = (done \/ exists)
          /\ tmp' = IF done THEN NoPairs ELSE tmp
          /\ replayed' = IF done THEN {} ELSE replayed
    /\ UNCHANGED <<mem, journal, logging>>

sdb_journal_clear ==
    /\ pc = "renamed" /\ pc' = "open"
    /\ journal' = IF logging THEN << >> ELSE journal
    /\ UNCHANGED <<mem, disk, logging, replayed>>

----------------------------------------------------------------------------
(* The life of the process.                                                *)

\* The hash table after sdb_journal_load has set the first n lines ...
Loaded[n \in Nat] ==
    IF n = 0 THEN NoMem
    ELSE SetMem(Loaded[n - 1], journal[n][1], journal[n][2], "any")

\* ... and all lines of the journal, over the keys of the file.
Replay == Loaded[Len(journal)]

\* sdb_new and sdb_config, up to the end of sdb_journal_load, which logs
\* what it sets a second time.
sdb_config(journaled) ==
    /\ pc = "down" /\ Len(journal) <= MaxJournal
    /\ logging' = journaled
    /\ IF journaled
       THEN /\ mem' = Replay /\ journal' = journal \o journal /\ pc' = "loaded"
            /\ replayed' = {k \in Keys : Has(Replay, k)}
       ELSE /\ Within("unlogged", journal # << >>)
            /\ mem' = NoMem /\ UNCHANGED <<journal, replayed>> /\ pc' = "open"
    /\ UNCHANGED disk

\* The last step of sdb_config: from here on the changes of the journal are
\* in memory only.
ConfigClear ==
    /\ pc = "loaded" /\ pc' = "open"
    /\ journal' = << >>
    /\ UNCHANGED <<mem, disk, logging, replayed>>

\* sdb_journal_close builds the name of the journal from freed memory: the
\* file may be unlinked or not.
sdb_fini ==
    /\ pc = "open" /\ pc' = "down"
    /\ \E unlinked \in BOOLEAN :
          /\ unlinked => logging
          /\ journal' = IF unlinked THEN << >> ELSE journal
    /\ mem' = NoMem /\ logging' = FALSE /\ replayed' = {}
    /\ UNCHANGED disk

Crash ==
    /\ pc # "down" /\ pc' = "down"
    /\ mem' = NoMem /\ logging' = FALSE /\ replayed' = {}
    /\ UNCHANGED <<disk, journal>>

Next ==
    \/ \E k \in Keys, v \in Vals \cup {Removed}, cas \in {"any", "stale"} : sdb_set(k, v, cas)
    \/ \E k \in Keys : sdb_const_get(k) \/ TimePasses(k)
    \/ \E k \in Keys, e \in {"no", "later"} : sdb_expire_set(k, e)
    \/ sdb_sync \/ sdb_disk_finish \/ sdb_journal_clear
    \/ \E journaled \in BOOLEAN : sdb_config(journaled)
    \/ ConfigClear \/ sdb_fini \/ Crash

Spec == Init /\ [][Next]_vars

----------------------------------------------------------------------------
(* Properties.                                                             *)

Line == Keys \X (Vals \cup {Removed})

\* Every copy holds keys and values, only entries have an expiry time, and a
\* file that does not exist holds nothing (state of Sdb, sdb.h).
TypeOK ==
    /\ mem \in [val : [Keys -> Vals \cup {None, Removed}],
                exp : [Keys -> {"no", "later", "passed"}]]
    /\ \A k \in Keys : mem.exp[k] # "no" => Has(mem, k)
    /\ {file, tmp} \subseteq [Keys -> Vals \cup {None}]
    /\ exists \in BOOLEAN /\ (~exists => file = NoPairs)
    /\ journal \in Seq(Line) /\ Len(journal) <= 2 * MaxJournal
    /\ logging \in BOOLEAN /\ replayed \subseteq Keys
    /\ pc \in {"down", "loaded", "open", "dumped", "renamed"}

\* A key without expiry time.
Firm(k) == mem.exp[k] = "no"

\* While the process runs with a journal, replaying the journal over the
\* file (sdb_journal_load) gives every key the value that sdb_get returns,
\* unless that value is still the one an earlier journal gave it.
JournalExact ==
    (pc = "open" /\ logging) =>
        \A k \in Keys \ replayed : Firm(k) => ViewOf(Replay, k) = ViewOf(mem, k)

\* sdb_disk_finish replaces the file at once by one that holds every change:
\* what a reader of the old file and the journal would have seen, recovered
\* keys aside, which are in neither (StoreSpec speaks of them).
SyncAtomic ==
    [][file' # file => (logging =>
          \A k \in Keys \ replayed : Firm(k) => file'[k] = ViewOf(Replay, k))]_vars

\* The map of KvStore: what sdb_get returns, or will return after a restart.
MapView == [k \in Keys |->
    CASE ~Firm(k)                             -> Volatile
      [] Firm(k) /\ pc \in {"loaded", "open"}  -> ViewOf(mem, k)
      [] Firm(k) /\ pc = "dumped"              -> tmp[k]
      [] Firm(k) /\ pc \in {"renamed", "down"} -> ViewOf(Replay, k)]

Kv == INSTANCE KvStore WITH map <- MapView, saved <- file, up <- (pc # "down"),
                            durable <- logging, recovered <- replayed

\* The store implements KvStore, whatever the order of changes, syncs, crashes
\* and restarts: a sync is all or nothing, and a crash loses no change that
\* the crashed process has journaled.  What it had itself recovered from the
\* journal of an earlier process may be lost, key by key, until the next sync:
\* sdb_config clears the journal it has replayed (sdb.c:868).
StoreSpec == Kv!Spec
=============================================================================

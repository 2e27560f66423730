------------------------------ MODULE KvStore ------------------------------
(***************************************************************************)
(* What a database of shlr/sdb promises to its user, without hash tables,  *)
(* files or journals: a map from keys to values, a saved copy of it that   *)
(* every way of stopping keeps, and, with journaling, changes that survive *)
(* a crash of the process that made them.  What a process has recovered    *)
(* after such a crash survives a second one only after the next sync.  A   *)
(* key that was given an expiry time promises nothing.                     *)
(***************************************************************************)
CONSTANTS
    Keys,
    Vals,
    None,       \* the value of a key that is not set
    Volatile    \* the value of a key with an expiry time

VARIABLES
    map,        \* [Keys -> Vals \cup {None, Volatile}]
    saved,      \* [Keys -> Vals \cup {None}], the database at the last sync
    up,         \* a process has the database open
    durable,    \* that process keeps a journal
    recovered   \* keys that have a value it found in an earlier journal

vars == <<map, saved, up, durable, recovered>>

\* n is what is left of m when its volatile keys take any value.
Keeps(m, n) == \A k \in Keys : m[k] # Volatile => n[k] = m[k]

\* n is what the journal keeps of map: recovered keys may lose their value.
Survives(n) ==
    \A k \in Keys : map[k] # Volatile =>
        n[k] = map[k] \/ (k \in recovered /\ n[k] = saved[k])

Init ==
    /\ saved \in [Keys -> Vals \cup {None}] /\ map = saved
    /\ up = FALSE /\ durable = FALSE /\ recovered = {}

\* One key is set, removed or expires; a volatile key may stay volatile.  A
\* new value is one of this process.
Put(k) ==
    /\ up
    /\ \E v \in Vals \cup {None, Volatile} :
          /\ v = Volatile => map[k] # None
          /\ map' = [map EXCEPT ![k] = v]
          /\ recovered' \in {recovered, recovered \ {k}}
          /\ v # Volatile => k \notin recovered'
    /\ UNCHANGED <<saved, up, durable>>

\* A sync decides what becomes of the volatile keys ...
Settle == up /\ Keeps(map, map') /\ UNCHANGED <<saved, up, durable, recovered>>

\* ... and saves all the others at once.
Save ==
    /\ up /\ Keeps(map, map') /\ Keeps(map, saved') /\ recovered' = {}
    /\ UNCHANGED <<up, durable>>

Stop == up /\ up' = FALSE /\ durable' = FALSE /\ recovered' = {} /\ UNCHANGED saved

\* Closing without a sync drops all changes since the last one, or leaves
\* the next process what a crash would.
Close == Stop /\ (map' = saved \/ (durable /\ Survives(map')))

Crash == Stop /\ IF durable THEN Survives(map') ELSE map' = saved

\* Which keys are recovered is left open: one that has its saved value has
\* nothing to lose.
Open ==
    /\ ~up /\ up' = TRUE /\ durable' \in BOOLEAN /\ recovered' \in SUBSET Keys
    /\ UNCHANGED <<map, saved>>

Next == (\E k \in Keys : Put(k)) \/ Settle \/ Save \/ Close \/ Crash \/ Open

Spec == Init /\ [][Next]_vars
=============================================================================

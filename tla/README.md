# Formal models of radare2

TLA+ models of parts of radare2, with TLC configurations that check them on small
instances and TLAPS proofs for every instance. The models are translated from the C
source; file and line references are to this repository. `PROJECT.json` lists the
components, the runs, the source lines behind every definition, the hazards, the
findings and the theorems.

## Inventory

| component | state | operations | what is hard | what makes it correct |
|---|---|---|---|---|
| breakpoint manager, `libr/bp` | list of items, index table, saved bytes, bytes of the debuggee | add, delete, enable, trace, restore | overlaps, order of restoring, pointers kept in two places | the list and the heap agree; the program's bytes always come back |
| run control, `libr/debug/debug.c` | `recoil_mode`, `reason.bp_addr`, `reason.signum`, the call stack | step, continue, continue until, wait, recoil | functions that call each other recursively around a process that runs by itself; signals, forks, death and failures at any moment | the user sees the program's own execution, no breakpoint is missed, every command ends |
| native plugin, `libr/debug/p` | the traced process | step, cont, wait | one SIGTRAP for two events | the reason of a stop is the right one |
| trap trace, `libr/bp/traptrace.c` | ranges and trap bitmaps | add, enable, next | bounds of the bitmap | a trap per traced byte |
| flags, `libr/flag` | list, name index, offset index, spaces and their stack, zones | set, rename, relocate, unset, select, push, pop | three views of the same set; pointers to freed strings | the views agree, spaces exist |
| sdb, `shlr/sdb` | memory table, file, new file, journal | set, unset, cas, expire, sync, open, close | crash between two steps, a full disk | nothing that was journaled or synced is lost |
| kernel debugger transport, `shlr/wind` | sequence bit, nested waits, line, kernel | attach, request, continue, wait, break | lost and repeated packets, file requests inside waits, a killed host | requests and answers stay paired, calls return |
| io, `libr/io` | descriptors, maps, sections, write cache, seek history | read, write, commit, seek, undo | cached writes that overlap, a ring that wraps | a read returns the last write, undo the last place |
| gdb and qnx protocols, `shlr/gdb`, `shlr/qnx` | send and receive buffers | packets and acknowledges | a stream cut anywhere | each command gets its own answer |
| core, `libr/core` | configuration, tasks, offsets | commands | text interpreter | |
| config, search, reg, anal, asm, parse, bin, magic, fs, cons, lang, socket, crypto, hash, util, binr | | | mostly sequential conversions and parsers | |

The debugger calls the breakpoint manager (`r_bp_add_sw`, `r_bp_del`,
`r_bp_restore`, `r_bp_restore_except`), the plugin (`h->step`, `h->cont`, `h->wait`)
and the core (conditions and commands of breakpoints). The debuggee is a process of
its own: between `h->cont` and the return of `h->wait` it runs concurrently with the
kernel's signals.

## Modules

| module | models |
|---|---|
| `BpItems` | the pure functions of `libr/bp`: lookups, opcode lengths, and what `r_bp_restore` writes. Shared by the two machines below |
| `Breakpoints` | `RBreakpoint`: `heap` (allocator), `bps`, `bps_idx`, `delta`, `mem` (the debuggee) and `phase` (traps in or out); one action per function of `bp.c`, plus the `dbi` and `dbb` commands |
| `MCBreakpoints` | its small instances |
| `BpItemsProofs`, `BreakpointsProofs` | the proofs |
| `Debug` | run control: `stack` and `ret` are the C call stack, one action per stretch of code between two calls; the debuggee (`pc`, `mem`, `proc`, `event`) is a process of its own |
| `DebugSession` | the abstract specification: what the user at the prompt is promised |
| `DebugProofs` | the proofs about run control |
| `MCDebug` | its small instances: a loop of four instructions with an exit, under several uses (`Use`) |
| `SdbStore` | the store: `mem` (hash table), `file`, `tmp` (the new file), `journal`; `sdb_sync` is three actions, a crash may fall between any two |
| `KvStore` | its abstract specification: a map whose journaled changes survive |
| `Flags` | `RFlag`: `items` (heap), `flags`, `ht_name`, `ht_off`, `base`, `spaces`, `space_idx`, `spacestack` |
| `Kd` | the host's `wind_ctx` with its stack of waits, the line in both directions, and the kernel as the code expects it |
| `SeekUndo` | `io->undo`: the ring, its index and its counters |
| `SeekLog` | its abstract specification: an undo log of bounded length |
| `IoCache` | `io->cache` over one file, with `io->cached` and the `wc` commands |
| `SdbStoreProofs`, `FlagsProofs`, `KdProofs`, `SeekUndoProofs`, `IoCacheProofs` | their proofs |
| `MCSdb`, `MCFlags`, `MCKd`, `MCSeek`, `MCIo` | their small instances |

In `BpItems` the byte of the program at address `a` is `a` itself and every opcode byte
is `Trap`, so a byte that is restored to the wrong place, or a trap that is saved as
program, is visible. A list of `RBreakpointItem` is a sequence; a lookup returns a
position, 0 for `NULL`.

In `Breakpoints` an item lives at a heap address, because `bps_idx` keeps addresses of
items that the list has freed. A write through such a slot to memory that nobody owns
has no visible effect in the model; to memory that was handed out again it changes the
other item. `MayChange` is the callers' convention: the debugger lets the user change
the list at the prompt only, where the traps are out. bp.c does not check it, and after a
stop by a signal or a fork it does not hold (debug.c:605). `DirtyOps = TRUE` drops it.

In `Debug` a frame is the place where a function goes on: `hard_wait` is
`r_debug_step_hard` inside `r_debug_wait`, `cont` the label `repeat` of
`r_debug_continue_kill`, and so on. `r_debug_wait` with `r_debug_bp_hit` is one step,
because the debuggee is stopped during it. Variables `trapped`, `moved` and `owed` are
history, read by the properties only; so is `mine`, the breakpoints the user has set. `Exec`, `ExecTrap`, `Interrupt` and `Die` are the
debuggee and the kernel. A trap executed and not yet wound back (`trapped`) does not
count as a move of the program: that is the refinement mapping of `Session`.

In `SdbStore` a value is opaque; `FirstLine` is what is left of it when the journal is
read back up to a newline. Of time only the order matters: a key has no expiry, one
that lies ahead or one that has passed. In `Flags` a name is opaque and `Filter` is what
`r_name_filter` makes of it; offsets are taken modulo `Size`. Removing a flag frees its
cell, which the next new flag may get together with every entry that was left behind in
an index; a step that would use an entry of a cell that is still free (undefined in C) is
where the model ends. A string on the stack of spaces that was freed reads as any name.
`spoilt` and `behind` are history: the names and offsets whose entries the code is known to
leave wrong. They do not restrict any action; the properties say that nothing else is
wrong, whatever follows. `replayed` in `SdbStore` is history as well: the keys whose value
comes from a replayed journal. Every function of flag.c that calls `r_flag_unset` frees the
item after it; cbin.c:1525 does not, which leaks a cell and changes nothing here. Loops of the code are
recursive functions (`Loaded`, `Unindexed`, the layers of `r_io_cache_read`), so that
there can be proofs about them. In `Kd` a wait is a frame
with the type it waits for and its retries; a file request that is read inside a wait
pushes another one (`do_io_reply`). In `IoCache` commit and invalidate pass the mode 2,
as the code does by setting `io->cached`.

**Borders.** `SdbStore`, `Kd`, `SeekUndo` and `IoCache` have a constant
`Borders`: situations in which the code is known to break one of the properties. The
actions do what the code does in all of them; without a border its situation does not
arise (`Within`). The passing runs have no borders, so they say: outside these
situations, and however long the history, the properties hold. In each module adding a
border to the cfg shows what it does.

| module | border | what then happens |
|---|---|---|
| `SdbStore` | `reset` | a second set of a key that is not on disk removes it (sdb.c:470) |
| | `stale_cas` | a refused change is in the journal (sdb.c:437 before 449) |
| | `unexpire` | a removed expiry brings a value back that the journal does not have |
| | `unlogged` | changes of a journal that is not loaded are ignored |
| | `short_write` | the run `sdb_full` |
| | `no_rename` | the new file does not replace the old one, and the journal is cleared all the same |
| | `FirstLine` not the identity | a value with a newline comes back cut after a crash, so `JournalExact` fails; the runs have values of one line |
| `Kd` | `loss` | what the host sends is never repeated: the call waits for ever |
| | `duplicate` | a packet is handled twice: the host never looks at its number (kd.c:78) |
| | `reattach` | the new host reads what was meant for the old one |
| | `attach_io` | `wind_sync` resets the sequence under an answer to a file request |
| | `MaxNoise > Retries` | `r_debug_wind_wait` gives up, takes a print for a stop (wind.c:266) and sends a continue to a running kernel: `InStep` fails |
| `SeekUndo` | `stale_equal` | a push is dropped because it equals an entry that is no undo (undo.c:73) |
| `IoCache` | `top` | the end of a change at the last address wraps to 0, and no read sees it (cache.c:144) |
| | `beneath` | older changes show again over newer bytes of the file |

## Runs

All passing runs are exhaustive over their instance; that of `flags` is cut by the state
constraint `Bounded` (see Bounds).

| run | shows |
|---|---|
| `bp` | six invariants of `Breakpoints`: three heap cells, four addresses, breakpoints of one to three bytes (three has no opcode, 0 is corrected or refused), software and hardware, overlapping in every way, an index table that has to grow once |
| `debug` | three uses of the debugger. `Hard`: two breakpoints of any kind, steps, continuations, continue until, `dcu`, a changed program counter, breakpoints disabled and deleted between commands, death at any moment. `Signal`: continuations with a signal that is passed on at any moment. `Soft`: software stepping. In all of them the session refines `DebugSession`, the prompt shows clean code and the user's own breakpoints, and commands return |
| `debug_storm` | `Storm`: three signals, also inside a recoil, that are passed on, stop or are skipped, and a signal sent by the user. `Stopped`: a signal, a fork or death stops any command. Every signal is delivered at most once, no breakpoint is missed, commands return |
| `sdb` | the store refines `KvStore`, the journal replays to what is in memory, and a sync replaces the file by one that holds every change, with crashes between any two steps, also inside and after a replay. `KvStore` admits one loss, which is in the code: keys that a process has recovered from a journal, and neither changed nor synced, fall back to their saved value when it crashes too (sdb.c:868) |
| `flags` | names and offsets lead to the right flags, and to no freed one, except those that a rename, an escaped name or a changed offset has spoilt before; the spaces of flags exist; nested pops select what was selected at their push |
| `kd` | answers belong to their requests, sequence bits stay in step, every call returns, every stop is reported, every file request is answered |
| `seek` | the ring refines `SeekLog` |
| `io` | a read of any range through the cache returns what was written last |

Four runs are expected to fail; each shows a disagreement between the code and its own
comments, help or documentation, listed under "findings": `debug_two_signals`,
`sdb_full`, `flags_rename`, `io_commit`.

More disagreements have no run of their own. They can be seen by changing a constant, or
the use of a session in `MCDebug`:

- `bp` with the invariant `SlotsLive`: the index table keeps pointers to items that
  `r_bp_del`, `r_bp_del_all` and a failed `r_bp_add` have freed (bp.c:220);
- `bp` with `DirtyOps = TRUE`: `ObytesExact` fails, because `r_bp_add` saves the traps of
  other breakpoints as program;
- `bp` with `Deltas = {0, 1}`: `ObytesExact` fails, because `r_bp_add` changes the address
  after `r_bp_add_sw` has read the bytes (bp.c:153, 197);
- `debug` with the invariant `DisabledNeverHit`: a disabled breakpoint stops the debuggee
  (libr/bp/io.c:41 writes every item);
- `debug` with `dcus |-> {1}`: `OnlyMine` fails, because `dcu` deletes the user's breakpoint
  at its target (cmd_debug.c:2754);
- `Stopped` with `CleanWhenStopped`: after a stop by a signal the traps stay in
  (debug.c:605), against the comment at debug.c:57;
- the event `ERROR` in any use: `NoMissedBreakpoint` fails, because a failed step leaves
  `recoil_mode` set (debug.c:175);
- `Storm` with `kinds |-> {"trace"}`: `SignalOnce` fails, because the `goto repeat` of a
  tracepoint (debug.c:964) comes before the signal is cleared (debug.c:970);
- `Storm` with the event `NEW_PID`: `SignalOnce` fails, because a fork leaves
  `reason.signum` as it was (debug.c:974);
- `Hard` with a jump from 1 to 5 in `Succ` and `BpAddrs = {4}`: the refinement fails,
  because a step that lands one byte after a breakpoint is taken for a hit (debug.c:80);
- `Soft` with all addresses in `steps`, or with tracepoints: the refinement fails, because
  the step deletes the user's breakpoint (debug.c:754), or goes on as a continuation
  (debug.c:963).

**Bounds.** Two breakpoints suffice for one to be under the program counter and another
to be missed; the loop lets a breakpoint be met again, its branch gives a software step
two successors, its exit lets the program end. Three signals are enough for one in
front of, one inside and one after a recoil. Four addresses and three items allow an
item inside, over the start, over the end and equal to another. `MaxIdx` is two growths
of the table. The opcodes are those of x86, one and two bytes.
Two keys let one be synced while the other changes; `MaxJournal` bounds the changes
between two syncs. Two cells allow one offset with two flags, an entry of a freed
cell that another flag gets, and a name that is given away again; two slots and three
names of spaces a slot that is used again, `MaxStack = 2` nested pushes. `Bounded` limits
what there is at once to `MaxWork = 3` of cells in use or still pointed to, spaces, pushed
spaces, aliases and a base; without cells there is no limit, so all states of the spaces
and their stack alone are visited. As many packets of
noise as a wait has retries is the most it has to survive. The ring of seeks has four
entries and is wrapped in every way. Three changes of up to two bytes over four
addresses overlap in every way, and one may lie between the other two.

**Fairness.** `FairSpec` assumes weak fairness of the debugger (a running thread that
waits for nobody else) and of a resumed debuggee (the kernel runs it). The user is not
fair. In `Kd` the host reads what has arrived, and the kernel reads, repeats what is not
acknowledged and honours a break-in, which is what the protocol asks of it; nobody has to
issue a command, and the line may lose at most `MaxLoss` packets. Conditions may refuse to stop for ever, so `Returns` asks for breakpoints without
one; its instance has no way around them.

## Proofs

Every safety invariant and action property of the passing runs has a theorem for all
values of the constants, the refinements included.
Where a run needs a restriction (no borders, a use of the debugger), so does the theorem
(those of `Flags` need none, not even `Bounded`),
as a hypothesis on the constants that names only the borders it depends on; the section
Runs and the table of borders say what happens without it.

| module | theorems | hypotheses | inductive invariant |
|---|---|---|---|
| `BreakpointsProofs` | `TypeCorrect`, `ListSoundness` | none | `TypeAndList`: both, and that a software item has saved as many bytes as it covers. A field is set through the list, so the list must not lead to freed cells |
| | `IndexCompleteness` | none | itself, from `TypeAndList` and what `r_bp_item_new` does to the slots |
| | `CodeSafety`, `ObytesSafety`, `TrapOwnership` | `~DirtyOps`, `Deltas = {0}` | the three together: to give the program back the saved bytes must be the program's and every trap must have an owner |
| `DebugProofs` | `TypeCorrect` | none | `TypeInv`: the fields of frames as well |
| | `BreakpointsArmed` | `HardwareUses` | `RunInv`: which frames can be on the stack above one another, and what `recoil_mode`, `bp_addr` and the traps are in each. A recoil that was interrupted lies below the frames that interrupt it |
| | `PromptShowsProgram` | `HardwareUses`, `TrapUses` | `CleanInv`: saved bytes are the program's, and traps are in only below a frame that will take them out |
| | `ListIsUsers` | `HardwareUses`, `DcuApart` | `MineInv`: the list is the user's and one temporary breakpoint for each frame that deletes it |
| | `SignalsDeliveredOnce` | `HardwareUses`, `BreakUses` | `SigInv`: the signals in `signum`, in a frame and in the debuggee add up to what was raised |
| | `DebugImplementsSession` | `HardwareUses`, `QuietUses`, `DcuApart`, `NoJumpBehind` | `SessionInv` on top of `RunInv`, `CleanInv` and `MineInv`: where the traps are in each kind of step (`Bytes`), that the step of a recoil clears `bp_addr`, so that no second recoil follows (`Hits`), that an executed trap is an item's (`Trapping`), and that an instruction executed before the traps are in is the first of the command or stands at no breakpoint that stops it (`Goes`). Every step of the debugger then maps to a stutter or to the end of the command, every instruction of the debuggee to `Exec` |
| `SdbStoreProofs` | `TypeCorrect` | none | itself |
| | `JournalHoldsChanges`, `SyncIsAtomic`, `StoreImplementsMap` | `Promised`: no borders, values of one line | `StoreInv`: for each key, what memory, file, new file and journal say of it in each phase of a sync and, between a replay and the clearing of the journal, that each of its lines is there twice (`LoadedKey`, `Doubled`): a crash there replays a journal twice as long. A replay gives the value of the last line of a key (`ReplayForm`), or, for a key that is not in the file, depends on whether the number of its lines is odd (`Toggles`) |
| `FlagsProofs` | `TypeCorrect`, `SpacesExist`, `PopSelectsPushed` | none | `BasicInv`: types; the selected space and those of flags exist; a string on the stack that was not freed is the name of the slot it was taken from (`StackInv`) |
| | `TypeCorrect` (cells that are not listed are blank), `NamesFindFlags`, `OffsetsFindFlags` | none | `IndexInv`: `NameIndex`, and that the list of an offset outside `behind` holds only flags that are there, once each, and every flag that did not drift is in its list; `remove_offsetmap` removes one entry, so being in the list is not enough to be gone from it afterwards |
| `KdProofs` | `TypeCorrect` | none | `TypeInv`: the packets of the line and the frames of waits as well |
| | `AnswersArePaired`, `HostInStep` | `Orderly`: no borders, at least one retry, no more noise than retries | `KdInv`: what is on the line in both directions is one of a few patterns, one for each phase of an exchange, with both sequence bits and the room that the retries left leave for noise. Without the last part a host could give up on an acknowledge that is still under way |
| `SeekUndoProofs` | `TypeCorrect` | none | itself |
| | `RingImplementsLog` | no `stale_equal` | `TypeOK`; the log is read off the ring modulo its size |
| `IoCacheProofs` | `TypeCorrect` | none | itself |
| | `ReadsReturnLastWrite` | `Borders = {}` | `ShownInv`: the ghost of the last bytes written is the file with the changes laid over it, and no change reaches the last address. `CacheReadIs` shows that `r_io_cache_read`, whose copying depends on how a change overlaps the range, does lay them over it |

The hypotheses of `DebugProofs`: `HardwareUses`, steps are the processor's and no step
fails (the event `ERROR`); `TrapUses`, no fork, and signals are passed on and do not meet
the command step; `DcuApart`, the targets of `dcu` are not addresses of breakpoints;
`BreakUses`, neither forks, tracepoints nor conditional breakpoints; `QuietUses`, no event
but the death of the debuggee; `NoJumpBehind`, the program does not jump to the byte after
a breakpoint. Each of them except `QuietUses` excludes a disagreement listed under Runs;
`QuietUses` keeps the argument to one event at a time, and the refinement with signals that
are passed on stays with TLC. The uses `Hard` and `Signal` satisfy the hypotheses of
the three theorems about traps and lists, `Hard` also those of `DebugImplementsSession`,
`Storm` those of `SignalsDeliveredOnce`;
`Stopped` satisfies `HardwareUses` only, TLC checks it with one signal or fork in a behaviour.

Facts about loops and recursive functions are proved by taking the least number of rounds
at which they fail: `LeastNatural`, from the well-foundedness of the naturals, is the only
induction principle used. `BpItemsProofs` holds the facts about lookups, removal from a
list and what restoring does to one byte that both machines need. The assumptions are the
named ASSUMEs of the modules, which TLC evaluates in the runs.

Only model-checked: the refinement of `DebugSession` in the use `Signal`, everything about
software stepping (`Soft`) but type correctness, and liveness (`Returns`, `CallsReturn`, `StopReported`, `FileServed`),
which is out of the prover's reach.

## Not modelled

In `libr/bp`: `r_bp_del_index` (it frees the item twice; nothing calls it), the
`breakpoint` callback of remote targets, plugins, output. In `libr/debug`:
`r_debug_execute`, step over and the optype and syscall continuations (loops over the
modelled calls), `dcu` with a range, selection of processes and threads, tracing, a failing `ptrace`
continue, the mips variant of `r_debug_bp_hit`, and commands attached to breakpoints.
Numbers of steps above one are repeated steps.

In `shlr/sdb`: the lock file, namespaces, arrays, JSON and queries, two handles on one
database (SIGHUP in main.c:132), colliding hashes, the cdb format. In `libr/flag`: zones,
sorting, colors, `fs-.` (which reads a name it has freed). In `shlr/wind`: what requests
carry, garbled packets (their trailer stays in the stream), the uninitialized packet that
`wind_sync` reads when its second wait fails (the model lets the attach fail), and two waits
that the code cannot end: ^C at the moment of a stop (the stop is dropped,
debug_wind.c:80) and the wait after `r_debug_wind_step`, which steps nothing. In `libr/io`:
maps, sections and the buffer in front of the file, the history of writes, which nothing
enables. The other components of the inventory are not modelled yet, or not suited: parsers, assemblers and analysis are sequential
conversions of large data.

## Plan

1. Done: `BpItems`, `Breakpoints`, `Debug`, `DebugSession` and the first theorems.
2. Done: `Flags`, `Kd`, `SdbStore` with `KvStore`, `IoCache`, `SeekUndo` with `SeekLog`,
   and `dcu`.
3. Done: theorems for `SeekUndo`, `Debug` with hardware steps, `SdbStore`, `IoCache` and
   `Flags`, with the refinements of `SeekLog` and `KvStore`.
4. Done: theorems for `Kd`, and that `Debug` implements `DebugSession`. Open: the latter
   with signals.
5. `Debug` with the heap of `Breakpoints` (commands that delete the breakpoint being
   handled), step over and `r_debug_execute`; maps in front of `IoCache`; the gdb
   protocol.
